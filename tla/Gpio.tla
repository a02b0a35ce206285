-------------------------------- MODULE Gpio --------------------------------
(***************************************************************************)
(* The pins of the board (349libk/src/gpio.c), as the drivers share them.   *)
(* A function select register holds ten 3-bit fields, one per pin, and      *)
(* gpio_config rewrites a whole register to change one of them.             *)
(***************************************************************************)
EXTENDS Integers

INPUT  == 0
OUTPUT == 1
ALT5   == 2
ALT0   == 4

VARIABLE gpfsel    \* GPFSEL0 and 1, which hold all pins of the drivers

\* At power-on every pin is an input.
PowerOn == [reg \in 0 .. 1 |-> [field \in 0 .. 9 |-> INPUT]]

\* Mutant: the mask that clears the old function is one bit too wide, and takes
\* the lowest bit of the next pin's field.
gpio_config_wide(pin, fun, old) ==
  IF pin > 53 \/ fun > 7 THEN old
  ELSE [old EXCEPT ![pin \div 10] =
          [field \in 0 .. 9 |->
             IF field = pin % 10 THEN fun
             ELSE IF field = (pin % 10) + 1 THEN 2 * (@[field] \div 2)
             ELSE @[field]]]

\* The registers after gpio_config; a bad pin or function is ignored.
gpio_config(pin, fun, old) ==
  IF pin > 53 \/ fun > 7 THEN old
  ELSE [old EXCEPT ![pin \div 10][pin % 10] = fun]

\* What a pin is.
Function(pin) == gpfsel[pin \div 10][pin % 10]

=============================================================================
