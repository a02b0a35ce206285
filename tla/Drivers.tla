------------------------------ MODULE Drivers ------------------------------
(***************************************************************************)
(* The drivers of the board together: UART, display and ADC, under one      *)
(* client that calls them one after the other in any order.  They meet in   *)
(* the function select registers of the pins.                               *)
(***************************************************************************)
EXTENDS Display, Adc

RX_PIN == 15
TX_PIN == 14

VARIABLES oledReady, adcReady   \* auxiliary: the drivers set up so far

allVars == <<gpfsel, displayVars, adcVars, oledReady, adcReady>>

\* kernel_main has called uart_init.
Init ==
  /\ gpfsel = gpio_config(TX_PIN, ALT5, gpio_config(RX_PIN, ALT5, PowerOn))
  /\ DisplayInit
  /\ AdcInit
  /\ oledReady = FALSE /\ adcReady = FALSE

\* The client is in no call.
Free == oledCall = "none" /\ step = "none" /\ ~panicked

CallDisplay ==
  /\ Free /\ DisplayCall
  /\ oledReady' = (oledReady \/ oledCall' = "init")
  /\ UNCHANGED <<adcVars, adcReady>>

CallAdc ==
  /\ Free
  /\ \/ adc_init /\ adcReady' = TRUE
     \/ adcReady /\ (\E c \in Channels : adc_read(c)) /\ UNCHANGED adcReady
  /\ UNCHANGED <<displayVars, oledReady>>

\* panic() never returns.
Hang == panicked /\ UNCHANGED allVars

Next ==
  \/ CallDisplay
  \/ CallAdc
  \/ OledStep /\ UNCHANGED <<adcVars, oledReady, adcReady>>
  \/ Hang
  \/ (AdcStep \/ AdcHardware) /\ UNCHANGED <<displayVars, oledReady, adcReady>>

Spec == Init /\ [][Next]_allVars

----------------------------------------------------------------------------
(* Properties.                                                              *)

\* The drivers keep their pins, in whatever order they are set up: rewriting a
\* register for one pin does not take the console, the panel or the ADC from
\* another driver that has pins in the same register.
PinsKept ==
  /\ \A pin \in {RX_PIN, TX_PIN} : Function(pin) = ALT5
  /\ oledReady => SpiWired /\ Function(CE1_N) = ALT0
  /\ adcReady => I2cWired

=============================================================================
