------------------------------- MODULE Printk -------------------------------
(***************************************************************************)
(* Numbers as the kernel prints them: the "%d" of printk and the loop of    *)
(* printnumk (kernel/src/printk.c), as operators on words.                  *)
(*                                                                          *)
(* printnumk fills an 8-byte array from its last byte down, without a       *)
(* bound.  Eight hexadecimal digits are a whole word, but a decimal number  *)
(* takes up to ten and an octal one eleven: the first digits then land      *)
(* below the array, in whatever the build keeps there, and are read back    *)
(* after calls of uart_put_byte that use the stack.                         *)
(***************************************************************************)
EXTENDS Integers, SequencesExt

CONSTANTS
  WordSize,  \* number of values of an int: 2^32
  MaxBuf     \* MAXBUF: 8

ASSUME PrintkAssumption ==
  WordSize \in Nat \ {0, 1} /\ WordSize % 2 = 0 /\ MaxBuf \in Nat \ {0}

digits == <<"0", "1", "2", "3", "4", "5", "6", "7", "8", "9", "a", "b", "c", "d", "e", "f">>

\* A byte the loop did not put there.
Garbage == "?"

\* Mutant: the loop stops before the first digit.
DigitsShort(base, num) ==
  LET Conv[n \in Nat] == IF n < base THEN <<>>
                         ELSE Append(Conv[n \div base], digits[(n % base) + 1])
  IN  Conv[num]

\* The digits the do-while loop stores, first digit first.
Digits(base, num) ==
  LET Conv[n \in Nat] == IF n < base THEN <<digits[n + 1]>>
                         ELSE Append(Conv[n \div base], digits[(n % base) + 1])
  IN  Conv[num]

Prefix(base) == CASE base = 8 -> <<"0">> [] base = 16 -> <<"0", "x">> [] OTHER -> <<>>

\* The texts a build may print for num: all digits, or garbage for those that
\* were stored below the array.
printnumk(base, num) ==
  LET d    == Digits(base, num)
      over == Len(d) - MaxBuf
  IN  {Prefix(base) \o d,
       Prefix(base) \o [i \in 1 .. Len(d) |-> IF i <= over THEN Garbage ELSE d[i]]}

\* The int a word stands for.
Signed(w) == IF 2 * w < WordSize THEN w ELSE w - WordSize

\* -num as the uint64_t that printnumk takes.  The least int has no opposite: the
\* build may get it right, or leave it as it is and extend its sign.
Negated(num) ==
  IF num = -(WordSize \div 2) THEN {-num, WordSize * WordSize + num} ELSE {-num}

\* The texts "%d" prints for a word; "%u", "%o" and "%x" are printnumk itself.
SignedText(w) ==
  IF Signed(w) < 0
    THEN {<<"-">> \o t : t \in UNION {printnumk(10, n) : n \in Negated(Signed(w))}}
    ELSE printnumk(10, Signed(w))

----------------------------------------------------------------------------
(* Reference: the number a text denotes.                                    *)

\* The number of a text of decimal digits, perhaps with a sign.
Digit(c) == CHOOSE d \in 0 .. 9 : digits[d + 1] = c
Value(t) == FoldLeft(LAMBDA v, c : 10 * v + Digit(c), 0, t)
Denoted(text) == IF text[1] = "-" THEN -Value(Tail(text)) ELSE Value(text)

\* The least number of more than k digits.
TenTo(k) == Value(<<"1">> \o [i \in 1 .. k |-> "0"])

\* 2^31 has more than 8 digits: the least int does not fit the array.
ASSUME ArrayAssumption == TenTo(MaxBuf) <= WordSize \div 2
=============================================================================
