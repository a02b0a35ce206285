---------------------------- MODULE PrintkProofs ----------------------------
(***************************************************************************)
(* Proofs about the numbers of Printk, for every number: the loop of        *)
(* printnumk is well defined and stores digits only.                        *)
(*                                                                          *)
(* Digits is recursive, so each fact is an induction: among the numbers     *)
(* without it, would there be one, there is a least.                        *)
(***************************************************************************)
EXTENDS Printk, FoldProofs, TLAPS

\* The bases of "%o", "%d" and "%x".
Bases == {8, 10, 16}

\* A quotient is smaller, a remainder is a digit's value.
LEMMA QuotientSmaller ==
  ASSUME NEW base \in Bases, NEW n \in Nat
  PROVE  /\ n \div base \in Nat /\ n % base \in 0 .. base - 1
         /\ n = base * (n \div base) + (n % base)
         /\ n >= base => n \div base < n
<1>. DEFINE Divides(b) == /\ n \div b \in Nat /\ n % b \in 0 .. b - 1
                          /\ n = b * (n \div b) + (n % b)
            Smaller(b) == n >= b => n \div b < n
<1>1. Divides(8) /\ Divides(10) /\ Divides(16)
  OBVIOUS
<1>2. Smaller(8) /\ Smaller(10) /\ Smaller(16)
  BY <1>1
<1>. HIDE DEF Divides, Smaller
<1>3. Divides(base) /\ Smaller(base)
  BY <1>1, <1>2, Zenon DEF Bases
<1>. QED  BY <1>3 DEF Divides, Smaller

\* The array digits has a character for each value.
LEMMA DigitCharacters ==
  ASSUME NEW base \in Bases, NEW v \in 0 .. base - 1
  PROVE  digits[v + 1] \in Range(digits)
<1>1. v + 1 \in 1 .. 16
  BY DEF Bases
<1>2. DOMAIN digits = 1 .. 16
  BY DEF digits
<1>. QED  BY <1>1, <1>2 DEF Range

\* One unfolding of the loop, and its equation up to a number.
Unfold(base, f, n) == IF n < base THEN <<digits[n + 1]>>
                      ELSE Append(f[n \div base], digits[(n % base) + 1])
Solutions(base, m) ==
  {g \in [0 .. m -> Seq(Range(digits))] : \A n \in 0 .. m : g[n] = Unfold(base, g, n)}

LEMMA SolutionExists ==
  ASSUME NEW base \in Bases, NEW m \in Nat
  PROVE  \E g : g \in Solutions(base, m)
<1>. DEFINE bad == {k \in Nat : Solutions(base, k) = {}}
<1>. SUFFICES ASSUME bad # {} PROVE FALSE
  OBVIOUS
<1>1. PICK k \in bad : \A j \in bad : k <= j
  <2>. HIDE DEF bad
  <2>1. bad \in SUBSET Nat
    BY DEF bad
  <2>. QED  BY <2>1, LeastNumber
<1>2. CASE k = 0
  <2>. DEFINE g == [n \in 0 .. 0 |-> <<digits[1]>>]
  <2>1. digits[0 + 1] \in Range(digits)
    BY DigitCharacters DEF Bases
  <2>2. g \in [0 .. 0 -> Seq(Range(digits))]
    BY <2>1
  <2>3. \A n \in 0 .. 0 : g[n] = Unfold(base, g, n)
    BY DEF Unfold, Bases
  <2>4. g \in Solutions(base, 0)
    <3>. HIDE DEF g
    <3>. QED  BY <2>2, <2>3 DEF Solutions
  <2>. QED  BY <1>1, <1>2, <2>4
<1>3. CASE k # 0
  <2>1. k - 1 \in Nat /\ k \in Nat /\ k - 1 \notin bad
    BY <1>1, <1>3
  <2>2. PICK g : g \in Solutions(base, k - 1)
    BY <2>1
  <2>3. g \in [0 .. k - 1 -> Seq(Range(digits))] /\ \A n \in 0 .. k - 1 : g[n] = Unfold(base, g, n)
    BY <2>2 DEF Solutions
  <2>. DEFINE h == [n \in 0 .. k |-> IF n < k THEN g[n] ELSE Unfold(base, g, n)]
  <2>4. \A n \in 0 .. k - 1 : h[n] = g[n]
    BY <2>1
  <2>5. ASSUME NEW n \in 0 .. k
        PROVE  Unfold(base, g, n) \in Seq(Range(digits)) /\ Unfold(base, h, n) = Unfold(base, g, n)
    <3>1. n \in Nat /\ n \div base \in Nat /\ n % base \in 0 .. base - 1
      BY <2>1, QuotientSmaller
    <3>2. digits[(n % base) + 1] \in Range(digits)
      BY <3>1, DigitCharacters
    <3>3. CASE n < base
      <4>1. digits[n + 1] \in Range(digits)
        BY <3>1, <3>3, DigitCharacters DEF Bases
      <4>. QED  BY <3>3, <4>1 DEF Unfold
    <3>4. CASE ~(n < base)
      <4>1. n \div base \in 0 .. k - 1
        BY <2>1, <3>1, <3>4, QuotientSmaller DEF Bases
      <4>2. g[n \div base] \in Seq(Range(digits)) /\ h[n \div base] = g[n \div base]
        BY <2>3, <2>4, <4>1
      <4>. HIDE DEF h
      <4>. QED  BY <3>2, <3>4, <4>2 DEF Unfold
    <3>. QED  BY <3>3, <3>4
  <2>6. h \in [0 .. k -> Seq(Range(digits))]
    <3>1. ASSUME NEW n \in 0 .. k PROVE h[n] \in Seq(Range(digits))
      <4>1. CASE n < k
        BY <2>1, <2>3, <4>1
      <4>2. CASE ~(n < k)
        <5>1. h[n] = Unfold(base, g, n)
          BY <4>2
        <5>. QED  BY <2>5, <5>1
      <4>. QED  BY <4>1, <4>2
    <3>. QED  BY <3>1
  <2>7. ASSUME NEW n \in 0 .. k PROVE h[n] = Unfold(base, h, n)
    <3>1. h[n] = Unfold(base, g, n)
      BY <2>1, <2>3
    <3>. HIDE DEF h
    <3>. QED  BY <2>5, <3>1
  <2>8. h \in Solutions(base, k)
    <3>. HIDE DEF h
    <3>. QED  BY <2>6, <2>7 DEF Solutions
  <2>. QED  BY <1>1, <2>8
<1>. QED  BY <1>2, <1>3

\* Solutions agree where both are defined.
LEMMA SolutionsAgree ==
  ASSUME NEW base \in Bases, NEW l \in Nat, NEW m \in Nat,
         NEW g \in Solutions(base, l), NEW h \in Solutions(base, m),
         NEW n \in Nat, n <= l, n <= m
  PROVE  g[n] = h[n]
<1>. DEFINE bad == {k \in Nat : k <= l /\ k <= m /\ g[k] # h[k]}
<1>. SUFFICES ASSUME bad # {} PROVE FALSE
  OBVIOUS
<1>1. PICK k \in bad : \A j \in bad : k <= j
  <2>. HIDE DEF bad
  <2>1. bad \in SUBSET Nat
    BY DEF bad
  <2>. QED  BY <2>1, LeastNumber
<1>2. g[k] = Unfold(base, g, k) /\ h[k] = Unfold(base, h, k)
  BY <1>1 DEF Solutions
<1>3. CASE k < base
  BY <1>1, <1>2, <1>3 DEF Unfold
<1>4. CASE ~(k < base)
  <2>1. k \div base \in Nat /\ k \div base < k
    BY <1>1, <1>4, QuotientSmaller DEF Bases
  <2>2. g[k \div base] = h[k \div base]
    <3>. HIDE DEF bad
    <3>1. k \div base \notin bad
      BY <1>1, <2>1 DEF bad
    <3>2. k \div base <= l /\ k \div base <= m
      BY <1>1, <2>1 DEF bad
    <3>. QED  BY <2>1, <3>1, <3>2 DEF bad
  <2>. QED  BY <1>1, <1>2, <2>2, <1>4 DEF Unfold
<1>. QED  BY <1>3, <1>4

\* So the loop is a function on all numbers.
LEMMA LoopExists ==
  ASSUME NEW base \in Bases
  PROVE  \E f \in [Nat -> Seq(Range(digits))] : f = [n \in Nat |-> Unfold(base, f, n)]
<1>. DEFINE G(n) == CHOOSE g : g \in Solutions(base, n)
            f == [n \in Nat |-> G(n)[n]]
<1>1. ASSUME NEW n \in Nat PROVE G(n) \in Solutions(base, n)
  BY SolutionExists
<1>2. ASSUME NEW n \in Nat PROVE f[n] \in Seq(Range(digits)) /\ f[n] = Unfold(base, G(n), n)
  <2>1. f[n] = G(n)[n]
    OBVIOUS
  <2>2. G(n) \in Solutions(base, n)
    BY <1>1
  <2>. HIDE DEF f, G
  <2>3. n \in 0 .. n
    OBVIOUS
  <2>. QED  BY <2>1, <2>2, <2>3 DEF Solutions
<1>3. ASSUME NEW n \in Nat PROVE Unfold(base, G(n), n) = Unfold(base, f, n)
  <2>1. CASE n < base
    BY <2>1 DEF Unfold
  <2>2. CASE ~(n < base)
    <3>1. n \div base \in Nat /\ n \div base < n
      BY <2>2, QuotientSmaller DEF Bases
    <3>2. f[n \div base] = G(n \div base)[n \div base]
      BY <3>1
    <3>. HIDE DEF f, G
    <3>3. G(n \div base)[n \div base] = G(n)[n \div base]
      BY <1>1, <3>1, SolutionsAgree
    <3>. QED  BY <2>2, <3>2, <3>3 DEF Unfold
  <2>. QED  BY <2>1, <2>2
<1>4. f \in [Nat -> Seq(Range(digits))]
  BY <1>2
<1>5. \A n \in Nat : f[n] = Unfold(base, f, n)
  <2>. HIDE DEF f, G
  <2>. QED  BY <1>2, <1>3
<1>6. f = [n \in Nat |-> Unfold(base, f, n)]
  <2>. HIDE DEF f
  <2>. QED  BY <1>4, <1>5
<1>. HIDE DEF f
<1>. QED  BY <1>4, <1>6

\* The digits of a number below the base are its own, those of any other are
\* those of its quotient and one more.
LEMMA DigitsUnfold ==
  ASSUME NEW base \in Bases, NEW n \in Nat
  PROVE  Digits(base, n) = IF n < base THEN <<digits[n + 1]>>
                           ELSE Append(Digits(base, n \div base), digits[(n % base) + 1])
<1>. DEFINE Step(f) == [k \in Nat |-> IF k < base THEN <<digits[k + 1]>>
                                      ELSE Append(f[k \div base], digits[(k % base) + 1])]
            conv == CHOOSE f : f = Step(f)
<1>1. \A k : Digits(base, k) = conv[k]
  BY DEF Digits
<1>2. \E f : f = Step(f)
  BY LoopExists DEF Unfold
<1>3. conv = Step(conv)
  <2>. HIDE DEF Step
  <2>. QED  BY <1>2
<1>. HIDE DEF conv
<1>4. conv[n] = IF n < base THEN <<digits[n + 1]>>
                ELSE Append(conv[n \div base], digits[(n % base) + 1])
  BY <1>3
<1>. QED  BY <1>1, <1>4

\* The digits of a base.
DigitsOf(base) == {digits[v + 1] : v \in 0 .. base - 1}

\* The loop stores at least one character, and nothing but digits of its base.
THEOREM DigitsAreDigits ==
  ASSUME NEW base \in Bases, NEW n \in Nat
  PROVE  Digits(base, n) \in Seq(DigitsOf(base)) /\ Digits(base, n) # <<>>
<1>. DEFINE Good(k) == Digits(base, k) \in Seq(DigitsOf(base)) /\ Digits(base, k) # <<>>
            bad == {k \in Nat : ~Good(k)}
<1>. SUFFICES ASSUME bad # {} PROVE FALSE
  OBVIOUS
<1>1. PICK k \in bad : \A j \in bad : k <= j
  <2>. HIDE DEF bad
  <2>1. bad \in SUBSET Nat
    BY DEF bad
  <2>. QED  BY <2>1, LeastNumber
<1>2. k \in Nat /\ k % base \in 0 .. base - 1 /\ k \div base \in Nat
  BY <1>1, QuotientSmaller
<1>3. CASE k < base
  <2>1. Digits(base, k) = <<digits[k + 1]>>
    BY <1>2, <1>3, DigitsUnfold
  <2>2. digits[k + 1] \in DigitsOf(base)
    <3>1. k \in 0 .. base - 1
      BY <1>2, <1>3 DEF Bases
    <3>. QED  BY <3>1 DEF DigitsOf
  <2>3. Good(k)
    BY <2>1, <2>2
  <2>. QED  BY <1>1, <2>3
<1>4. CASE ~(k < base)
  <2>1. Digits(base, k) = Append(Digits(base, k \div base), digits[(k % base) + 1])
    BY <1>2, <1>4, DigitsUnfold
  <2>2. k \div base < k
    BY <1>2, <1>4, QuotientSmaller DEF Bases
  <2>3. Good(k \div base)
    <3>1. k \div base \notin bad
      <4>. HIDE DEF bad
      <4>. QED  BY <1>1, <1>2, <2>2
    <3>. QED  BY <1>2, <3>1
  <2>4. digits[(k % base) + 1] \in DigitsOf(base)
    BY <1>2 DEF DigitsOf
  <2>. QED  BY <1>1, <2>1, <2>3, <2>4
<1>. QED  BY <1>3, <1>4

\* With the damage of a number too long for its array, a decimal number is
\* still digits and bytes nobody knows.
LEMMA DecimalText ==
  ASSUME NEW n \in Nat, NEW t \in printnumk(10, n)
  PROVE  t \in Seq(Range(digits) \cup {Garbage})
<1>. DEFINE bytes == Range(digits) \cup {Garbage}
            d == Digits(10, n)
            over == Len(d) - MaxBuf
            damaged == [i \in 1 .. Len(d) |-> IF i <= over THEN Garbage ELSE d[i]]
<1>1. d \in Seq(bytes)
  <2>1. d \in Seq(DigitsOf(10))
    BY DigitsAreDigits DEF Bases
  <2>2. DigitsOf(10) \subseteq bytes
    BY DigitCharacters DEF DigitsOf, Bases
  <2>. HIDE DEF d, bytes
  <2>. QED  BY <2>1, <2>2
<1>2. damaged \in Seq(bytes)
  <2>. HIDE DEF d, over
  <2>1. Len(d) \in Nat /\ \A i \in 1 .. Len(d) : d[i] \in bytes
    BY <1>1
  <2>. HIDE DEF bytes
  <2>2. \A i \in 1 .. Len(d) : (IF i <= over THEN Garbage ELSE d[i]) \in bytes
    BY <2>1 DEF bytes
  <2>. QED  BY <2>1, <2>2, IsASeq
<1>3. t = Prefix(10) \o d \/ t = Prefix(10) \o damaged
  BY DEF printnumk
<1>4. Prefix(10) = <<>>
  BY DEF Prefix
<1>. HIDE DEF d, damaged, bytes
<1>5. t = d \/ t = damaged
  BY <1>1, <1>2, <1>3, <1>4, ConcatEmptySeq
<1>. QED  BY <1>1, <1>2, <1>5 DEF bytes

\* The bytes of a signed number: the same, after a minus sign perhaps.
THEOREM SignedTextBytes ==
  ASSUME NEW w \in 0 .. WordSize - 1, NEW t \in SignedText(w)
  PROVE  t \in Seq(Range(digits) \cup {"-", Garbage})
<1>. USE PrintkAssumption
<1>1. Signed(w) \in Int /\ Signed(w) >= -WordSize
  BY DEF Signed
<1>2. CASE Signed(w) < 0
  <2>1. PICK n \in Negated(Signed(w)) : \E v \in printnumk(10, n) : t = <<"-">> \o v
    BY <1>2 DEF SignedText
  <2>2. n \in Nat
    <3>1. -Signed(w) \in Nat
      BY <1>1, <1>2
    <3>2. WordSize * WordSize >= WordSize /\ WordSize * WordSize \in Nat
      OBVIOUS
    <3>3. WordSize * WordSize + Signed(w) \in Nat
      BY <1>1, <3>2
    <3>. QED  BY <3>1, <3>3 DEF Negated
  <2>3. PICK u \in printnumk(10, n) : t = <<"-">> \o u
    BY <2>1
  <2>4. u \in Seq(Range(digits) \cup {Garbage})
    BY <2>2, DecimalText
  <2>. QED  BY <2>3, <2>4
<1>3. CASE ~(Signed(w) < 0)
  <2>1. Signed(w) \in Nat /\ t \in printnumk(10, Signed(w))
    BY <1>1, <1>3 DEF SignedText
  <2>2. t \in Seq(Range(digits) \cup {Garbage})
    BY <2>1, DecimalText
  <2>. QED  BY <2>2
<1>. QED  BY <1>2, <1>3

----------------------------------------------------------------------------
(* The number a text denotes.                                               *)

\* The ten digits differ, so each has its value.
LEMMA DigitValue ==
  ASSUME NEW v \in 0 .. 9
  PROVE  Digit(digits[v + 1]) = v
<1>1. \A d \in 0 .. 9 : digits[d + 1] = digits[v + 1] => d = v
  BY DEF digits
<1>. HIDE DEF digits
<1>. QED  BY <1>1 DEF Digit

LEMMA DigitType ==
  ASSUME NEW c \in DigitsOf(10)
  PROVE  Digit(c) \in 0 .. 9
<1>1. PICK v \in 0 .. 9 : c = digits[v + 1]
  BY DEF DigitsOf
<1>. QED  BY <1>1, DigitValue

\* Value is the loop of valuing.
valuing == [a \in Nat \X DigitsOf(10) |-> 10 * a[1] + Digit(a[2])]

LEMMA ValuingType ==
  /\ valuing \in [Nat \X DigitsOf(10) -> Nat]
  /\ \A v \in Nat, c \in DigitsOf(10) : valuing[<<v, c>>] = 10 * v + Digit(c)
<1>. HIDE DEF DigitsOf
<1>1. ASSUME NEW a \in Nat \X DigitsOf(10) PROVE 10 * a[1] + Digit(a[2]) \in Nat
  <2>1. a[1] \in Nat /\ Digit(a[2]) \in 0 .. 9
    BY DigitType
  <2>. QED  BY <2>1
<1>. HIDE DEF Digit
<1>. QED  BY <1>1 DEF valuing

LEMMA ValueFolds ==
  ASSUME NEW t \in Seq(DigitsOf(10))
  PROVE  FoldsTo(Nat, valuing, 0, t, Value(t))
<1>. HIDE DEF DigitsOf, Digit
<1>. DEFINE n == Len(t)
            Step(iter) == [u \in SUBSET DOMAIN t |->
              IF u = {} THEN 0 ELSE LET x == Max(u) IN 10 * iter[u \ {x}] + Digit(t[x])]
            chosen == CHOOSE iter : iter = Step(iter)
<1>1. n \in Nat /\ DOMAIN t = 1 .. n /\ \A k \in 1 .. n : t[k] \in DigitsOf(10)
  OBVIOUS
<1>2. ASSUME NEW u \in SUBSET (1 .. n), u # {}
      PROVE  t[Max(u)] \in DigitsOf(10) /\ u \ {Max(u)} \in SUBSET (1 .. n)
  <2>1. Max(u) \in u
    BY <1>1, <1>2, MaxIn
  <2>. QED  BY <1>1, <2>1
<1>3. PICK it \in [SUBSET (1 .. n) -> Nat] : Iterates(it, valuing, 0, t, SUBSET (1 .. n))
  <2>. HIDE DEF n
  <2>1. n <= Len(t)
    BY <1>1 DEF n
  <2>. QED  BY <1>1, <2>1, ValuingType, IterExists
<1>4. it = Step(it)
  <2>1. ASSUME NEW u \in SUBSET (1 .. n)
        PROVE  it[u] = IF u = {} THEN 0 ELSE 10 * it[u \ {Max(u)}] + Digit(t[Max(u)])
    <3>1. CASE u = {}
      BY <1>3, <3>1 DEF Iterates
    <3>2. CASE u # {}
      <4>1. it[u] = valuing[<<it[u \ {Max(u)}], t[Max(u)]>>]
        BY <1>3, <3>2 DEF Iterates
      <4>2. it[u \ {Max(u)}] \in Nat /\ t[Max(u)] \in DigitsOf(10)
        BY <1>2, <1>3, <3>2
      <4>. QED  BY <3>2, <4>1, <4>2, ValuingType
    <3>. QED  BY <3>1, <3>2
  <2>. HIDE DEF n
  <2>. QED  BY <1>1, <1>3, <2>1
<1>5. chosen = Step(chosen)
  <2>. HIDE DEF Step
  <2>. QED  BY <1>4
<1>6. Value(t) = chosen[1 .. n]
  <2>1. Value(t) = chosen[DOMAIN t]
    BY DEF Value, FoldLeft, MapThenFoldSet
  <2>. HIDE DEF n, chosen
  <2>. QED  BY <1>1, <2>1
<1>. HIDE DEF chosen
<1>7. ASSUME NEW u \in SUBSET (1 .. n)
      PROVE  /\ u = {} => chosen[u] = 0
             /\ u # {} /\ chosen[u \ {Max(u)}] \in Nat
                  => chosen[u] = valuing[<<chosen[u \ {Max(u)}], t[Max(u)]>>]
  <2>1. chosen[u] = IF u = {} THEN 0 ELSE 10 * chosen[u \ {Max(u)}] + Digit(t[Max(u)])
    BY <1>1, <1>5
  <2>. QED  BY <1>2, <2>1, ValuingType
<1>8. FoldsTo(Nat, valuing, 0, t, chosen[1 .. n])
  BY <1>7, ValuingType, IterFolds
<1>. QED  BY <1>6, <1>8

\* A digit more multiplies by ten and adds its own value.
LEMMA ValueLoop ==
  ASSUME NEW t \in Seq(DigitsOf(10))
  PROVE  /\ Value(t) \in Nat /\ Value(<<>>) = 0
         /\ \A c \in DigitsOf(10) : Value(Append(t, c)) = 10 * Value(t) + Digit(c)
<1>. HIDE DEF DigitsOf, Digit
<1>. DEFINE none == 0
            numbers == Nat
            bytes == DigitsOf(10)
            texts == Seq(bytes)
<1>0. /\ none \in numbers /\ <<>> \in texts /\ numbers = Nat
      /\ valuing \in [numbers \X bytes -> numbers]
  BY ValuingType
<1>1. ASSUME NEW u \in texts PROVE FoldsTo(numbers, valuing, none, u, Value(u))
  BY ValueFolds
<1>2. ASSUME NEW u \in texts PROVE Value(u) \in numbers
  <2>1. FoldsTo(numbers, valuing, none, u, Value(u))
    BY <1>1
  <2>2. u \in Seq(bytes)
    OBVIOUS
  <2>. HIDE DEF none, numbers, bytes
  <2>3. \A x : FoldsTo(numbers, valuing, none, u, x) => x \in numbers
    BY <1>0, <2>2, LoopEnds, Zenon
  <2>. QED  BY <2>1, <2>3
<1>. HIDE DEF none, numbers
<1>3. Value(<<>>) = 0
  <2>1. FoldsTo(numbers, valuing, none, <<>>, Value(<<>>))
    BY <1>0, <1>1
  <2>2. \A x : FoldsTo(numbers, valuing, none, <<>>, x) => x = none
    <3>1. <<>> \in Seq(bytes)
      BY <1>0
    <3>. HIDE DEF bytes, texts
    <3>. QED  BY <1>0, <3>1, LoopEnds, Zenon
  <2>. QED  BY <2>1, <2>2 DEF none
<1>4. ASSUME NEW c \in DigitsOf(10) PROVE Value(Append(t, c)) = 10 * Value(t) + Digit(c)
  <2>1. Append(t, c) \in Seq(DigitsOf(10))
    OBVIOUS
  <2>2. FoldsTo(numbers, valuing, none, Append(t, c), Value(Append(t, c)))
    BY <1>1, <2>1
  <2>3. OneMore(numbers, valuing, none, t, c)
    BY <1>0, LoopAppend
  <2>4. Value(Append(t, c)) = valuing[<<Value(t), c>>]
    BY <1>1, <2>2, <2>3 DEF OneMore
  <2>. QED  BY <1>0, <1>2, <2>4, ValuingType
<1>. QED  BY <1>0, <1>2, <1>3, <1>4

\* The loop of printnumk prints the number itself.
THEOREM DigitsDenote ==
  ASSUME NEW n \in Nat
  PROVE  Value(Digits(10, n)) = n
<1>. DEFINE bad == {k \in Nat : Value(Digits(10, k)) # k}
<1>. SUFFICES ASSUME bad # {} PROVE FALSE
  OBVIOUS
<1>1. PICK k \in bad : \A j \in bad : k <= j
  <2>. HIDE DEF bad
  <2>1. bad \in SUBSET Nat
    BY DEF bad
  <2>. QED  BY <2>1, LeastNumber
<1>2. k \in Nat /\ 10 \in Bases /\ Value(Digits(10, k)) # k
  BY <1>1 DEF Bases
<1>3. k % 10 \in 0 .. 9 /\ k \div 10 \in Nat /\ k = 10 * (k \div 10) + (k % 10)
  BY <1>2
<1>4. CASE k < 10
  <2>1. Digits(10, k) = <<digits[k + 1]>>
    BY <1>2, <1>4, DigitsUnfold
  <2>2. k \in 0 .. 9
    BY <1>2, <1>4
  <2>. DEFINE c == digits[k + 1]
  <2>3. c \in DigitsOf(10) /\ Digit(c) = k
    BY <2>2, DigitValue DEF DigitsOf
  <2>4. <<>> \in Seq(DigitsOf(10)) /\ <<c>> = Append(<<>>, c)
    OBVIOUS
  <2>. HIDE DEF c
  <2>5. Value(Append(<<>>, c)) = 10 * Value(<<>>) + Digit(c) /\ Value(<<>>) = 0
    BY <2>3, <2>4, ValueLoop
  <2>6. Value(Digits(10, k)) = k
    BY <1>2, <2>1, <2>3, <2>4, <2>5 DEF c
  <2>. QED  BY <1>2, <2>6
<1>5. CASE ~(k < 10)
  <2>. DEFINE q == k \div 10
              c == digits[(k % 10) + 1]
              t == Digits(10, q)
  <2>1. Digits(10, k) = Append(t, c)
    BY <1>2, <1>5, DigitsUnfold
  <2>2. q \in Nat /\ q < k
    BY <1>2, <1>3, <1>5, QuotientSmaller
  <2>3. c \in DigitsOf(10) /\ Digit(c) = k % 10
    BY <1>3, DigitValue DEF DigitsOf
  <2>. HIDE DEF q, c
  <2>4. Value(t) = q
    <3>1. q \notin bad
      <4>. HIDE DEF bad
      <4>. QED  BY <1>1, <1>2, <2>2
    <3>. QED  BY <2>2, <3>1
  <2>5. t \in Seq(DigitsOf(10))
    BY <1>2, <2>2, DigitsAreDigits
  <2>. HIDE DEF t
  <2>6. Value(Append(t, c)) = 10 * q + (k % 10)
    BY <2>3, <2>4, <2>5, ValueLoop
  <2>. QED  BY <1>2, <1>3, <2>1, <2>6 DEF q
<1>. QED  BY <1>4, <1>5

\* TenTo is a power of ten.
LEMMA TenToNext ==
  ASSUME NEW k \in Nat
  PROVE  TenTo(k) \in Nat /\ TenTo(0) = 1 /\ TenTo(k + 1) = 10 * TenTo(k)
<1>. DEFINE zeros(m) == [i \in 1 .. m |-> "0"]
            one(m) == <<"1">> \o zeros(m)
            bytes == DigitsOf(10)
<1>1. "0" \in bytes /\ Digit("0") = 0 /\ "1" \in bytes /\ Digit("1") = 1
  <2>1. digits[0 + 1] = "0" /\ digits[1 + 1] = "1"
    BY DEF digits
  <2>2. digits[0 + 1] \in bytes /\ digits[1 + 1] \in bytes
    BY DEF DigitsOf
  <2>3. Digit(digits[0 + 1]) = 0 /\ Digit(digits[1 + 1]) = 1
    BY DigitValue
  <2>. HIDE DEF bytes
  <2>. QED  BY <2>1, <2>2, <2>3
<1>. HIDE DEF bytes
<1>2. ASSUME NEW m \in Nat PROVE one(m) \in Seq(bytes) /\ one(m + 1) = Append(one(m), "0")
  <2>1. /\ zeros(m) \in Seq(bytes) /\ Len(zeros(m)) = m
        /\ zeros(m + 1) \in Seq(bytes) /\ Len(zeros(m + 1)) = m + 1
    BY <1>1
  <2>2. /\ \A i \in 1 .. m : zeros(m)[i] = "0"
        /\ \A i \in 1 .. m + 1 : zeros(m + 1)[i] = "0"
    OBVIOUS
  <2>. HIDE DEF zeros
  <2>3. zeros(m + 1) = Append(zeros(m), "0")
    BY <1>1, <2>1, <2>2
  <2>4. Follows(<<"1">>, zeros(m), "0")
    <3>. DEFINE z == zeros(m)
                first == <<"1">>
    <3>1. z \in Seq(bytes) /\ first \in Seq(bytes) /\ "0" \in bytes
      BY <1>1, <2>1
    <3>. HIDE DEF z, first
    <3>2. Follows(first, z, "0")
      BY <3>1, BaseAndBuffer
    <3>. QED  BY <3>2 DEF z, first
  <2>. QED  BY <1>1, <2>1, <2>3, <2>4 DEF Follows
<1>3. one(0) = Append(<<>>, "1")
  OBVIOUS
<1>4. \A m : TenTo(m) = Value(one(m))
  BY DEF TenTo
<1>. HIDE DEF one
<1>5. TenTo(0) = 1
  <2>1. <<>> \in Seq(bytes)
    OBVIOUS
  <2>2. Value(Append(<<>>, "1")) = 10 * Value(<<>>) + Digit("1") /\ Value(<<>>) = 0
    BY <1>1, <2>1, ValueLoop DEF bytes
  <2>. QED  BY <1>1, <1>3, <1>4, <2>2
<1>6. Value(Append(one(k), "0")) = 10 * Value(one(k)) + Digit("0") /\ Value(one(k)) \in Nat
  BY <1>1, <1>2, ValueLoop DEF bytes
<1>7. TenTo(k) = Value(one(k)) /\ TenTo(k + 1) = Value(Append(one(k), "0"))
  BY <1>2, <1>4
<1>. QED  BY <1>1, <1>5, <1>6, <1>7

\* A number below it has at most so many digits.
LEMMA DigitsFit ==
  ASSUME NEW k \in Nat \ {0}, NEW n \in Nat, n < TenTo(k)
  PROVE  Len(Digits(10, n)) <= k
<1>. DEFINE Long(m, i) == i < TenTo(m) /\ ~(Len(Digits(10, i)) <= m)
            bad == {m \in Nat \ {0} : \E i \in Nat : Long(m, i)}
<1>. SUFFICES ASSUME bad # {} PROVE FALSE
  OBVIOUS
<1>1. PICK m \in bad : \A j \in bad : m <= j
  <2>. HIDE DEF bad
  <2>1. bad \in SUBSET Nat
    BY DEF bad
  <2>. QED  BY <2>1, LeastNumber
<1>2. PICK i \in Nat : Long(m, i)
  BY <1>1
<1>. DEFINE l == m - 1
            q == i \div 10
<1>3. m \in Nat /\ m >= 1 /\ l \in Nat /\ m = l + 1
  BY <1>1
<1>4. q \in Nat /\ i % 10 \in 0 .. 9 /\ i = 10 * q + (i % 10)
  BY <1>2
<1>. DEFINE ten == 10
<1>5. ten \in Bases /\ ten = 10
  BY DEF Bases
<1>. HIDE DEF ten
<1>6. Digits(10, i) = IF i < 10 THEN <<digits[i + 1]>>
                      ELSE Append(Digits(10, q), digits[(i % 10) + 1])
  BY <1>5, DigitsUnfold
<1>7. Digits(10, q) \in Seq(DigitsOf(10))
  <2>. HIDE DEF q
  <2>. QED  BY <1>4, <1>5, DigitsAreDigits
<1>. DEFINE t == Digits(10, q)
<1>8. Len(t) \in Nat
  BY <1>7
<1>9. ~(i < 10)
  <2>. SUFFICES ASSUME i < 10 PROVE Len(Digits(10, i)) <= m
    BY <1>2
  <2>1. Digits(10, i) = <<digits[i + 1]>>
    BY <1>6
  <2>. DEFINE d == Digits(10, i)
  <2>2. Len(d) = 1
    BY <2>1
  <2>. HIDE DEF bad, d
  <2>3. Len(d) <= m
    BY <1>3, <2>2
  <2>. QED  BY <2>3 DEF d
<1>10. Len(Digits(10, i)) = Len(t) + 1
  <2>1. Digits(10, i) = Append(t, digits[(i % 10) + 1])
    BY <1>6, <1>9
  <2>. HIDE DEF t
  <2>2. Len(Append(t, digits[(i % 10) + 1])) = Len(t) + 1
    BY <1>7 DEF t
  <2>. QED  BY <2>1, <2>2
<1>. HIDE DEF t, q, l
<1>11. TenTo(m) = 10 * TenTo(l) /\ TenTo(l) \in Nat /\ TenTo(0) = 1
  BY <1>3, TenToNext
<1>12. q < TenTo(l)
  BY <1>2, <1>4, <1>11
<1>13. l # 0
  BY <1>2, <1>3, <1>9, <1>11
<1>14. ~(Len(t) <= l)
  BY <1>2, <1>3, <1>8, <1>10
<1>15. l \in bad
  BY <1>3, <1>4, <1>12, <1>13, <1>14 DEF t
<1>. HIDE DEF bad
<1>. QED  BY <1>1, <1>3, <1>15

\* Numbers of at most MaxBuf digits fit the array: nothing is damaged.
LEMMA DecimalFits ==
  ASSUME NEW n \in Nat, n < TenTo(MaxBuf), NEW t \in printnumk(10, n)
  PROVE  t = Digits(10, n)
<1>. DEFINE d == Digits(10, n)
            over == Len(d) - MaxBuf
            damaged == [i \in 1 .. Len(d) |-> IF i <= over THEN Garbage ELSE d[i]]
<1>1. d \in Seq(DigitsOf(10))
  BY DigitsAreDigits DEF Bases
<1>2. Len(d) <= MaxBuf /\ MaxBuf \in Nat
  BY DigitsFit, PrintkAssumption
<1>3. t = Prefix(10) \o d \/ t = Prefix(10) \o damaged
  BY DEF printnumk
<1>4. Prefix(10) = <<>>
  BY DEF Prefix
<1>. HIDE DEF d
<1>5. damaged = d
  BY <1>1, <1>2
<1>. HIDE DEF damaged
<1>. QED  BY <1>1, <1>3, <1>4, <1>5, ConcatEmptySeq DEF d

\* "%d" says what it is given, as long as the number has no more digits than
\* the array has bytes: for every word, whatever the build.
THEOREM SignedTextDenotes ==
  ASSUME NEW w \in 0 .. WordSize - 1, NEW t \in SignedText(w),
         Signed(w) < TenTo(MaxBuf), -Signed(w) < TenTo(MaxBuf)
  PROVE  t \in Seq(DigitsOf(10) \cup {"-"}) /\ t # <<>> /\ Denoted(t) = Signed(w)
<1>. USE PrintkAssumption
<1>1. Signed(w) \in Int
  BY DEF Signed
<1>2. ASSUME NEW n \in Nat, NEW u, u = Digits(10, n)
      PROVE  u \in Seq(DigitsOf(10)) /\ u # <<>> /\ u[1] # "-" /\ Value(u) = n
  <2>1. u \in Seq(DigitsOf(10)) /\ u # <<>>
    BY <1>2, DigitsAreDigits DEF Bases
  <2>2. "-" \notin DigitsOf(10)
    <3>1. \A v \in 0 .. 9 : digits[v + 1] # "-"
      BY DEF digits
    <3>. QED  BY <3>1 DEF DigitsOf
  <2>3. u[1] \in DigitsOf(10)
    <3>. HIDE DEF DigitsOf
    <3>. QED  BY <2>1
  <2>4. Value(u) = n
    BY <1>2, DigitsDenote
  <2>. QED  BY <2>1, <2>2, <2>3, <2>4
<1>3. CASE Signed(w) < 0
  <2>1. PICK n \in Negated(Signed(w)) : \E v \in printnumk(10, n) : t = <<"-">> \o v
    BY <1>3 DEF SignedText
  <2>2. n = -Signed(w) /\ n \in Nat
    <3>1. -Signed(w) < WordSize \div 2
      BY <1>1, ArrayAssumption, TenToNext
    <3>. QED  BY <1>1, <1>3, <2>1, <3>1 DEF Negated
  <2>3. PICK u \in printnumk(10, n) : t = <<"-">> \o u
    BY <2>1
  <2>4. u = Digits(10, n)
    BY <2>2, <2>3, DecimalFits
  <2>5. u \in Seq(DigitsOf(10)) /\ Value(u) = n
    BY <1>2, <2>2, <2>4
  <2>. HIDE DEF DigitsOf
  <2>6. t \in Seq(DigitsOf(10) \cup {"-"}) /\ t # <<>> /\ t[1] = "-" /\ Tail(t) = u
    BY <2>3, <2>5
  <2>7. Denoted(t) = -n
    BY <2>5, <2>6 DEF Denoted
  <2>8. -n = Signed(w)
    BY <1>1, <2>2
  <2>. QED  BY <2>6, <2>7, <2>8
<1>4. CASE ~(Signed(w) < 0)
  <2>1. Signed(w) \in Nat /\ t \in printnumk(10, Signed(w))
    BY <1>1, <1>4 DEF SignedText
  <2>2. t = Digits(10, Signed(w))
    BY <2>1, DecimalFits
  <2>3. t \in Seq(DigitsOf(10)) /\ t # <<>> /\ t[1] # "-" /\ Value(t) = Signed(w)
    BY <1>2, <2>1, <2>2
  <2>. HIDE DEF DigitsOf
  <2>. QED  BY <2>3 DEF Denoted
<1>. QED  BY <1>3, <1>4
=============================================================================
