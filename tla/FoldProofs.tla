----------------------------- MODULE FoldProofs -----------------------------
(***************************************************************************)
(* What FoldLeft computes, for every sequence: the last of the values that  *)
(* a loop over the sequence goes through.                                   *)
(*                                                                          *)
(* FoldLeft is a recursion on sets of indices, so each fact is an induction *)
(* on a number: if some number were without it, there would be a least one. *)
(* The provers take no operator as a parameter; the step of the loop is     *)
(* therefore a function.                                                    *)
(***************************************************************************)
EXTENDS Integers, SequencesExt, SequenceTheorems, WellFoundedInduction, TLAPS

\* A non-empty set of numbers has a least element.
LEMMA LeastNumber ==
  ASSUME NEW S \in SUBSET Nat, S # {}
  PROVE  \E x \in S : \A y \in S : x <= y
<1>. DEFINE LT == {ss \in Nat \X Nat : ss[1] < ss[2]}
<1>1. IsWellFoundedOn(LT, Nat)
  BY NatLessThanWellFounded, Zenon DEF OpToRel
<1>2. PICK x \in S : \A y \in S : ~ (<<y, x>> \in LT)
  <2>. HIDE DEF LT
  <2>. QED  BY <1>1, WFMin
<1>3. ASSUME NEW y \in S PROVE x <= y
  <2>1. <<y, x>> \in Nat \X Nat /\ <<y, x>>[1] = y /\ <<y, x>>[2] = x
    OBVIOUS
  <2>2. y < x => <<y, x>> \in LT
    BY <2>1
  <2>. QED  BY <1>2, <2>2
<1>. QED  BY <1>3

----------------------------------------------------------------------------
(* The recursion on sets of indices.                                        *)

LEMMA LastIndex ==
  ASSUME NEW m \in Nat, NEW s \in SUBSET (1 .. m + 1), m + 1 \in s
  PROVE  Max(s) = m + 1 /\ s \ {m + 1} \in SUBSET (1 .. m)
<1>1. \A x \in s : x \in Int /\ m + 1 >= x
  OBVIOUS
<1>2. \A x \in s : (\A y \in s : x >= y) <=> x = m + 1
  BY <1>1
<1>3. (CHOOSE x \in s : \A y \in s : x >= y) = m + 1
  BY <1>2, Zenon
<1>. QED  BY <1>3 DEF Max

\* So has one of numbers up to m a greatest.
LEMMA MaxIn ==
  ASSUME NEW m \in Nat, NEW s \in SUBSET (1 .. m), s # {}
  PROVE  Max(s) \in s /\ \A y \in s : Max(s) >= y
<1>. DEFINE gaps == {k \in Nat : m - k \in s}
<1>1. PICK x \in s : TRUE
  OBVIOUS
<1>2. m - x \in gaps
  <2>1. m - x \in Nat /\ m - (m - x) = x
    OBVIOUS
  <2>. QED  BY <2>1
<1>3. PICK k \in gaps : \A j \in gaps : k <= j
  <2>. HIDE DEF gaps
  <2>1. gaps \in SUBSET Nat
    BY DEF gaps
  <2>. QED  BY <1>2, <2>1, LeastNumber
<1>4. ASSUME NEW y \in s PROVE m - k >= y
  <2>1. m - y \in Nat /\ m - (m - y) = y
    OBVIOUS
  <2>2. m - y \in gaps
    BY <2>1
  <2>. QED  BY <1>3, <2>1, <2>2
<1>. QED  BY <1>3, <1>4 DEF Max

\* iter folds f over the items of t at the indices of a set, the last index last.
Iterates(iter, f, v, t, D) ==
  \A s \in D : iter[s] = IF s = {} THEN v
                         ELSE f[<<iter[s \ {Max(s)}], t[Max(s)]>>]

\* Such an iter exists on the subsets of 1 .. m.
LEMMA IterExists ==
  ASSUME NEW X, NEW Y, NEW f \in [X \X Y -> X], NEW v \in X, NEW t \in Seq(Y),
         NEW m \in Nat, m <= Len(t)
  PROVE  \E iter \in [SUBSET (1 .. m) -> X] : Iterates(iter, f, v, t, SUBSET (1 .. m))
<1>. DEFINE Good(k) ==
              \E iter \in [SUBSET (1 .. k) -> X] : Iterates(iter, f, v, t, SUBSET (1 .. k))
            bad == {k \in Nat : k <= Len(t) /\ ~Good(k)}
<1>. SUFFICES ASSUME bad # {} PROVE FALSE
  OBVIOUS
<1>1. PICK k \in bad : \A j \in bad : k <= j
  <2>. HIDE DEF bad
  <2>1. bad \in SUBSET Nat
    BY DEF bad
  <2>. QED  BY <2>1, LeastNumber
<1>2. CASE k = 0
  <2>. DEFINE D == SUBSET (1 .. 0)
              h == [s \in D |-> v]
  <2>1. D = {{}}
    OBVIOUS
  <2>2. h \in [D -> X]
    OBVIOUS
  <2>3. Iterates(h, f, v, t, D)
    BY <2>1 DEF Iterates
  <2>4. Good(0)
    <3>. HIDE DEF h
    <3>. QED  BY <2>2, <2>3
  <2>. QED  BY <1>1, <1>2, <2>4
<1>3. CASE k # 0
  <2>. DEFINE i == k - 1
  <2>1. i \in Nat /\ k = i + 1 /\ k <= Len(t) /\ k \in Nat /\ Len(t) \in Nat
    BY <1>1, <1>3
  <2>. HIDE DEF i
  <2>2. Good(i)
    <3>1. i \notin bad
      <4>. HIDE DEF bad
      <4>. QED  BY <1>1, <2>1
    <3>2. i <= Len(t)
      BY <2>1
    <3>. HIDE DEF Good
    <3>. QED  BY <2>1, <3>1, <3>2
  <2>3. PICK g \in [SUBSET (1 .. i) -> X] : Iterates(g, f, v, t, SUBSET (1 .. i))
    BY <2>2
  <2>. DEFINE h == [s \in SUBSET (1 .. k) |->
                      IF k \in s THEN f[<<g[s \ {k}], t[k]>>] ELSE g[s]]
  <2>4. t[k] \in Y
    BY <2>1, <1>3
  <2>5. ASSUME NEW s \in SUBSET (1 .. k), k \in s
        PROVE  Max(s) = k /\ s \ {k} \in SUBSET (1 .. i)
    BY <2>1, <2>5, LastIndex
  <2>6. ASSUME NEW s \in SUBSET (1 .. k), k \notin s
        PROVE  s \in SUBSET (1 .. i)
    <3>1. ASSUME NEW x \in s PROVE x \in 1 .. i
      BY <2>1, <2>6
    <3>. QED  BY <3>1
  <2>7. h \in [SUBSET (1 .. k) -> X]
    <3>1. ASSUME NEW s \in SUBSET (1 .. k) PROVE h[s] \in X
      <4>1. CASE k \in s
        <5>1. g[s \ {k}] \in X
          BY <2>3, <2>5, <4>1
        <5>. QED  BY <2>4, <4>1, <5>1
      <4>2. CASE k \notin s
        BY <2>3, <2>6, <4>2
      <4>. QED  BY <4>1, <4>2
    <3>. QED  BY <3>1
  <2>8. ASSUME NEW s \in SUBSET (1 .. i) PROVE s \in SUBSET (1 .. k) /\ h[s] = g[s]
    <3>1. s \in SUBSET (1 .. k) /\ k \notin s
      BY <2>1
    <3>. QED  BY <3>1
  <2>9. Iterates(h, f, v, t, SUBSET (1 .. k))
    <3>1. ASSUME NEW s \in SUBSET (1 .. k)
          PROVE  h[s] = IF s = {} THEN v ELSE f[<<h[s \ {Max(s)}], t[Max(s)]>>]
      <4>1. CASE k \in s
        <5>1. h[s] = f[<<g[s \ {k}], t[k]>>]
          BY <4>1
        <5>2. h[s \ {k}] = g[s \ {k}] /\ Max(s) = k
          BY <2>5, <2>8, <4>1
        <5>. HIDE DEF h
        <5>. QED  BY <4>1, <5>1, <5>2
      <4>2. CASE k \notin s
        <5>1. s \in SUBSET (1 .. i)
          BY <2>6, <4>2
        <5>2. h[s] = g[s]
          BY <2>8, <5>1
        <5>3. g[s] = IF s = {} THEN v ELSE f[<<g[s \ {Max(s)}], t[Max(s)]>>]
          BY <2>3, <5>1 DEF Iterates
        <5>4. h[s \ {Max(s)}] = g[s \ {Max(s)}]
          BY <2>8, <5>1
        <5>. HIDE DEF h
        <5>. QED  BY <5>2, <5>3, <5>4
      <4>. QED  BY <4>1, <4>2
    <3>. HIDE DEF h
    <3>. QED  BY <3>1 DEF Iterates
  <2>10. Good(k)
    <3>. HIDE DEF h
    <3>. QED  BY <2>7, <2>9
  <2>. QED  BY <1>1, <2>10
<1>. QED  BY <1>2, <1>3

----------------------------------------------------------------------------
(* The loop.                                                                *)

\* The loop goes from v through g to x, a step of f for each item of t.
Runs(g, f, t, m) == \A k \in 1 .. m : g[k] = f[<<g[k - 1], t[k]>>]
FoldsTo(X, f, v, t, x) ==
  \E g \in [0 .. Len(t) -> X] :
    g[0] = v /\ g[Len(t)] = x /\ Runs(g, f, t, Len(t))

\* Two loops that start from one value and see the same items go through the
\* same values.
LEMMA SameLoop ==
  ASSUME NEW f, NEW m \in Nat, NEW t, NEW g, NEW h, g[0] = h[0],
         Runs(g, f, t, m), Runs(h, f, t, m)
  PROVE  \A k \in 0 .. m : g[k] = h[k]
<1>. DEFINE bad == {k \in Nat : k <= m /\ g[k] # h[k]}
<1>. SUFFICES ASSUME bad # {} PROVE FALSE
  OBVIOUS
<1>1. PICK k \in bad : \A j \in bad : k <= j
  <2>. HIDE DEF bad
  <2>1. bad \in SUBSET Nat
    BY DEF bad
  <2>. QED  BY <2>1, LeastNumber
<1>2. k \in 1 .. m /\ k - 1 \in Nat /\ k - 1 <= m
  BY <1>1
<1>3. g[k - 1] = h[k - 1]
  <2>1. k - 1 \notin bad
    <3>. HIDE DEF bad
    <3>. QED  BY <1>1, <1>2
  <2>. QED  BY <1>2, <2>1
<1>. QED  BY <1>1, <1>2, <1>3 DEF Runs

\* A recursion like that of FoldLeft, of which it is enough to know what it makes
\* of values of the loop, ends where the loop does.
LEMMA IterFolds ==
  ASSUME NEW X, NEW Y, NEW f \in [X \X Y -> X], NEW v \in X, NEW t \in Seq(Y), NEW iter,
         \A s \in SUBSET (1 .. Len(t)) :
           /\ s = {} => iter[s] = v
           /\ s # {} /\ iter[s \ {Max(s)}] \in X
                => iter[s] = f[<<iter[s \ {Max(s)}], t[Max(s)]>>]
  PROVE  FoldsTo(X, f, v, t, iter[1 .. Len(t)])
<1>. DEFINE n == Len(t)
            all == SUBSET (1 .. n)
<1>1. n \in Nat
  OBVIOUS
<1>2. PICK it \in [all -> X] : Iterates(it, f, v, t, all)
  <2>. HIDE DEF n
  <2>1. n \in Nat /\ n <= Len(t)
    BY <1>1 DEF n
  <2>. QED  BY <2>1, IterExists
<1>. DEFINE g == [k \in 0 .. n |-> it[1 .. k]]
<1>3. \A k \in 0 .. n : 1 .. k \in all
  BY <1>1
<1>4. g \in [0 .. n -> X]
  BY <1>2, <1>3
<1>5. ASSUME NEW k \in 1 .. n
      PROVE  Max(1 .. k) = k /\ (1 .. k) \ {k} = 1 .. k - 1 /\ 1 .. k # {} /\ k - 1 \in 0 .. n
  <2>1. k - 1 \in Nat /\ k = (k - 1) + 1 /\ k \in 1 .. k
    OBVIOUS
  <2>2. Max(1 .. k) = k
    <3>. DEFINE j == k - 1
    <3>1. j \in Nat /\ k = j + 1
      BY <2>1
    <3>. HIDE DEF j
    <3>2. 1 .. k \in SUBSET (1 .. j + 1) /\ j + 1 \in 1 .. k
      BY <3>1
    <3>. QED  BY <3>1, <3>2, LastIndex
  <2>. QED  BY <1>1, <2>1, <2>2
<1>6. g[0] = v
  <2>1. 1 .. 0 = {} /\ 0 \in 0 .. n
    BY <1>1
  <2>2. g[0] = it[{}]
    BY <2>1
  <2>3. {} \in all
    OBVIOUS
  <2>. QED  BY <1>2, <2>2, <2>3 DEF Iterates
<1>7. ASSUME NEW k \in 1 .. n PROVE g[k] = f[<<g[k - 1], t[k]>>]
  <2>1. 1 .. k \in all /\ k \in 0 .. n
    BY <1>1, <1>3
  <2>2. it[1 .. k] = f[<<it[(1 .. k) \ {Max(1 .. k)}], t[Max(1 .. k)]>>]
    BY <1>2, <1>5, <2>1 DEF Iterates
  <2>3. g[k] = it[1 .. k] /\ g[k - 1] = it[1 .. k - 1]
    BY <1>5, <2>1
  <2>. QED  BY <1>5, <2>2, <2>3
<1>8. ASSUME NEW k \in 0 .. n PROVE iter[1 .. k] = g[k]
  <2>. DEFINE bad == {j \in Nat : j <= n /\ iter[1 .. j] # g[j]}
  <2>. SUFFICES ASSUME bad # {} PROVE FALSE
    OBVIOUS
  <2>1. PICK j \in bad : \A i \in bad : j <= i
    <3>. HIDE DEF bad
    <3>1. bad \in SUBSET Nat
      BY DEF bad
    <3>. QED  BY <3>1, LeastNumber
  <2>2. j # 0
    <3>1. 1 .. 0 = {} /\ {} \in all
      OBVIOUS
    <3>2. iter[{}] = v
      BY <3>1
    <3>. HIDE DEF g
    <3>. QED  BY <1>6, <2>1, <3>1, <3>2
  <2>3. j \in 1 .. n /\ j - 1 \in Nat /\ j - 1 <= n
    BY <1>1, <2>1, <2>2
  <2>4. iter[1 .. j - 1] = g[j - 1]
    <3>1. j - 1 \notin bad
      <4>. HIDE DEF bad
      <4>. QED  BY <2>1, <2>3
    <3>. QED  BY <2>3, <3>1
  <2>5. g[j - 1] \in X
    BY <1>4, <1>5, <2>3
  <2>6. iter[1 .. j] = f[<<iter[1 .. j - 1], t[j]>>]
    <3>1. 1 .. j \in all
      BY <1>3, <2>3
    <3>. HIDE DEF g
    <3>. QED  BY <1>5, <2>3, <2>4, <2>5, <3>1
  <2>. HIDE DEF g
  <2>. QED  BY <1>7, <2>1, <2>3, <2>4, <2>6
<1>9. n \in 0 .. n
  BY <1>1
<1>. HIDE DEF g
<1>. QED  BY <1>4, <1>6, <1>7, <1>8, <1>9 DEF FoldsTo, Runs

\* The loop has one end; over no item it is where the loop began.
LEMMA LoopEnds ==
  ASSUME NEW X, NEW Y, NEW f \in [X \X Y -> X], NEW v \in X, NEW t \in Seq(Y)
  PROVE  /\ \A x : FoldsTo(X, f, v, t, x) => x \in X
         /\ \A x : FoldsTo(X, f, v, <<>>, x) => x = v
         /\ \A x, y : FoldsTo(X, f, v, t, x) /\ FoldsTo(X, f, v, t, y) => x = y
<1>. DEFINE n == Len(t)
<1>0. n \in Nat /\ n \in 0 .. n
  OBVIOUS
<1>1. ASSUME NEW x, FoldsTo(X, f, v, t, x) PROVE x \in X
  BY <1>0, <1>1 DEF FoldsTo
<1>2. ASSUME NEW x, FoldsTo(X, f, v, <<>>, x) PROVE x = v
  BY <1>2 DEF FoldsTo
<1>3. ASSUME NEW x, NEW y, FoldsTo(X, f, v, t, x), FoldsTo(X, f, v, t, y) PROVE x = y
  <2>1. PICK g : g[0] = v /\ g[n] = x /\ Runs(g, f, t, n)
    BY <1>3 DEF FoldsTo
  <2>2. PICK h : h[0] = v /\ h[n] = y /\ Runs(h, f, t, n)
    BY <1>3 DEF FoldsTo
  <2>3. \A k \in 0 .. n : g[k] = h[k]
    <3>. HIDE DEF n
    <3>. QED  BY <1>0, <2>1, <2>2, SameLoop
  <2>. QED  BY <1>0, <2>1, <2>2, <2>3
<1>. QED  BY <1>1, <1>2, <1>3

\* Over one item more, the loop makes one step more.
OneMore(X, f, v, t, b) ==
  \A x, y : FoldsTo(X, f, v, t, x) /\ FoldsTo(X, f, v, Append(t, b), y) => y = f[<<x, b>>]

LEMMA LoopAppend ==
  ASSUME NEW X, NEW Y, NEW f \in [X \X Y -> X], NEW v \in X, NEW t \in Seq(Y), NEW b \in Y
  PROVE  OneMore(X, f, v, t, b)
<1>. SUFFICES ASSUME NEW x, NEW y, NEW u, u = Append(t, b),
                     FoldsTo(X, f, v, t, x), FoldsTo(X, f, v, u, y)
              PROVE  y = f[<<x, b>>]
  BY DEF OneMore
<1>. DEFINE n == Len(t)
<1>0. n \in Nat /\ n \in 0 .. n
  OBVIOUS
<1>1. PICK g : g[0] = v /\ g[n] = x /\ Runs(g, f, t, n)
  BY DEF FoldsTo
<1>2. Len(u) = n + 1 /\ u[n + 1] = b /\ \A k \in 1 .. n : u[k] = t[k]
  OBVIOUS
<1>3. PICK h : h[0] = v /\ h[n + 1] = y /\ Runs(h, f, u, n + 1)
  BY <1>2 DEF FoldsTo
<1>. HIDE DEF n
<1>4. Runs(h, f, t, n)
  BY <1>0, <1>2, <1>3 DEF Runs
<1>5. \A k \in 0 .. n : g[k] = h[k]
  BY <1>0, <1>1, <1>3, <1>4, SameLoop
<1>6. h[n + 1] = f[<<h[n], b>>]
  <2>1. n + 1 \in 1 .. n + 1 /\ (n + 1) - 1 = n
    BY <1>0
  <2>. QED  BY <1>2, <1>3, <2>1 DEF Runs
<1>. QED  BY <1>0, <1>1, <1>3, <1>5, <1>6

\* Over all but the first item, after a step for the first, the loop ends in the
\* same value.
FirstFirst(X, f, v, t) ==
  \A x, y : FoldsTo(X, f, v, t, x) /\ FoldsTo(X, f, f[<<v, Head(t)>>], Tail(t), y) => y = x

LEMMA LoopTail ==
  ASSUME NEW X, NEW Y, NEW f \in [X \X Y -> X], NEW v \in X, NEW t \in Seq(Y), t # <<>>
  PROVE  FirstFirst(X, f, v, t)
<1>. SUFFICES ASSUME NEW x, NEW y, NEW u, NEW w, u = Tail(t), w = f[<<v, Head(t)>>],
                     FoldsTo(X, f, v, t, x), FoldsTo(X, f, w, u, y)
              PROVE  y = x
  BY DEF FirstFirst
<1>. DEFINE n == Len(t)
<1>0. n \in Nat /\ n \in 0 .. n
  OBVIOUS
<1>1. PICK g : g[0] = v /\ g[n] = x /\ Runs(g, f, t, n)
  BY DEF FoldsTo
<1>. DEFINE m == n - 1
<1>2. m \in Nat /\ n = m + 1 /\ Len(u) = m /\ Head(t) = t[1] /\ \A k \in 1 .. m : u[k] = t[k + 1]
  OBVIOUS
<1>3. PICK h : h[0] = w /\ h[m] = y /\ Runs(h, f, u, m)
  <2>. HIDE DEF m
  <2>. QED  BY <1>2 DEF FoldsTo
<1>. DEFINE later == [k \in 0 .. m |-> g[k + 1]]
<1>4. later[0] = w
  <2>1. g[1] = f[<<g[1 - 1], t[1]>>]
    BY <1>1, <1>2 DEF Runs
  <2>. QED  BY <1>1, <1>2, <2>1
<1>5. ASSUME NEW k \in 1 .. m PROVE later[k] = f[<<later[k - 1], u[k]>>]
  <2>1. k + 1 \in 1 .. n /\ (k + 1) - 1 = k /\ k - 1 \in 0 .. m /\ (k - 1) + 1 = k /\ k \in 0 .. m
    BY <1>2
  <2>2. g[k + 1] = f[<<g[k], t[k + 1]>>]
    BY <1>1, <2>1 DEF Runs
  <2>3. later[k] = g[k + 1] /\ later[k - 1] = g[k]
    BY <2>1
  <2>. QED  BY <1>2, <2>2, <2>3
<1>6. later[m] = x
  BY <1>1, <1>2
<1>. HIDE DEF later, m
<1>7. Runs(later, f, u, m)
  BY <1>5 DEF Runs
<1>8. \A k \in 0 .. m : later[k] = h[k]
  BY <1>2, <1>3, <1>4, <1>7, SameLoop
<1>. QED  BY <1>2, <1>3, <1>6, <1>8

----------------------------------------------------------------------------
(* Two sequences, one after the other.                                      *)

\* The second grows or shrinks.
Follows(s, t, b) == s \o Append(t, b) = Append(s \o t, b)

LEMMA BaseAndBuffer ==
  ASSUME NEW S, NEW s \in Seq(S), NEW t \in Seq(S)
  PROVE  /\ \A b \in S : Follows(s, t, b)
         /\ t # <<>> => s \o t # <<>> /\ s \o Front(t) = Front(s \o t)
<1>1. ASSUME NEW b \in S PROVE Follows(s, t, b)
  BY DEF Follows
<1>2. ASSUME t # <<>> PROVE s \o t # <<>> /\ s \o Front(t) = Front(s \o t)
  <2>1. PICK n \in Nat : Len(t) = n + 1
    <3>1. Len(t) - 1 \in Nat /\ Len(t) = (Len(t) - 1) + 1
      BY <1>2
    <3>. QED  BY <3>1
  <2>. DEFINE u == s \o t
              f == SubSeq(t, 1, n)
              m == Len(s)
  <2>2. Front(t) = f /\ Front(u) = SubSeq(u, 1, Len(u) - 1)
    BY <2>1 DEF Front
  <2>3. f \in Seq(S) /\ Len(f) = n /\ \A i \in 1 .. n : f[i] = t[i]
    BY <2>1
  <2>4. u \in Seq(S) /\ Len(u) = m + n + 1 /\ m \in Nat
        /\ \A i \in 1 .. m + n : u[i] = IF i <= m THEN s[i] ELSE t[i - m]
    BY <2>1
  <2>5. Len(u) - 1 = m + n
    BY <2>1, <2>4
  <2>. HIDE DEF f, u
  <2>6. SubSeq(u, 1, m + n) \in Seq(S) /\ Len(SubSeq(u, 1, m + n)) = m + n
        /\ \A i \in 1 .. m + n : SubSeq(u, 1, m + n)[i] = u[i]
    BY <2>1, <2>4
  <2>7. s \o f \in Seq(S) /\ Len(s \o f) = m + n
        /\ \A i \in 1 .. m + n : (s \o f)[i] = IF i <= m THEN s[i] ELSE f[i - m]
    BY <2>3, ConcatProperties
  <2>8. s \o f = SubSeq(u, 1, m + n)
    <3>. DEFINE v == s \o f
                w == SubSeq(u, 1, m + n)
    <3>1. \A i \in 1 .. m + n : v[i] = w[i]
      <4>1. ASSUME NEW i \in 1 .. m + n, ~(i <= m) PROVE i - m \in 1 .. n
        BY <2>1, <2>4, <4>1
      <4>. QED  BY <2>3, <2>4, <2>6, <2>7, <4>1
    <3>. HIDE DEF v, w
    <3>2. v \in Seq(S) /\ w \in Seq(S) /\ Len(v) = m + n /\ Len(w) = m + n
      BY <2>6, <2>7 DEF v, w
    <3>3. v = w
      BY <3>1, <3>2, SeqEqual
    <3>. QED  BY <3>3 DEF v, w
  <2>9. u # <<>>
    BY <2>1, <2>4
  <2>. QED  BY <2>2, <2>5, <2>8, <2>9 DEF u
<1>. QED  BY <1>1, <1>2

=============================================================================
