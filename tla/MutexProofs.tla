---------------------------- MODULE MutexProofs ----------------------------
(***************************************************************************)
(* Proofs about Mutex for every number of threads and mutexes, and every    *)
(* assignment of ceilings: the steps of Mutex are steps of Scheduler, so    *)
(* what is proved of the scheduler holds with mutexes; a locked mutex has   *)
(* an owner that will unlock it; the ceiling 0 is final.  Where the system  *)
(* ceiling covers what is locked, the ceiling rule holds and no circle of   *)
(* threads waits; with two mutexes registered the code's sum covers them.   *)
(***************************************************************************)
EXTENDS Mutex, SchedulerProofs, FiniteSetTheorems

\* Where a thread is in mutex_lock agrees with the mutex it is about, and the
\* fields have the shape the calls rely on.
LockInv ==
  /\ lock \in [Mutexes -> BOOLEAN]
  /\ thread \in [Mutexes -> Prio \cup {NULL}]
  /\ holds \in [Prio -> SUBSET Mutexes]
  /\ call \in [Prio -> {"none", "spin", "stuck", "enter"}]
  /\ target \in [Prio -> Mutexes \cup {NoMutex}]
  /\ \A p \in Prio : call[p] # "none" => target[p] \in Mutexes
  /\ mutex_list \subseteq Mutexes
  /\ curr_priority \in [Prio -> Prio]

\* Ceilings are what mutex_init was given; a created thread locks with its own
\* priority, and only a registered mutex that it may lock and does not hold.
CeilingInv ==
  /\ IsFiniteSet(mutex_list)
  /\ ceiling \in [Mutexes -> 0 .. MaxCeiling]
  /\ mutex_ceiling \in Nat
  /\ hoisted \in BOOLEAN
  /\ \A p \in created : curr_priority[p] = p
  /\ \A p \in Prio : holds[p] \subseteq mutex_list
  /\ \A p \in Prio : call[p] # "none" =>
       target[p] \in mutex_list \ holds[p] /\ ceiling[target[p]] <= p

MInv == IInv /\ LockInv /\ LockedHasOwner /\ CeilingInv

----------------------------------------------------------------------------
(* The sum of ceilings that mutex_unlock computes.                          *)

\* The recursion of CeilingAfterUnlock has a solution on the subsets of a
\* finite set: by the number of elements, the least size without one cannot
\* exist.
SumTo(g, D) ==
  \A s \in D : g[s] = IF s = {} THEN 0
                      ELSE LET x == CHOOSE x \in s : TRUE IN ceiling[x] + g[s \ {x}]
UpTo(S, n) == {s \in SUBSET S : Cardinality(s) <= n}

LEMMA SumExists ==
  ASSUME NEW S, IsFiniteSet(S), \A k \in S : ceiling[k] \in Nat
  PROVE  \E g \in [SUBSET S -> Nat] : SumTo(g, SUBSET S)
<1>. DEFINE bad == {n \in Nat : ~ \E g \in [UpTo(S, n) -> Nat] : SumTo(g, UpTo(S, n))}
<1>1. \A s \in SUBSET S : IsFiniteSet(s) /\ Cardinality(s) \in Nat
  BY FS_Subset, FS_CardinalityType
<1>2. bad = {}
  <2>. SUFFICES ASSUME bad # {} PROVE FALSE
    OBVIOUS
  <2>1. PICK n \in bad : \A m \in bad : n <= m
    <3>1. Min(bad) \in bad /\ \A m \in bad : Min(bad) <= m
      <4>. HIDE DEF bad
      <4>1. bad \subseteq Nat
        BY DEF bad
      <4>. QED  BY <4>1, MinOfPrios
    <3>. QED  BY <3>1
  <2>2. n # 0
    <3>1. UpTo(S, 0) = {{}}
      BY <1>1, FS_EmptySet DEF UpTo
    <3>2. SumTo([s \in {{}} |-> 0], {{}})
      BY DEF SumTo
    <3>3. [s \in {{}} |-> 0] \in [{{}} -> Nat]
      OBVIOUS
    <3>4. 0 \notin bad
      BY <3>1, <3>2, <3>3
    <3>. QED  BY <3>4
  <2>3. n - 1 \in Nat /\ n - 1 \notin bad
    BY <2>1, <2>2
  <2>4. PICK g \in [UpTo(S, n - 1) -> Nat] : SumTo(g, UpTo(S, n - 1))
    BY <2>3
  <2>. DEFINE h == [s \in UpTo(S, n) |->
                      IF s = {} THEN 0
                      ELSE LET x == CHOOSE x \in s : TRUE IN ceiling[x] + g[s \ {x}]]
  <2>5. ASSUME NEW s \in UpTo(S, n), s # {}, NEW x, x = CHOOSE y \in s : TRUE
        PROVE  x \in S /\ s \ {x} \in UpTo(S, n - 1) /\ s \ {x} \in UpTo(S, n)
    <3>1. x \in s
      BY <2>5
    <3>2. IsFiniteSet(s) /\ s \subseteq S /\ Cardinality(s) <= n
      BY <1>1 DEF UpTo
    <3>3. Cardinality(s \ {x}) = Cardinality(s) - 1 /\ IsFiniteSet(s \ {x})
      BY <3>1, <3>2, FS_RemoveElement
    <3>. QED  BY <1>1, <2>3, <3>1, <3>2, <3>3 DEF UpTo
  <2>6. h \in [UpTo(S, n) -> Nat]
    <3>. SUFFICES ASSUME NEW s \in UpTo(S, n) PROVE h[s] \in Nat
      OBVIOUS
    <3>1. CASE s = {}
      BY <3>1
    <3>2. CASE s # {}
      <4>1. PICK x : x = CHOOSE y \in s : TRUE
        OBVIOUS
      <4>2. h[s] = ceiling[x] + g[s \ {x}]
        BY <3>2, <4>1
      <4>3. x \in S /\ g[s \ {x}] \in Nat
        BY <2>4, <2>5, <3>2, <4>1
      <4>. QED  BY <4>2, <4>3
    <3>. QED  BY <3>1, <3>2
  <2>7. ASSUME NEW s \in UpTo(S, n - 1) PROVE h[s] = g[s] /\ s \in UpTo(S, n)
    <3>1. s \in UpTo(S, n)
      BY <1>1, <2>3 DEF UpTo
    <3>. QED  BY <2>4, <3>1 DEF SumTo
  <2>8. SumTo(h, UpTo(S, n))
    <3>1. ASSUME NEW s \in UpTo(S, n)
          PROVE  h[s] = IF s = {} THEN 0
                        ELSE LET x == CHOOSE x \in s : TRUE IN ceiling[x] + h[s \ {x}]
      <4>1. CASE s = {}
        BY <4>1
      <4>2. CASE s # {}
        <5>1. PICK x : x = CHOOSE y \in s : TRUE
          OBVIOUS
        <5>2. h[s] = ceiling[x] + g[s \ {x}]
          BY <4>2, <5>1
        <5>3. h[s \ {x}] = g[s \ {x}]
          BY <2>5, <2>7, <4>2, <5>1
        <5>4. h[s] = ceiling[x] + h[s \ {x}]
          BY <5>2, <5>3
        <5>. HIDE DEF h
        <5>. QED  BY <4>2, <5>1, <5>4
      <4>. QED  BY <4>1, <4>2
    <3>. HIDE DEF h
    <3>. QED  BY <3>1 DEF SumTo
  <2>9. \E f \in [UpTo(S, n) -> Nat] : SumTo(f, UpTo(S, n))
    <3>. HIDE DEF h
    <3>. QED  BY <2>6, <2>8
  <2>. HIDE DEF h
  <2>. QED  BY <2>1, <2>9
<1>3. Cardinality(S) \in Nat /\ UpTo(S, Cardinality(S)) = SUBSET S
  BY <1>1, FS_Subset, FS_CardinalityType DEF UpTo
<1>4. Cardinality(S) \notin bad
  BY <1>2
<1>5. \E g \in [UpTo(S, Cardinality(S)) -> Nat] : SumTo(g, UpTo(S, Cardinality(S)))
  BY <1>3, <1>4
<1>. HIDE DEF bad
<1>. QED  BY <1>3, <1>5

\* The ceilings of a finite set of mutexes add up to a number: 0 for no
\* mutex, its own ceiling for one.
LEMMA CeilingSum ==
  ASSUME NEW S, IsFiniteSet(S), \A k \in S : ceiling[k] \in Nat
  PROVE  /\ MapThenSumSet(LAMBDA k : ceiling[k], S) \in Nat
         /\ S = {} => MapThenSumSet(LAMBDA k : ceiling[k], S) = 0
         /\ \A m : S = {m} => MapThenSumSet(LAMBDA k : ceiling[k], S) = ceiling[m]
<1>. DEFINE Step(iter) == [s \in SUBSET S |->
              IF s = {} THEN 0
              ELSE LET x == CHOOSE x \in s : TRUE IN ceiling[x] + iter[s \ {x}]]
            sum == CHOOSE iter : iter = Step(iter)
<1>1. PICK g \in [SUBSET S -> Nat] : SumTo(g, SUBSET S)
  BY SumExists
<1>2. g = Step(g)
  BY <1>1 DEF SumTo
<1>3. sum = Step(sum)
  <2>. HIDE DEF Step
  <2>. QED  BY <1>2
<1>4. MapThenSumSet(LAMBDA k : ceiling[k], S) = sum[S]
  BY DEF MapThenSumSet, MapThenFoldSet
<1>. HIDE DEF sum
<1>5. SumTo(sum, SUBSET S)
  BY <1>3 DEF SumTo
<1>6. ASSUME NEW s \in SUBSET S PROVE sum[s] = g[s]
  <2>. DEFINE bad == {n \in Nat : \E t \in SUBSET S : Cardinality(t) = n /\ sum[t] # g[t]}
  <2>1. \A t \in SUBSET S : IsFiniteSet(t) /\ Cardinality(t) \in Nat
    BY FS_Subset, FS_CardinalityType
  <2>. SUFFICES ASSUME bad # {} PROVE FALSE
    BY <2>1
  <2>2. PICK n \in bad : \A m \in bad : n <= m
    <3>1. Min(bad) \in bad /\ \A m \in bad : Min(bad) <= m
      <4>. HIDE DEF bad
      <4>1. bad \subseteq Nat
        BY DEF bad
      <4>. QED  BY <4>1, MinOfPrios
    <3>. QED  BY <3>1
  <2>3. PICK t \in SUBSET S : Cardinality(t) = n /\ sum[t] # g[t]
    BY <2>2
  <2>4. t # {}
    BY <1>1, <1>5, <2>3 DEF SumTo
  <2>5. PICK x : x = CHOOSE y \in t : TRUE
    OBVIOUS
  <2>6. sum[t] = ceiling[x] + sum[t \ {x}] /\ g[t] = ceiling[x] + g[t \ {x}]
    BY <1>1, <1>5, <2>4, <2>5 DEF SumTo
  <2>7. t \ {x} \in SUBSET S /\ Cardinality(t \ {x}) = n - 1 /\ n - 1 \in Nat
    <3>1. x \in t
      BY <2>4, <2>5
    <3>2. Cardinality(t \ {x}) = n - 1
      BY <2>1, <2>3, <3>1, FS_RemoveElement
    <3>. QED  BY <2>1, <3>2
  <2>8. n - 1 \notin bad
    BY <2>2, <2>7
  <2>. QED  BY <2>3, <2>6, <2>7, <2>8
<1>7. S \in SUBSET S
  OBVIOUS
<1>8. g[{}] = 0
  BY <1>1 DEF SumTo
<1>9. ASSUME NEW m, S = {m} PROVE g[S] = ceiling[m]
  <2>1. (CHOOSE x \in S : TRUE) = m
    BY <1>9
  <2>2. g[S] = ceiling[m] + g[S \ {m}]
    BY <1>1, <1>7, <1>9, <2>1 DEF SumTo
  <2>3. S \ {m} = {}
    BY <1>9
  <2>4. ceiling[m] \in Nat
    BY <1>9
  <2>5. ceiling[m] + 0 = ceiling[m]
    BY <2>4
  <2>. QED  BY <1>8, <2>2, <2>3, <2>5, Zenon
<1>. DEFINE total == MapThenSumSet(LAMBDA k : ceiling[k], S)
<1>10. total = g[S]
  BY <1>4, <1>6, <1>7
<1>. HIDE DEF total
<1>. SUFFICES /\ total \in Nat
              /\ S = {} => total = 0
              /\ \A m : S = {m} => total = ceiling[m]
  BY DEF total
<1>. QED  BY <1>1, <1>7, <1>8, <1>9, <1>10

----------------------------------------------------------------------------
(* The calls.                                                               *)

\* What a step of the mutexes is to the scheduler.
LEMMA MutexStep ==
  ASSUME [MNext]_allVars
  PROVE  [Next]_vars
<1>1. CASE InitThreads
  BY <1>1 DEF InitThreads, Next
<1>2. CASE OtherCalls
  BY <1>2 DEF OtherCalls, Next
<1>3. CASE MTick
  BY <1>3 DEF MTick, Next
<1>4. CASE \E m \in Mutexes, c \in 0 .. MaxCeiling : mutex_init(m, c)
  BY <1>4 DEF mutex_init
<1>5. CASE \E p \in UserPrio, m \in Mutexes : LockCall(p, m) \/ mutex_unlock(p, m)
  BY <1>5 DEF LockCall, mutex_unlock
<1>6. CASE \E p \in UserPrio : LockSeenFree(p) \/ LockDecide(p)
  BY <1>6 DEF LockSeenFree, LockDecide
<1>7. CASE UNCHANGED allVars
  BY <1>7 DEF allVars
<1>. QED  BY <1>1, <1>2, <1>3, <1>4, <1>5, <1>6, <1>7 DEF MNext

\* Mutexes change nothing the scheduler sees: every behaviour of the two
\* together is a behaviour of the scheduler, whose theorems therefore hold.
THEOREM MutexesKeepScheduler == MSpec => Spec
<1>1. MInit => Init
  BY DEF MInit
<1>2. [MNext]_allVars => [Next]_vars
  BY MutexStep
<1>. QED  BY <1>1, <1>2, PTL DEF MSpec, Spec

\* A thread in its own code was created.
LEMMA UserWasCreated ==
  ASSUME IInv, NEW p \in UserPrio, InUserCode(p)
  PROVE  p \in created /\ p \in Prio
BY SchedulerAssumption DEF IInv, PlaceInv, NoLostThread, InUserCode, UserPrio, Prio

\* Nothing is locked or held when main() starts.
LEMMA MInitInv == MInit => MInv
<1>. SUFFICES ASSUME MInit PROVE MInv
  OBVIOUS
<1>1. IInv
  BY InitInv DEF MInit
<1>2. 0 \in Prio
  BY SchedulerAssumption DEF Prio
<1>3. Idle \in Nat /\ 0 \in 0 .. MaxCeiling /\ IsFiniteSet({}) /\ created = {}
  BY <1>1, FS_EmptySet, SchedulerAssumption, MutexAssumption DEF MInit, Init, UserPrio
<1>. QED  BY <1>1, <1>2, <1>3 DEF MInit, MInv, LockInv, LockedHasOwner, CeilingInv

\* One step of a mutex call at a time.
LEMMA LockStep ==
  ASSUME MInv, [MNext]_allVars
  PROVE  LockInv' /\ LockedHasOwner'
<1>. USE DEF MInv, LockInv, LockedHasOwner, mutexVars
<1>1. ASSUME InitThreads PROVE LockInv' /\ LockedHasOwner'
  <2>1. created \subseteq created' /\ created' \subseteq UserPrio
    BY <1>1 DEF InitThreads, thread_init, thread_create, IInv, PlaceInv, TypeInv, TypeOK
  <2>2. curr_priority' \in [Prio -> Prio]
    <3>1. PICK p \in Prio : curr_priority' = [curr_priority EXCEPT ![p] = p]
      <4>1. Idle \in Prio /\ UserPrio \subseteq Prio
        BY SchedulerAssumption DEF Prio, UserPrio
      <4>. QED  BY <1>1, <4>1, Zenon DEF InitThreads
    <3>. QED  BY <3>1
  <2>3. UNCHANGED <<mutex_list, lock, thread, call, target, holds>>
    BY <1>1 DEF InitThreads
  <2>. QED  BY <2>1, <2>2, <2>3
<1>2. ASSUME NEW m \in Mutexes, NEW c \in 0 .. MaxCeiling, mutex_init(m, c)
      PROVE  LockInv' /\ LockedHasOwner'
  <2>1. /\ lock' = [lock EXCEPT ![m] = FALSE] /\ thread' = [thread EXCEPT ![m] = NULL]
        /\ mutex_list' = mutex_list \cup {m}
        /\ UNCHANGED <<created, holds, call, target, curr_priority>>
    BY <1>2 DEF mutex_init, vars
  <2>. QED  BY <2>1
<1>3. ASSUME NEW p \in UserPrio, NEW m \in Mutexes, LockCall(p, m)
      PROVE  LockInv' /\ LockedHasOwner'
  <2>1. /\ call' \in [Prio -> {"none", "spin", "stuck", "enter"}]
        /\ \A q \in Prio : call'[q] # call[q] => q = p
        /\ target' = [target EXCEPT ![p] = m]
        /\ UNCHANGED <<created, lock, thread, holds, mutex_list, curr_priority>>
    BY <1>3 DEF LockCall, vars
  <2>. QED  BY <2>1
<1>4. ASSUME NEW p \in UserPrio, LockSeenFree(p)
      PROVE  LockInv' /\ LockedHasOwner'
  BY <1>4 DEF LockSeenFree, vars
<1>5. ASSUME NEW p \in UserPrio, LockDecide(p)
      PROVE  LockInv' /\ LockedHasOwner'
  <2>1. p \in created /\ p \in Prio
    BY <1>5, UserWasCreated DEF LockDecide
  <2>2. target[p] \in Mutexes
    BY <1>5, <2>1 DEF LockDecide
  <2>3. /\ holds' = [holds EXCEPT ![p] = @ \cup {target[p]}]
        /\ call' = [call EXCEPT ![p] = "none"]
        /\ target' = [target EXCEPT ![p] = NoMutex]
        /\ UNCHANGED <<created, mutex_list, curr_priority>>
        /\ \/ UNCHANGED <<lock, thread>>
           \/ /\ lock' = [lock EXCEPT ![target[p]] = TRUE]
              /\ thread' = [thread EXCEPT ![target[p]] = p]
    BY <1>5 DEF LockDecide, vars
  <2>4. LockInv'
    <3>1. holds' \in [Prio -> SUBSET Mutexes]
      BY <2>1, <2>2, <2>3
    <3>2. lock' \in [Mutexes -> BOOLEAN]
      <4>1. lock' = lock \/ lock' = [lock EXCEPT ![target[p]] = TRUE]
        BY <2>3, Zenon
      <4>. QED  BY <4>1
    <3>4. thread' \in [Mutexes -> Prio \cup {NULL}]
      <4>1. thread' = thread \/ thread' = [thread EXCEPT ![target[p]] = p]
        BY <2>3, Zenon
      <4>. QED  BY <2>1, <4>1
    <3>3. \A q \in Prio : call'[q] # "none" => target'[q] \in Mutexes
      BY <2>1, <2>3
    <3>. QED  BY <2>1, <2>3, <3>1, <3>2, <3>3, <3>4
  <2>5. LockedHasOwner'
    <3>. SUFFICES ASSUME NEW k \in Mutexes, lock'[k]
                  PROVE  thread'[k] \in created' /\ k \in holds'[thread'[k]]
      OBVIOUS
    <3>1. created \subseteq Prio
      BY SchedulerAssumption DEF IInv, PlaceInv, TypeInv, TypeOK, UserPrio, Prio
    <3>2. CASE thread'[k] = p /\ k = target[p]
      BY <2>1, <2>2, <2>3, <3>2
    <3>3. CASE lock[k] /\ thread'[k] = thread[k]
      BY <2>1, <2>3, <3>1, <3>3
    <3>. QED  BY <2>1, <2>2, <2>3, <3>2, <3>3
  <2>. QED  BY <2>4, <2>5
<1>6. ASSUME NEW p \in UserPrio, NEW m \in Mutexes, mutex_unlock(p, m)
      PROVE  LockInv' /\ LockedHasOwner'
  <2>1. p \in Prio
    BY SchedulerAssumption DEF UserPrio, Prio
  <2>2. /\ lock' = [lock EXCEPT ![m] = FALSE] /\ thread' = [thread EXCEPT ![m] = NULL]
        /\ holds' = [holds EXCEPT ![p] = @ \ {m}]
        /\ curr_priority' = [curr_priority EXCEPT ![p] = p]
        /\ UNCHANGED <<created, call, target, mutex_list>>
    BY <1>6 DEF mutex_unlock, LockAfterUnlock, vars
  <2>. QED  BY <2>1, <2>2
<1>7. ASSUME OtherCalls \/ MTick
      PROVE  LockInv' /\ LockedHasOwner'
  <2>1. created' = created
    BY <1>7 DEF OtherCalls, MTick, Tick, scheduler_start, wait_until_next_period,
       spin_wait, SpinReturn, syscall_exit, Hang, vars
  <2>. QED  BY <1>7, <2>1 DEF OtherCalls, MTick
<1>8. ASSUME UNCHANGED allVars
      PROVE  LockInv' /\ LockedHasOwner'
  BY <1>8 DEF allVars, vars
<1>. QED
  BY <1>1, <1>2, <1>3, <1>4, <1>5, <1>6, <1>7, <1>8 DEF MNext

\* The same for what the ceilings and priorities promise.
LEMMA CeilingStep ==
  ASSUME MInv, [MNext]_allVars
  PROVE  CeilingInv'
<1>. USE DEF MInv, CeilingInv, mutexVars
<1>a. UserPrio \subseteq Prio /\ created \subseteq Prio /\ Idle \in Prio /\ Idle \notin created
  BY SchedulerAssumption DEF IInv, PlaceInv, TypeInv, TypeOK, UserPrio, Prio
<1>1. ASSUME InitThreads PROVE CeilingInv'
  <2>1. UNCHANGED <<mutex_list, ceiling, mutex_ceiling, hoisted, call, target, holds>>
    BY <1>1 DEF InitThreads
  <2>2. \A p \in created' : curr_priority'[p] = p
    <3>1. CASE thread_init /\ curr_priority' = [curr_priority EXCEPT ![Idle] = Idle]
      BY <1>a, <3>1 DEF thread_init, LockInv
    <3>2. ASSUME NEW q \in UserPrio, NEW c \in TaskParams, thread_create(q, c.C, c.T),
                 curr_priority' = [curr_priority EXCEPT ![q] = q]
          PROVE  \A p \in created' : curr_priority'[p] = p
      BY <1>a, <3>2 DEF thread_create, LockInv
    <3>. QED  BY <1>1, <3>1, <3>2 DEF InitThreads
  <2>. QED  BY <2>1, <2>2
<1>2. ASSUME NEW m \in Mutexes, NEW c \in 0 .. MaxCeiling, mutex_init(m, c)
      PROVE  CeilingInv'
  <2>1. /\ m \notin mutex_list /\ mutex_list' = mutex_list \cup {m}
        /\ ceiling' = [ceiling EXCEPT ![m] = c]
        /\ UNCHANGED <<created, holds, call, target, curr_priority, mutex_ceiling, hoisted>>
    BY <1>2 DEF mutex_init, vars
  <2>2. IsFiniteSet(mutex_list')
    BY <2>1, FS_AddElement
  <2>3. ASSUME NEW p \in Prio, call[p] # "none"
        PROVE  target[p] \in mutex_list' \ holds[p] /\ ceiling'[target[p]] <= p
    BY <2>1, <2>3 DEF LockInv
  <2>. QED  BY <2>1, <2>2, <2>3
<1>3. ASSUME NEW p \in UserPrio, NEW m \in Mutexes, LockCall(p, m)
      PROVE  CeilingInv'
  <2>1. /\ \A q \in Prio : call'[q] # call[q] => q = p
        /\ target' = [target EXCEPT ![p] = m]
        /\ m \in mutex_list \ holds[p] /\ ceiling[m] <= p
        /\ UNCHANGED <<created, holds, mutex_list, ceiling, curr_priority, mutex_ceiling, hoisted>>
    BY <1>3 DEF LockCall, vars, LockInv
  <2>. QED  BY <1>a, <2>1 DEF LockInv
<1>4. ASSUME NEW p \in UserPrio, LockSeenFree(p)
      PROVE  CeilingInv'
  BY <1>4, <1>a DEF LockSeenFree, vars, LockInv
<1>5. ASSUME NEW p \in UserPrio, LockDecide(p)
      PROVE  CeilingInv'
  <2>1. /\ holds' = [holds EXCEPT ![p] = @ \cup {target[p]}]
        /\ call' = [call EXCEPT ![p] = "none"]
        /\ target' = [target EXCEPT ![p] = NoMutex]
        /\ mutex_ceiling' = mutex_ceiling \/ mutex_ceiling' = CeilingAfterLock(target[p])
        /\ UNCHANGED <<created, mutex_list, ceiling, curr_priority, hoisted>>
    BY <1>5 DEF LockDecide, vars
  <2>2. target[p] \in Mutexes
    BY <1>5, <1>a DEF LockDecide, LockInv
  <2>3. mutex_ceiling' \in Nat
    BY <2>1, <2>2 DEF CeilingAfterLock
  <2>4. call[p] # "none"
    BY <1>5 DEF LockDecide
  <2>5. \A q \in Prio : holds'[q] \subseteq mutex_list'
    BY <1>a, <2>1, <2>4 DEF LockInv
  <2>6. \A q \in Prio : call'[q] # "none" =>
          target'[q] \in mutex_list' \ holds'[q] /\ ceiling'[target'[q]] <= q
    BY <1>a, <2>1 DEF LockInv
  <2>. QED  BY <2>1, <2>3, <2>5, <2>6
<1>6. ASSUME NEW p \in UserPrio, NEW m \in Mutexes, mutex_unlock(p, m)
      PROVE  CeilingInv'
  <2>1. /\ holds' = [holds EXCEPT ![p] = @ \ {m}]
        /\ curr_priority' = [curr_priority EXCEPT ![p] = p]
        /\ mutex_ceiling' = CeilingAfterUnlock(m)
        /\ UNCHANGED <<created, mutex_list, ceiling, call, target, hoisted>>
    BY <1>6 DEF mutex_unlock, vars
  <2>2. mutex_ceiling' \in Nat
    <3>. DEFINE left == {k \in mutex_list : LockAfterUnlock(m)[k]}
    <3>1. IsFiniteSet(left) /\ \A k \in left : ceiling[k] \in Nat
      BY FS_Subset DEF LockInv
    <3>. HIDE DEF left
    <3>2. MapThenSumSet(LAMBDA k : ceiling[k], left) \in Nat
      BY <3>1, CeilingSum
    <3>. QED  BY <2>1, <3>2 DEF CeilingAfterUnlock, left
  <2>. QED  BY <1>a, <2>1, <2>2 DEF LockInv
<1>7. ASSUME OtherCalls \/ MTick
      PROVE  CeilingInv'
  <2>1. created' = created
    BY <1>7 DEF OtherCalls, MTick, Tick, scheduler_start, wait_until_next_period,
       spin_wait, SpinReturn, syscall_exit, Hang, vars
  <2>. QED  BY <1>7, <2>1 DEF OtherCalls, MTick
<1>8. ASSUME UNCHANGED allVars
      PROVE  CeilingInv'
  BY <1>8 DEF allVars, vars
<1>. QED
  BY <1>1, <1>2, <1>3, <1>4, <1>5, <1>6, <1>7, <1>8 DEF MNext

\* MInv holds in every reachable state.
LEMMA MInvariance == MSpec => []MInv
<1>1. MInv /\ [MNext]_allVars => MInv'
  BY LockStep, CeilingStep, MutexStep, StepInv DEF MInv
<1>. QED  BY <1>1, MInitInv, PTL DEF MSpec

\* A locked mutex always has an owner on record that was created and that still
\* has to unlock it, whatever threads that entered without a grant unlock.
THEOREM LocksHaveOwners == MSpec => []LockedHasOwner
<1>1. MInv => LockedHasOwner
  BY DEF MInv
<1>. QED  BY <1>1, MInvariance, PTL

----------------------------------------------------------------------------
(* The ceiling protocol.                                                    *)

\* Every field of the mutexes and every thread's place in its lock call keeps
\* its type, the sum of ceilings included.
THEOREM MutexTypes == MSpec => []MTypeOK
<1>1. MInv => MTypeOK
  BY DEF MInv, LockInv, CeilingInv, MTypeOK
<1>. QED  BY <1>1, MInvariance, PTL

\* While the system ceiling is never above the ceiling of a locked mutex, a
\* grant goes only to a thread above the ceiling of what others have locked, and
\* never twice: the test of mutex_lock needs nothing else of the ceiling.
THEOREM CoverGivesRule == MSpec /\ []CeilingCoversLocks => CeilingRule
<1>. DEFINE Rule == \A m \in Mutexes : (thread'[m] # thread[m] /\ lock'[m])
       => /\ ~lock[m]
          /\ \A k \in Mutexes :
               (lock[k] /\ thread[k] # thread'[m]) => thread'[m] < ceiling[k]
<1>1. ASSUME MInv, CeilingCoversLocks, [MNext]_allVars PROVE Rule
  <2>. USE DEF MInv, LockInv
  <2>1. ASSUME NEW p \in UserPrio, LockDecide(p) PROVE Rule
    <3>. DEFINE t == target[p]
    <3>1. p \in created /\ p \in Prio /\ p \in Nat
      BY <1>1, <2>1, UserWasCreated, SchedulerAssumption DEF LockDecide, UserPrio
    <3>2. t \in Mutexes /\ curr_priority[p] = p
      BY <1>1, <2>1, <3>1 DEF LockDecide, CeilingInv
    <3>3. CASE ~Granted(p, t)
      BY <2>1, <3>3 DEF LockDecide
    <3>4. CASE Granted(p, t)
      <4>1. thread' = [thread EXCEPT ![t] = p]
        BY <2>1, <3>4 DEF LockDecide
      <4>2. ASSUME NEW k \in Mutexes, lock[k] PROVE p < ceiling[k]
        <5>1. ceiling[k] \in Nat /\ mutex_ceiling \in Nat /\ mutex_ceiling <= ceiling[k]
          BY <1>1, <4>2, MutexAssumption DEF CeilingInv, CeilingCoversLocks, UserPrio
        <5>2. p < mutex_ceiling
          BY <3>2, <3>4 DEF Granted
        <5>. QED  BY <3>1, <5>1, <5>2
      <4>3. ~lock[t]
        <5>1. ceiling[t] <= p /\ ceiling[t] \in Nat
          BY <1>1, <3>2, <3>4 DEF Granted, CeilingInv
        <5>. QED  BY <3>1, <3>2, <4>2, <5>1
      <4>4. \A m \in Mutexes : thread'[m] # thread[m] => m = t /\ thread'[m] = p
        BY <1>1, <4>1
      <4>. QED  BY <3>1, <4>2, <4>3, <4>4
    <3>. QED  BY <3>3, <3>4
  <2>2. ASSUME NEW p \in UserPrio, NEW m \in Mutexes, mutex_unlock(p, m) PROVE Rule
    BY <1>1, <2>2 DEF mutex_unlock, LockAfterUnlock
  <2>3. ASSUME NEW m \in Mutexes, NEW c \in 0 .. MaxCeiling, mutex_init(m, c) PROVE Rule
    BY <1>1, <2>3 DEF mutex_init
  <2>4. ASSUME NEW p \in UserPrio, (\E m \in Mutexes : LockCall(p, m)) \/ LockSeenFree(p)
        PROVE  Rule
    BY <1>1, <2>4 DEF LockCall, LockSeenFree
  <2>5. CASE InitThreads \/ OtherCalls \/ MTick \/ UNCHANGED allVars
    BY <1>1, <2>5 DEF InitThreads, OtherCalls, MTick, allVars, mutexVars
  <2>. QED  BY <1>1, <2>1, <2>2, <2>3, <2>4, <2>5 DEF MNext
<1>2. MInv /\ CeilingCoversLocks /\ [MNext]_allVars => [Rule]_allVars
  BY <1>1
<1>. QED  BY <1>2, MInvariance, PTL DEF MSpec, CeilingRule

\* What the ceiling rule leaves behind: of two mutexes locked by two threads, the
\* later one was taken below the ceiling of the earlier one.
Below(m, k) == thread[m] < ceiling[k] /\ ceiling[m] < ceiling[k]
Nested ==
  \A k, m \in Mutexes :
    lock[k] /\ lock[m] /\ thread[k] # thread[m] => Below(m, k) \/ Below(k, m)

\* Only a grant adds a pair, and a grant is below all that others have locked.
LEMMA NestedStep ==
  ASSUME MInv, CeilingCoversLocks, Nested, [MNext]_allVars
  PROVE  Nested'
<1>. USE DEF MInv, LockInv, Below
<1>1. ASSUME NEW p \in UserPrio, LockDecide(p) PROVE Nested'
  <2>. DEFINE t == target[p]
  <2>1. p \in created /\ p \in Prio /\ p \in Nat
    BY <1>1, UserWasCreated, SchedulerAssumption DEF LockDecide, UserPrio
  <2>2. t \in Mutexes /\ curr_priority[p] = p /\ ceiling' = ceiling
    BY <1>1, <2>1 DEF LockDecide, CeilingInv
  <2>3. CASE ~Granted(p, t)
    BY <1>1, <2>2, <2>3 DEF LockDecide, Nested
  <2>4. CASE Granted(p, t)
    <3>1. thread' = [thread EXCEPT ![t] = p] /\ lock' = [lock EXCEPT ![t] = TRUE]
      BY <1>1, <2>4 DEF LockDecide
    <3>2. ceiling \in [Mutexes -> Nat] /\ mutex_ceiling \in Nat
      BY MutexAssumption DEF CeilingInv, UserPrio
    <3>3. ceiling[t] <= p /\ p < mutex_ceiling
      BY <2>2, <2>4 DEF Granted
    <3>4. ASSUME NEW k \in Mutexes, lock[k] PROVE p < ceiling[k] /\ ceiling[t] < ceiling[k]
      BY <2>1, <2>2, <3>2, <3>3, <3>4 DEF CeilingCoversLocks
    <3>5. ASSUME NEW k \in Mutexes, NEW m \in Mutexes, lock'[k], lock'[m],
                 thread'[k] # thread'[m]
          PROVE  Below(m, k)' \/ Below(k, m)'
      <4>1. CASE k = t
        BY <2>2, <3>1, <3>4, <3>5, <4>1
      <4>2. CASE m = t
        BY <2>2, <3>1, <3>4, <3>5, <4>2
      <4>3. CASE k # t /\ m # t
        BY <2>2, <3>1, <3>5, <4>3 DEF Nested
      <4>. QED  BY <4>1, <4>2, <4>3
    <3>. QED  BY <3>5 DEF Nested
  <2>. QED  BY <2>3, <2>4
<1>2. ASSUME NEW p \in UserPrio, NEW m \in Mutexes, mutex_unlock(p, m) PROVE Nested'
  BY <1>2 DEF mutex_unlock, LockAfterUnlock, Nested
<1>3. ASSUME NEW m \in Mutexes, NEW c \in 0 .. MaxCeiling, mutex_init(m, c) PROVE Nested'
  BY <1>3 DEF mutex_init, Nested, CeilingInv
<1>4. ASSUME NEW p \in UserPrio, (\E m \in Mutexes : LockCall(p, m)) \/ LockSeenFree(p)
      PROVE  Nested'
  BY <1>4 DEF LockCall, LockSeenFree, Nested
<1>5. CASE InitThreads \/ OtherCalls \/ MTick \/ UNCHANGED allVars
  BY <1>5 DEF InitThreads, OtherCalls, MTick, allVars, mutexVars, Nested
<1>. QED  BY <1>1, <1>2, <1>3, <1>4, <1>5 DEF MNext

\* From a thread to the one it waits for, the ceiling of what it waits for falls.
LEMMA WaitDescends ==
  ASSUME MInv, Nested, NEW p \in created, NEW q \in created, NEW r \in created,
         WaitsFor(p, q), WaitsFor(q, r)
  PROVE  ceiling[target[q]] < ceiling[target[p]]
<1>1. /\ p \in Nat /\ q \in Nat /\ r \in Nat
      /\ p \in Prio /\ q \in Prio /\ r \in Prio
  BY SchedulerAssumption DEF MInv, IInv, PlaceInv, TypeInv, TypeOK, UserPrio, Prio
<1>2. /\ target[p] \in Mutexes /\ target[q] \in Mutexes
      /\ ceiling[target[p]] \in Nat /\ ceiling[target[q]] \in Nat
      /\ target[q] \notin holds[q] /\ ceiling[target[q]] <= q
  BY <1>1, MutexAssumption DEF MInv, LockInv, CeilingInv, WaitsFor, UserPrio
<1>3. /\ lock[target[p]] /\ thread[target[p]] = q
      /\ lock[target[q]] /\ thread[target[q]] = r
  BY DEF WaitsFor
<1>4. q # r
  BY <1>2, <1>3 DEF MInv, LockedHasOwner
<1>5. Below(target[q], target[p]) \/ Below(target[p], target[q])
  BY <1>2, <1>3, <1>4 DEF Nested
<1>6. ~Below(target[p], target[q])
  BY <1>1, <1>2, <1>3 DEF Below
<1>. QED  BY <1>5, <1>6 DEF Below

\* While the system ceiling covers what is locked, no set of threads waits in a
\* circle: along it the ceilings would fall for ever.
THEOREM CoverPreventsCircles == MSpec /\ []CeilingCoversLocks => []NoCircularWait
<1>1. MInit => Nested
  BY DEF MInit, Nested
<1>2. MInv /\ CeilingCoversLocks /\ Nested /\ [MNext]_allVars => Nested'
  BY NestedStep
<1>3. ASSUME MInv, Nested PROVE NoCircularWait
  <2>. SUFFICES ASSUME NEW S \in SUBSET created, S # {},
                       \A p \in S : \E q \in S : WaitsFor(p, q)
                PROVE  FALSE
    BY DEF NoCircularWait
  <2>. DEFINE heights == {ceiling[target[p]] : p \in S}
  <2>1. heights \subseteq Nat /\ heights # {}
    <3>1. ASSUME NEW p \in S PROVE ceiling[target[p]] \in Nat
      <4>1. p \in Prio
        BY <1>3, SchedulerAssumption
           DEF MInv, IInv, PlaceInv, TypeInv, TypeOK, UserPrio, Prio
      <4>2. call[p] # "none"
        <5>1. PICK q \in S : WaitsFor(p, q)
          OBVIOUS
        <5>. QED  BY <5>1 DEF WaitsFor
      <4>. QED  BY <4>2, <1>3, <4>1, MutexAssumption DEF MInv, LockInv, CeilingInv, UserPrio
    <3>. QED  BY <3>1
  <2>2. PICK h \in heights : \A x \in heights : h <= x
    <3>. HIDE DEF heights
    <3>. QED  BY <2>1, MinOfPrios
  <2>3. PICK p \in S : h = ceiling[target[p]]
    BY <2>2
  <2>4. PICK q \in S : WaitsFor(p, q)
    BY <2>3
  <2>5. PICK r \in S : WaitsFor(q, r)
    BY <2>4
  <2>6. ceiling[target[q]] < ceiling[target[p]]
    BY <1>3, <2>3, <2>4, <2>5, WaitDescends
  <2>7. ceiling[target[q]] \in heights
    BY <2>4
  <2>. HIDE DEF heights
  <2>8. h \in Nat /\ ceiling[target[q]] \in Nat /\ h <= ceiling[target[q]]
    BY <2>1, <2>2, <2>7
  <2>. QED  BY <2>3, <2>6, <2>8
<1>. QED  BY <1>1, <1>2, <1>3, MInvariance, PTL DEF MSpec

\* At most two mutexes are registered.
TwoMutexes == \A a, b, c \in mutex_list : a = b \/ a = c \/ b = c

\* With at most two mutexes registered the two ways of computing the system
\* ceiling agree: an unlock leaves one mutex locked at most, and the sum of one
\* ceiling is that ceiling.
THEOREM TwoMutexesCover == MSpec /\ []TwoMutexes => []CeilingCoversLocks
<1>1. MInit => CeilingCoversLocks
  BY DEF MInit, CeilingCoversLocks
<1>2. ASSUME MInv, TwoMutexes, CeilingCoversLocks, [MNext]_allVars
      PROVE  CeilingCoversLocks'
  <2>. USE <1>2 DEF MInv, LockInv
  <2>1. ceiling \in [Mutexes -> Nat] /\ mutex_ceiling \in Nat /\ UserPrio \subseteq Prio
    BY MutexAssumption, SchedulerAssumption DEF CeilingInv, UserPrio, Prio
  <2>2. ASSUME NEW p \in UserPrio, LockDecide(p) PROVE CeilingCoversLocks'
    <3>. DEFINE t == target[p]
    <3>1. t \in Mutexes /\ ceiling' = ceiling
      BY <2>1, <2>2 DEF LockDecide
    <3>2. CASE ~Granted(p, t)
      BY <2>2, <3>1, <3>2 DEF LockDecide, CeilingCoversLocks
    <3>3. CASE Granted(p, t)
      <4>1. lock' = [lock EXCEPT ![t] = TRUE] /\ mutex_ceiling' = CeilingAfterLock(t)
        BY <2>2, <3>3 DEF LockDecide
      <4>. QED  BY <2>1, <3>1, <4>1 DEF CeilingAfterLock, CeilingCoversLocks
    <3>. QED  BY <3>2, <3>3
  <2>3. ASSUME NEW p \in UserPrio, NEW m \in Mutexes, mutex_unlock(p, m)
        PROVE  CeilingCoversLocks'
    <3>1. /\ lock' = [lock EXCEPT ![m] = FALSE] /\ ceiling' = ceiling
          /\ mutex_ceiling' = CeilingAfterUnlock(m) /\ m \in holds[p]
      BY <2>3 DEF mutex_unlock, LockAfterUnlock
    <3>2. SUFFICES ASSUME NEW k \in Mutexes, lock'[k] PROVE mutex_ceiling' = ceiling[k]
      BY <2>1, <3>1 DEF CeilingCoversLocks
    <3>3. k # m /\ lock[k] /\ k \in mutex_list /\ m \in mutex_list
      <4>1. created \subseteq Prio
        BY SchedulerAssumption DEF IInv, PlaceInv, TypeInv, TypeOK, UserPrio, Prio
      <4>2. k # m /\ lock[k]
        BY <3>1, <3>2
      <4>3. thread[k] \in Prio /\ k \in holds[thread[k]]
        BY <4>1, <4>2 DEF LockedHasOwner
      <4>. QED  BY <2>1, <3>1, <4>2, <4>3 DEF CeilingInv
    <3>. DEFINE left == {j \in mutex_list : LockAfterUnlock(m)[j]}
    <3>4. left = {k}
      BY <3>1, <3>2, <3>3 DEF LockAfterUnlock, TwoMutexes
    <3>5. IsFiniteSet(left) /\ \A j \in left : ceiling[j] \in Nat
      BY <2>1, <3>4, FS_Subset DEF CeilingInv
    <3>. HIDE DEF left
    <3>6. MapThenSumSet(LAMBDA j : ceiling[j], left) = ceiling[k]
      BY <3>4, <3>5, CeilingSum
    <3>. QED  BY <3>1, <3>6 DEF CeilingAfterUnlock, left
  <2>4. ASSUME NEW m \in Mutexes, NEW c \in 0 .. MaxCeiling, mutex_init(m, c)
        PROVE  CeilingCoversLocks'
    BY <2>4 DEF mutex_init, CeilingCoversLocks, CeilingInv
  <2>5. ASSUME NEW p \in UserPrio, (\E m \in Mutexes : LockCall(p, m)) \/ LockSeenFree(p)
        PROVE  CeilingCoversLocks'
    BY <2>5 DEF LockCall, LockSeenFree, CeilingCoversLocks
  <2>6. CASE InitThreads \/ OtherCalls \/ MTick \/ UNCHANGED allVars
    BY <2>6 DEF InitThreads, OtherCalls, MTick, allVars, mutexVars, CeilingCoversLocks
  <2>. QED  BY <2>2, <2>3, <2>4, <2>5, <2>6 DEF MNext
<1>. QED  BY <1>1, <1>2, MInvariance, PTL DEF MSpec

\* So two mutexes, whatever their ceilings and whatever number of threads use
\* them in whatever order, keep the ceiling rule and cannot deadlock.
THEOREM TwoMutexesSafe == MSpec /\ []TwoMutexes => CeilingRule /\ []NoCircularWait
BY TwoMutexesCover, CoverGivesRule, CoverPreventsCircles

=============================================================================
