------------------------------ MODULE MCMutex ------------------------------
(***************************************************************************)
(* Small instances of Mutex for TLC.                                        *)
(***************************************************************************)
EXTENDS Mutex, TLC

CONSTANT MaxTime    \* how long the runs look ahead

\* One task shape is enough to preempt, overrun and wait.
MCTaskParams == {[C |-> 1, T |-> 4]}
MCNoSpin == {}

\* State constraint: stay before the time at which the timer word wraps.
BeforeHorizon == time <= MaxTime

\* And let no thread lose the CPU between its last look at the lock word and its
\* decision: that window alone is enough to have two threads past one lock.
DecidesAtOnce ==
  /\ BeforeHorizon
  /\ \A p \in created \ {current_task} : call[p] # "enter"

\* For three mutexes: the lower two of three threads, set up in order, a build
\* without the hoisted load.
LowerTwo ==
  /\ BeforeHorizon
  /\ ~hoisted
  /\ created \subseteq {1, 2}
  /\ phase = "boot" => mutex_list = {} \/ (Cardinality(created) = 2 /\ period[Idle] = 1)
  /\ phase # "halted"

\* The mutexes are interchangeable.
Symmetric == Permutations(Mutexes)
=============================================================================
