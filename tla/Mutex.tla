------------------------------- MODULE Mutex -------------------------------
(***************************************************************************)
(* The mutexes of kernel/src/syscall_thread.c, on top of Scheduler: the     *)
(* calls of several threads interleave as timer interrupts let them.        *)
(*                                                                          *)
(* mutex_lock spins on the lock word with interrupts on, then takes one     *)
(* decision with interrupts off and returns, whatever it decided; a thread  *)
(* can lose the CPU between the two.  The regions with interrupts off are   *)
(* single steps: there is one CPU.                                          *)
(*                                                                          *)
(* The spin "while (mutex->lock){;}" reads a plain int.  The compiler may   *)
(* load it once, before the loop: whether it did is a property of the       *)
(* build, chosen in the initial state (hoisted).                            *)
(***************************************************************************)
EXTENDS Scheduler

CONSTANTS
  Mutexes,     \* the mutex_t objects of the program
  NoMutex,     \* not a mutex
  MaxCeiling   \* bound on the ceilings a program passes to mutex_init

ASSUME MutexAssumption ==
  /\ NoMutex \notin Mutexes
  /\ MaxCeiling \in UserPrio

VARIABLES
  mutex_list,      \* the mutexes registered by mutex_init
  lock, ceiling, thread,    \* the fields of the mutex_t objects
  mutex_ceiling,   \* the system ceiling
  curr_priority,   \* TCB field: the priority that locking compares
  call, target,    \* where a thread is inside mutex_lock, and of what mutex
  hoisted,         \* the spin loop of this build reads the lock word once
  holds            \* auxiliary: mutexes a thread has locked, as it believes

mutexVars == <<mutex_list, lock, ceiling, thread, mutex_ceiling, curr_priority,
               call, target, hoisted, holds>>

MInit ==
  /\ Init
  /\ mutex_list = {}
  /\ lock    = [m \in Mutexes |-> FALSE]
  /\ ceiling = [m \in Mutexes |-> 0]
  /\ thread  = [m \in Mutexes |-> NULL]
  /\ mutex_ceiling = Idle
  /\ curr_priority = [p \in Prio |-> 0]
  /\ call    = [p \in Prio |-> "none"]
  /\ target  = [p \in Prio |-> NoMutex]
  /\ hoisted \in BOOLEAN
  /\ holds   = [p \in Prio |-> {}]

----------------------------------------------------------------------------
(* Set-up.                                                                  *)

\* thread_init and thread_create also set the priority used for locking.
InitThreads ==
  /\ \/ thread_init /\ curr_priority' = [curr_priority EXCEPT ![Idle] = Idle]
     \/ \E p \in UserPrio, c \in TaskParams :
          /\ thread_create(p, c.C, c.T)
          /\ curr_priority' = [curr_priority EXCEPT ![p] = p]
  /\ UNCHANGED <<mutex_list, lock, ceiling, thread, mutex_ceiling, call,
                 target, hoisted, holds>>

mutex_init(m, max_prio) ==
  /\ phase = "boot"
  /\ m \notin mutex_list      \* "will only be called once"
  /\ mutex_list' = mutex_list \cup {m}
  /\ lock'    = [lock EXCEPT ![m] = FALSE]
  /\ ceiling' = [ceiling EXCEPT ![m] = max_prio]
  /\ thread'  = [thread EXCEPT ![m] = NULL]
  /\ UNCHANGED <<vars, mutex_ceiling, curr_priority, call, target, hoisted, holds>>

----------------------------------------------------------------------------
(* mutex_lock and mutex_unlock, called by the current thread.               *)

\* The thread is in its own code, in no call.
Free(p) == InUserCode(p) /\ call[p] = "none"

\* The call and its first look at the lock word.  The program only locks what
\* it may: "max_prio: the maximum priority of a thread which could use".
LockCall(p, m) ==
  /\ Free(p)
  /\ m \in mutex_list \ holds[p]
  /\ ceiling[m] <= p
  /\ call' = [call EXCEPT ![p] = IF ~lock[m] THEN "enter"
                                 ELSE IF hoisted THEN "stuck" ELSE "spin"]
  /\ target' = [target EXCEPT ![p] = m]
  /\ UNCHANGED <<vars, mutex_list, lock, ceiling, thread, mutex_ceiling,
                 curr_priority, hoisted, holds>>

\* A later look finds the mutex free: the spin loop ends.
LockSeenFree(p) ==
  /\ InUserCode(p)
  /\ call[p] = "spin" /\ ~lock[target[p]]
  /\ call' = [call EXCEPT ![p] = "enter"]
  /\ UNCHANGED <<vars, mutex_list, lock, ceiling, thread, mutex_ceiling,
                 curr_priority, target, hoisted, holds>>

\* Mutant: no look at the system ceiling.
GrantedAlways(p, m) == ceiling[m] <= curr_priority[p]

\* The rule that decides whether the mutex is taken.
Granted(p, m) == ceiling[m] <= curr_priority[p] /\ curr_priority[p] < mutex_ceiling

\* Mutant: the system ceiling is left alone.
CeilingAfterLockKept(m) == mutex_ceiling

\* A granted mutex lowers the system ceiling to its own.
CeilingAfterLock(m) == IF ceiling[m] < mutex_ceiling THEN ceiling[m] ELSE mutex_ceiling

\* The part with interrupts off, and the return.
LockDecide(p) ==
  LET m == target[p] IN
  /\ InUserCode(p)
  /\ call[p] = "enter"
  /\ IF Granted(p, m)
       THEN /\ lock' = [lock EXCEPT ![m] = TRUE]
            /\ thread' = [thread EXCEPT ![m] = p]
            /\ mutex_ceiling' = CeilingAfterLock(m)
       ELSE UNCHANGED <<lock, thread, mutex_ceiling>>
  /\ call' = [call EXCEPT ![p] = "none"]
  /\ target' = [target EXCEPT ![p] = NoMutex]
  /\ holds' = [holds EXCEPT ![p] = @ \cup {m}]
  /\ UNCHANGED <<vars, mutex_list, ceiling, curr_priority, hoisted>>

\* Mutant: unlocking clears the owner only.
LockAfterUnlockKept(m) == lock
LockAfterUnlock(m) == [lock EXCEPT ![m] = FALSE]

\* Mutant: the system ceiling is kept up by subtraction.
CeilingSubtracted(m) == mutex_ceiling - ceiling[m]

\* The new system ceiling: the ceilings of the mutexes still locked, added up.
CeilingAfterUnlock(m) ==
  MapThenSumSet(LAMBDA k : ceiling[k], {k \in mutex_list : LockAfterUnlock(m)[k]})

mutex_unlock(p, m) ==
  /\ Free(p)
  /\ m \in holds[p]
  /\ lock' = LockAfterUnlock(m)
  /\ thread' = [thread EXCEPT ![m] = NULL]
  /\ curr_priority' = [curr_priority EXCEPT ![p] = p]
  /\ mutex_ceiling' = CeilingAfterUnlock(m)
  /\ holds' = [holds EXCEPT ![p] = @ \ {m}]
  /\ UNCHANGED <<vars, mutex_list, ceiling, call, target, hoisted>>

----------------------------------------------------------------------------
(* The rest of the kernel.                                                  *)

OtherCalls ==
  /\ \/ scheduler_start
     \/ \E p \in UserPrio : Free(p) /\ wait_until_next_period(p)
     \/ \E p \in UserPrio, ms \in SpinTimes : Free(p) /\ spin_wait(p, ms)
     \/ \E p \in UserPrio : SpinReturn(p)
     \/ phase = "boot" /\ syscall_exit
     \/ (\E p \in UserPrio : Free(p)) /\ syscall_exit
     \/ Hang
  /\ UNCHANGED mutexVars

\* The timer interrupt: it finds interrupts on, between any two steps above.
MTick == Tick /\ UNCHANGED mutexVars

MNext ==
  \/ InitThreads
  \/ \E m \in Mutexes, c \in 0 .. MaxCeiling : mutex_init(m, c)
  \/ \E p \in UserPrio, m \in Mutexes : LockCall(p, m)
  \/ \E p \in UserPrio : LockSeenFree(p)
  \/ \E p \in UserPrio : LockDecide(p)
  \/ \E p \in UserPrio, m \in Mutexes : mutex_unlock(p, m)
  \/ OtherCalls
  \/ MTick

allVars == <<vars, mutexVars>>

MSpec == MInit /\ [][MNext]_allVars

----------------------------------------------------------------------------
(* Properties.                                                              *)

MTypeOK ==
  /\ mutex_list \subseteq Mutexes
  /\ lock \in [Mutexes -> BOOLEAN]
  /\ ceiling \in [Mutexes -> 0 .. MaxCeiling]
  /\ thread \in [Mutexes -> Prio \cup {NULL}]
  /\ mutex_ceiling \in Nat
  /\ curr_priority \in [Prio -> Prio]
  /\ call \in [Prio -> {"none", "spin", "stuck", "enter"}]
  /\ target \in [Prio -> Mutexes \cup {NoMutex}]
  /\ hoisted \in BOOLEAN
  /\ holds \in [Prio -> SUBSET Mutexes]

\* No lock leaks: the owner on record of a locked mutex is a thread whose lock
\* call returned and that has still to unlock it, whatever other threads that
\* entered without a grant have unlocked meanwhile.
LockedHasOwner ==
  \A m \in Mutexes : lock[m] => thread[m] \in created /\ m \in holds[thread[m]]

\* The ceiling rule: a thread is granted a mutex only while its priority is
\* higher than the ceiling of every mutex another thread has locked; so, with
\* the race between the spin and the decision, no mutex is ever granted twice.
\* (Two mutexes: with three, a run below shows it broken.)
CeilingRule ==
  [][\A m \in Mutexes : (thread'[m] # thread[m] /\ lock'[m])
       => /\ ~lock[m]
          /\ \A k \in Mutexes :
               (lock[k] /\ thread[k] # thread'[m]) => thread'[m] < ceiling[k]]_allVars

\* The system ceiling in force is never above that of a locked mutex: the two
\* ways to compute it, on lock and on unlock, agree on that.
CeilingCoversLocks == \A m \in Mutexes : lock[m] => mutex_ceiling <= ceiling[m]

\* Thread p spins on a mutex that thread q is on record as holding.
WaitsFor(p, q) ==
  /\ call[p] \in {"spin", "stuck"}
  /\ lock[target[p]] /\ thread[target[p]] = q

\* No deadlock: no threads each spin on a mutex that another of them holds.
\* Nothing orders the locks of a program; only the ceiling rule, which refuses a
\* second mutex that could close a circle, keeps its threads apart.
NoCircularWait ==
  \A S \in SUBSET created : S # {} => \E p \in S : \A q \in S : ~WaitsFor(p, q)

----------------------------------------------------------------------------
(* What the documentation promises and the code does not keep.              *)

\* syscalls.h: mutex_lock "will not return (may block) until the current thread
\* has exclusive rights to the mutex": no two threads are past the lock call of
\* one mutex.
MutualExclusion ==
  \A p, q \in created : p # q => holds[p] \cap holds[q] = {}

=============================================================================
