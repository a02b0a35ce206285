--------------------------- MODULE RuntimeCreate ---------------------------
(***************************************************************************)
(* Scheduler with threads created while it runs.  swi_c_handler serves      *)
(* thread_create with interrupts on, and its last step, set_run_pool        *)
(* (kernel/src/syscall_thread.c), reads the runnable pool, sets a bit and   *)
(* writes the word back: timer interrupts between the read and the write    *)
(* move threads between the pools behind its back.                          *)
(*                                                                          *)
(* Also here: SWI_ADC_START and SWI_ADC_STOP, which have no case of their   *)
(* own in swi_c_handler and fall through to thread_init.                    *)
(***************************************************************************)
EXTENDS Scheduler

CONSTANT Creators   \* the threads that create others

ASSUME CreatorsAssumption == Creators \subseteq UserPrio

VARIABLES
  creating,   \* the thread a creator is about to put in the pool, or NULL
  word,       \* the runnable pool as the creator read it
  raced       \* auxiliary: a pool word was written back that had gone stale

createVars == <<creating, word, raced>>

RInit == Init /\ creating = [p \in UserPrio |-> NULL]
              /\ word = [p \in UserPrio |-> {}] /\ raced = FALSE

\* The current thread is in its own code, not in the middle of set_run_pool.
Free(p) == InUserCode(p) /\ creating[p] = NULL

\* A program gives each priority to one thread_create only.
Unused(q) == q \notin created /\ \A p \in UserPrio : creating[p] # q

----------------------------------------------------------------------------

\* Mutant: the bit is set before the TCB is filled.
BeginCreateBitFirst(p, q, C, T) ==
  /\ Free(p) /\ p \in Creators /\ Unused(q)
  /\ runnable_pool' = runnable_pool \cup {q}
  /\ created' = created \cup {q}
  /\ creating' = [creating EXCEPT ![p] = q]
  /\ word' = [word EXCEPT ![p] = runnable_pool']
  /\ UNCHANGED <<phase, time, current_task, waiting_pool, tcbVars, spinning, used, raced>>

\* thread_create up to the read of runnable_pool.  No interrupt looks at the
\* TCB of a thread in no pool, so its stores need no steps of their own.  A
\* creator that loses the CPU now keeps its word while others create threads.
BeginCreate(p, q, C, T) ==
  /\ Free(p) /\ p \in Creators /\ Unused(q)
  /\ InitTcb(q, C, T)
  /\ creating' = [creating EXCEPT ![p] = q]
  /\ word' = [word EXCEPT ![p] = runnable_pool]
  /\ UNCHANGED <<phase, time, current_task, poolVars, spinning, created, used, raced>>

\* The write of set_run_pool, with the word read before; thread_create returns.
set_run_pool(p) ==
  /\ phase = "running" /\ current_task = p /\ status[p] = RUNNING
  /\ creating[p] # NULL
  /\ runnable_pool' = word[p] \cup {creating[p]}
  /\ raced' = (raced \/ word[p] # runnable_pool)
  /\ created' = created \cup {creating[p]}
  /\ creating' = [creating EXCEPT ![p] = NULL]
  /\ word' = [word EXCEPT ![p] = {}]
  /\ UNCHANGED <<phase, time, current_task, waiting_pool, tcbVars, spinning, used>>

\* sample_adc_start and sample_adc_stop with two non-zero arguments: thread_init.
sample_adc(p) ==
  /\ Free(p)
  /\ InitTcb(Idle, IdleComputation, 1)
  /\ UNCHANGED <<phase, time, current_task, poolVars, spinning, created, used, createVars>>

\* The actions of Scheduler; a thread inside set_run_pool makes no other call.
SchedulerStep ==
  /\ Next
  /\ current_task \in UserPrio /\ creating[current_task] # NULL
       => time' # time
  /\ UNCHANGED createVars

RNext ==
  \/ SchedulerStep
  \/ \E p, q \in UserPrio, c \in TaskParams : BeginCreate(p, q, c.C, c.T)
  \/ \E p \in UserPrio : set_run_pool(p)
  \/ \E p \in UserPrio : sample_adc(p)

rvars == <<vars, createVars>>
RSpec == RInit /\ [][RNext]_rvars

----------------------------------------------------------------------------
(* Properties.                                                              *)

\* The stale word is the only hazard of creating threads, or of a stray ADC
\* call, while the scheduler runs: unless one was written back, every created
\* thread is in exactly one place and its status word agrees, with interrupts
\* taken anywhere in thread_create.
LostOnlyByRace == ~raced => NoLostThread

\* Nor do they disturb the release times and budgets of any thread.  A thread
\* created late has wakeup time 0: it is released at once for every period
\* since the start, one job after the other, until it has caught up.
KeptUnlessRaced == ~raced => ReleaseTimely /\ BudgetBound

\* In no pool and not on the CPU.
Lost(p) == phase = "running" /\ p \in created
             /\ p \notin runnable_pool \cup waiting_pool \cup {current_task}

\* The creators that still have to write back a word with p in it.
Holders(p) == {r \in UserPrio : creating[r] # NULL /\ p \in word[r]}

\* No interrupt and no system call of its own brings a lost thread back: the
\* release loop and the search read only the pools.  It comes back by accident
\* or not at all, when a creator that read the pool before the thread was lost
\* writes its word, stale as well; and no creator that reads later has it.
OnlyStaleWordFinds ==
  [][\A p \in UserPrio : Lost(p) /\ phase' = "running" =>
        IF Lost(p)' THEN Holders(p)' \subseteq Holders(p)
                    ELSE Holders(p) \ Holders(p)' # {}]_rvars

\* Whatever the race has done to the pools, each tick gives the CPU to a thread
\* with no runnable thread above it: a thread created with the highest priority
\* runs from the next tick on, not from the creator's next wait.
DispatchedAtTick ==
  [][time' # time => (current_task' # Idle =>
                        \A p \in runnable_pool' \cap UserPrio : current_task' < p)]_rvars

=============================================================================
