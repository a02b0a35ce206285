----------------------------- MODULE Scheduler -----------------------------
(***************************************************************************)
(* The periodic, fixed-priority thread scheduler of the lab 3 kernel        *)
(* (kernel/src/syscall_thread.c), with the timer interrupt that drives it   *)
(* (kernel.c, timer.c) and the system calls that change scheduling state:   *)
(* thread_init, thread_create, scheduler_start, wait_until_next_period,     *)
(* spin_wait and syscall_exit.                                              *)
(*                                                                          *)
(* A thread is its priority, the index of its TCB in tcb_list.  The idle    *)
(* TCB is number Idle (31 in the code), user threads are 0 .. Idle-1, and   *)
(* the two 32-bit pools are the sets of their 1 bits.  Times are unsigned   *)
(* words (2^32 values in the code, WordSize here).  User code runs between  *)
(* two timer interrupts: the current thread may take any number of system   *)
(* calls, or none, before the next Tick.                                    *)
(***************************************************************************)
EXTENDS Integers, FiniteSets, FiniteSetsExt

CONSTANTS
  Idle,             \* index and priority of the idle TCB: THREAD_NUM - 1
  WordSize,         \* number of values of an unsigned int: 2^32
  IdleComputation,  \* the budget thread_init gives the idle TCB: 100000
  TaskParams,       \* the (C, T) pairs a program may create threads with
  SpinTimes,        \* the arguments a program may give spin_wait
  SleepCap          \* sleep counts are told apart up to this value only

ASSUME SchedulerAssumption ==
  /\ Idle \in Nat \ {0}
  /\ WordSize \in Nat \ {0, 1}
  /\ IdleComputation \in Nat
  /\ TaskParams \subseteq [C : Nat, T : 0 .. WordSize - 1]
  /\ SleepCap \in Nat
  /\ SpinTimes \subseteq 0 .. SleepCap

UserPrio == 0 .. Idle - 1
Prio     == 0 .. Idle
Word     == 0 .. WordSize - 1
NULL     == -1

\* The three values of tcb_t.status; a TCB nobody initialised holds 0.
WAITING  == 0
RUNNABLE == 1
RUNNING  == 2

VARIABLES
  phase,          \* "boot": main() sets up; "running": timer on; "halted"
  time,           \* the system timer
  current_task,   \* the TCB that owns the CPU, or NULL
  runnable_pool, waiting_pool,
  status, computation, period, wakeup, execution, sleep,   \* TCB fields
  spinning,       \* the ms of the spin_wait call a thread is inside, else 0
  created,        \* auxiliary: the priorities given to thread_create
  used            \* auxiliary: ticks charged to a thread since its release

tcbVars == <<status, computation, period, wakeup, execution, sleep>>
poolVars == <<runnable_pool, waiting_pool>>
vars == <<phase, time, current_task, poolVars, tcbVars, spinning, created, used>>

Init ==
  /\ phase = "boot"
  /\ time = 0
  /\ current_task = NULL
  /\ runnable_pool = {} /\ waiting_pool = {}
  /\ status      = [p \in Prio |-> WAITING]
  /\ computation = [p \in Prio |-> 0]
  /\ period      = [p \in Prio |-> 0]
  /\ wakeup      = [p \in Prio |-> 0]
  /\ execution   = [p \in Prio |-> 0]
  /\ sleep       = [p \in Prio |-> 0]
  /\ spinning    = [p \in Prio |-> 0]
  /\ created = {}
  /\ used = [p \in Prio |-> 0]

----------------------------------------------------------------------------
(* Set-up: main() runs in user mode with the timer off.                     *)

\* Fills TCB p as thread_init and thread_create do.
InitTcb(p, C, T) ==
  /\ computation' = [computation EXCEPT ![p] = C]
  /\ period'      = [period      EXCEPT ![p] = T]
  /\ status'      = [status      EXCEPT ![p] = RUNNABLE]
  /\ wakeup'      = [wakeup      EXCEPT ![p] = 0]
  /\ execution'   = [execution   EXCEPT ![p] = 0]
  /\ sleep'       = [sleep       EXCEPT ![p] = 0]

thread_init ==
  /\ phase = "boot"
  /\ InitTcb(Idle, IdleComputation, 1)
  /\ UNCHANGED <<phase, time, current_task, poolVars, spinning, created, used>>

thread_create(p, C, T) ==
  /\ phase = "boot"
  /\ InitTcb(p, C, T)
  /\ runnable_pool' = runnable_pool \cup {p}
  /\ created' = created \cup {p}
  /\ UNCHANGED <<phase, time, current_task, waiting_pool, spinning, used>>

\* utilization_list, in millionths: the Liu-Layland bound n(2^(1/n) - 1).
utilization_list ==
  <<0, 1000000, 828427, 779763, 756828, 743492, 734772, 728627, 724062,
    720538, 717735, 715452, 713557, 711959, 710593, 709412, 708381,
    707472, 706666, 705946, 705298, 704713, 704182, 703698, 703254,
    702846, 702469, 702121, 701798, 701497, 701217, 700955, 700709>>

\* The floating-point admission test "!(utest > utilization_list[n])" over
\* the runnable threads, in exact arithmetic.  A term 0/0 is NaN and makes
\* the comparison false; C/0 with C > 0 is infinite and makes it true.
Admitted(S) ==
  LET Den  == FoldSet(LAMBDA p, d : d * period[p], 1, S)
      Load == MapThenSumSet(LAMBDA p : computation[p] * (Den \div period[p]), S)
  IN  IF \E p \in S : period[p] = 0
        THEN \E p \in S : period[p] = 0 /\ computation[p] = 0
        ELSE Load * 1000000 <= utilization_list[Cardinality(S) + 1] * Den

\* The idle TCB becomes current, whether or not the test admits the threads;
\* on success the timer starts and the call never returns: it stays in
\* "while(1)", the code the first Tick interrupts.
scheduler_start ==
  /\ phase = "boot"
  /\ period[Idle] = 1         \* thread_init "must" have been called before
  /\ current_task' = Idle
  /\ execution' = [execution EXCEPT ![Idle] = 0]
  /\ status' = [status EXCEPT ![Idle] = RUNNING]
  /\ IF Admitted(runnable_pool \cap UserPrio)
       THEN phase' = "running" /\ time' = 0
       ELSE UNCHANGED <<phase, time>>
  /\ UNCHANGED <<poolVars, computation, period, wakeup, sleep, spinning,
                 created, used>>

----------------------------------------------------------------------------
(* System calls of the current thread.                                      *)

\* The current thread is a user thread in its own code.  The idle TCB never
\* is: its context is the loop at the end of scheduler_start.
InUserCode(p) ==
  /\ phase = "running"
  /\ current_task = p
  /\ status[p] = RUNNING
  /\ spinning[p] = 0

\* The thread then spins while its status is WAITING; the loop ends when the
\* scheduler makes it RUNNING again, so the return needs no step of its own.
wait_until_next_period(p) ==
  /\ InUserCode(p)
  /\ status' = [status EXCEPT ![p] = WAITING]
  /\ UNCHANGED <<phase, time, current_task, poolVars, computation, period,
                 wakeup, execution, sleep, spinning, created, used>>

spin_wait(p, ms) ==
  /\ InUserCode(p)
  /\ sleep' = [sleep EXCEPT ![p] = 0]
  /\ spinning' = [spinning EXCEPT ![p] = ms]
  /\ UNCHANGED <<phase, time, current_task, poolVars, status, computation,
                 period, wakeup, execution, created, used>>

SpinReturn(p) ==
  /\ phase = "running" /\ current_task = p /\ status[p] = RUNNING
  /\ spinning[p] > 0 /\ sleep[p] >= spinning[p]
  /\ spinning' = [spinning EXCEPT ![p] = 0]
  /\ UNCHANGED <<phase, time, current_task, poolVars, tcbVars, created, used>>

\* syscall_exit, from main() or from a thread: interrupts off, then a loop.
syscall_exit ==
  /\ \/ phase = "boot"
     \/ \E p \in UserPrio : InUserCode(p)
  /\ phase' = "halted"
  /\ UNCHANGED <<time, current_task, poolVars, tcbVars, spinning, created, used>>

\* The "while(1)" of syscall_exit.
Hang == phase = "halted" /\ UNCHANGED vars

----------------------------------------------------------------------------
(* The timer interrupt: irq_c_handler, call_scheduler, find_next_task.      *)

\* Mutant: a timer counted in a wider word than the one kept.
NowUnbounded == time + 1
Now == (time + 1) % WordSize

\* Mutant: ">" for ">=".
RanOutLate == /\ status[current_task] = RUNNING
              /\ execution[current_task] > computation[current_task]

\* The budget test reads the counter before this tick is added to it.
RanOut == /\ status[current_task] = RUNNING
          /\ execution[current_task] >= computation[current_task]

\* The job of the current thread ends: budget spent, or it called wait.
JobEnds == RanOut \/ status[current_task] = WAITING

WakeupAfter ==
  IF JobEnds
    THEN [wakeup EXCEPT ![current_task] = (@ + period[current_task]) % WordSize]
    ELSE wakeup

\* The waiting pool once the interrupted thread is accounted for.
Waiters == (waiting_pool \ {current_task})
             \cup (IF JobEnds THEN {current_task} ELSE {})

\* Mutants: ">" for ">="; the loop stops one thread short; no is_waiting test.
ExpiredStrict == {i \in Waiters \cap UserPrio : Now > WakeupAfter[i]}
ExpiredShort ==
  {i \in Waiters \cap UserPrio : i # Idle - 1 /\ Now >= WakeupAfter[i]}

ExpiredAny == {i \in created : Now >= WakeupAfter[i] /\ i # current_task}

\* The waiting user threads whose next period has begun.
Expired == {i \in Waiters \cap UserPrio : Now >= WakeupAfter[i]}

\* Mutants: the release loop forgets set_run_pool, or clear_wait_pool.
RunnableAfterNoSet ==
  IF JobEnds THEN runnable_pool \ {current_task}
             ELSE runnable_pool \cup {current_task}
WaitingAfterNoClear == Waiters

\* The pools when find_next_task looks for a thread.
RunnableAfter ==
  (IF JobEnds THEN runnable_pool \ {current_task}
              ELSE runnable_pool \cup {current_task}) \cup Expired
WaitingAfter == Waiters \ Expired

\* Mutants: "<" for "<=", and a search that stops one thread short.
EligibleStrict == {j \in RunnableAfter \cap UserPrio : j < current_task}
EligibleShort ==
  {j \in RunnableAfter \cap UserPrio : j <= current_task /\ j < Idle - 1}

\* The user threads the search accepts: not below the interrupted thread.
Eligible == {j \in RunnableAfter \cap UserPrio : j <= current_task}

\* Mutant: the search runs downwards.
LowestFirst == IF Eligible = {} THEN Idle ELSE Max(Eligible)
find_next_task == IF Eligible = {} THEN Idle ELSE Min(Eligible)

\* Mutant: call_scheduler does not ask whether the thread waits.
PreemptedAlways == find_next_task # current_task

\* call_scheduler puts a thread it takes the CPU from back in the pool.
Preempted == find_next_task # current_task /\ current_task \notin WaitingAfter

NewStatus(p) ==
  IF p = find_next_task THEN RUNNING
  ELSE IF p \in Expired \/ (p = current_task /\ Preempted) THEN RUNNABLE
  ELSE IF p = current_task /\ JobEnds THEN WAITING
  ELSE status[p]

\* Mutant: a thread starts with a full budget whenever it gets the CPU.
NewExecutionOnSwitch(p) ==
  IF p \in Expired \/ (p = current_task /\ JobEnds) THEN 0
  ELSE IF p = find_next_task /\ p # current_task THEN 0
  ELSE IF p = current_task THEN execution[p] + 1
  ELSE execution[p]

NewExecution(p) ==
  IF p \in Expired \/ (p = current_task /\ JobEnds) THEN 0
  ELSE IF p = current_task THEN execution[p] + 1
  ELSE execution[p]

\* Mutant: the spin count is cleared with the budget.
NewSleepPerJob(p) ==
  IF p \in Expired THEN 0
  ELSE IF p = current_task /\ status[p] = RUNNING /\ sleep[p] < SleepCap
    THEN sleep[p] + 1
    ELSE sleep[p]

\* spin_wait compares the count with its argument, so it stops at SleepCap.
NewSleep(p) ==
  IF p = current_task /\ status[p] = RUNNING /\ sleep[p] < SleepCap
    THEN sleep[p] + 1
    ELSE sleep[p]

Tick ==
  /\ phase = "running"
  /\ time' = Now
  /\ current_task' = find_next_task
  /\ wakeup' = WakeupAfter
  /\ execution' = [p \in Prio |-> NewExecution(p)]
  /\ sleep' = [p \in Prio |-> NewSleep(p)]
  /\ status' = [p \in Prio |-> NewStatus(p)]
  /\ LET back == IF Preempted THEN {current_task} ELSE {}
     IN  /\ runnable_pool' = (RunnableAfter \cup back) \ {find_next_task}
         /\ waiting_pool' = WaitingAfter \ (back \cup {find_next_task})
  /\ used' = [p \in Prio |-> IF p \in Expired \/ p = Idle THEN 0
                             ELSE IF p = current_task THEN used[p] + 1
                             ELSE used[p]]
  /\ UNCHANGED <<phase, computation, period, spinning, created>>

----------------------------------------------------------------------------

Next ==
  \/ thread_init
  \/ \E p \in UserPrio, c \in TaskParams : thread_create(p, c.C, c.T)
  \/ scheduler_start
  \/ \E p \in UserPrio : wait_until_next_period(p)
  \/ \E p \in UserPrio, ms \in SpinTimes : spin_wait(p, ms)
  \/ \E p \in UserPrio : SpinReturn(p)
  \/ syscall_exit
  \/ Hang
  \/ Tick

Spec == Init /\ [][Next]_vars

\* The timer interrupts periodically for ever, and a thread that owns the CPU
\* and may leave its spin loop does so: between two ticks it executes many
\* instructions, so a thread scheduled again and again leaves the loop.
LiveSpec == Spec /\ WF_vars(Tick) /\ \A p \in UserPrio : SF_vars(SpinReturn(p))

\* The behaviours in which every thread keeps to its budget: a job calls
\* wait_until_next_period within its first C ticks.
WithinBudget ==
  \/ current_task = Idle
  \/ status[current_task] = WAITING /\ execution[current_task] < computation[current_task]
  \/ execution[current_task] + 1 < computation[current_task]
BehavedNext == Next /\ (time' # time => WithinBudget)
BehavedSpec == Init /\ [][BehavedNext]_vars

----------------------------------------------------------------------------
(* Invariants.                                                              *)

TypeOK ==
  /\ phase \in {"boot", "running", "halted"}
  /\ time \in Word
  /\ current_task \in Prio \cup {NULL}
  /\ runnable_pool \subseteq Prio
  /\ waiting_pool \subseteq Prio
  /\ status \in [Prio -> {WAITING, RUNNABLE, RUNNING}]
  /\ computation \in [Prio -> Nat]
  /\ period \in [Prio -> Word]
  /\ wakeup \in [Prio -> Word]
  /\ execution \in [Prio -> Nat]
  /\ sleep \in [Prio -> 0 .. SleepCap]
  /\ spinning \in [Prio -> 0 .. SleepCap]
  /\ created \subseteq UserPrio
  /\ used \in [Prio -> Nat]

\* No created thread is ever lost or held twice: once the scheduler runs it is
\* the current one, or in the runnable pool, or in the waiting pool, and in one
\* of them only; its status word agrees with the place, except that the
\* current thread is WAITING from its wait call to the next tick; no TCB that
\* was not created enters a pool.  (The pool updates of find_next_task and
\* call_scheduler, which together move a thread up to three times a tick.)
NoLostThread ==
  phase = "running" =>
    /\ runnable_pool \cap waiting_pool = {}
    /\ current_task \notin runnable_pool \cup waiting_pool
    /\ (runnable_pool \cup waiting_pool \cup {current_task}) \cap UserPrio = created
    /\ \A p \in created :
         /\ p \in runnable_pool => status[p] = RUNNABLE
         /\ p \in waiting_pool  => status[p] = WAITING
         /\ p = current_task    => status[p] # RUNNABLE

\* While a user thread has the CPU no runnable thread has a higher priority
\* (a lower number): the search of find_next_task and the release loop before
\* it leave no better candidate behind.
DispatchOrder ==
  (phase = "running" /\ current_task # Idle)
    => \A p \in runnable_pool \cap UserPrio : current_task < p

\* Release times do not drift, and releases are neither early nor late: the
\* wakeup time of a thread is a whole number of periods, a thread in the
\* waiting pool has not reached it, one outside the pool has, however often it
\* was preempted, overran or waited.  True until the timer word wraps.
ReleaseTimely ==
  phase = "running" =>
    \A p \in created :
      /\ \E k \in 0 .. wakeup[p] : wakeup[p] = k * period[p]
      /\ IF p \in waiting_pool THEN time < wakeup[p] ELSE wakeup[p] <= time

\* Between two releases a thread is charged at most one tick more than its
\* computation time, whatever mix of preemption, spinning and waiting the job
\* goes through (the enforcement in find_next_task).
BudgetBound ==
  phase = "running" => \A p \in created : used[p] <= computation[p] + 1

----------------------------------------------------------------------------
(* What a step may never do.                                                *)

\* A thread loses the CPU in the middle of its job only to a runnable thread
\* of higher priority, never to the idle thread.
PreemptedOnlyByHigher ==
  [][(phase = "running" /\ current_task' # current_task
        /\ current_task \notin waiting_pool')
      => current_task' < current_task]_vars

\* The idle thread keeps the CPU over a tick only if no user thread is
\* runnable: work that idle holds up waits for one tick at most.
IdleGivesWay ==
  [][(Tick /\ current_task = Idle /\ current_task' = Idle)
      => runnable_pool' \cap UserPrio = {}]_vars

----------------------------------------------------------------------------
(* The abstract scheduler that this one implements: a task is ready when its *)
(* thread is outside the waiting pool, whatever its status word says.        *)

PT == INSTANCE PeriodicTasks
        WITH mode <- phase, now <- time, tasks <- created, every <- period,
             cpu <- current_task, ready <- created \ waiting_pool, due <- wakeup

\* Every step of the kernel is a step of PeriodicTasks or changes nothing it
\* can see: the pools, status words and counters of call_scheduler and
\* find_next_task together keep the promise to periodic tasks.
ImplementsPeriodicTasks == PT!Spec

----------------------------------------------------------------------------
(* Liveness, under LiveSpec.                                                *)

\* A thread that waits for its next period is woken, also across a wrap of
\* the timer word: it gets back into the runnable pool or onto the CPU.
WaiterIsReleased ==
  \A p \in UserPrio :
    (phase = "running" /\ p \in waiting_pool)
      ~> (p \notin waiting_pool \/ phase = "halted")

\* spin_wait of the highest-priority thread returns even when it is longer
\* than the budget of one job: the count survives the suspensions.
TopSpinReturns ==
  \A p \in UserPrio :
    (phase = "running" /\ spinning[p] > 0 /\ \A q \in created : p <= q)
      ~> (spinning[p] = 0 \/ phase = "halted")

\* The CPU always comes back to the highest-priority thread.
TopThreadRuns ==
  \A p \in UserPrio :
    (phase = "running" /\ p \in created /\ \A q \in created : p <= q)
      ~> (current_task = p \/ phase = "halted")

----------------------------------------------------------------------------
(* What the documentation promises and the code does not keep.              *)

\* syscalls.h: the kernel tests that the task set "is scheduleable before
\* running": when priorities are rate monotonic, as the admission test
\* presumes, and every thread keeps to its budget (BehavedSpec), a job of an
\* admitted set ends by the end of its period, give or take the tick that
\* passes before the first dispatch.
DeadlinesKept ==
  (phase = "running" /\ \A p, q \in created : p < q => period[p] <= period[q])
    => \A p \in created \ waiting_pool : time <= wakeup[p] + period[p]

=============================================================================
