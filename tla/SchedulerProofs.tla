-------------------------- MODULE SchedulerProofs --------------------------
(***************************************************************************)
(* Proofs about Scheduler for every number of threads, word size and task   *)
(* set.  The invariants of the model-checked runs are conjuncts of IInv,    *)
(* strengthened by what main() leaves behind (BootState) and by how the     *)
(* budget counter follows the ticks a job is charged (BudgetInv).           *)
(***************************************************************************)
EXTENDS Scheduler, WellFoundedInduction, TLAPS

\* The search of find_next_task is well defined: a non-empty set of thread
\* numbers has a least element.
LEMMA MinOfPrios ==
  ASSUME NEW S \in SUBSET Nat, S # {}
  PROVE  /\ Min(S) \in S
         /\ \A x \in S : Min(S) <= x
<1>. DEFINE LT == {ss \in Nat \X Nat : ss[1] < ss[2]}
<1>1. IsWellFoundedOn(LT, Nat)
  BY NatLessThanWellFounded, Zenon DEF OpToRel
<1>2. PICK x \in S : \A y \in S : ~ (<<y, x>> \in LT)
  <2>. HIDE DEF LT
  <2>. QED  BY <1>1, WFMin
<1>3. ASSUME NEW y \in S PROVE x <= y
  <2>1. <<y, x>> \in Nat \X Nat /\ <<y, x>>[1] = y /\ <<y, x>>[2] = x
    OBVIOUS
  <2>2. y < x => <<y, x>> \in LT
    BY <2>1
  <2>. QED  BY <1>2, <2>2
<1>. QED
  BY <1>3 DEF Min

\* Words stay words.
LEMMA ModWord ==
  ASSUME NEW a \in Nat
  PROVE  a % WordSize \in Word
BY SchedulerAssumption DEF Word

\* The arguments of thread_create are numbers, its period a word.
LEMMA ParamTypes ==
  ASSUME NEW p \in UserPrio, NEW c \in TaskParams
  PROVE  p \in Prio /\ c.C \in Nat /\ c.T \in Word
<1>1. p \in Prio
  BY SchedulerAssumption DEF Prio, UserPrio
<1>2. c \in [C : Nat, T : Word]
  BY SchedulerAssumption DEF Word
<1>. QED  BY <1>1, <1>2

\* Idle is a thread number, and a word has room for 0 and 1.
LEMMA Ends == Idle \in Prio /\ 0 \in Word /\ 1 \in Word
BY SchedulerAssumption DEF Prio, Word

----------------------------------------------------------------------------
(* The inductive invariant.                                                 *)

TypeInv == TypeOK /\ (phase = "running" => current_task \in Prio)

\* What main() has set up before scheduler_start.
BootState ==
  phase = "boot" =>
    /\ waiting_pool = {}
    /\ runnable_pool = created
    /\ \A p \in created : status[p] = RUNNABLE /\ wakeup[p] = 0 /\ execution[p] = 0
    /\ \A p \in Prio : used[p] = 0

\* Until its job ends a thread has been charged exactly its execution count.
BudgetInv ==
  phase = "running" =>
    \A p \in created :
      IF p \in waiting_pool THEN used[p] <= computation[p] + 1
      ELSE used[p] = execution[p] /\ execution[p] <= computation[p]

\* The place and the budget of every thread; this part does not need the order
\* of dispatch, which threads created late disturb.
PlaceInv == TypeInv /\ BootState /\ NoLostThread /\ BudgetInv

IInv == PlaceInv /\ DispatchOrder

\* The thread find_next_task returns.
LEMMA NextTask ==
  ASSUME TypeInv, phase = "running"
  PROVE  /\ find_next_task \in Prio
         /\ Eligible = {}  => find_next_task = Idle
         /\ Eligible # {} => /\ find_next_task \in Eligible
                             /\ \A j \in Eligible : find_next_task <= j
<1>1. Eligible \in SUBSET Nat
  BY SchedulerAssumption DEF Eligible, UserPrio
<1>2. Idle \in Prio /\ Eligible \subseteq Prio
  BY SchedulerAssumption DEF Eligible, UserPrio, Prio
<1>3. CASE Eligible = {}
  BY <1>2, <1>3 DEF find_next_task
<1>4. CASE Eligible # {}
  <2>1. Min(Eligible) \in Eligible /\ \A j \in Eligible : Min(Eligible) <= j
    BY <1>1, <1>4, MinOfPrios
  <2>. QED  BY <1>2, <1>4, <2>1 DEF find_next_task
<1>. QED  BY <1>3, <1>4

\* Types are preserved by a tick.
LEMMA TickType ==
  ASSUME TypeInv, Tick
  PROVE  TypeInv'
<1>. USE DEF TypeInv, TypeOK, Tick
<1>1. current_task \in Prio /\ find_next_task \in Prio
  BY NextTask
<1>2. time' \in Word
  <2>1. time + 1 \in Nat
    BY SchedulerAssumption DEF Word
  <2>. QED  BY <2>1, ModWord DEF Now
<1>3. wakeup' \in [Prio -> Word]
  <2>1. wakeup[current_task] + period[current_task] \in Nat
    BY <1>1, SchedulerAssumption DEF Word
  <2>2. (wakeup[current_task] + period[current_task]) % WordSize \in Word
    BY <2>1, ModWord
  <2>. QED  BY <1>1, <2>2 DEF WakeupAfter
<1>4. execution' \in [Prio -> Nat]
  <2>1. ASSUME NEW p \in Prio PROVE NewExecution(p) \in Nat
    <3>1. CASE p \in Expired \/ (p = current_task /\ JobEnds)
      BY <3>1 DEF NewExecution
    <3>2. CASE ~(p \in Expired \/ (p = current_task /\ JobEnds)) /\ p = current_task
      BY <3>2 DEF NewExecution
    <3>3. CASE ~(p \in Expired \/ (p = current_task /\ JobEnds)) /\ p # current_task
      BY <3>3 DEF NewExecution
    <3>. QED  BY <3>1, <3>2, <3>3
  <2>. QED  BY <2>1
<1>5. sleep' \in [Prio -> 0 .. SleepCap]
  BY SchedulerAssumption DEF NewSleep
<1>6. status' \in [Prio -> {WAITING, RUNNABLE, RUNNING}]
  BY DEF NewStatus
<1>7. Expired \subseteq Prio
  BY SchedulerAssumption DEF Expired, UserPrio, Prio
<1>8. runnable_pool' \subseteq Prio
  BY <1>1, <1>7 DEF RunnableAfter
<1>9. waiting_pool' \subseteq Prio
  BY <1>1, <1>7 DEF WaitingAfter, Waiters
<1>10. used' \in [Prio -> Nat]
  OBVIOUS
<1>. QED
  BY <1>1, <1>2, <1>3, <1>4, <1>5, <1>6, <1>8, <1>9, <1>10

\* Types are preserved by a step of main() or of the current thread.
LEMMA CallType ==
  ASSUME TypeInv, Next, ~Tick
  PROVE  TypeInv'
<1>. USE SchedulerAssumption DEF TypeInv, TypeOK
<1>1. ASSUME thread_init PROVE TypeInv'
  BY <1>1, Ends DEF thread_init, InitTcb, poolVars
<1>2. ASSUME NEW p \in UserPrio, NEW c \in TaskParams, thread_create(p, c.C, c.T)
      PROVE  TypeInv'
  <2>1. p \in Prio /\ c.C \in Nat /\ c.T \in Word
    BY ParamTypes
  <2>. QED  BY <1>2, <2>1, Ends DEF thread_create, InitTcb
<1>3. ASSUME scheduler_start PROVE TypeInv'
  BY <1>3, Ends DEF scheduler_start, poolVars
<1>4. ASSUME NEW p \in UserPrio, wait_until_next_period(p) PROVE TypeInv'
  BY <1>4 DEF wait_until_next_period, poolVars
<1>5. ASSUME NEW p \in UserPrio, NEW ms \in SpinTimes, spin_wait(p, ms) PROVE TypeInv'
  <2>1. 0 \in 0 .. SleepCap /\ ms \in 0 .. SleepCap
    OBVIOUS
  <2>2. sleep' \in [Prio -> 0 .. SleepCap] /\ spinning' \in [Prio -> 0 .. SleepCap]
    BY <1>5, <2>1 DEF spin_wait
  <2>. QED  BY <1>5, <2>2 DEF spin_wait, poolVars
<1>6. ASSUME NEW p \in UserPrio, SpinReturn(p) PROVE TypeInv'
  BY <1>6 DEF SpinReturn, tcbVars, poolVars
<1>7. ASSUME syscall_exit PROVE TypeInv'
  BY <1>7 DEF syscall_exit, tcbVars, poolVars
<1>8. ASSUME Hang PROVE TypeInv'
  BY <1>8 DEF Hang, vars, tcbVars, poolVars
<1>. QED
  BY <1>1, <1>2, <1>3, <1>4, <1>5, <1>6, <1>7, <1>8 DEF Next

\* A tick leaves every created thread in one place, with the status to match.
LEMMA TickPlaces ==
  ASSUME PlaceInv, Tick
  PROVE  NoLostThread'
<1>1. /\ current_task \in Prio /\ find_next_task \in Prio
      /\ Eligible = {} => find_next_task = Idle
      /\ Eligible # {} => find_next_task \in Eligible
  BY NextTask DEF PlaceInv, TypeInv, Tick
<1>2. /\ runnable_pool \cap waiting_pool = {}
      /\ current_task \notin runnable_pool \cup waiting_pool
      /\ (runnable_pool \cup waiting_pool \cup {current_task}) \cap UserPrio = created
  BY DEF PlaceInv, NoLostThread, Tick
<1>3. /\ RunnableAfter \cap WaitingAfter = {}
      /\ RunnableAfter \cup WaitingAfter = runnable_pool \cup waiting_pool \cup {current_task}
  BY <1>2 DEF RunnableAfter, WaitingAfter, Waiters, Expired
<1>4. find_next_task \in RunnableAfter \/ find_next_task = Idle
  BY <1>1 DEF Eligible
<1>5. Idle \notin UserPrio
  BY SchedulerAssumption DEF UserPrio
<1>. DEFINE back == IF Preempted THEN {current_task} ELSE {}
<1>6. /\ back \cap WaitingAfter = {} /\ back \subseteq {current_task}
      /\ Preempted => current_task \in back
  BY DEF Preempted
<1>7. /\ runnable_pool' = (RunnableAfter \cup back) \ {find_next_task}
      /\ waiting_pool' = WaitingAfter \ (back \cup {find_next_task})
      /\ current_task' = find_next_task
      /\ created' = created
  BY DEF Tick
<1>. HIDE DEF back
<1>8. runnable_pool' \cap waiting_pool' = {}
  BY <1>3, <1>6, <1>7
<1>9. current_task' \notin runnable_pool' \cup waiting_pool'
  BY <1>7
<1>10. ((runnable_pool' \cup waiting_pool' \cup {current_task'}) \cap UserPrio) = created'
  BY <1>2, <1>3, <1>4, <1>5, <1>6, <1>7
<1>11. ASSUME NEW p \in created
       PROVE  /\ p \in runnable_pool' => status'[p] = RUNNABLE
              /\ p \in waiting_pool'  => status'[p] = WAITING
              /\ p = current_task'    => status'[p] # RUNNABLE
  <2>1. p \in Prio /\ p # Idle
    BY SchedulerAssumption DEF PlaceInv, TypeInv, TypeOK, UserPrio, Prio
  <2>2. status'[p] = NewStatus(p)
    BY <2>1 DEF Tick
  <2>3. CASE p = find_next_task
    <3>1. status'[p] = RUNNING
      BY <2>2, <2>3 DEF NewStatus
    <3>2. p \notin runnable_pool' /\ p \notin waiting_pool'
      BY <1>7, <2>3
    <3>. QED  BY <3>1, <3>2 DEF RUNNING, RUNNABLE
  <2>4. CASE p # find_next_task /\ p = current_task
    <3>1. CASE p \in WaitingAfter
      <4>1. p \notin runnable_pool' /\ ~Preempted /\ p \notin Expired /\ JobEnds
        BY <1>2, <1>3, <1>6, <1>7, <2>4, <3>1 DEF Preempted, WaitingAfter, Waiters
      <4>2. status'[p] = WAITING
        BY <2>2, <2>4, <4>1 DEF NewStatus
      <4>. QED  BY <1>7, <2>4, <4>1, <4>2
    <3>2. CASE p \notin WaitingAfter
      <4>1. Preempted
        BY <2>4, <3>2 DEF Preempted
      <4>2. status'[p] = RUNNABLE
        BY <2>2, <2>4, <4>1 DEF NewStatus
      <4>. QED  BY <1>6, <1>7, <2>4, <3>2, <4>2
    <3>. QED  BY <3>1, <3>2
  <2>5. CASE p # find_next_task /\ p # current_task
    <3>1. status'[p] = IF p \in Expired THEN RUNNABLE ELSE status[p]
      BY <2>2, <2>5 DEF NewStatus
    <3>2. /\ p \in runnable_pool => status[p] = RUNNABLE
          /\ p \in waiting_pool  => status[p] = WAITING
      BY DEF PlaceInv, NoLostThread, Tick
    <3>3. /\ p \in runnable_pool' => p \in runnable_pool \cup Expired
          /\ p \in waiting_pool' => p \in waiting_pool \ Expired
      BY <1>6, <1>7, <2>5 DEF RunnableAfter, WaitingAfter, Waiters
    <3>. QED  BY <1>7, <2>5, <3>1, <3>2, <3>3
  <2>. QED  BY <2>3, <2>4, <2>5
<1>. QED
  BY <1>7, <1>8, <1>9, <1>10, <1>11 DEF NoLostThread

\* A tick gives the CPU to the best candidate, or to the idle thread.
LEMMA TickOrder ==
  ASSUME TypeInv, Tick
  PROVE  DispatchOrder'
<1>1. /\ current_task \in Prio
      /\ Eligible = {} => find_next_task = Idle
      /\ Eligible # {} => /\ find_next_task \in Eligible
                          /\ \A j \in Eligible : find_next_task <= j
  BY NextTask DEF TypeInv, Tick
<1>2. SUFFICES ASSUME find_next_task # Idle,
                      NEW p \in runnable_pool' \cap UserPrio
               PROVE  find_next_task < p
  BY DEF DispatchOrder, Tick
<1>3. find_next_task \in UserPrio /\ find_next_task <= current_task
  BY <1>1, <1>2 DEF Eligible
<1>4. p \in RunnableAfter \cup {current_task} /\ p # find_next_task
  BY DEF Tick
<1>5. current_task \in Nat /\ find_next_task \in Nat /\ p \in Nat
  BY <1>1, <1>3, SchedulerAssumption DEF UserPrio, Prio
<1>6. CASE p \in RunnableAfter /\ p <= current_task
  <2>1. p \in Eligible
    BY <1>2, <1>6 DEF Eligible
  <2>. QED  BY <1>1, <1>4, <1>5, <2>1
<1>7. CASE ~(p \in RunnableAfter /\ p <= current_task)
  BY <1>3, <1>4, <1>5, <1>7
<1>. QED  BY <1>6, <1>7

\* A tick charges the thread that had the CPU, and only that one.
LEMMA TickBudget ==
  ASSUME PlaceInv, Tick
  PROVE  BudgetInv'
<1>1. SUFFICES ASSUME NEW p \in created
               PROVE  IF p \in waiting_pool' THEN used'[p] <= computation[p] + 1
                      ELSE used'[p] = execution'[p] /\ execution'[p] <= computation[p]
  BY DEF BudgetInv, Tick
<1>2. /\ p \in Prio /\ p # Idle /\ p \in UserPrio
      /\ used[p] \in Nat /\ execution[p] \in Nat /\ computation[p] \in Nat
      /\ status[p] \in {WAITING, RUNNABLE, RUNNING}
  BY SchedulerAssumption DEF PlaceInv, TypeInv, TypeOK, UserPrio, Prio
<1>3. /\ used'[p] = (IF p \in Expired THEN 0
                     ELSE IF p = current_task THEN used[p] + 1 ELSE used[p])
      /\ execution'[p] = NewExecution(p)
  BY <1>2 DEF Tick
<1>4. /\ IF p \in waiting_pool THEN used[p] <= computation[p] + 1
         ELSE used[p] = execution[p] /\ execution[p] <= computation[p]
      /\ p = current_task => p \notin waiting_pool /\ status[p] # RUNNABLE
  BY DEF PlaceInv, BudgetInv, NoLostThread, Tick
<1>5. p \in waiting_pool' => p \in Waiters \ Expired
  BY DEF Tick, WaitingAfter
<1>6. p \in Waiters \ Expired => p \in waiting_pool'
  <2>1. find_next_task \in Eligible \/ find_next_task = Idle
    BY NextTask DEF PlaceInv, TypeInv, Tick
  <2>2. p \in Waiters \ Expired => p \notin RunnableAfter
    BY DEF PlaceInv, NoLostThread, Tick, RunnableAfter, Waiters
  <2>. QED  BY <1>2, <2>1, <2>2 DEF Tick, WaitingAfter, Preempted, Eligible
<1>7. CASE p \in Expired
  <2>1. used'[p] = 0 /\ execution'[p] = 0
    BY <1>3, <1>7 DEF NewExecution
  <2>2. p \notin waiting_pool'
    BY <1>5, <1>7
  <2>. QED  BY <1>2, <2>1, <2>2
<1>8. CASE p \notin Expired /\ p # current_task
  <2>1. used'[p] = used[p] /\ execution'[p] = execution[p]
    BY <1>3, <1>8 DEF NewExecution
  <2>2. p \in waiting_pool' <=> p \in waiting_pool
    BY <1>5, <1>6, <1>8 DEF Waiters
  <2>. QED  BY <1>4, <2>1, <2>2
<1>9. CASE p \notin Expired /\ p = current_task /\ JobEnds
  <2>1. used'[p] = used[p] + 1
    BY <1>3, <1>9
  <2>2. p \in waiting_pool'
    BY <1>6, <1>9 DEF Waiters
  <2>3. used[p] <= computation[p]
    BY <1>4, <1>9
  <2>. QED  BY <1>2, <2>1, <2>2, <2>3
<1>10. CASE p \notin Expired /\ p = current_task /\ ~JobEnds
  <2>1. p \notin waiting_pool'
    BY <1>5, <1>10 DEF Waiters
  <2>2. ~(execution[p] >= computation[p])
    BY <1>2, <1>4, <1>10 DEF JobEnds, RanOut
  <2>3. used'[p] = used[p] + 1 /\ execution'[p] = execution[p] + 1
    BY <1>3, <1>10 DEF NewExecution
  <2>. QED  BY <1>2, <1>4, <1>10, <2>1, <2>2, <2>3
<1>. QED  BY <1>7, <1>8, <1>9, <1>10

\* main() and the current thread keep the rest of the invariant.
LEMMA CallInv ==
  ASSUME PlaceInv, TypeInv', Next, ~Tick
  PROVE  (BootState /\ NoLostThread /\ BudgetInv)'
<1>. DEFINE Rest == BootState /\ NoLostThread /\ BudgetInv
<1>. USE DEF poolVars, tcbVars
<1>a. Idle \notin UserPrio /\ UserPrio \subseteq Prio /\ Idle \in Prio
  BY SchedulerAssumption DEF UserPrio, Prio
<1>0. /\ Idle \notin UserPrio /\ created \subseteq UserPrio
      /\ UserPrio \subseteq Prio /\ Idle \in Prio
      /\ status \in [Prio -> {WAITING, RUNNABLE, RUNNING}]
      /\ wakeup \in [Prio -> Word] /\ execution \in [Prio -> Nat]
      /\ used \in [Prio -> Nat]
      /\ computation \in [Prio -> Nat]
  BY <1>a DEF PlaceInv, TypeInv, TypeOK
<1>1. ASSUME thread_init PROVE Rest'
  <2>1. phase = "boot" /\ phase' = "boot"
    BY <1>1 DEF thread_init
  <2>2. BootState'
    BY <1>0, <1>1, <2>1 DEF thread_init, InitTcb, PlaceInv, BootState
  <2>. QED  BY <2>1, <2>2 DEF NoLostThread, BudgetInv
<1>2. ASSUME NEW p \in UserPrio, NEW c \in TaskParams, thread_create(p, c.C, c.T)
      PROVE  Rest'
  <2>1. phase = "boot" /\ phase' = "boot"
    BY <1>2 DEF thread_create
  <2>2. BootState'
    BY <1>0, <1>2, <2>1 DEF thread_create, InitTcb, PlaceInv, BootState
  <2>. QED  BY <2>1, <2>2 DEF NoLostThread, BudgetInv
<1>3. ASSUME scheduler_start PROVE Rest'
  <2>1. /\ phase = "boot" /\ current_task' = Idle
        /\ UNCHANGED <<runnable_pool, waiting_pool, created, wakeup, used, computation>>
        /\ \A p \in created : status'[p] = status[p] /\ execution'[p] = execution[p]
        /\ waiting_pool = {} /\ runnable_pool = created
        /\ \A p \in created : status[p] = RUNNABLE /\ wakeup[p] = 0 /\ execution[p] = 0
        /\ \A p \in Prio : used[p] = 0
    BY <1>0, <1>3 DEF scheduler_start, PlaceInv, BootState
  <2>2. BootState'
    BY <1>0, <2>1 DEF BootState
  <2>3. NoLostThread'
    BY <1>0, <2>1 DEF NoLostThread
  <2>4. BudgetInv'
    BY <1>0, <2>1 DEF BudgetInv
  <2>. QED  BY <2>2, <2>3, <2>4
<1>4. ASSUME NEW p \in UserPrio, wait_until_next_period(p) PROVE Rest'
  <2>1. /\ phase = "running" /\ current_task = p
        /\ status' = [status EXCEPT ![p] = WAITING]
        /\ UNCHANGED <<phase, current_task, runnable_pool, waiting_pool, created,
                       used, execution, computation>>
    BY <1>4 DEF wait_until_next_period, InUserCode
  <2>2. NoLostThread'
    BY <1>0, <2>1 DEF PlaceInv, NoLostThread, WAITING, RUNNABLE
  <2>3. BootState' /\ BudgetInv'
    BY <2>1 DEF PlaceInv, BootState, BudgetInv
  <2>. QED  BY <2>2, <2>3
<1>5. ASSUME NEW p \in UserPrio, NEW ms \in SpinTimes, spin_wait(p, ms) PROVE Rest'
  BY <1>5 DEF spin_wait, PlaceInv, BootState, NoLostThread, BudgetInv
<1>6. ASSUME NEW p \in UserPrio, SpinReturn(p) PROVE Rest'
  BY <1>6 DEF SpinReturn, PlaceInv, BootState, NoLostThread, BudgetInv
<1>7. ASSUME syscall_exit PROVE Rest'
  BY <1>7 DEF syscall_exit, BootState, NoLostThread, BudgetInv
<1>8. ASSUME Hang PROVE Rest'
  BY <1>8 DEF Hang, vars, PlaceInv, BootState, NoLostThread, BudgetInv
<1>. QED
  BY <1>1, <1>2, <1>3, <1>4, <1>5, <1>6, <1>7, <1>8 DEF Next

\* No call puts a better candidate into the pool than the current thread.
LEMMA CallOrder ==
  ASSUME DispatchOrder, Next, ~Tick
  PROVE  DispatchOrder'
BY DEF Next, thread_init, thread_create, scheduler_start, wait_until_next_period, spin_wait,
   SpinReturn, syscall_exit, Hang, vars, poolVars, DispatchOrder

----------------------------------------------------------------------------

\* The initial state satisfies the inductive invariant.
LEMMA InitInv == Init => IInv
<1>. SUFFICES ASSUME Init PROVE IInv
  OBVIOUS
<1>1. 0 \in Word /\ 0 \in 0 .. SleepCap
  BY SchedulerAssumption DEF Word
<1>2. TypeInv
  BY <1>1 DEF Init, TypeInv, TypeOK
<1>. QED
  BY <1>2 DEF Init, IInv, PlaceInv, BootState, NoLostThread, DispatchOrder, BudgetInv

\* Every step of main(), of a thread or of the timer preserves it.
LEMMA StepInv == IInv /\ [Next]_vars => IInv'
<1>. SUFFICES ASSUME IInv, [Next]_vars PROVE IInv'
  OBVIOUS
<1>1. CASE Tick
  <2>1. TypeInv'
    BY <1>1, TickType DEF IInv, PlaceInv
  <2>2. BootState'
    BY <1>1 DEF Tick, BootState
  <2>. QED
    BY <1>1, <2>1, <2>2, TickPlaces, TickOrder, TickBudget DEF IInv, PlaceInv
<1>2. CASE Next /\ ~Tick
  <2>1. TypeInv'
    BY <1>2, CallType DEF IInv, PlaceInv
  <2>. QED
    BY <1>2, <2>1, CallInv, CallOrder DEF IInv, PlaceInv
<1>3. CASE UNCHANGED vars
  BY <1>3 DEF vars, poolVars, tcbVars, IInv, PlaceInv, TypeInv, TypeOK, BootState,
              NoLostThread, DispatchOrder, BudgetInv
<1>. QED  BY <1>1, <1>2, <1>3

\* The kernel never leaves the inductive invariant: types, the place of every
\* thread, dispatch order and budgets.
THEOREM Invariance == Spec => []IInv
BY InitInv, StepInv, PTL DEF Spec

\* Every variable keeps its type: pools hold thread numbers only, times stay
\* words, whatever the calls and ticks.
THEOREM TypeCorrect == Spec => []TypeOK
<1>1. IInv => TypeOK
  BY DEF IInv, PlaceInv, TypeInv
<1>. QED  BY <1>1, Invariance, PTL

\* No thread is ever lost between the pools or held in two of them.
THEOREM ThreadsInOnePlace == Spec => []NoLostThread
<1>1. IInv => NoLostThread
  BY DEF IInv, PlaceInv
<1>. QED  BY <1>1, Invariance, PTL

\* A user thread that has the CPU has the highest priority of the runnable.
THEOREM PriorityDispatch == Spec => []DispatchOrder
<1>1. IInv => DispatchOrder
  BY DEF IInv
<1>. QED  BY <1>1, Invariance, PTL

\* No job is charged more than one tick beyond its computation time.
THEOREM BudgetWithinOneTick == Spec => []BudgetBound
<1>1. IInv => BudgetBound
  <2>. SUFFICES ASSUME IInv, phase = "running", NEW p \in created
                PROVE  used[p] <= computation[p] + 1
    BY DEF BudgetBound
  <2>1. p \in Prio /\ used[p] \in Nat /\ computation[p] \in Nat
    BY SchedulerAssumption DEF IInv, PlaceInv, TypeInv, TypeOK, UserPrio, Prio
  <2>. QED  BY <2>1 DEF IInv, PlaceInv, BudgetInv
<1>. QED  BY <1>1, Invariance, PTL

----------------------------------------------------------------------------
(* What a tick may never do.                                                *)

\* A thread in the middle of its job loses the CPU only to a thread of higher
\* priority, never to the idle thread.
THEOREM PreemptionByHigherOnly == Spec => PreemptedOnlyByHigher
<1>1. ASSUME IInv, [Next]_vars, phase = "running", current_task' # current_task,
             current_task \notin waiting_pool'
      PROVE  current_task' < current_task
  <2>1. CASE Tick
    <3>1. /\ current_task' = find_next_task /\ current_task \in Prio
          /\ Eligible = {} => find_next_task = Idle
          /\ Eligible # {} => find_next_task \in Eligible
      BY <1>1, <2>1, NextTask DEF IInv, PlaceInv, TypeInv, Tick
    <3>2. CASE Eligible # {}
      <4>1. find_next_task <= current_task /\ find_next_task \in UserPrio
        BY <3>1, <3>2 DEF Eligible
      <4>. QED  BY <1>1, <3>1, <4>1, SchedulerAssumption DEF UserPrio, Prio
    <3>3. CASE Eligible = {}
      <4>1. current_task \in UserPrio
        BY <1>1, <3>1, <3>3, SchedulerAssumption DEF UserPrio, Prio
      <4>2. JobEnds
        BY <3>3, <4>1, SchedulerAssumption DEF Eligible, RunnableAfter, UserPrio
      <4>3. current_task \notin Expired
        BY <3>3, <4>1, SchedulerAssumption DEF Eligible, RunnableAfter, UserPrio
      <4>4. current_task \in WaitingAfter
        BY <4>2, <4>3 DEF WaitingAfter, Waiters
      <4>. QED  BY <1>1, <2>1, <3>1, <4>4 DEF Tick, Preempted
    <3>. QED  BY <3>2, <3>3
  <2>2. CASE Next /\ ~Tick
    BY <1>1, <2>2 DEF Next, thread_init, thread_create, scheduler_start,
       wait_until_next_period, spin_wait, SpinReturn, syscall_exit, Hang, vars
  <2>3. CASE UNCHANGED vars
    BY <1>1, <2>3 DEF vars
  <2>. QED  BY <1>1, <2>1, <2>2, <2>3
<1>2. IInv /\ [Next]_vars =>
        [(phase = "running" /\ current_task' # current_task
            /\ current_task \notin waiting_pool')
          => current_task' < current_task]_vars
  BY <1>1
<1>. QED  BY <1>2, Invariance, PTL DEF Spec, PreemptedOnlyByHigher

\* Idle holds a runnable thread up for one tick at most.
THEOREM IdleForOneTick == Spec => IdleGivesWay
<1>1. ASSUME IInv, Tick, current_task = Idle, current_task' = Idle
      PROVE  runnable_pool' \cap UserPrio = {}
  <2>1. /\ current_task' = find_next_task
        /\ Eligible # {} => find_next_task \in Eligible
    BY <1>1, NextTask DEF IInv, PlaceInv, TypeInv, Tick
  <2>2. Eligible = {}
    BY <1>1, <2>1, SchedulerAssumption DEF Eligible, UserPrio
  <2>3. RunnableAfter \cap UserPrio = {}
    BY <1>1, <2>2, SchedulerAssumption DEF Eligible, UserPrio
  <2>. QED  BY <1>1, <2>1, <2>3, SchedulerAssumption DEF Tick, UserPrio
<1>2. IInv /\ [Next]_vars =>
        [(Tick /\ current_task = Idle /\ current_task' = Idle)
          => runnable_pool' \cap UserPrio = {}]_vars
  BY <1>1
<1>. QED  BY <1>2, Invariance, PTL DEF Spec, IdleGivesWay

----------------------------------------------------------------------------
(* Release times, as long as the timer word is not about to wrap.           *)

\* Neither the next tick nor the end of a job takes a time past the word.
Horizon == \A p \in Prio : time + period[p] + 1 < WordSize

\* A tick releases what is due, and nothing else.
LEMMA TickRelease ==
  ASSUME PlaceInv, ReleaseTimely, Horizon, Tick
  PROVE  ReleaseTimely'
<1>1. SUFFICES ASSUME NEW p \in created
               PROVE  /\ \E k \in 0 .. wakeup'[p] : wakeup'[p] = k * period[p]
                      /\ IF p \in waiting_pool' THEN time' < wakeup'[p]
                                                ELSE wakeup'[p] <= time'
  BY DEF ReleaseTimely, Tick
<1>a. created \subseteq UserPrio /\ WordSize \in Nat /\ Idle \in Nat
  BY SchedulerAssumption DEF PlaceInv, TypeInv, TypeOK
<1>b. p \in UserPrio /\ p # Idle /\ p \in Prio
  BY <1>a DEF UserPrio, Prio
<1>2. /\ p \in Prio /\ p \in UserPrio /\ p # Idle
      /\ time \in Nat /\ wakeup[p] \in Nat /\ period[p] \in Nat
      /\ current_task \in Prio /\ WordSize \in Nat
      /\ wakeup \in [Prio -> Word]
  BY <1>a, <1>b DEF PlaceInv, TypeInv, TypeOK, Word, Tick
<1>3. time + period[p] + 1 < WordSize
  BY <1>2 DEF Horizon
<1>4. Now = time + 1 /\ time' = Now
  BY <1>2, <1>3 DEF Now, Tick
<1>5. p \in waiting_pool' <=> p \in Waiters \ Expired
  <2>1. find_next_task \in Eligible \/ find_next_task = Idle
    BY NextTask DEF PlaceInv, TypeInv, Tick
  <2>2. p \in Waiters \ Expired => p \notin RunnableAfter
    BY DEF PlaceInv, NoLostThread, Tick, RunnableAfter, Waiters
  <2>. QED  BY <1>2, <2>1, <2>2 DEF Tick, WaitingAfter, Preempted, Eligible
<1>6. wakeup'[p] = WakeupAfter[p]
  BY DEF Tick
<1>7. p \in Expired <=> p \in Waiters /\ Now >= WakeupAfter[p]
  BY <1>2 DEF Expired
<1>8. WakeupAfter[p] \in Nat /\ \E k \in 0 .. WakeupAfter[p] : WakeupAfter[p] = k * period[p]
  <2>1. PICK k \in 0 .. wakeup[p] : wakeup[p] = k * period[p]
    BY DEF ReleaseTimely, Tick
  <2>2. CASE JobEnds /\ p = current_task
    <3>1. wakeup[p] <= time
      BY <2>2 DEF ReleaseTimely, Tick, PlaceInv, NoLostThread
    <3>2. /\ wakeup[p] + period[p] \in Nat
          /\ (wakeup[p] + period[p]) % WordSize = wakeup[p] + period[p]
      BY <1>2, <1>3, <3>1
    <3>3. WakeupAfter[p] = wakeup[p] + period[p]
      BY <1>2, <2>2, <3>2 DEF WakeupAfter
    <3>4. CASE period[p] = 0
      BY <1>2, <2>1, <3>3, <3>4
    <3>5. CASE period[p] > 0
      <4>1. (k + 1) * period[p] = wakeup[p] + period[p]
        BY <1>2, <2>1
      <4>2. k + 1 \in 0 .. WakeupAfter[p]
        BY <1>2, <2>1, <3>3, <3>5
      <4>. QED  BY <1>2, <3>3, <4>1, <4>2
    <3>. QED  BY <1>2, <3>4, <3>5
  <2>3. CASE ~(JobEnds /\ p = current_task)
    BY <1>2, <2>1, <2>3 DEF WakeupAfter
  <2>. QED  BY <2>2, <2>3
<1>9. CASE p \in Waiters
  BY <1>2, <1>4, <1>5, <1>6, <1>7, <1>8, <1>9
<1>10. CASE p \notin Waiters
  <2>1. p \notin waiting_pool \/ p = current_task
    BY <1>10 DEF Waiters
  <2>2. p \notin waiting_pool
    BY <2>1 DEF PlaceInv, NoLostThread, Tick
  <2>3. wakeup[p] <= time
    BY <2>2 DEF ReleaseTimely, Tick
  <2>4. WakeupAfter[p] = wakeup[p]
    BY <1>2, <1>10 DEF WakeupAfter, Waiters
  <2>. QED  BY <1>2, <1>4, <1>5, <1>6, <1>8, <1>10, <2>3, <2>4
<1>. QED  BY <1>9, <1>10

\* Nothing else the kernel does changes a release time.
LEMMA ReleaseStep ==
  ASSUME PlaceInv, ReleaseTimely, Horizon, [Next]_vars
  PROVE  ReleaseTimely'
<1>1. CASE Tick
  BY <1>1, TickRelease
<1>2. CASE scheduler_start
  <2>1. created' = created /\ waiting_pool' = waiting_pool /\ wakeup' = wakeup
        /\ (phase' = "running" => time' = 0)
    BY <1>2 DEF scheduler_start, poolVars
  <2>2. waiting_pool = {} /\ \A p \in created : wakeup[p] = 0 /\ period'[p] \in Nat
    BY <1>2 DEF scheduler_start, PlaceInv, BootState, TypeInv, TypeOK, Word,
       UserPrio, Prio
  <2>. QED  BY <2>1, <2>2 DEF ReleaseTimely
<1>3. CASE Next /\ ~Tick /\ ~scheduler_start
  BY <1>3 DEF Next, thread_init, thread_create, wait_until_next_period,
     spin_wait, SpinReturn, syscall_exit, Hang, vars, poolVars, tcbVars,
     InUserCode, ReleaseTimely
<1>4. CASE UNCHANGED vars
  BY <1>4 DEF vars, poolVars, tcbVars, ReleaseTimely
<1>. QED  BY <1>1, <1>2, <1>3, <1>4

\* Until the timer word is about to wrap no thread is released early, and none
\* stays in the waiting pool past its wakeup time.
THEOREM ReleasesOnTime == Spec /\ []Horizon => []ReleaseTimely
<1>1. Init => ReleaseTimely
  BY DEF Init, ReleaseTimely
<1>2. IInv /\ ReleaseTimely /\ Horizon /\ [Next]_vars => ReleaseTimely'
  BY ReleaseStep DEF IInv
<1>. QED  BY <1>1, <1>2, Invariance, PTL DEF Spec

----------------------------------------------------------------------------
(* The kernel's scheduler implements the abstract one.                      *)

\* A tick of the kernel is a tick of the abstract scheduler.
LEMMA TickRefines ==
  ASSUME IInv, Tick
  PROVE  PT!Tick(JobEnds)
<1>. DEFINE ready == created \ waiting_pool
            left  == IF JobEnds THEN ready \ {current_task} ELSE ready
<1>1. /\ current_task \in Prio /\ find_next_task \in Prio
      /\ Eligible = {} => find_next_task = Idle
      /\ Eligible # {} => /\ find_next_task \in Eligible
                          /\ \A j \in Eligible : find_next_task <= j
  BY NextTask DEF IInv, PlaceInv, TypeInv, Tick
<1>2. /\ runnable_pool \cap waiting_pool = {}
      /\ current_task \notin runnable_pool \cup waiting_pool
      /\ (runnable_pool \cup waiting_pool \cup {current_task}) \cap UserPrio = created
      /\ created' = created /\ Idle \notin UserPrio /\ created \subseteq UserPrio
  BY SchedulerAssumption DEF IInv, PlaceInv, TypeInv, TypeOK, NoLostThread, Tick, UserPrio
<1>3. /\ time' = (time + 1) % WordSize
      /\ wakeup' = IF JobEnds
                     THEN [wakeup EXCEPT ![current_task] =
                             (@ + period[current_task]) % WordSize]
                     ELSE wakeup
      /\ UNCHANGED <<phase, created, period>> /\ phase = "running"
      /\ current_task' = find_next_task
  BY DEF Tick, Now, WakeupAfter
<1>4. created \cap waiting_pool' = created \cap (Waiters \ Expired)
  <2>1. find_next_task \in Eligible \/ find_next_task = Idle
    BY <1>1
  <2>2. RunnableAfter \cap (Waiters \ Expired) = {}
    BY <1>2 DEF RunnableAfter, Waiters
  <2>. QED  BY <1>2, <2>1, <2>2 DEF Tick, WaitingAfter, Preempted, Eligible
<1>5. created \ left = created \cap Waiters
  BY <1>2 DEF Waiters
<1>6. \A p \in created : p \in Expired <=> p \in Waiters /\ time' >= wakeup'[p]
  BY <1>2 DEF Expired, Tick
<1>7. (created \ waiting_pool)' = left \cup {p \in created \ left : time' >= wakeup'[p]}
  <2>1. (created \ waiting_pool)' = created \ (Waiters \ Expired)
    BY <1>2, <1>4
  <2>2. \A p \in created : p \notin left <=> p \in Waiters
    BY <1>5
  <2>3. left \subseteq created
    OBVIOUS
  <2>. HIDE DEF left
  <2>. QED  BY <1>6, <2>1, <2>2, <2>3
<1>8. (created \ waiting_pool)' = RunnableAfter \cap UserPrio
  <2>1. RunnableAfter \cup (Waiters \ Expired)
          = runnable_pool \cup waiting_pool \cup {current_task}
    BY <1>2 DEF RunnableAfter, Waiters, Expired
  <2>2. RunnableAfter \cap (Waiters \ Expired) = {}
    BY <1>2 DEF RunnableAfter, Waiters
  <2>. QED  BY <1>2, <1>4, <2>1, <2>2
<1>9. \/ current_task' \in PT!Top((created \ waiting_pool)')
      \/ /\ current_task' = Idle
         /\ \/ (created \ waiting_pool)' = {}
            \/ JobEnds /\ \A p \in (created \ waiting_pool)' : current_task < p
  <2>. DEFINE R == RunnableAfter \cap UserPrio
  <2>1. \A p \in R : p \in Nat /\ (p \in Eligible <=> p <= current_task)
    BY SchedulerAssumption DEF Eligible, UserPrio
  <2>2. current_task \in Nat /\ find_next_task \in Nat
    BY <1>1, SchedulerAssumption DEF Prio
  <2>3. CASE Eligible # {}
    <3>1. find_next_task \in R /\ find_next_task <= current_task
      BY <1>1, <2>3 DEF Eligible
    <3>2. \A q \in R : find_next_task <= q
      BY <1>1, <2>1, <2>2, <2>3, <3>1
    <3>. QED  BY <1>3, <1>8, <3>1, <3>2 DEF PT!Top
  <2>4. CASE Eligible = {}
    <3>1. \A p \in R : current_task < p
      BY <2>1, <2>2, <2>4
    <3>2. CASE JobEnds
      BY <1>1, <1>3, <1>8, <2>4, <3>1, <3>2
    <3>3. CASE ~JobEnds
      <4>1. current_task \in RunnableAfter
        BY <3>3 DEF RunnableAfter
      <4>2. current_task = Idle
        BY <1>1, <2>2, <3>1, <4>1, SchedulerAssumption DEF UserPrio, Prio
      <4>3. R = {}
        BY <2>1, <3>1, <4>2, SchedulerAssumption DEF UserPrio
      <4>. QED  BY <1>1, <1>3, <1>8, <2>4, <4>3
    <3>. QED  BY <3>2, <3>3
  <2>. QED  BY <2>3, <2>4
<1>. QED
  BY <1>2, <1>3, <1>7, <1>9 DEF PT!Tick

\* Every behaviour of the kernel is one of the abstract periodic scheduler.
THEOREM Refinement == Spec => ImplementsPeriodicTasks
<1>1. Init => PT!Init
  BY DEF Init, PT!Init, Prio, NULL
<1>2. ASSUME IInv, [Next]_vars PROVE [PT!Next]_(PT!ptVars)
  <2>. USE DEF poolVars, tcbVars
  <2>1. CASE Tick
    <3>1. PT!Tick(JobEnds) /\ JobEnds \in BOOLEAN
      BY <1>2, <2>1, TickRefines DEF JobEnds, RanOut
    <3>. QED  BY <3>1 DEF PT!Next
  <2>2. CASE thread_init
    BY <2>2 DEF thread_init, InitTcb, PT!AddIdle, PT!Next
  <2>3. CASE \E p \in UserPrio, c \in TaskParams : thread_create(p, c.C, c.T)
    <3>1. PICK p \in UserPrio, c \in TaskParams : thread_create(p, c.C, c.T)
      BY <2>3
    <3>2. c.T \in 0 .. WordSize - 1 /\ p \in 0 .. Idle - 1
      BY SchedulerAssumption DEF UserPrio
    <3>3. waiting_pool = {} /\ waiting_pool' = waiting_pool
      BY <1>2, <3>1 DEF thread_create, IInv, PlaceInv, BootState
    <3>4. PT!Add(p, c.T)
      BY <3>1, <3>3 DEF thread_create, InitTcb, PT!Add
    <3>. QED  BY <3>2, <3>4 DEF PT!Next
  <2>4. CASE scheduler_start
    BY <2>4 DEF scheduler_start, PT!Start, PT!Next
  <2>5. CASE \E p \in UserPrio : wait_until_next_period(p) \/ SpinReturn(p)
                 \/ \E ms \in SpinTimes : spin_wait(p, ms)
    BY <2>5 DEF wait_until_next_period, SpinReturn, spin_wait, PT!ptVars
  <2>6. CASE syscall_exit
    BY <2>6 DEF syscall_exit, PT!Halt, PT!Next
  <2>7. CASE Hang \/ UNCHANGED vars
    BY <2>7 DEF Hang, vars, PT!ptVars
  <2>. QED  BY <1>2, <2>1, <2>2, <2>3, <2>4, <2>5, <2>6, <2>7 DEF Next
<1>. QED
  BY <1>1, <1>2, Invariance, PTL DEF Spec, ImplementsPeriodicTasks, PT!Spec

=============================================================================
