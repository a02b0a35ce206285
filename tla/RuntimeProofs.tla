--------------------------- MODULE RuntimeProofs ---------------------------
(***************************************************************************)
(* Proofs about RuntimeCreate for every number of threads, task set, word   *)
(* size and set of creators: until a stale pool word is written back all    *)
(* is as in Scheduler, but for the order of dispatch between two ticks      *)
(* (KeptInv); and what holds afterwards, without NoLostThread (RInv).       *)
(***************************************************************************)
EXTENDS RuntimeCreate, SchedulerProofs

\* Any number of creators, each of a thread of its own that is not created yet.
CreateInv ==
  /\ creating \in [UserPrio -> UserPrio \cup {NULL}]
  /\ word \in [UserPrio -> SUBSET Prio]
  /\ \A p \in UserPrio : creating[p] # NULL =>
       /\ phase # "boot"
       /\ creating[p] \notin created
       /\ \A q \in UserPrio : creating[q] = creating[p] => q = p

RInv == TypeInv /\ CreateInv

\* The thread numbers.
LEMMA Prios ==
  /\ UserPrio \subseteq Prio /\ Idle \in Prio /\ Idle \notin UserPrio
  /\ NULL \notin UserPrio
BY SchedulerAssumption DEF UserPrio, Prio, NULL

\* Whatever the pools hold, a tick takes no user thread out of them and the
\* CPU together, and brings none in.
LEMMA TickKeeps ==
  ASSUME TypeInv, Tick
  PROVE  (runnable_pool' \cup waiting_pool' \cup {current_task'}) \cap UserPrio
           = (runnable_pool \cup waiting_pool \cup {current_task}) \cap UserPrio
<1>1. /\ Eligible = {} => find_next_task = Idle
      /\ Eligible # {} => find_next_task \in Eligible
  BY NextTask DEF Tick
<1>2. find_next_task \in RunnableAfter \/ find_next_task \notin UserPrio
  BY <1>1, Prios DEF Eligible
<1>3. RunnableAfter \cup WaitingAfter = runnable_pool \cup waiting_pool \cup {current_task}
  BY DEF RunnableAfter, WaitingAfter, Waiters, Expired
<1>. DEFINE back == IF Preempted THEN {current_task} ELSE {}
<1>4. back \subseteq {current_task}
  OBVIOUS
<1>5. /\ runnable_pool' = (RunnableAfter \cup back) \ {find_next_task}
      /\ waiting_pool' = WaitingAfter \ (back \cup {find_next_task})
      /\ current_task' = find_next_task
  BY DEF Tick
<1>. HIDE DEF back
<1>. QED  BY <1>2, <1>3, <1>4, <1>5

\* A step of the scheduler, the tick included, neither loses a thread nor
\* finds a lost one.
LEMMA SchedulerKeepsLost ==
  ASSUME TypeInv, Next, phase = "running", phase' = "running", NEW q \in UserPrio
  PROVE  Lost(q)' <=> Lost(q)
<1>1. CASE Tick
  <2>1. created' = created
    BY <1>1 DEF Tick
  <2>. QED  BY <1>1, <2>1, TickKeeps DEF Lost
<1>2. CASE ~Tick
  <2>1. UNCHANGED <<created, runnable_pool, waiting_pool, current_task>>
    BY <1>2 DEF Next, thread_init, thread_create, scheduler_start, wait_until_next_period,
       spin_wait, SpinReturn, syscall_exit, Hang, vars, poolVars, tcbVars
  <2>. QED  BY <2>1 DEF Lost
<1>. QED  BY <1>1, <1>2

\* Once it is up, the kernel creates no thread by the set-up calls.
LEMMA SchedulerKeepsCreated ==
  ASSUME Next, phase # "boot"
  PROVE  created' = created /\ phase' # "boot"
BY DEF Next, thread_init, thread_create, scheduler_start, wait_until_next_period,
   spin_wait, SpinReturn, syscall_exit, Hang, Tick, InUserCode, vars, poolVars, tcbVars

\* A thread begins to create another.
LEMMA BeginInv ==
  ASSUME RInv, NEW p \in UserPrio, NEW q \in UserPrio, NEW c \in TaskParams,
         BeginCreate(p, q, c.C, c.T)
  PROVE  RInv'
<1>1. /\ phase = "running" /\ q \notin created
      /\ \A r \in UserPrio : creating[r] # q
      /\ creating' = [creating EXCEPT ![p] = q]
      /\ word' = [word EXCEPT ![p] = runnable_pool]
      /\ UNCHANGED <<phase, current_task, runnable_pool, waiting_pool, created>>
  BY DEF BeginCreate, Unused, Free, InUserCode, poolVars
<1>2. TypeInv'
  <2>0. q \in Prio /\ c.C \in Nat /\ c.T \in Word
    BY ParamTypes
  <2>1. /\ q \in Prio /\ c.C \in Nat /\ c.T \in Word /\ 0 \in Word
        /\ 0 \in 0 .. SleepCap
    BY <2>0, Ends, SchedulerAssumption
  <2>2. /\ TypeOK
        /\ InitTcb(q, c.C, c.T)
        /\ UNCHANGED <<phase, time, current_task, runnable_pool, waiting_pool, spinning, created, used>>
    BY DEF RInv, TypeInv, BeginCreate, poolVars
  <2>3. TypeOK'
    BY <2>1, <2>2 DEF InitTcb, TypeOK
  <2>. QED  BY <2>2, <2>3 DEF RInv, TypeInv
<1>3. /\ creating' \in [UserPrio -> UserPrio \cup {NULL}]
      /\ word' \in [UserPrio -> SUBSET Prio]
  BY <1>1 DEF RInv, CreateInv, TypeInv, TypeOK
<1>4. ASSUME NEW r \in UserPrio, creating'[r] # NULL
      PROVE  /\ phase' # "boot" /\ creating'[r] \notin created'
             /\ \A x \in UserPrio : creating'[x] = creating'[r] => x = r
  <2>1. \A x \in UserPrio : creating'[x] = IF x = p THEN q ELSE creating[x]
    BY <1>1 DEF RInv, CreateInv
  <2>. QED  BY <1>1, <1>4, <2>1 DEF RInv, CreateInv
<1>. QED  BY <1>2, <1>3, <1>4 DEF RInv, CreateInv

\* The pool word is written back.
LEMMA SetInv ==
  ASSUME RInv, NEW p \in UserPrio, set_run_pool(p)
  PROVE  RInv'
<1>1. /\ creating[p] # NULL
      /\ runnable_pool' = word[p] \cup {creating[p]}
      /\ created' = created \cup {creating[p]}
      /\ creating' = [creating EXCEPT ![p] = NULL]
      /\ word' = [word EXCEPT ![p] = {}]
  BY DEF set_run_pool
<1>2. creating[p] \in UserPrio /\ word[p] \subseteq Prio
  BY <1>1 DEF RInv, CreateInv
<1>3. TypeInv'
  <2>1. runnable_pool' \subseteq Prio /\ created' \subseteq UserPrio
    BY <1>1, <1>2, Prios DEF RInv, TypeInv, TypeOK
  <2>. QED  BY <2>1 DEF RInv, TypeInv, TypeOK, set_run_pool, tcbVars
<1>4. ASSUME NEW r \in UserPrio, creating'[r] # NULL
      PROVE  /\ phase' # "boot" /\ creating'[r] \notin created'
             /\ \A x \in UserPrio : creating'[x] = creating'[r] => x = r
  <2>1. \A x \in UserPrio : creating'[x] = IF x = p THEN NULL ELSE creating[x]
    BY <1>1 DEF RInv, CreateInv
  <2>2. r # p /\ creating[r] = creating'[r] /\ creating[r] # creating[p]
    BY <1>1, <1>4, <2>1 DEF RInv, CreateInv
  <2>3. phase' = phase
    BY DEF set_run_pool
  <2>. QED  BY <1>1, <1>4, <2>1, <2>2, <2>3 DEF RInv, CreateInv
<1>5. /\ creating' \in [UserPrio -> UserPrio \cup {NULL}]
      /\ word' \in [UserPrio -> SUBSET Prio]
  BY <1>1 DEF RInv, CreateInv
<1>. QED  BY <1>3, <1>4, <1>5 DEF RInv, CreateInv

\* RInv is inductive.
LEMMA RInvStep == RInv /\ [RNext]_rvars => RInv'
<1>. SUFFICES ASSUME RInv, [RNext]_rvars PROVE RInv'
  OBVIOUS
<1>1. CASE SchedulerStep
  <2>1. Next /\ UNCHANGED <<creating, word>>
    BY <1>1 DEF SchedulerStep, createVars
  <2>2. TypeInv'
    BY <2>1, TickType, CallType DEF RInv
  <2>3. ASSUME NEW p \in UserPrio, creating[p] # NULL
        PROVE  phase' # "boot" /\ creating[p] \notin created'
    <3>1. phase # "boot" /\ creating[p] \notin created
      BY <2>3 DEF RInv, CreateInv
    <3>. QED  BY <2>1, <3>1, SchedulerKeepsCreated
  <2>. QED  BY <2>1, <2>2, <2>3 DEF RInv, CreateInv
<1>2. CASE \E p, q \in UserPrio : \E c \in TaskParams : BeginCreate(p, q, c.C, c.T)
  BY <1>2, BeginInv
<1>3. CASE \E p \in UserPrio : set_run_pool(p)
  BY <1>3, SetInv
<1>4. CASE \E p \in UserPrio : sample_adc(p)
  <2>1. /\ Idle \in Prio /\ IdleComputation \in Nat /\ 1 \in Word /\ 0 \in Word
        /\ 0 \in 0 .. SleepCap
    BY Prios, SchedulerAssumption DEF Word
  <2>2. /\ InitTcb(Idle, IdleComputation, 1)
        /\ UNCHANGED <<phase, time, current_task, runnable_pool, waiting_pool, spinning, created, used,
                       creating, word>>
    BY <1>4 DEF sample_adc, poolVars, createVars
  <2>3. TypeInv'
    <3>1. TypeOK'
      BY <2>1, <2>2 DEF InitTcb, RInv, TypeInv, TypeOK
    <3>. QED  BY <2>2, <3>1 DEF RInv, TypeInv
  <2>4. CreateInv'
    BY <2>2 DEF RInv, CreateInv, Lost
  <2>. QED  BY <2>3, <2>4 DEF RInv
<1>5. CASE UNCHANGED rvars
  BY <1>5 DEF rvars, vars, poolVars, tcbVars, createVars, RInv, TypeInv, TypeOK, CreateInv, Lost
<1>. QED  BY <1>1, <1>2, <1>3, <1>4, <1>5 DEF RNext

\* RInv holds in every reachable state.
LEMMA RInvariance == RSpec => []RInv
<1>1. RInit => RInv
  <2>. SUFFICES ASSUME RInit PROVE RInv
    OBVIOUS
  <2>1. TypeInv
    BY InitInv DEF RInit, IInv, PlaceInv
  <2>. QED  BY <2>1, Prios DEF RInit, Init, RInv, CreateInv
<1>2. RInv /\ [RNext]_rvars => RInv'
  BY RInvStep
<1>. QED  BY <1>1, <1>2, PTL DEF RSpec

\* A creator that writes its word back is no holder afterwards, and nobody new is.
LEMMA WriterLetsGo ==
  ASSUME RInv, NEW r \in UserPrio, set_run_pool(r), NEW p \in UserPrio
  PROVE  Holders(p)' = Holders(p) \ {r}
<1>1. \A x \in UserPrio : creating'[x] = IF x = r THEN NULL ELSE creating[x]
  BY DEF set_run_pool, RInv, CreateInv
<1>2. \A x \in UserPrio \ {r} : word'[x] = word[x]
  BY DEF set_run_pool, RInv, CreateInv
<1>. QED  BY <1>1, <1>2 DEF Holders

\* A creator that begins reads a pool without the threads that are lost.
LEMMA ReaderIsNoHolder ==
  ASSUME RInv, NEW r \in UserPrio, NEW q \in UserPrio, NEW c \in TaskParams,
         BeginCreate(r, q, c.C, c.T), NEW p \in UserPrio, Lost(p)
  PROVE  Lost(p)' /\ Holders(p)' \subseteq Holders(p)
<1>1. /\ creating' = [creating EXCEPT ![r] = q]
      /\ word' = [word EXCEPT ![r] = runnable_pool]
      /\ UNCHANGED <<phase, current_task, runnable_pool, waiting_pool, created>>
  BY DEF BeginCreate, poolVars
<1>2. p \notin word'[r] /\ \A x \in UserPrio \ {r} : creating'[x] = creating[x] /\ word'[x] = word[x]
  BY <1>1 DEF Lost, RInv, CreateInv
<1>. QED  BY <1>1, <1>2 DEF Lost, Holders

\* What a step does to a lost thread.
LEMMA LostStep ==
  ASSUME RInv, [RNext]_rvars, NEW p \in UserPrio, Lost(p), phase' = "running"
  PROVE  IF Lost(p)' THEN Holders(p)' \subseteq Holders(p)
                     ELSE Holders(p) \ Holders(p)' # {}
<1>1. CASE SchedulerStep
  <2>1. UNCHANGED <<creating, word>>
    BY <1>1 DEF SchedulerStep, createVars
  <2>2. Lost(p)'
    BY <1>1, SchedulerKeepsLost DEF SchedulerStep, Lost, RInv
  <2>. QED  BY <2>1, <2>2 DEF Holders
<1>2. CASE \E r \in UserPrio : set_run_pool(r)
  <2>1. PICK r \in UserPrio : set_run_pool(r)
    BY <1>2
  <2>2. Holders(p)' = Holders(p) \ {r}
    BY <2>1, WriterLetsGo
  <2>3. CASE p \in word[r]
    <3>1. r \in Holders(p)
      BY <2>1, <2>3 DEF set_run_pool, Holders
    <3>. QED  BY <2>2, <3>1
  <2>4. CASE p \notin word[r]
    <3>1. p # creating[r]
      BY <2>1 DEF set_run_pool, RInv, CreateInv, Lost
    <3>2. Lost(p)'
      BY <2>1, <2>4, <3>1 DEF set_run_pool, Lost
    <3>. QED  BY <2>2, <3>2
  <2>. QED  BY <2>3, <2>4
<1>3. CASE \E r, q \in UserPrio : \E c \in TaskParams : BeginCreate(r, q, c.C, c.T)
  BY <1>3, ReaderIsNoHolder
<1>4. CASE (\E r \in UserPrio : sample_adc(r)) \/ UNCHANGED rvars
  <2>1. UNCHANGED <<phase, current_task, runnable_pool, waiting_pool, created, creating, word>>
    BY <1>4 DEF sample_adc, rvars, vars, poolVars, createVars
  <2>. QED  BY <2>1 DEF Lost, Holders
<1>. QED  BY <1>1, <1>2, <1>3, <1>4 DEF RNext

\* A thread the stale word dropped comes back only by the word of a creator that
\* read the pool before, for every number of threads, creators and races.
THEOREM LostStaysLost == RSpec => OnlyStaleWordFinds
<1>1. RInv /\ [RNext]_rvars =>
        [\A p \in UserPrio : Lost(p) /\ phase' = "running" =>
            IF Lost(p)' THEN Holders(p)' \subseteq Holders(p)
                        ELSE Holders(p) \ Holders(p)' # {}]_rvars
  BY LostStep
<1>. QED  BY <1>1, RInvariance, PTL DEF RSpec, OnlyStaleWordFinds

\* The tick chooses a thread with none above it in the pool it leaves.
LEMMA TickDispatches ==
  ASSUME TypeInv, Tick, find_next_task # Idle, NEW p \in runnable_pool' \cap UserPrio
  PROVE  find_next_task < p
<1>1. /\ current_task \in Prio
      /\ Eligible = {} => find_next_task = Idle
      /\ Eligible # {} => /\ find_next_task \in Eligible
                          /\ \A j \in Eligible : find_next_task <= j
  BY NextTask DEF TypeInv, Tick
<1>2. find_next_task \in UserPrio /\ find_next_task <= current_task
  BY <1>1 DEF Eligible
<1>3. p \in RunnableAfter \cup {current_task} /\ p # find_next_task
  BY DEF Tick
<1>4. current_task \in Nat /\ find_next_task \in Nat /\ p \in Nat
  BY <1>1, <1>2, SchedulerAssumption DEF UserPrio, Prio
<1>5. CASE p \in RunnableAfter /\ p <= current_task
  <2>1. p \in Eligible
    BY <1>5 DEF Eligible
  <2>. QED  BY <1>1, <1>3, <1>4, <2>1
<1>6. CASE ~(p \in RunnableAfter /\ p <= current_task)
  BY <1>2, <1>3, <1>4, <1>6
<1>. QED  BY <1>5, <1>6

\* Whatever has become of the pools, a tick dispatches by priority.
THEOREM TicksDispatch == RSpec => DispatchedAtTick
<1>1. ASSUME RInv, [RNext]_rvars, time' # time, current_task' # Idle,
             NEW p \in runnable_pool' \cap UserPrio
      PROVE  current_task' < p
  <2>1. Next
    BY <1>1 DEF RNext, SchedulerStep, BeginCreate, set_run_pool, sample_adc, rvars, vars
  <2>2. Tick
    BY <1>1, <2>1 DEF Next, thread_init, thread_create, scheduler_start, wait_until_next_period,
       spin_wait, SpinReturn, syscall_exit, Hang, vars
  <2>3. current_task' = find_next_task
    BY <2>2 DEF Tick
  <2>. QED  BY <1>1, <2>2, <2>3, TickDispatches DEF RInv
<1>2. RInv /\ [RNext]_rvars =>
        [time' # time => (current_task' # Idle =>
                            \A p \in runnable_pool' \cap UserPrio : current_task' < p)]_rvars
  BY <1>1
<1>. QED  BY <1>2, RInvariance, PTL DEF RSpec, DispatchedAtTick

----------------------------------------------------------------------------
(* As long as no stale word has been written back.                          *)

\* The scheduler's invariant, the order of dispatch left out: a thread created
\* late with a high priority waits for the next tick.  A TCB that is being
\* filled is as thread_create leaves it, and nobody is charged before his time.
KeptInv ==
  /\ PlaceInv
  /\ phase = "running" =>
       /\ \A p \in UserPrio : creating[p] # NULL =>
            LET q == creating[p]
            IN  status[q] = RUNNABLE /\ wakeup[q] = 0 /\ execution[q] = 0
       /\ \A q \in UserPrio \ created : used[q] = 0

\* What a step of the scheduler leaves alone in the TCB of a thread that is not
\* created: all that KeptInv says of it.
LEMMA UncreatedKept ==
  ASSUME PlaceInv, Next, phase = "running", NEW q \in UserPrio \ created
  PROVE  /\ status'[q] = status[q] /\ wakeup'[q] = wakeup[q]
         /\ execution'[q] = execution[q] /\ (used[q] = 0 => used'[q] = 0)
<1>1. /\ q \in Prio /\ q # Idle /\ Idle \notin UserPrio
      /\ q \notin runnable_pool \cup waiting_pool \cup {current_task}
  BY Prios DEF PlaceInv, NoLostThread
<1>2. CASE Tick
  <2>1. q \notin Waiters /\ q \notin Expired /\ q \notin RunnableAfter
    BY <1>1 DEF Waiters, Expired, RunnableAfter
  <2>2. q # find_next_task
    BY <1>1, <2>1, NextTask DEF PlaceInv, Eligible
  <2>3. NewStatus(q) = status[q] /\ NewExecution(q) = execution[q]
    BY <1>1, <2>1, <2>2 DEF NewStatus, NewExecution
  <2>4. WakeupAfter[q] = wakeup[q]
    BY <1>1 DEF WakeupAfter, PlaceInv, TypeInv, TypeOK
  <2>. QED  BY <1>1, <1>2, <2>1, <2>3, <2>4 DEF Tick
<1>3. CASE ~Tick
  <2>1. ASSUME NEW p \in UserPrio, wait_until_next_period(p)
        PROVE  status'[q] = status[q] /\ UNCHANGED <<wakeup, execution, used>>
    BY <1>1, <2>1 DEF wait_until_next_period, InUserCode, PlaceInv, TypeInv, TypeOK
  <2>2. \/ \E p \in UserPrio : wait_until_next_period(p)
        \/ UNCHANGED <<status, wakeup, execution, used>>
    BY <1>3 DEF Next, thread_init, thread_create, scheduler_start, spin_wait, SpinReturn,
       syscall_exit, Hang, vars, tcbVars
  <2>. QED  BY <2>1, <2>2
<1>. QED  BY <1>2, <1>3

\* A step of the scheduler keeps the invariant with a thread in creation.
LEMMA SchedulerKept ==
  ASSUME RInv, KeptInv, SchedulerStep
  PROVE  KeptInv'
<1>1. Next /\ UNCHANGED <<creating, word>>
  BY DEF SchedulerStep, createVars
<1>2. TypeInv'
  BY <1>1, TickType, CallType DEF RInv
<1>3. PlaceInv'
  <2>1. CASE Tick
    <3>1. BootState'
      BY <2>1 DEF Tick, BootState
    <3>. QED  BY <1>2, <2>1, <3>1, TickPlaces, TickBudget DEF PlaceInv, KeptInv
  <2>2. CASE ~Tick
    BY <1>1, <1>2, <2>2, CallInv DEF PlaceInv, KeptInv
  <2>. QED  BY <2>1, <2>2
<1>4. CASE phase = "running"
  <2>1. created' = created
    BY <1>1, <1>4, SchedulerKeepsCreated
  <2>2. \A q \in UserPrio \ created :
          /\ status'[q] = status[q] /\ wakeup'[q] = wakeup[q]
          /\ execution'[q] = execution[q] /\ (used[q] = 0 => used'[q] = 0)
    BY <1>1, <1>4, UncreatedKept DEF KeptInv
  <2>3. \A p \in UserPrio : creating[p] # NULL => creating[p] \in UserPrio \ created
    BY DEF RInv, CreateInv
  <2>. QED  BY <1>1, <1>3, <1>4, <2>1, <2>2, <2>3 DEF KeptInv
<1>5. CASE phase = "boot" /\ phase' = "running"
  <2>1. scheduler_start
    BY <1>1, <1>5 DEF Next, thread_init, thread_create, wait_until_next_period, spin_wait,
       SpinReturn, syscall_exit, Hang, Tick, InUserCode, vars
  <2>2. UNCHANGED <<used, created>> /\ \A q \in Prio : used[q] = 0
    BY <1>5, <2>1 DEF scheduler_start, KeptInv, PlaceInv, BootState
  <2>3. \A p \in UserPrio : creating[p] = NULL
    BY <1>5 DEF RInv, CreateInv
  <2>. QED  BY <1>1, <1>3, <2>2, <2>3, Prios DEF KeptInv
<1>6. CASE phase' # "running"
  BY <1>3, <1>6 DEF KeptInv
<1>7. phase' = "running" => phase \in {"boot", "running"}
  BY <1>1 DEF Next, thread_init, thread_create, scheduler_start, wait_until_next_period, spin_wait,
     SpinReturn, syscall_exit, Hang, Tick, InUserCode, vars
<1>. QED  BY <1>4, <1>5, <1>6, <1>7

\* A thread begins to create another: only the new TCB changes.
LEMMA BeginKept ==
  ASSUME RInv, RInv', KeptInv,
         NEW p \in UserPrio, NEW q \in UserPrio, NEW c \in TaskParams, BeginCreate(p, q, c.C, c.T)
  PROVE  KeptInv'
<1>1. /\ phase = "running" /\ q \notin created
      /\ \A r \in UserPrio : creating[r] # q
      /\ creating' = [creating EXCEPT ![p] = q]
      /\ InitTcb(q, c.C, c.T)
      /\ UNCHANGED <<phase, current_task, runnable_pool, waiting_pool, created, used>>
  BY DEF BeginCreate, Unused, Free, InUserCode, poolVars
<1>2. /\ q \in Prio
      /\ status'[q] = RUNNABLE /\ wakeup'[q] = 0 /\ execution'[q] = 0
      /\ \A r \in Prio \ {q} : /\ status'[r] = status[r] /\ computation'[r] = computation[r]
                               /\ execution'[r] = execution[r] /\ wakeup'[r] = wakeup[r]
  BY <1>1, Prios DEF InitTcb, RInv, TypeInv, TypeOK
<1>3. NoLostThread'
  BY <1>1, <1>2, Prios DEF NoLostThread, KeptInv, PlaceInv, TypeInv, TypeOK
<1>4. BudgetInv'
  BY <1>1, <1>2, Prios DEF BudgetInv, KeptInv, PlaceInv, TypeInv, TypeOK
<1>5. BootState'
  BY <1>1 DEF BootState
<1>6. ASSUME NEW r \in UserPrio, creating'[r] # NULL
      PROVE  LET x == creating'[r]
             IN  status'[x] = RUNNABLE /\ wakeup'[x] = 0 /\ execution'[x] = 0
  <2>1. CASE r = p
    <3>1. creating'[r] = q
      BY <1>1, <2>1 DEF RInv, CreateInv
    <3>. QED  BY <1>2, <3>1
  <2>2. CASE r # p
    <3>1. creating'[r] = creating[r] /\ creating[r] \in Prio \ {q}
      BY <1>1, <1>6, <2>2, Prios DEF RInv, CreateInv
    <3>2. /\ status[creating[r]] = RUNNABLE /\ wakeup[creating[r]] = 0
          /\ execution[creating[r]] = 0
      BY <1>1, <1>6, <3>1 DEF KeptInv
    <3>. QED  BY <1>2, <3>1, <3>2
  <2>. QED  BY <2>1, <2>2
<1>7. PlaceInv'
  BY <1>3, <1>4, <1>5 DEF PlaceInv, RInv
<1>. QED
  BY <1>1, <1>6, <1>7 DEF KeptInv

\* The pool word is written back and was not stale.
LEMMA SetKept ==
  ASSUME RInv, RInv', KeptInv, NEW p \in UserPrio, set_run_pool(p), ~raced'
  PROVE  KeptInv'
<1>1. /\ phase = "running" /\ current_task = p /\ creating[p] # NULL
      /\ runnable_pool' = runnable_pool \cup {creating[p]}
      /\ created' = created \cup {creating[p]}
      /\ creating' = [creating EXCEPT ![p] = NULL]
      /\ UNCHANGED <<phase, current_task, waiting_pool, status, wakeup, computation, execution, used>>
  BY DEF set_run_pool, tcbVars
<1>2. /\ creating[p] \in UserPrio \ created
      /\ status[creating[p]] = RUNNABLE /\ execution[creating[p]] = 0 /\ used[creating[p]] = 0
  BY <1>1 DEF RInv, CreateInv, KeptInv
<1>3. /\ creating[p] \notin runnable_pool \cup waiting_pool \cup {current_task}
      /\ computation[creating[p]] \in Nat
  BY <1>1, <1>2, Prios DEF KeptInv, PlaceInv, NoLostThread, TypeInv, TypeOK
<1>4. NoLostThread'
  <2>1. (runnable_pool' \cup waiting_pool' \cup {current_task'}) \cap UserPrio = created'
    BY <1>1, <1>2 DEF KeptInv, PlaceInv, NoLostThread
  <2>. QED  BY <1>1, <1>2, <1>3, <2>1 DEF KeptInv, PlaceInv, NoLostThread
<1>5. BudgetInv'
  BY <1>1, <1>2, <1>3 DEF KeptInv, PlaceInv, BudgetInv
<1>6. BootState'
  BY <1>1 DEF BootState
<1>7. \A r \in UserPrio : creating'[r] = IF r = p THEN NULL ELSE creating[r]
  BY <1>1 DEF RInv, CreateInv
<1>8. PlaceInv'
  BY <1>4, <1>5, <1>6 DEF PlaceInv, RInv
<1>. QED
  BY <1>1, <1>7, <1>8 DEF KeptInv

\* Until the first stale word every step keeps the invariant.
LEMMA KeptStep ==
  ASSUME RInv, RInv', ~raced => KeptInv, [RNext]_rvars, ~raced'
  PROVE  KeptInv'
<1>1. ~raced
  BY DEF RNext, SchedulerStep, BeginCreate, set_run_pool, sample_adc, rvars, createVars
<1>2. CASE SchedulerStep
  BY <1>1, <1>2, SchedulerKept
<1>3. CASE \E p, q \in UserPrio : \E c \in TaskParams : BeginCreate(p, q, c.C, c.T)
  BY <1>1, <1>3, BeginKept
<1>4. CASE \E p \in UserPrio : set_run_pool(p)
  BY <1>1, <1>4, SetKept
<1>5. CASE \E p \in UserPrio : sample_adc(p)
  <2>1. /\ InitTcb(Idle, IdleComputation, 1)
        /\ phase = "running"
        /\ UNCHANGED <<phase, current_task, runnable_pool, waiting_pool, created, used, creating>>
    BY <1>5 DEF sample_adc, Free, InUserCode, poolVars, createVars
  <2>2. \A r \in UserPrio : /\ status'[r] = status[r] /\ computation'[r] = computation[r]
                            /\ execution'[r] = execution[r] /\ wakeup'[r] = wakeup[r]
    BY <2>1, Prios DEF InitTcb, RInv, TypeInv, TypeOK
  <2>3. created \subseteq UserPrio
    BY DEF RInv, TypeInv, TypeOK
  <2>4. NoLostThread' /\ BudgetInv' /\ BootState'
    BY <1>1, <2>1, <2>2, <2>3 DEF NoLostThread, BudgetInv, BootState, KeptInv, PlaceInv
  <2>. QED  BY <1>1, <2>1, <2>2, <2>4 DEF KeptInv, PlaceInv, RInv, CreateInv
<1>6. CASE UNCHANGED rvars
  BY <1>1, <1>6 DEF rvars, vars, poolVars, tcbVars, createVars, KeptInv, PlaceInv, TypeInv, TypeOK,
     BootState, NoLostThread, BudgetInv
<1>. QED  BY <1>2, <1>3, <1>4, <1>5, <1>6 DEF RNext

\* KeptInv holds until a stale word is written back.
LEMMA KeptInvariance == RSpec => [](~raced => KeptInv)
<1>1. RInit => (~raced => KeptInv)
  <2>. SUFFICES ASSUME RInit PROVE KeptInv
    OBVIOUS
  <2>1. PlaceInv
    BY InitInv DEF RInit, IInv
  <2>. QED  BY <2>1 DEF RInit, Init, KeptInv
<1>2. RInv /\ RInv' /\ (~raced => KeptInv) /\ [RNext]_rvars => (~raced => KeptInv)'
  BY KeptStep
<1>. QED  BY <1>1, <1>2, RInvariance, PTL DEF RSpec

\* Threads are lost or doubled by a stale word only, whatever is created when,
\* and whoever makes ADC calls.
THEOREM LossByRaceOnly == RSpec => []LostOnlyByRace
<1>1. (~raced => KeptInv) => LostOnlyByRace
  BY DEF KeptInv, PlaceInv, LostOnlyByRace
<1>. QED  BY <1>1, KeptInvariance, PTL

\* Release times of a thread that is created late start at 0.
LEMMA ReleaseKept ==
  ASSUME RInv, KeptInv, ReleaseTimely, Horizon, [RNext]_rvars, ~raced'
  PROVE  ReleaseTimely'
<1>1. CASE SchedulerStep
  BY <1>1, ReleaseStep DEF SchedulerStep, KeptInv
<1>2. ASSUME NEW p \in UserPrio, NEW q \in UserPrio, NEW c \in TaskParams, BeginCreate(p, q, c.C, c.T)
      PROVE  ReleaseTimely'
  <2>1. /\ q \notin created /\ InitTcb(q, c.C, c.T)
        /\ UNCHANGED <<phase, time, waiting_pool, created>>
    BY <1>2 DEF BeginCreate, Unused, poolVars
  <2>2. \A r \in created : wakeup'[r] = wakeup[r] /\ period'[r] = period[r]
    BY <2>1, Prios DEF InitTcb, RInv, TypeInv, TypeOK
  <2>. QED  BY <2>1, <2>2 DEF ReleaseTimely
<1>3. ASSUME NEW p \in UserPrio, set_run_pool(p) PROVE ReleaseTimely'
  <2>1. /\ phase = "running" /\ creating[p] # NULL
        /\ created' = created \cup {creating[p]}
        /\ UNCHANGED <<phase, time, waiting_pool, wakeup, period>>
    BY <1>3 DEF set_run_pool, tcbVars
  <2>2. /\ creating[p] \in UserPrio \ created /\ wakeup[creating[p]] = 0
        /\ period[creating[p]] \in Nat /\ time \in Nat
    <3>1. creating[p] \in UserPrio \ created /\ wakeup[creating[p]] = 0
      BY <2>1 DEF RInv, CreateInv, KeptInv
    <3>2. period[creating[p]] \in Word /\ time \in Word
      BY <3>1, Prios DEF RInv, TypeInv, TypeOK
    <3>. QED  BY <3>1, <3>2, SchedulerAssumption DEF Word
  <2>3. creating[p] \notin waiting_pool
    BY <2>1, <2>2 DEF KeptInv, PlaceInv, NoLostThread
  <2>4. 0 \in 0 .. 0 /\ 0 = 0 * period[creating[p]]
    BY <2>2
  <2>. QED  BY <2>1, <2>2, <2>3, <2>4 DEF ReleaseTimely
<1>4. ASSUME NEW p \in UserPrio, sample_adc(p) PROVE ReleaseTimely'
  <2>1. /\ InitTcb(Idle, IdleComputation, 1)
        /\ UNCHANGED <<phase, time, waiting_pool, created>>
    BY <1>4 DEF sample_adc, poolVars
  <2>2. \A r \in created : wakeup'[r] = wakeup[r] /\ period'[r] = period[r]
    BY <2>1, Prios DEF InitTcb, RInv, TypeInv, TypeOK
  <2>. QED  BY <2>1, <2>2 DEF ReleaseTimely
<1>5. CASE UNCHANGED rvars
  BY <1>5 DEF rvars, vars, poolVars, tcbVars, ReleaseTimely
<1>. QED  BY <1>1, <1>2, <1>3, <1>4, <1>5 DEF RNext

\* Until a stale word is written back, and until the timer word is about to
\* wrap, late creations disturb neither release times nor budgets.
THEOREM KeptWithoutRace == RSpec /\ []Horizon => []KeptUnlessRaced
<1>1. RInit => (~raced => ReleaseTimely)
  BY DEF RInit, Init, ReleaseTimely
<1>2. ASSUME RInv, ~raced => KeptInv, ~raced => ReleaseTimely, Horizon, [RNext]_rvars, ~raced'
      PROVE  ReleaseTimely'
  <2>1. ~raced
    BY <1>2 DEF RNext, SchedulerStep, BeginCreate, set_run_pool, sample_adc, rvars, createVars
  <2>. QED  BY <1>2, <2>1, ReleaseKept
<1>3. RInv /\ (~raced => KeptInv) /\ (~raced => ReleaseTimely) /\ Horizon /\ [RNext]_rvars
        => (~raced => ReleaseTimely)'
  BY <1>2
<1>4. KeptInv => BudgetBound
  <2>. SUFFICES ASSUME KeptInv, phase = "running", NEW p \in created
                PROVE  used[p] <= computation[p] + 1
    BY DEF BudgetBound
  <2>1. p \in Prio /\ used[p] \in Nat /\ computation[p] \in Nat
    BY Prios DEF KeptInv, PlaceInv, TypeInv, TypeOK
  <2>. QED  BY <2>1 DEF KeptInv, PlaceInv, BudgetInv
<1>5. (~raced => KeptInv) /\ (~raced => ReleaseTimely) => KeptUnlessRaced
  BY <1>4 DEF KeptUnlessRaced
<1>. QED  BY <1>1, <1>3, <1>5, RInvariance, KeptInvariance, PTL DEF RSpec
=============================================================================
