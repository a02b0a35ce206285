--------------------------- MODULE ContextProofs ---------------------------
(***************************************************************************)
(* Proofs about ContextSwitch for every set of threads.  The idea of the    *)
(* invariant: a thread's context, be it in the CPU or saved in its TCB, is  *)
(* the same thing (Context), which the timer interrupt does not change, so  *)
(* it is enough to say what the context of each thread looks like           *)
(* (ThreadContext, IdleContext) and look at the steps of the current one.   *)
(***************************************************************************)
EXTENDS ContextSwitch, TLAPS

Tcbs == Threads \cup {Idle}
Users == created \cap Threads

\* The registers of a thread: those of the CPU if it runs, else the saved ones.
Context(p) == IF p = current_task THEN regs ELSE Restored(tcb_regs[p])

\* Thread p is in thread_create of q, or in an ADC call if q is Idle, before
\* store i.
Stores(p, q, i) == Context(p).pc = Storing(i) /\ Context(p).r = Fresh(q)

----------------------------------------------------------------------------
(* The inductive invariant.                                                 *)

\* The context of a user thread: in its own code, in the handler with its
\* frame on its kernel stack, or about to return.
ThreadContext(p, c) ==
  LET mine == expect[p] IN
  /\ mine.pc \in {<<p, 0>>, <<p, 1>>} /\ mine.cpsr.mode = "usr"
  /\ c.sp_usr = mine.sp_usr /\ c.lr_usr = mine.lr_usr
  /\ \/ /\ c.cpsr.mode = "usr"
        /\ c.r = mine.r /\ c.pc = mine.pc /\ c.cpsr = mine.cpsr
        /\ c.sp_svc = <<p, 0>>
     \/ /\ c.cpsr.mode # "usr"
        /\ \/ c.pc \in {Peek, Body, Return, SpsrSet}
           \/ \E q \in Tcbs, i \in 1 .. 6 : c.pc = Storing(i) /\ c.r = Fresh(q)
        /\ c.sp_svc = <<p, 1>>
        /\ kstack[p] = <<mine.r, mine.pc, mine.cpsr>>
        /\ c.pc = SpsrSet => c.spsr_svc = mine.cpsr
     \/ /\ c.cpsr.mode # "usr" /\ c.pc = Popped
        /\ c.r = mine.r /\ c.lr_svc = mine.pc /\ c.spsr_svc = mine.cpsr
        /\ c.sp_svc = <<p, 0>>

\* The context of idle: the loop of scheduler_start, or what an ADC call names,
\* in user mode on the stack it names.
IdleContext(c) ==
  /\ c.pc \in {Loop, <<Adc, 0>>, <<Adc, 1>>}
  /\ c.pc # Loop => c.cpsr.mode = "usr" /\ c.sp_usr[1] = Adc
  /\ c.sp_svc \in {<<Main, 1>>, <<Idle, 0>>}

\* The stores already done for a thread that is being created.
Begun(q, i) ==
  LET f == tcb_regs[q] IN
  /\ i > 1 => f[SP_USER] = Stack(q)
  /\ i > 2 => f[SPSR_IRQ] = Psr("usr", Zero)
  /\ i > 4 => f[LR_IRQ] = Fresh(q)
  /\ i > 5 => f[LR_USER] = Fresh(q)

\* And for idle, which may run in between.
IdleBegun(i) ==
  /\ i > 1 => Context(Idle).sp_usr[1] = Adc
  /\ i > 2 => Context(Idle).cpsr.mode = "usr"

StoresInv ==
  /\ \A p \in Users, q \in Threads, i \in 1 .. 6 :
       Stores(p, q, i) => q \notin created /\ Begun(q, i)
  /\ \A p \in Users, i \in 1 .. 6 : Stores(p, Idle, i) => IdleBegun(i)
  \* No two threads create the same one.
  /\ \A p1, p2 \in Users, q \in Threads, i, j \in 1 .. 6 :
       Stores(p1, q, i) /\ Stores(p2, q, j) => p1 = p2
  /\ \A q \in Threads \ created : tcb_regs[q][R0_R12] = Zero

BootInv ==
  phase = "boot" =>
    /\ current_task = Main
    /\ regs.pc = Fresh(Main) /\ regs.cpsr.mode = "usr"
    /\ \A p \in Tcbs : tcb_regs[p][R0_R12] = Zero
    /\ \A p \in created :
         LET f == tcb_regs[p] IN
         /\ f[SP_USER] = Stack(p) /\ f[SPSR_IRQ] = Psr("usr", Zero)
         /\ f[LR_IRQ] = Fresh(p) /\ f[LR_USER] = Fresh(p) /\ f[SP_SVC] = Fresh(p)
         /\ expect[p] = AtStart(p)

RunInv ==
  phase = "running" =>
    /\ current_task \in created /\ Idle \in created
    /\ \A p \in Users : ThreadContext(p, Context(p))
    /\ IdleContext(Context(Idle))
    /\ StoresInv

CInv == TypeOK /\ BootInv /\ RunInv

----------------------------------------------------------------------------

\* The loads on the way out of the interrupt undo the pushes on the way in.
LEMMA RestoredSaved ==
  ASSUME TypeOK
  PROVE  Restored(Saved) = regs
BY DEF TypeOK, Restored, Saved

\* The timer interrupt changes no thread's context.
LEMMA TickContext ==
  ASSUME TypeOK, Tick, current_task \in created
  PROVE  /\ \A p \in created : Context(p)' = Context(p)
         /\ \A q \in Tcbs \ created : tcb_regs'[q] = tcb_regs[q]
<1>1. Restored(Saved) = regs
  BY RestoredSaved
<1>2. PICK next \in created :
       /\ tcb_regs' = [tcb_regs EXCEPT ![current_task] = Saved]
       /\ current_task' = next
       /\ regs' = Restored(tcb_regs'[next])
  BY DEF Tick
<1>3. /\ tcb_regs'[current_task] = Saved
      /\ \A p \in Tcbs : p # current_task => tcb_regs'[p] = tcb_regs[p]
  BY <1>2 DEF TypeOK, Tcbs
<1>4. created \subseteq Tcbs
  BY DEF TypeOK, Tcbs
<1>5. ASSUME NEW p \in created PROVE Context(p)' = Context(p)
  <2>1. Context(p)' = Restored(tcb_regs'[p])
    BY <1>2 DEF Context, Restored
  <2>. QED  BY <2>1, <1>1, <1>3, <1>4 DEF Context
<1>. QED  BY <1>5, <1>3, <1>4

\* enter_user_mode leaves a state of CInv.
LEMMA InitCInv == Init => CInv
<1>. SUFFICES ASSUME Init PROVE CInv
  OBVIOUS
<1>1. TypeOK
  BY DEF Init, TypeOK, Value, PsrValue, Owners, Fresh, Stack, Zero, Psr
<1>. QED
  BY <1>1 DEF Init, CInv, BootInv, RunInv, R0_R12, Tcbs, Fresh, Psr

\* A saved context can be loaded.
LEMMA ContextType ==
  ASSUME CInv, phase = "running", NEW p \in created
  PROVE  Context(p) \in
           [r : Value, pc : Value, cpsr : PsrValue, sp_usr : Value, lr_usr : Value,
            sp_svc : Owners \X (0 .. 1), lr_svc : Value, spsr_svc : PsrValue]
<1>1. Context(p).sp_svc \in Owners \X (0 .. 1)
  <2>1. CASE p \in Threads
    <3>1. ThreadContext(p, Context(p))
      BY <2>1 DEF CInv, RunInv, Users
    <3>. QED  BY <2>1, <3>1 DEF ThreadContext, Owners
  <2>2. CASE p = Idle
    BY <2>2 DEF CInv, RunInv, IdleContext, Owners
  <2>. QED  BY <2>1, <2>2 DEF CInv, TypeOK
<1>2. CASE p = current_task
  BY <1>2 DEF Context, CInv, TypeOK
<1>3. CASE p # current_task
  <2>1. tcb_regs[p] \in
          PsrValue \X Value \X Value \X Value \X Value \X Value \X Value \X PsrValue
    BY DEF CInv, TypeOK
  <2>. QED  BY <1>1, <1>3, <2>1 DEF Context, Restored
<1>. QED  BY <1>2, <1>3

\* The timer interrupt keeps CInv: it moves contexts and changes none.
LEMMA TickInv ==
  ASSUME CInv, Tick
  PROVE  CInv'
<1>1. /\ \A p \in created : Context(p)' = Context(p)
      /\ \A q \in Tcbs \ created : tcb_regs'[q] = tcb_regs[q]
  BY TickContext DEF CInv, RunInv, Tick
<1>2. UNCHANGED <<phase, created, kstack, expect>> /\ phase = "running"
  BY DEF Tick
<1>3. current_task' \in created
  BY DEF Tick
<1>4. RunInv'
  <2>1. \A p \in Users : ThreadContext(p, Context(p))'
    BY <1>1, <1>2 DEF CInv, RunInv, Users, ThreadContext
  <2>2. IdleContext(Context(Idle))'
    BY <1>1, <1>2 DEF CInv, RunInv, IdleContext
  <2>3. \A p \in created, q \in Tcbs, i \in 1 .. 6 : Stores(p, q, i)' <=> Stores(p, q, i)
    BY <1>1 DEF Stores
  <2>4. StoresInv'
    BY <1>1, <1>2, <2>3 DEF CInv, RunInv, StoresInv, Begun, IdleBegun, Users, Tcbs
  <2>. QED  BY <1>2, <1>3, <2>1, <2>2, <2>4 DEF CInv, RunInv, Users
<1>5. TypeOK'
  <2>1. Saved \in PsrValue \X Value \X Value \X Value \X Value \X Value \X Value \X PsrValue
    <3>1. Owners \X (0 .. 1) \subseteq Value
      BY DEF Value
    <3>. QED  BY <3>1 DEF CInv, TypeOK, Saved
  <2>2. PICK p \in created : regs' = Context(p)
    <3>1. PICK p \in created : p = current_task'
      BY <1>3
    <3>2. Context(p)' = regs'
      BY <3>1 DEF Context
    <3>. QED  BY <1>1, <3>2
  <2>3. regs' \in [r : Value, pc : Value, cpsr : PsrValue, sp_usr : Value, lr_usr : Value,
                   sp_svc : Owners \X (0 .. 1), lr_svc : Value, spsr_svc : PsrValue]
    BY <1>2, <1>3, <2>2, ContextType
  <2>4. tcb_regs' \in [Threads \cup {Idle} ->
          PsrValue \X Value \X Value \X Value \X Value \X Value \X Value \X PsrValue]
    BY <2>1 DEF Tick, CInv, TypeOK
  <2>. QED  BY <1>2, <1>3, <2>3, <2>4 DEF CInv, TypeOK
<1>. QED  BY <1>2, <1>4, <1>5 DEF CInv, BootInv

\* What a step of the current thread that leaves the saved contexts alone has to
\* keep: its own context, the stacks and the records of the others.
LEMMA OthersKeep ==
  ASSUME CInv, phase = "running",
         UNCHANGED <<phase, current_task, created, tcb_regs>>
  PROVE  /\ Context(current_task)' = regs'
         /\ \A p \in created : p # current_task => Context(p)' = Context(p)
BY DEF Context, Restored

\* A step of a thread in its own code, and the call of the handler.
LEMMA UserInv ==
  ASSUME CInv, UserStep
  PROVE  CInv'
<1>0. UNCHANGED <<phase, current_task, created, tcb_regs, kstack>> /\ phase = "running"
  BY DEF UserStep, InMode
<1>1. /\ Context(current_task)' = regs'
      /\ \A p \in created : p # current_task => Context(p)' = Context(p)
  BY <1>0, OthersKeep
<1>. DEFINE o == Code(current_task)
            v == <<o, 1 - regs.pc[2]>>
            s == <<o, 3 - regs.pc[2]>>
<1>2. /\ regs' = [regs EXCEPT !.r = v, !.pc = v, !.cpsr = Psr("usr", v),
                              !.sp_usr = s, !.lr_usr = v]
      /\ expect' = [expect EXCEPT ![current_task] =
            [r |-> v, pc |-> v, cpsr |-> Psr("usr", v), sp_usr |-> s, lr_usr |-> v]]
  BY DEF UserStep
<1>3. regs.pc \in {<<o, 0>>, <<o, 1>>} /\ o \in Owners
  <2>1. CASE current_task \in Threads
    <3>1. o = current_task
      BY <2>1, ContextAssumption DEF Code
    <3>. QED
      BY <1>0, <2>1, <3>1 DEF CInv, RunInv, Users, ThreadContext, Context, UserStep, InMode, Owners
  <2>2. CASE current_task = Idle
    BY <1>0, <2>2 DEF CInv, RunInv, IdleContext, Context, UserStep, Code, Owners
  <2>. QED  BY <1>0, <2>1, <2>2 DEF CInv, RunInv, TypeOK
<1>4. v \in {<<o, 0>>, <<o, 1>>} /\ s[1] = o
  BY <1>3
<1>7. /\ current_task = Idle => o = Adc
      /\ current_task \in Users => o = current_task
  BY ContextAssumption DEF Code, Users
<1>5. TypeOK'
  <2>1. v \in Value /\ s \in Value
    BY <1>3 DEF Value
  <2>2. Psr("usr", v) \in PsrValue
    BY <2>1 DEF Psr, PsrValue
  <2>. HIDE DEF v, s, o
  <2>. QED  BY <1>0, <1>2, <2>1, <2>2 DEF CInv, TypeOK
<1>6. RunInv'
  <2>1. \A p \in Users : p # current_task => ThreadContext(p, Context(p))'
    BY <1>0, <1>1, <1>2 DEF CInv, RunInv, ThreadContext, Users, TypeOK
  <2>2. current_task \in Users => ThreadContext(current_task, regs)'
    BY <1>0, <1>1, <1>2, <1>4, <1>7 DEF CInv, RunInv, ThreadContext, Users, TypeOK, Context, UserStep,
       InMode, Psr
  <2>3. IdleContext(Context(Idle))'
    BY <1>0, <1>1, <1>2, <1>4, <1>7 DEF CInv, RunInv, IdleContext, TypeOK, Context, Psr
  <2>4. \A p \in Users, q \in Tcbs, i \in 1 .. 6 : Stores(p, q, i)' => Stores(p, q, i)
    <3>1. ASSUME NEW p \in Users, p # current_task, NEW q \in Tcbs, NEW i \in 1 .. 6
          PROVE  Stores(p, q, i)' => Stores(p, q, i)
      BY <1>1, <3>1 DEF Stores, Users
    <3>2. ASSUME current_task \in Users, NEW q \in Tcbs, NEW i \in 1 .. 6
          PROVE  ~Stores(current_task, q, i)'
      <4>1. regs'.pc = v /\ o = current_task /\ current_task # Kernel
        BY <1>2, <1>7, <3>2, ContextAssumption DEF CInv, TypeOK, Users
      <4>2. v # Storing(i)
        BY <1>4, <4>1 DEF Storing
      <4>. QED  BY <1>0, <4>1, <4>2 DEF Stores, Context
    <3>. QED  BY <1>0, <3>1, <3>2 DEF Stores, Context
  <2>5. StoresInv'
    BY <1>0, <1>1, <1>2, <1>4, <1>7, <2>4 DEF CInv, RunInv, StoresInv, Begun, IdleBegun, Users, Tcbs,
       TypeOK, Psr, Context
  <2>. QED  BY <1>0, <1>1, <2>1, <2>2, <2>3, <2>5 DEF CInv, RunInv, Users, Context
<1>. QED  BY <1>0, <1>5, <1>6 DEF CInv, BootInv

\* A user thread that changes only its own context and stack, and ends up before
\* no store.
LEMMA OwnStep ==
  ASSUME CInv, phase = "running", current_task \in Users,
         UNCHANGED <<phase, current_task, created, tcb_regs, expect>>,
         \A q \in Owners : q # current_task => kstack'[q] = kstack[q],
         ThreadContext(current_task, regs)',
         \A i \in 1 .. 6 : regs'.pc # Storing(i)
  PROVE  RunInv'
<1>1. /\ Context(current_task)' = regs'
      /\ \A p \in created : p # current_task => Context(p)' = Context(p)
  BY OthersKeep
<1>2. \A p \in Users : ThreadContext(p, Context(p))'
  BY <1>1 DEF CInv, RunInv, ThreadContext, Users, Owners
<1>3. Context(Idle)' = Context(Idle) /\ Idle \in created /\ Idle \notin Users
  BY <1>1, ContextAssumption DEF CInv, RunInv, Users
<1>4. \A p \in Users, q \in Tcbs, i \in 1 .. 6 : Stores(p, q, i)' => Stores(p, q, i)
  BY <1>1 DEF Stores, Users
<1>5. StoresInv'
  BY <1>3, <1>4 DEF CInv, RunInv, StoresInv, Begun, IdleBegun, Users, Tcbs
<1>. QED  BY <1>1, <1>2, <1>3, <1>5 DEF CInv, RunInv, IdleContext, Users

\* Only user threads are in the handler.
LEMMA HandlerThread ==
  ASSUME CInv, phase = "running",
         \/ regs.pc \in {Peek, Body, Return, SpsrSet, Popped}
         \/ \E i \in 1 .. 6 : regs.pc = Storing(i)
  PROVE  /\ current_task \in Users
         /\ regs.cpsr.mode # "usr"
         /\ ThreadContext(current_task, regs)
<1>1. regs.pc[1] = Kernel /\ regs.pc # Loop
  BY DEF Peek, Body, Return, SpsrSet, Popped, Storing, Loop
<1>2. current_task # Idle
  BY <1>1, ContextAssumption DEF CInv, RunInv, IdleContext, Context
<1>3. current_task \in Users
  BY <1>2 DEF CInv, RunInv, TypeOK, Users
<1>4. ThreadContext(current_task, regs)
  BY <1>3 DEF CInv, RunInv, Context
<1>5. regs.cpsr.mode # "usr"
  BY <1>1, <1>3, <1>4, ContextAssumption DEF ThreadContext, Users
<1>. QED  BY <1>3, <1>4, <1>5

\* Points of the kernel and modes are values.
LEMMA KernelValues ==
  /\ {Zero, Peek, Body, Return, SpsrSet, Popped, Loop} \subseteq Value
  /\ \A i \in 1 .. 6 : Storing(i) \in Value
  /\ \A q \in Tcbs \cup {Adc} : Fresh(q) \in Value /\ Stack(q) \in Value
  /\ \A m \in {"usr", "sys", "svc"}, v \in Value : Psr(m, v) \in PsrValue
BY DEF Zero, Peek, Body, Return, SpsrSet, Popped, Loop, Storing, Fresh, Stack, Value, Owners,
       Psr, PsrValue, Tcbs

\* The swi instruction and the handler's first pushes keep CInv.
LEMMA SwiEntryInv ==
  ASSUME CInv, SwiEntry
  PROVE  CInv'
<1>0. /\ phase = "running" /\ regs.cpsr.mode = "usr" /\ current_task \in Threads
      /\ UNCHANGED <<phase, current_task, created, tcb_regs, expect>>
  BY DEF SwiEntry, InMode
<1>1. current_task \in Users /\ ThreadContext(current_task, regs)
  BY <1>0 DEF CInv, RunInv, Users, Context
<1>2. regs.sp_svc = <<current_task, 0>>
  BY <1>0, <1>1 DEF ThreadContext
<1>3. /\ kstack' = [kstack EXCEPT ![current_task] = <<regs.r, regs.pc, regs.cpsr>>]
      /\ regs' = [regs EXCEPT !.r = Zero, !.pc = Peek, !.cpsr = Psr("sys", Zero),
                              !.sp_svc = <<current_task, 1>>,
                              !.lr_svc = regs.pc, !.spsr_svc = regs.cpsr]
  BY <1>2 DEF SwiEntry
<1>4. TypeOK'
  <2>1. <<current_task, 1>> \in Owners \X (0 .. 1) /\ Zero \in Value /\ Peek \in Value
        /\ Psr("sys", Zero) \in PsrValue
    BY <1>0, KernelValues DEF Owners
  <2>2. regs' \in [r : Value, pc : Value, cpsr : PsrValue, sp_usr : Value, lr_usr : Value,
               sp_svc : Owners \X (0 .. 1), lr_svc : Value, spsr_svc : PsrValue]
    BY <1>3, <2>1 DEF CInv, TypeOK
  <2>3. kstack' \in [Owners -> Value \X Value \X PsrValue]
    BY <1>3 DEF CInv, TypeOK
  <2>. QED  BY <1>0, <2>2, <2>3 DEF CInv, TypeOK
<1>5. ThreadContext(current_task, regs)'
  BY <1>0, <1>1, <1>3 DEF ThreadContext, CInv, TypeOK, Psr, Owners, Peek, SpsrSet
<1>6. \A q \in Owners : q # current_task => kstack'[q] = kstack[q]
  BY <1>3 DEF CInv, TypeOK
<1>7. \A i \in 1 .. 6 : regs'.pc # Storing(i)
  BY <1>3 DEF CInv, TypeOK, Peek, Storing
<1>. QED  BY <1>0, <1>1, <1>4, <1>5, <1>6, <1>7, OwnStep DEF CInv, BootInv

\* The handler up to the return, and the return.
LEMMA HandlerInv ==
  ASSUME CInv, SwiHandler \/ SwiHandled \/ SwiRestoreSpsr \/ SwiPop \/ SwiExit
  PROVE  CInv'
<1>. USE DEF KernelStep
<1>0. /\ phase = "running"
      /\ UNCHANGED <<phase, current_task, created, tcb_regs, kstack, expect>>
  BY DEF SwiHandler, SwiHandled, SwiRestoreSpsr, SwiPop, SwiExit
<1>1. regs.pc \in {Peek, Body, Return, SpsrSet, Popped}
  BY DEF SwiHandler, SwiHandled, SwiRestoreSpsr, SwiPop, SwiExit
<1>2. current_task \in Users /\ regs.cpsr.mode # "usr" /\ ThreadContext(current_task, regs)
  BY <1>0, <1>1, HandlerThread
<1>3. /\ Peek # Body /\ Peek # Return /\ Peek # SpsrSet /\ Peek # Popped /\ Body # Return
      /\ Body # SpsrSet /\ Body # Popped /\ Return # SpsrSet /\ Return # Popped
      /\ SpsrSet # Popped
      /\ \A i \in 1 .. 6 : Storing(i) \notin {Peek, Body, Return, SpsrSet, Popped}
  BY DEF Peek, Body, Return, SpsrSet, Popped, Storing
<1>4. \A q \in Owners : q # current_task => kstack'[q] = kstack[q]
  BY <1>0
<1>. DEFINE RegsType == [r : Value, pc : Value, cpsr : PsrValue, sp_usr : Value, lr_usr : Value,
               sp_svc : Owners \X (0 .. 1), lr_svc : Value, spsr_svc : PsrValue]
<1>5. regs \in RegsType /\ kstack \in [Owners -> Value \X Value \X PsrValue]
  BY DEF CInv, TypeOK
<1>6. regs' \in RegsType /\ ThreadContext(current_task, regs)'
      /\ \A i \in 1 .. 6 : regs'.pc # Storing(i)
  <2>1. CASE SwiHandler
    <3>1. regs' = [regs EXCEPT !.cpsr = Psr("svc", Zero), !.lr_svc = Zero, !.pc = Body]
      BY <2>1 DEF SwiHandler
    <3>2. regs' \in RegsType
      BY <1>5, <3>1, KernelValues
    <3>3. regs.pc = Peek
      BY <2>1 DEF SwiHandler
    <3>. QED  BY <1>0, <1>2, <1>3, <1>5, <3>1, <3>2, <3>3 DEF ThreadContext, Psr
  <2>2. CASE SwiHandled
    <3>1. regs' = [regs EXCEPT !.pc = Return] /\ regs.pc = Body
      BY <2>2 DEF SwiHandled
    <3>2. regs' \in RegsType
      BY <1>5, <3>1, KernelValues
    <3>. QED  BY <1>0, <1>2, <1>3, <1>5, <3>1, <3>2 DEF ThreadContext
  <2>3. CASE SwiRestoreSpsr
    <3>1. regs' = [regs EXCEPT !.spsr_svc = kstack[regs.sp_svc[1]][3], !.pc = SpsrSet]
          /\ regs.pc = Return
      BY <2>3 DEF SwiRestoreSpsr
    <3>2. regs' \in RegsType
      BY <1>5, <3>1, KernelValues
    <3>. QED  BY <1>0, <1>2, <1>3, <1>5, <3>1, <3>2 DEF ThreadContext
  <2>4. CASE SwiPop
    <3>1. /\ regs' = [regs EXCEPT !.r = kstack[regs.sp_svc[1]][1],
                                  !.lr_svc = kstack[regs.sp_svc[1]][2],
                                  !.sp_svc = <<regs.sp_svc[1], regs.sp_svc[2] - 1>>,
                                  !.pc = Popped]
          /\ regs.pc = SpsrSet
      BY <2>4 DEF SwiPop, Unwound
    <3>2. regs.sp_svc = <<current_task, 1>>
      BY <1>2, <1>3, <3>1 DEF ThreadContext
    <3>3. regs' \in RegsType
      <4>1. /\ kstack[regs.sp_svc[1]] \in Value \X Value \X PsrValue
            /\ <<regs.sp_svc[1], regs.sp_svc[2] - 1>> \in Owners \X (0 .. 1)
        BY <1>5, <3>2
      <4>. QED  BY <1>5, <3>1, <4>1, KernelValues
    <3>. QED  BY <1>0, <1>2, <1>3, <1>5, <3>1, <3>2, <3>3 DEF ThreadContext
  <2>5. CASE SwiExit
    <3>1. regs' = [regs EXCEPT !.cpsr = regs.spsr_svc, !.pc = regs.lr_svc]
          /\ regs.pc = Popped
      BY <2>5 DEF SwiExit
    <3>2. regs' \in RegsType
      BY <1>5, <3>1
    <3>3. ThreadContext(current_task, regs)' /\ regs'.pc[1] = current_task
      BY <1>0, <1>2, <1>3, <1>5, <3>1 DEF ThreadContext
    <3>. QED  BY <1>2, <3>2, <3>3, ContextAssumption DEF Users, Storing
  <2>. QED  BY <2>1, <2>2, <2>3, <2>4, <2>5
<1>7. TypeOK'
  BY <1>0, <1>6 DEF CInv, TypeOK
<1>. QED  BY <1>0, <1>2, <1>4, <1>6, <1>7, OwnStep DEF CInv, BootInv

\* thread_create and the ADC calls: the call.
LEMMA CreateCallInv ==
  ASSUME CInv, NEW q \in Tcbs, CreateCall(q)
  PROVE  CInv'
<1>0. /\ phase = "running" /\ regs.pc = Body
      /\ UNCHANGED <<phase, current_task, created, tcb_regs, kstack, expect>>
      /\ regs' = [regs EXCEPT !.r = Fresh(q), !.pc = Storing(1)]
      /\ \/ q = Idle
         \/ q \notin created /\ \A p \in created : tcb_regs[p][R0_R12] # Fresh(q)
  BY DEF CreateCall, KernelStep
<1>1. current_task \in Users /\ regs.cpsr.mode # "usr" /\ ThreadContext(current_task, regs)
  BY <1>0, HandlerThread
<1>2. /\ Context(current_task)' = regs'
      /\ \A p \in created : p # current_task => Context(p)' = Context(p)
  BY <1>0, OthersKeep
<1>3. /\ \A i \in 1 .. 6 : Storing(i) \notin {Peek, Body, Return, SpsrSet, Popped}
      /\ \A i, j \in 1 .. 6 : Storing(i) = Storing(j) => i = j
      /\ Body \notin {SpsrSet, Popped}
      /\ \A x, y \in Tcbs : Fresh(x) = Fresh(y) => x = y
  BY DEF Peek, Body, Return, SpsrSet, Popped, Storing, Fresh
<1>4. /\ regs'.pc = Storing(1) /\ regs'.r = Fresh(q)
      /\ regs'.sp_usr = regs.sp_usr /\ regs'.lr_usr = regs.lr_usr
      /\ regs'.cpsr = regs.cpsr /\ regs'.sp_svc = regs.sp_svc
  BY <1>0 DEF CInv, TypeOK
<1>5. TypeOK'
  <2>1. Fresh(q) \in Value /\ Storing(1) \in Value
    BY KernelValues
  <2>. QED  BY <1>0, <2>1 DEF CInv, TypeOK
<1>6. \A p \in Users : ThreadContext(p, Context(p))'
  <2>1. ThreadContext(current_task, regs)'
    BY <1>0, <1>1, <1>3, <1>4 DEF ThreadContext
  <2>2. ASSUME NEW p \in Users, p # current_task PROVE ThreadContext(p, Context(p))'
    <3>1. Context(p)' = Context(p) /\ ThreadContext(p, Context(p))
      BY <1>0, <1>2, <2>2 DEF CInv, RunInv, Users
    <3>. QED  BY <1>0, <3>1 DEF ThreadContext
  <2>3. ThreadContext(current_task, Context(current_task))'
    BY <2>1 DEF Context
  <2>. QED  BY <1>0, <2>2, <2>3
<1>7. Context(Idle)' = Context(Idle) /\ Idle \in created /\ Idle \notin Users
  BY <1>0, <1>1, <1>2, ContextAssumption DEF CInv, RunInv, Users
<1>8. \A p \in Users, x \in Tcbs, i \in 1 .. 6 :
        /\ p # current_task => (Stores(p, x, i)' <=> Stores(p, x, i))
        /\ p = current_task => (Stores(p, x, i)' => x = q /\ i = 1)
  <2>1. ASSUME NEW p \in Users, NEW x \in Tcbs, NEW i \in 1 .. 6, p # current_task
        PROVE  Stores(p, x, i)' <=> Stores(p, x, i)
    BY <1>2, <2>1 DEF Stores, Users
  <2>2. ASSUME NEW x \in Tcbs, NEW i \in 1 .. 6, Stores(current_task, x, i)'
        PROVE  x = q /\ i = 1
    <3>1. Storing(1) = Storing(i) /\ Fresh(q) = Fresh(x)
      BY <1>0, <1>4, <2>2 DEF Stores, Context
    <3>. QED  BY <1>3, <3>1
  <2>. QED  BY <1>0, <2>1, <2>2 DEF Stores, Context
<1>9. \A p \in Users, i \in 1 .. 6 :
        p # current_task /\ q \in Threads => ~Stores(p, q, i)
  <2>. SUFFICES ASSUME NEW p \in Users, NEW i \in 1 .. 6, p # current_task, q \in Threads,
                       Stores(p, q, i)
                PROVE  FALSE
    OBVIOUS
  <2>1. q # Idle
    BY ContextAssumption
  <2>2. tcb_regs[p][R0_R12] = Fresh(q)
    BY DEF Stores, Context, Restored, R0_R12
  <2>. QED  BY <1>0, <2>1, <2>2 DEF Users
<1>10. StoresInv'
  <2>1. \A p \in Users, x \in Threads, i \in 1 .. 6 :
          Stores(p, x, i)' => x \notin created /\ Begun(x, i)'
    <3>. SUFFICES ASSUME NEW p \in Users, NEW x \in Threads, NEW i \in 1 .. 6, Stores(p, x, i)'
                  PROVE  x \notin created /\ Begun(x, i)'
      OBVIOUS
    <3>1. CASE p = current_task
      <4>1. x = q /\ i = 1
        BY <1>8, <3>1 DEF Tcbs
      <4>. QED  BY <1>0, <4>1, ContextAssumption DEF Begun
    <3>2. CASE p # current_task
      <4>1. Stores(p, x, i)
        BY <1>8, <3>2 DEF Tcbs
      <4>2. x \notin created /\ Begun(x, i)
        BY <1>0, <4>1 DEF CInv, RunInv, StoresInv
      <4>. QED  BY <1>0, <4>2 DEF Begun
    <3>. QED  BY <3>1, <3>2
  <2>2. \A p \in Users, i \in 1 .. 6 : Stores(p, Idle, i)' => IdleBegun(i)'
    BY <1>0, <1>7, <1>8 DEF CInv, RunInv, StoresInv, IdleBegun, Tcbs
  <2>3. \A p1, p2 \in Users, x \in Threads, i, j \in 1 .. 6 :
          Stores(p1, x, i)' /\ Stores(p2, x, j)' => p1 = p2
    BY <1>0, <1>8, <1>9 DEF CInv, RunInv, StoresInv, Tcbs
  <2>. QED  BY <1>0, <2>1, <2>2, <2>3 DEF CInv, RunInv, StoresInv, Users
<1>. QED  BY <1>0, <1>1, <1>5, <1>6, <1>7, <1>10 DEF CInv, BootInv, RunInv, IdleContext, Users

\* What each of the stores of thread_create writes.
LEMMA FilledFields ==
  ASSUME NEW q, NEW f,
         f \in PsrValue \X Value \X Value \X Value \X Value \X Value \X Value \X PsrValue
  PROVE  /\ Filled(q, 1, f) = [f EXCEPT ![SP_USER] = Stack(Code(q))]
         /\ Filled(q, 2, f) = [f EXCEPT ![SPSR_IRQ] = Psr("usr", Zero)]
         /\ Filled(q, 3, f) = [f EXCEPT ![SPSR_SVC] = Psr("usr", Zero)]
         /\ Filled(q, 4, f) = [f EXCEPT ![LR_IRQ] = Fresh(Code(q))]
         /\ Filled(q, 5, f) = [f EXCEPT ![LR_USER] = Fresh(Code(q))]
         /\ Filled(q, 6, f) = [f EXCEPT ![SP_SVC] = Fresh(q)]
<1>. USE DEF SP_USER, SPSR_IRQ, SPSR_SVC, LR_IRQ, LR_USER, SP_SVC
<1>1. /\ StoreOrder[1] = 4 /\ StoreOrder[2] = 8 /\ StoreOrder[3] = 1
      /\ StoreOrder[4] = 7 /\ StoreOrder[5] = 5 /\ StoreOrder[6] = 2
  BY DEF StoreOrder
<1>2. LET g == FirstContext(q, Code(q), f)
      IN  /\ g[4] = Stack(Code(q)) /\ g[8] = Psr("usr", Zero) /\ g[1] = Psr("usr", Zero)
          /\ g[7] = Fresh(Code(q)) /\ g[5] = Fresh(Code(q)) /\ g[2] = Fresh(q)
  BY DEF FirstContext
<1>. QED  BY <1>1, <1>2 DEF Filled

\* The types that a store keeps, whatever it stores for.
LEMMA StoreType ==
  ASSUME CInv, NEW q \in Tcbs, NEW i \in 1 .. 6, CreateStore(q, i)
  PROVE  TypeOK'
<1>0. /\ phase = "running" /\ regs.pc = Storing(i) /\ regs.r = Fresh(q)
      /\ tcb_regs' = [tcb_regs EXCEPT ![q] = Filled(q, i, tcb_regs[q])]
      /\ UNCHANGED <<phase, current_task, kstack>>
      /\ \/ /\ i < 6 /\ regs' = [regs EXCEPT !.pc = Storing(i + 1)]
            /\ UNCHANGED <<created, expect>>
         \/ /\ i = 6 /\ regs' = [regs EXCEPT !.pc = Return, !.r = Zero]
            /\ created' = created \cup {q}
            /\ expect' = IF q = Idle THEN expect ELSE [expect EXCEPT ![q] = AtStart(q)]
  BY DEF CreateStore, StoreOrder
<1>1. Filled(q, i, tcb_regs[q]) \in
        PsrValue \X Value \X Value \X Value \X Value \X Value \X Value \X PsrValue
  <2>1. tcb_regs[q] \in
          PsrValue \X Value \X Value \X Value \X Value \X Value \X Value \X PsrValue
    BY DEF CInv, TypeOK, Tcbs
  <2>2. /\ Fresh(q) \in Value /\ Psr("usr", Zero) \in PsrValue
        /\ Stack(Code(q)) \in Value /\ Fresh(Code(q)) \in Value
    BY KernelValues DEF Code
  <2>3. i \in {1, 2, 3, 4, 5, 6}
    OBVIOUS
  <2>. QED  BY <2>1, <2>2, <2>3, FilledFields
            DEF SP_USER, SPSR_IRQ, SPSR_SVC, LR_IRQ, LR_USER, SP_SVC
<1>2. regs' \in [r : Value, pc : Value, cpsr : PsrValue, sp_usr : Value, lr_usr : Value,
               sp_svc : Owners \X (0 .. 1), lr_svc : Value, spsr_svc : PsrValue]
  <2>1. regs \in [r : Value, pc : Value, cpsr : PsrValue, sp_usr : Value, lr_usr : Value,
               sp_svc : Owners \X (0 .. 1), lr_svc : Value, spsr_svc : PsrValue]
    BY DEF CInv, TypeOK
  <2>2. Return \in Value /\ Zero \in Value /\ (i < 6 => Storing(i + 1) \in Value)
    BY KernelValues
  <2>. QED  BY <1>0, <2>1, <2>2
<1>3. expect' \in [Threads \cup {Idle} ->
       [r : Value, pc : Value, cpsr : PsrValue, sp_usr : Value, lr_usr : Value]]
  <2>1. AtStart(q) \in [r : Value, pc : Value, cpsr : PsrValue, sp_usr : Value, lr_usr : Value]
    BY KernelValues DEF AtStart
  <2>. QED  BY <1>0, <2>1 DEF CInv, TypeOK
<1>. QED  BY <1>0, <1>1, <1>2, <1>3 DEF CInv, TypeOK, Tcbs

\* The thread that makes a store.
LEMMA StoreThread ==
  ASSUME CInv, NEW q \in Tcbs, NEW i \in 1 .. 6, CreateStore(q, i)
  PROVE  /\ current_task \in Users /\ Stores(current_task, q, i)
         /\ UNCHANGED <<phase, current_task, kstack>> /\ phase = "running"
         /\ tcb_regs' = [tcb_regs EXCEPT ![q] = Filled(q, i, tcb_regs[q])]
         /\ Context(current_task)' = regs'
         /\ \A p \in created : p \notin {current_task, q} => Context(p)' = Context(p)
         /\ ThreadContext(current_task, regs)
         /\ regs'.sp_svc = regs.sp_svc /\ regs'.cpsr = regs.cpsr /\ regs.cpsr.mode # "usr"
         /\ regs'.sp_usr = regs.sp_usr /\ regs'.lr_usr = regs.lr_usr
         /\ i < 6 => /\ regs'.pc = Storing(i + 1) /\ regs'.r = Fresh(q)
                     /\ UNCHANGED <<created, expect>>
         /\ i = 6 => /\ regs'.pc = Return
                     /\ created' = created \cup {q}
                     /\ expect' = IF q = Idle THEN expect
                                  ELSE [expect EXCEPT ![q] = AtStart(q)]
<1>1. /\ phase = "running" /\ regs.pc = Storing(i) /\ regs.r = Fresh(q)
      /\ tcb_regs' = [tcb_regs EXCEPT ![q] = Filled(q, i, tcb_regs[q])]
      /\ UNCHANGED <<phase, current_task, kstack>>
      /\ i < 6 => /\ regs' = [regs EXCEPT !.pc = Storing(i + 1)]
                  /\ UNCHANGED <<created, expect>>
      /\ i = 6 => /\ regs' = [regs EXCEPT !.pc = Return, !.r = Zero]
                  /\ created' = created \cup {q}
                  /\ expect' = IF q = Idle THEN expect ELSE [expect EXCEPT ![q] = AtStart(q)]
  BY DEF CreateStore, StoreOrder
<1>2. current_task \in Users /\ ThreadContext(current_task, regs) /\ regs.cpsr.mode # "usr"
  BY <1>1, HandlerThread
<1>3. Stores(current_task, q, i)
  BY <1>1 DEF Stores, Context
<1>4. \A p \in created : p \notin {current_task, q} => Context(p)' = Context(p)
  <2>1. \A p \in Tcbs : p # q => tcb_regs'[p] = tcb_regs[p]
    BY <1>1 DEF CInv, TypeOK, Tcbs
  <2>. QED  BY <1>1, <2>1 DEF Context, Restored, CInv, TypeOK, Tcbs
<1>5. Context(current_task)' = regs'
  BY <1>1 DEF Context
<1>6. i < 6 \/ i = 6
  OBVIOUS
<1>. QED  BY <1>1, <1>2, <1>3, <1>4, <1>5, <1>6 DEF CInv, TypeOK

\* Points of the handler are told apart, and so are the threads created.
LEMMA Points ==
  /\ \A i \in 1 .. 6 : Storing(i) \notin {Peek, Body, Return, SpsrSet, Popped, Loop}
  /\ \A i, j \in 1 .. 6 : Storing(i) = Storing(j) => i = j
  /\ SpsrSet # Popped
  /\ {Peek, Body, Return} \cap {SpsrSet, Popped} = {}
  /\ \A x, y \in Tcbs : Fresh(x) = Fresh(y) => x = y
  /\ \A x \in Tcbs, i \in 1 .. 6 : Fresh(x) # Storing(i)
BY ContextAssumption DEF Peek, Body, Return, SpsrSet, Popped, Loop, Storing, Fresh, Tcbs

\* A store of thread_create for a new thread; the last one makes it a user.
LEMMA StoreNewInv ==
  ASSUME CInv, NEW q \in Threads, NEW i \in 1 .. 6, CreateStore(q, i)
  PROVE  RunInv'
<1>0. /\ current_task \in Users /\ Stores(current_task, q, i)
      /\ UNCHANGED <<phase, current_task, kstack>> /\ phase = "running"
      /\ tcb_regs' = [tcb_regs EXCEPT ![q] = Filled(q, i, tcb_regs[q])]
      /\ Context(current_task)' = regs'
      /\ \A p \in created : p \notin {current_task, q} => Context(p)' = Context(p)
      /\ ThreadContext(current_task, regs)
      /\ regs'.sp_svc = regs.sp_svc /\ regs'.cpsr = regs.cpsr /\ regs.cpsr.mode # "usr"
      /\ regs'.sp_usr = regs.sp_usr /\ regs'.lr_usr = regs.lr_usr
      /\ i < 6 => /\ regs'.pc = Storing(i + 1) /\ regs'.r = Fresh(q)
                  /\ UNCHANGED <<created, expect>>
      /\ i = 6 => /\ regs'.pc = Return
                  /\ created' = created \cup {q}
                  /\ expect' = IF q = Idle THEN expect ELSE [expect EXCEPT ![q] = AtStart(q)]
  BY StoreThread DEF Tcbs
<1>1. /\ q \notin created /\ Begun(q, i) /\ q # Idle /\ q # current_task
      /\ tcb_regs[q][R0_R12] = Zero
      /\ created' = created \/ (i = 6 /\ created' = created \cup {q})
  BY <1>0, ContextAssumption DEF CInv, RunInv, StoresInv, Users
<1>2. \A p \in created : p # current_task => Context(p)' = Context(p)
  BY <1>0, <1>1
<1>3. \A p \in Users : expect'[p] = expect[p]
  BY <1>0, <1>1 DEF Users, CInv, TypeOK
<1>4. \A p \in Users : ThreadContext(p, Context(p))'
  <2>1. ASSUME NEW p \in Users, p # current_task PROVE ThreadContext(p, Context(p))'
    <3>1. Context(p)' = Context(p) /\ ThreadContext(p, Context(p)) /\ expect'[p] = expect[p]
      BY <1>0, <1>2, <1>3, <2>1 DEF CInv, RunInv, Users
    <3>. QED  BY <1>0, <3>1 DEF ThreadContext
  <2>2. ThreadContext(current_task, regs)'
    <3>1. CASE i < 6
      BY <1>0, <1>3, <3>1, Points DEF ThreadContext, Stores, Context, Tcbs
    <3>2. CASE i = 6
      BY <1>0, <1>3, <3>2, Points DEF ThreadContext, Stores, Context, Tcbs
    <3>. QED  BY <3>1, <3>2
  <2>. QED  BY <1>0, <2>1, <2>2 DEF Context
<1>5. LET f == tcb_regs'[q]
      IN  /\ i = 6 => /\ f[SP_USER] = Stack(q) /\ f[SPSR_IRQ] = Psr("usr", Zero)
                      /\ f[LR_IRQ] = Fresh(q) /\ f[LR_USER] = Fresh(q) /\ f[SP_SVC] = Fresh(q)
          /\ f[R0_R12] = Zero
          /\ i < 6 => Begun(q, i + 1)'
  <2>1. tcb_regs[q] \in
          PsrValue \X Value \X Value \X Value \X Value \X Value \X Value \X PsrValue
    BY DEF CInv, TypeOK
  <2>2. tcb_regs'[q] = Filled(q, i, tcb_regs[q]) /\ Code(q) = q
    BY <1>0, <1>1, ContextAssumption DEF CInv, TypeOK, Code
  <2>3. i \in {1, 2, 3, 4, 5, 6}
    OBVIOUS
  <2>. QED
    BY <1>1, <2>1, <2>2, <2>3, FilledFields
       DEF Begun, SP_USER, SPSR_IRQ, SPSR_SVC, LR_IRQ, LR_USER, SP_SVC, R0_R12
<1>6. i = 6 => ThreadContext(q, Context(q))' /\ Context(q)'.pc = Fresh(q)
  <2>. SUFFICES ASSUME i = 6 PROVE ThreadContext(q, Context(q))' /\ Context(q)'.pc = Fresh(q)
    OBVIOUS
  <2>1. Context(q)' = Restored(tcb_regs'[q])
    BY <1>0, <1>1 DEF Context, Restored
  <2>2. expect'[q] = AtStart(q)
    BY <1>0, <1>1 DEF CInv, TypeOK
  <2>. QED
    BY <1>5, <2>1, <2>2 DEF ThreadContext, Restored, AtStart, Fresh, Psr, SP_USER, SPSR_IRQ,
       SPSR_SVC, LR_IRQ, LR_USER, SP_SVC, R0_R12
<1>7. Context(Idle)' = Context(Idle) /\ Idle \in created /\ Idle \notin Users
  BY <1>0, <1>2, ContextAssumption DEF CInv, RunInv, Users
<1>8. \A p \in Users, x \in Tcbs, j \in 1 .. 6 :
        /\ p # current_task => (Stores(p, x, j)' <=> Stores(p, x, j))
        /\ p = current_task => (Stores(p, x, j)' => i < 6 /\ x = q /\ j = i + 1)
  <2>1. ASSUME NEW p \in Users, NEW x \in Tcbs, NEW j \in 1 .. 6, p # current_task
        PROVE  Stores(p, x, j)' <=> Stores(p, x, j)
    BY <1>2, <2>1 DEF Stores, Users
  <2>2. ASSUME NEW x \in Tcbs, NEW j \in 1 .. 6, Stores(current_task, x, j)'
        PROVE  i < 6 /\ x = q /\ j = i + 1
    <3>1. regs'.pc = Storing(j) /\ regs'.r = Fresh(x)
      BY <1>0, <2>2 DEF Stores, Context
    <3>2. i < 6
      BY <1>0, <3>1, Points
    <3>3. i + 1 \in 1 .. 6 /\ q \in Tcbs
      BY <3>2 DEF Tcbs
    <3>. QED  BY <1>0, <3>1, <3>2, <3>3, Points
  <2>. QED  BY <1>0, <2>1, <2>2 DEF Stores, Context
<1>9. i = 6 => \A x \in Tcbs, j \in 1 .. 6 : ~Stores(q, x, j)'
  BY <1>6, Points DEF Stores, Tcbs
<1>10. \A p \in Users, j \in 1 .. 6 : Stores(p, q, j) => p = current_task
  BY <1>0 DEF CInv, RunInv, StoresInv
<1>11. Users' = Users \/ (i = 6 /\ Users' = Users \cup {q})
  BY <1>1 DEF Users
<1>12. \A x \in Threads \ {q} : tcb_regs'[x] = tcb_regs[x]
  BY <1>0 DEF CInv, TypeOK
<1>13. StoresInv'
  <2>1. ASSUME NEW p \in Users', NEW x \in Threads, NEW j \in 1 .. 6, Stores(p, x, j)'
        PROVE  x \notin created' /\ Begun(x, j)'
    <3>1. p \in Users
      BY <1>9, <1>11, <2>1 DEF Tcbs
    <3>2. CASE p = current_task
      <4>1. i < 6 /\ x = q /\ j = i + 1
        BY <1>8, <2>1, <3>1, <3>2 DEF Tcbs
      <4>. QED  BY <1>1, <1>5, <4>1
    <3>3. CASE p # current_task
      <4>1. Stores(p, x, j) /\ x # q
        BY <1>8, <1>10, <2>1, <3>1, <3>3 DEF Tcbs
      <4>2. x \notin created /\ Begun(x, j)
        BY <1>0, <3>1, <4>1 DEF CInv, RunInv, StoresInv
      <4>. QED  BY <1>1, <1>12, <4>1, <4>2 DEF Begun
    <3>. QED  BY <3>2, <3>3
  <2>2. ASSUME NEW p \in Users', NEW j \in 1 .. 6, Stores(p, Idle, j)'
        PROVE  IdleBegun(j)'
    <3>1. p \in Users /\ p # current_task
      BY <1>1, <1>8, <1>9, <1>11, <2>2 DEF Tcbs
    <3>2. IdleBegun(j)
      BY <1>0, <1>8, <2>2, <3>1 DEF CInv, RunInv, StoresInv, Tcbs
    <3>. QED  BY <1>7, <3>2 DEF IdleBegun
  <2>3. ASSUME NEW p1 \in Users', NEW p2 \in Users', NEW x \in Threads,
               NEW j \in 1 .. 6, NEW k \in 1 .. 6, Stores(p1, x, j)', Stores(p2, x, k)'
        PROVE  p1 = p2
    <3>1. p1 \in Users /\ p2 \in Users
      BY <1>9, <1>11, <2>3 DEF Tcbs
    <3>2. \A p \in Users, l \in 1 .. 6 : p # current_task /\ Stores(p, x, l)' => x # q /\ Stores(p, x, l)
      BY <1>8, <1>10 DEF Tcbs
    <3>3. \A l \in 1 .. 6 : Stores(current_task, x, l)' => x = q
      BY <1>0, <1>8 DEF Tcbs
    <3>. QED  BY <1>0, <2>3, <3>1, <3>2, <3>3 DEF CInv, RunInv, StoresInv
  <2>4. \A x \in Threads \ created' : tcb_regs'[x][R0_R12] = Zero
    BY <1>0, <1>1, <1>5, <1>12 DEF CInv, RunInv, StoresInv
  <2>. QED  BY <2>1, <2>2, <2>3, <2>4 DEF StoresInv
<1>. QED
  BY <1>0, <1>1, <1>4, <1>6, <1>7, <1>11, <1>13 DEF CInv, RunInv, IdleContext, Users

\* A store of an ADC call over the context of idle.
LEMMA StoreIdleInv ==
  ASSUME CInv, NEW i \in 1 .. 6, CreateStore(Idle, i)
  PROVE  RunInv'
<1>0. /\ current_task \in Users /\ Stores(current_task, Idle, i)
      /\ UNCHANGED <<phase, current_task, kstack>> /\ phase = "running"
      /\ tcb_regs' = [tcb_regs EXCEPT ![Idle] = Filled(Idle, i, tcb_regs[Idle])]
      /\ Context(current_task)' = regs'
      /\ \A p \in created : p \notin {current_task, Idle} => Context(p)' = Context(p)
      /\ ThreadContext(current_task, regs)
      /\ regs'.sp_svc = regs.sp_svc /\ regs'.cpsr = regs.cpsr /\ regs.cpsr.mode # "usr"
      /\ regs'.sp_usr = regs.sp_usr /\ regs'.lr_usr = regs.lr_usr
      /\ i < 6 => /\ regs'.pc = Storing(i + 1) /\ regs'.r = Fresh(Idle)
                  /\ UNCHANGED <<created, expect>>
      /\ i = 6 => /\ regs'.pc = Return
                  /\ created' = created \cup {Idle}
                  /\ expect' = expect
  BY StoreThread DEF Tcbs
<1>1. /\ UNCHANGED <<created, expect>> /\ Idle \in created /\ Idle \notin Users
      /\ Idle # current_task /\ IdleBegun(i)
  <2>1. Idle \in created /\ StoresInv
    BY <1>0 DEF CInv, RunInv
  <2>2. Idle \notin Users /\ Idle # current_task
    BY <1>0, ContextAssumption DEF Users
  <2>3. CASE i < 6
    BY <1>0, <2>1, <2>2, <2>3 DEF StoresInv
  <2>4. CASE i = 6
    <3>1. created' = created
      BY <1>0, <2>1, <2>4
    <3>2. IdleBegun(i)
      BY <1>0, <2>1 DEF StoresInv
    <3>. QED  BY <1>0, <2>1, <2>2, <2>4, <3>1, <3>2
  <2>. QED  BY <2>3, <2>4
<1>2. \A p \in Users : p # current_task => Context(p)' = Context(p)
  BY <1>0, <1>1 DEF Users
<1>3. \A p \in Users : ThreadContext(p, Context(p))'
  <2>1. ASSUME NEW p \in Users, p # current_task PROVE ThreadContext(p, Context(p))'
    <3>1. Context(p)' = Context(p) /\ ThreadContext(p, Context(p))
      BY <1>0, <1>2, <2>1 DEF CInv, RunInv
    <3>. QED  BY <1>0, <1>1, <3>1 DEF ThreadContext
  <2>2. ThreadContext(current_task, regs)'
    <3>1. CASE i < 6
      BY <1>0, <1>1, <3>1, Points DEF ThreadContext, Stores, Context, Tcbs
    <3>2. CASE i = 6
      BY <1>0, <1>1, <3>2, Points DEF ThreadContext, Stores, Context, Tcbs
    <3>. QED  BY <3>1, <3>2
  <2>. QED  BY <1>0, <2>1, <2>2 DEF Context
<1>4. LET c == Context(Idle) IN
      /\ i = 1 => Context(Idle)' = [c EXCEPT !.sp_usr = Stack(Adc)]
      /\ i = 2 => Context(Idle)' = [c EXCEPT !.cpsr = Psr("usr", Zero)]
      /\ i = 3 => Context(Idle)' = [c EXCEPT !.spsr_svc = Psr("usr", Zero)]
      /\ i = 4 => Context(Idle)' = [c EXCEPT !.pc = Fresh(Adc)]
      /\ i = 5 => Context(Idle)' = [c EXCEPT !.lr_usr = Fresh(Adc)]
      /\ i = 6 => Context(Idle)' = [c EXCEPT !.sp_svc = Fresh(Idle)]
  <2>1. tcb_regs[Idle] \in
          PsrValue \X Value \X Value \X Value \X Value \X Value \X Value \X PsrValue
    BY DEF CInv, TypeOK
  <2>2. tcb_regs'[Idle] = Filled(Idle, i, tcb_regs[Idle]) /\ Code(Idle) = Adc
    BY <1>0 DEF CInv, TypeOK, Code
  <2>3. /\ Context(Idle)' = Restored(tcb_regs'[Idle])
        /\ Context(Idle) = Restored(tcb_regs[Idle])
    BY <1>0, <1>1 DEF Context, Restored
  <2>. QED
    BY <2>1, <2>2, <2>3, FilledFields
       DEF Restored, SP_USER, SPSR_IRQ, SPSR_SVC, LR_IRQ, LR_USER, SP_SVC
<1>5. i \in {1, 2, 3, 4, 5, 6}
  OBVIOUS
<1>6. /\ DOMAIN Context(Idle) = {"r", "pc", "cpsr", "sp_usr", "lr_usr", "sp_svc", "lr_svc", "spsr_svc"}
      /\ IdleContext(Context(Idle))
  BY <1>0, <1>1 DEF Context, Restored, CInv, RunInv
<1>7. /\ IdleContext(Context(Idle))'
      /\ \A j \in 1 .. 6 : IdleBegun(j) => IdleBegun(j)'
      /\ i < 6 => IdleBegun(i + 1)'
  <2>. DEFINE c == Context(Idle)
              d == Context(Idle)'
  <2>1. /\ d.pc = IF i = 4 THEN Fresh(Adc) ELSE c.pc
        /\ d.sp_usr = IF i = 1 THEN Stack(Adc) ELSE c.sp_usr
        /\ d.cpsr = IF i = 2 THEN Psr("usr", Zero) ELSE c.cpsr
        /\ d.sp_svc = IF i = 6 THEN Fresh(Idle) ELSE c.sp_svc
    BY <1>0, <1>1, <1>4, <1>5 DEF Context, Restored
  <2>2. /\ Stack(Adc)[1] = Adc /\ Fresh(Adc) = <<Adc, 0>> /\ Fresh(Idle) = <<Idle, 0>> /\ Psr("usr", Zero).mode = "usr"
    BY DEF Stack, Fresh, Psr
  <2>. HIDE DEF c, d
  <2>3. /\ c.pc \in {Loop, <<Adc, 0>>, <<Adc, 1>>}
        /\ c.pc # Loop => c.cpsr.mode = "usr" /\ c.sp_usr[1] = Adc
        /\ c.sp_svc \in {<<Main, 1>>, <<Idle, 0>>}
    BY <1>6 DEF IdleContext, c
  <2>4. (i > 1 => c.sp_usr[1] = Adc) /\ (i > 2 => c.cpsr.mode = "usr")
    BY <1>1 DEF IdleBegun, c
  <2>5. IdleContext(d)
    BY <2>1, <2>2, <2>3, <2>4, <1>5 DEF IdleContext
  <2>6. \A j \in 1 .. 6 : (j > 1 => c.sp_usr[1] = Adc) /\ (j > 2 => c.cpsr.mode = "usr")
                       => (j > 1 => d.sp_usr[1] = Adc) /\ (j > 2 => d.cpsr.mode = "usr")
    BY <2>1, <2>2
  <2>7. i < 6 => (i + 1 > 1 => d.sp_usr[1] = Adc) /\ (i + 1 > 2 => d.cpsr.mode = "usr")
    BY <1>5, <2>1, <2>2, <2>4
  <2>. QED  BY <2>5, <2>6, <2>7 DEF IdleContext, IdleBegun, c, d
<1>8. \A p \in Users, x \in Tcbs, j \in 1 .. 6 :
        /\ p # current_task => (Stores(p, x, j)' <=> Stores(p, x, j))
        /\ p = current_task => (Stores(p, x, j)' => i < 6 /\ x = Idle /\ j = i + 1)
  <2>1. ASSUME NEW p \in Users, NEW x \in Tcbs, NEW j \in 1 .. 6, p # current_task
        PROVE  Stores(p, x, j)' <=> Stores(p, x, j)
    BY <1>2, <2>1 DEF Stores
  <2>2. ASSUME NEW x \in Tcbs, NEW j \in 1 .. 6, Stores(current_task, x, j)'
        PROVE  i < 6 /\ x = Idle /\ j = i + 1
    <3>1. regs'.pc = Storing(j) /\ regs'.r = Fresh(x)
      BY <1>0, <2>2 DEF Stores, Context
    <3>2. i < 6
      BY <1>0, <3>1, Points
    <3>3. i + 1 \in 1 .. 6 /\ Idle \in Tcbs
      BY <3>2 DEF Tcbs
    <3>. QED  BY <1>0, <3>1, <3>2, <3>3, Points
  <2>. QED  BY <1>0, <2>1, <2>2 DEF Stores, Context
<1>9. Users' = Users /\ \A x \in Threads : tcb_regs'[x] = tcb_regs[x] /\ x # Idle
  BY <1>0, <1>1, ContextAssumption DEF Users, CInv, TypeOK
<1>10. StoresInv'
  <2>1. \A p \in Users, x \in Threads, j \in 1 .. 6 : Stores(p, x, j)' => Stores(p, x, j)
    BY <1>8, <1>9 DEF Tcbs
  <2>2. \A x \in Threads, j \in 1 .. 6 : Begun(x, j)' <=> Begun(x, j)
    BY <1>9 DEF Begun
  <2>3. ASSUME NEW p \in Users, NEW j \in 1 .. 6, Stores(p, Idle, j)'
        PROVE  IdleBegun(j)'
    <3>1. CASE p = current_task
      BY <1>7, <1>8, <2>3, <3>1 DEF Tcbs
    <3>2. CASE p # current_task
      <4>1. IdleBegun(j)
        BY <1>0, <1>8, <2>3, <3>2 DEF CInv, RunInv, StoresInv, Tcbs
      <4>. QED  BY <1>7, <4>1
    <3>. QED  BY <3>1, <3>2
  <2>. QED  BY <1>0, <1>1, <1>9, <2>1, <2>2, <2>3 DEF CInv, RunInv, StoresInv
<1>. QED
  BY <1>0, <1>1, <1>3, <1>7, <1>9, <1>10 DEF CInv, RunInv, Users

\* main() sets up.
LEMMA BootStep ==
  ASSUME CInv, (\E p \in Tcbs : CreateContext(p)) \/ scheduler_start
  PROVE  CInv'
<1>1. ASSUME NEW p \in Tcbs, CreateContext(p)
      PROVE  CInv'
  <2>0. /\ phase = "boot" /\ UNCHANGED <<phase, current_task, regs, kstack>>
        /\ tcb_regs' = [tcb_regs EXCEPT ![p] = FirstContext(p, p, tcb_regs[p])]
        /\ expect' = [expect EXCEPT ![p] = AtStart(p)]
        /\ created' = created \cup {p}
    BY <1>1 DEF CreateContext
  <2>1. /\ Fresh(p) \in Value /\ Stack(p) \in Value /\ Psr("usr", Zero) \in PsrValue
        /\ AtStart(p) \in [r : Value, pc : Value, cpsr : PsrValue, sp_usr : Value, lr_usr : Value]
    BY KernelValues DEF AtStart
  <2>2. tcb_regs[p] \in
          PsrValue \X Value \X Value \X Value \X Value \X Value \X Value \X PsrValue
    BY DEF CInv, TypeOK, Tcbs
  <2>3. LET f == FirstContext(p, p, tcb_regs[p])
        IN  /\ f \in PsrValue \X Value \X Value \X Value \X Value \X Value \X Value \X PsrValue
            /\ f[SP_USER] = Stack(p) /\ f[SPSR_IRQ] = Psr("usr", Zero)
            /\ f[LR_IRQ] = Fresh(p) /\ f[LR_USER] = Fresh(p) /\ f[SP_SVC] = Fresh(p)
            /\ f[R0_R12] = tcb_regs[p][R0_R12]
    BY <2>1, <2>2 DEF FirstContext, SP_USER, SPSR_IRQ, SPSR_SVC, LR_IRQ, LR_USER, SP_SVC, R0_R12
  <2>4. TypeOK'
    BY <2>0, <2>1, <2>3 DEF CInv, TypeOK, Tcbs
  <2>5. BootInv'
    BY <2>0, <2>3 DEF CInv, TypeOK, BootInv, Tcbs
  <2>. QED  BY <2>0, <2>4, <2>5 DEF CInv, RunInv
<1>2. ASSUME scheduler_start
      PROVE  CInv'
  <2>0. /\ phase = "boot" /\ phase' = "running" /\ Idle \in created /\ current_task' = Idle
        /\ kstack' = [kstack EXCEPT ![Main] = <<regs.r, regs.pc, regs.cpsr>>]
        /\ regs' = [regs EXCEPT !.r = Zero, !.pc = Loop, !.cpsr = Psr("svc", Zero),
                          !.sp_svc = <<Main, 1>>, !.lr_svc = Zero,
                          !.spsr_svc = regs.cpsr]
        /\ UNCHANGED <<created, tcb_regs, expect>>
    BY <1>2 DEF scheduler_start
  <2>1. TypeOK'
    <3>1. /\ Psr("svc", Zero) \in PsrValue /\ Loop \in Value /\ Zero \in Value
          /\ <<Main, 1>> \in Owners \X (0 .. 1)
      BY KernelValues DEF Owners
    <3>2. regs' \in [r : Value, pc : Value, cpsr : PsrValue, sp_usr : Value, lr_usr : Value,
               sp_svc : Owners \X (0 .. 1), lr_svc : Value, spsr_svc : PsrValue]
      BY <2>0, <3>1 DEF CInv, TypeOK
    <3>3. kstack' \in [Owners -> Value \X Value \X PsrValue]
      BY <2>0 DEF CInv, TypeOK
    <3>. QED  BY <2>0, <3>2, <3>3 DEF CInv, TypeOK
  <2>2. \A p \in Users : Context(p)' = Restored(tcb_regs[p])
    BY <2>0, ContextAssumption DEF Context, Restored, Users
  <2>3. ASSUME NEW p \in Users
        PROVE  /\ ThreadContext(p, Context(p))' /\ Context(p)'.pc = Fresh(p)
    <3>1. LET f == tcb_regs[p]
          IN  /\ f[SP_USER] = Stack(p) /\ f[SPSR_IRQ] = Psr("usr", Zero)
              /\ f[LR_IRQ] = Fresh(p) /\ f[LR_USER] = Fresh(p) /\ f[SP_SVC] = Fresh(p)
              /\ f[R0_R12] = Zero
              /\ expect'[p] = AtStart(p)
      BY <2>0 DEF CInv, BootInv, Users, Tcbs
    <3>. QED
      BY <2>2, <3>1 DEF ThreadContext, Restored, AtStart, Fresh, Psr, SP_USER, SPSR_IRQ,
         SPSR_SVC, LR_IRQ, LR_USER, SP_SVC, R0_R12
  <2>4. IdleContext(Context(Idle))'
    BY <2>0 DEF IdleContext, Context, CInv, TypeOK
  <2>5. \A p \in Users, x \in Tcbs, i \in 1 .. 6 : ~Stores(p, x, i)'
    BY <2>3, Points DEF Stores, Users, Tcbs
  <2>6. StoresInv'
    BY <2>0, <2>5 DEF StoresInv, Users, Tcbs, CInv, BootInv
  <2>. QED  BY <2>0, <2>1, <2>3, <2>4, <2>6 DEF CInv, BootInv, RunInv, Users
<1>. QED  BY <1>1, <1>2

----------------------------------------------------------------------------

\* Every step of main(), of a thread, of the handler or of the timer keeps the
\* contexts as they should be.
LEMMA StepCInv == CInv /\ [Next]_vars => CInv'
<1>. SUFFICES ASSUME CInv, [Next]_vars PROVE CInv'
  OBVIOUS
<1>1. CASE (\E p \in Tcbs : CreateContext(p)) \/ scheduler_start
  BY <1>1, BootStep
<1>2. CASE UserStep
  BY <1>2, UserInv
<1>3. CASE SwiEntry
  BY <1>3, SwiEntryInv
<1>4. CASE SwiHandler \/ SwiHandled \/ SwiRestoreSpsr \/ SwiPop \/ SwiExit
  BY <1>4, HandlerInv
<1>5. CASE \E q \in Tcbs : CreateCall(q)
  BY <1>5, CreateCallInv
<1>6. ASSUME NEW q \in Tcbs, NEW i \in 1 .. 6, CreateStore(q, i)
      PROVE  CInv'
  <2>1. TypeOK'
    BY <1>6, StoreType
  <2>2. RunInv'
    BY <1>6, StoreNewInv, StoreIdleInv DEF Tcbs
  <2>3. phase' = "running"
    BY <1>6 DEF CreateStore
  <2>. QED  BY <2>1, <2>2, <2>3 DEF CInv, BootInv
<1>7. CASE Tick
  BY <1>7, TickInv
<1>8. CASE UNCHANGED vars
  <2>1. \A p : Context(p)' = Context(p)
    BY <1>8 DEF vars, Context, Restored
  <2>2. TypeOK' /\ BootInv'
    BY <1>8 DEF vars, CInv, TypeOK, BootInv
  <2>3. RunInv'
    BY <1>8, <2>1 DEF vars, CInv, RunInv, ThreadContext, IdleContext, StoresInv, Stores, Begun,
       IdleBegun, Users
  <2>. QED  BY <2>2, <2>3 DEF CInv
<1>9. Len(StoreOrder) = 6
  BY DEF StoreOrder
<1>. QED
  BY <1>1, <1>2, <1>3, <1>4, <1>5, <1>6, <1>7, <1>8, <1>9 DEF Next, Tcbs

\* CInv holds in every reachable state.
LEMMA ContextInvariance == Spec => []CInv
BY InitCInv, StepCInv, PTL DEF Spec

\* The registers, saved contexts and stacks keep their shape, whatever is
\* interrupted; the kernel stacks do not grow.
THEOREM ContextTypes == Spec => []TypeOK
<1>1. CInv => TypeOK
  BY DEF CInv
<1>. QED  BY <1>1, ContextInvariance, PTL

\* The context of the current user thread, as the properties see it.
LEMMA CurrentContext ==
  ASSUME CInv, phase = "running", current_task \in Threads
  PROVE  ThreadContext(current_task, regs)
BY DEF CInv, RunInv, Users, Context

\* Interrupted anywhere, a thread finds all its registers as it left them.
THEOREM KernelInvisible == Spec => []ContextKept
<1>1. CInv => ContextKept
  BY CurrentContext DEF ContextKept, ThreadContext
<1>. QED  BY <1>1, ContextInvariance, PTL

\* The way back to the caller survives other threads' system calls.
THEOREM WayBackKept == Spec => []CallerKept
<1>1. ASSUME CInv PROVE CallerKept
  <2>. SUFFICES ASSUME phase = "running", current_task \in Threads, regs.cpsr.mode # "usr"
                PROVE  LET mine == expect[current_task]
                       IN  /\ regs.pc # Popped => kstack[current_task] = <<mine.r, mine.pc, mine.cpsr>>
                           /\ regs.pc = Popped => regs.lr_svc = mine.pc
                           /\ regs.pc \in {SpsrSet, Popped} => regs.spsr_svc = mine.cpsr
    BY DEF CallerKept
  <2>1. ThreadContext(current_task, regs)
    BY <1>1, CurrentContext
  <2>2. CASE regs.pc = Popped
    BY <2>1, <2>2, Points DEF ThreadContext
  <2>3. CASE regs.pc = SpsrSet
    BY <2>1, <2>3, Points DEF ThreadContext
  <2>4. CASE regs.pc \notin {SpsrSet, Popped}
    BY <2>1, <2>4 DEF ThreadContext
  <2>. QED  BY <2>2, <2>3, <2>4
<1>. QED  BY <1>1, ContextInvariance, PTL

\* Every thread uses its own kernel stack, empty while its own code runs.
THEOREM StacksApart == Spec => []OwnKernelStack
<1>1. ASSUME CInv PROVE OwnKernelStack
  <2>. SUFFICES ASSUME phase = "running", current_task \in Threads
                PROVE  regs.sp_svc = <<current_task,
                         IF regs.cpsr.mode = "usr" \/ regs.pc = Popped THEN 0 ELSE 1>>
    BY DEF OwnKernelStack
  <2>1. ThreadContext(current_task, regs)
    BY <1>1, CurrentContext
  <2>. QED  BY <2>1, Points DEF ThreadContext
<1>. QED  BY <1>1, ContextInvariance, PTL

\* The code an ADC call names is entered in user mode and on the stack it names,
\* wherever the ADC calls that prepare it are interrupted.
THEOREM AdcCallConfined == Spec => []AdcCodeConfined
<1>1. ASSUME CInv PROVE AdcCodeConfined
  <2>. SUFFICES ASSUME phase = "running", regs.pc[1] = Adc
                PROVE  current_task = Idle /\ regs.cpsr.mode = "usr" /\ regs.sp_usr[1] = Adc
    BY DEF AdcCodeConfined
  <2>1. CASE current_task \in Threads
    <3>1. ThreadContext(current_task, regs)
      BY <1>1, <2>1, CurrentContext
    <3>2. regs.pc[1] \in {current_task, Kernel}
      BY <3>1 DEF ThreadContext, Peek, Body, Return, SpsrSet, Popped, Storing
    <3>. QED  BY <2>1, <3>2, ContextAssumption
  <2>2. CASE current_task = Idle
    <3>1. IdleContext(regs)
      BY <1>1, <2>2 DEF CInv, RunInv, Context
    <3>2. regs.pc # Loop
      BY ContextAssumption DEF Loop
    <3>. QED  BY <2>2, <3>1, <3>2 DEF IdleContext
  <2>. QED  BY <1>1, <2>1, <2>2 DEF CInv, RunInv, TypeOK
<1>. QED  BY <1>1, ContextInvariance, PTL

=============================================================================
