--------------------------- MODULE ContextSwitch ---------------------------
(***************************************************************************)
(* How a thread's registers survive the kernel: the SWI and IRQ entry and   *)
(* exit sequences of kernel/src/supervisor.S, and the saved contexts that   *)
(* thread_init, thread_create and call_scheduler keep in tcb_regs.          *)
(*                                                                          *)
(* From the moment the SWI handler leaves supervisor mode to look at the    *)
(* caller's stack (msr cpsr_c, #0x1f) interrupts are on, so a thread can    *)
(* lose the CPU between any two instructions of the handler, on the way out *)
(* too: another thread's system call then uses the same banked registers.   *)
(*                                                                          *)
(* A register value is <<o, n>>: the o tells whose value it is, the n tells *)
(* apart two values a program computed in turn.  r0-r12 are one register.   *)
(* The IRQ path runs with interrupts off and is one step, Tick.  Which      *)
(* thread is next is Scheduler's matter: here it is any thread.             *)
(*                                                                          *)
(* A thread may also prepare the context of another one while others run:   *)
(* thread_create does, and the ADC system calls, which fall through to      *)
(* thread_init: they write over the saved context of the idle TCB with      *)
(* their own two arguments, the frequency as the address of its code and    *)
(* the channel as its stack.  Each store is a step, with interrupts on.     *)
(***************************************************************************)
EXTENDS Integers, Sequences

CONSTANTS
  Threads,   \* the user threads of the program
  Idle,      \* the idle TCB
  Adc,       \* the owner of what an ADC call names: at address freq, code; at channel, a stack
  Main,      \* the owner of the context main() runs in
  Kernel     \* the owner of values that belong to kernel code

ASSUME ContextAssumption ==
  /\ Idle # Main /\ Idle # Kernel /\ Main # Kernel
  /\ Adc \notin {Idle, Main, Kernel}
  /\ {Idle, Adc, Main, Kernel} \cap Threads = {}

VARIABLES
  phase,         \* "boot": main() sets up, interrupts masked; "running"
  current_task,
  created,       \* the threads given to thread_create
  regs,          \* the registers of the CPU, banked ones included
  tcb_regs,      \* the saved context of each TCB, in memory order
  kstack,        \* what the SWI handler pushed on each kernel stack
  expect         \* auxiliary: the user registers as each thread left them

vars == <<phase, current_task, created, regs, tcb_regs, kstack, expect>>
Owners == Threads \cup {Idle, Adc, Main, Kernel}

\* An uninitialised word, and the values of a program that has not begun.
Zero == <<Kernel, 0>>
Fresh(o) == <<o, 0>>

\* A user stack pointer, told apart from a program's other values.
Stack(o) == <<o, 2>>

\* The cpsr: a mode, and the condition flags.
Psr(mode, flags) == [mode |-> mode, flags |-> flags]

\* Where kernel code can be interrupted.
Peek     == <<Kernel, 1>>   \* in system mode, about to read the caller's stack
Body     == <<Kernel, 2>>   \* in swi_c_handler
Return   == <<Kernel, 3>>   \* back from it
SpsrSet  == <<Kernel, 4>>   \* msr spsr done
Popped   == <<Kernel, 5>>   \* registers popped, movs pc, lr to come
Loop     == <<Kernel, 6>>   \* the while(1) of scheduler_start
Storing(i) == <<Kernel, 6 + i>>   \* before store i of thread_create

\* The positions in a saved context, counting from 1, with r0-r12 as one.
SPSR_SVC == 1
SP_SVC   == 2
LR_SVC   == 3
SP_USER  == 4
LR_USER  == 5
R0_R12   == 6
LR_IRQ   == 7
SPSR_IRQ == 8
----------------------------------------------------------------------------
(* Set-up, by system calls of main() while interrupts are masked.           *)

Init ==
  /\ phase = "boot"
  /\ current_task = Main
  /\ created = {}
  /\ regs = [r |-> Fresh(Main), pc |-> Fresh(Main), cpsr |-> Psr("usr", Fresh(Main)),
             sp_usr |-> Stack(Main), lr_usr |-> Fresh(Main),
             sp_svc |-> Fresh(Main), lr_svc |-> Zero, spsr_svc |-> Psr("usr", Zero)]
  /\ tcb_regs = [p \in Threads \cup {Idle} |->
                   <<Psr("usr", Zero), Zero, Zero, Zero, Zero, Zero, Zero, Psr("usr", Zero)>>]
  /\ kstack = [p \in Owners |-> <<Zero, Zero, Psr("usr", Zero)>>]
  /\ expect = [p \in Threads \cup {Idle} |->
                 [r |-> Zero, pc |-> Zero, cpsr |-> Psr("usr", Zero),
                  sp_usr |-> Zero, lr_usr |-> Zero]]

\* Mutant: the thread gets no kernel stack.
FirstContextNoStack(p, code, old) ==
  [old EXCEPT ![SP_USER] = Stack(code), ![SPSR_IRQ] = Psr("usr", Zero),
              ![SPSR_SVC] = Psr("usr", Zero), ![LR_IRQ] = Fresh(code), ![LR_USER] = Fresh(code)]

\* The context thread_init and thread_create prepare: user mode (0x10), at the
\* address and on the stack of their arguments, with the TCB's own kernel stack.
FirstContext(p, code, old) ==
  [old EXCEPT ![SP_USER] = Stack(code), ![SPSR_IRQ] = Psr("usr", Zero),
              ![SPSR_SVC] = Psr("usr", Zero), ![LR_IRQ] = Fresh(code),
              ![LR_USER] = Fresh(code), ![SP_SVC] = Fresh(p)]

\* The registers of p when the first instruction of its function is next.
AtStart(p) ==
  [r |-> Zero, pc |-> Fresh(p), cpsr |-> Psr("usr", Zero),
   sp_usr |-> Stack(p), lr_usr |-> Fresh(p)]

\* main() calls thread_init for the idle TCB, thread_create for the others.
CreateContext(p) ==
  /\ phase = "boot"
  /\ tcb_regs' = [tcb_regs EXCEPT ![p] = FirstContext(p, p, @)]
  /\ expect' = [expect EXCEPT ![p] = AtStart(p)]
  /\ created' = created \cup {p}
  /\ UNCHANGED <<phase, current_task, regs, kstack>>

\* The idle TCB becomes current, but the CPU stays in this system call: it
\* enables interrupts and loops, in supervisor mode on main()'s stacks.
scheduler_start ==
  /\ phase = "boot"
  /\ Idle \in created
  /\ phase' = "running"
  /\ current_task' = Idle
  /\ kstack' = [kstack EXCEPT ![Main] = <<regs.r, regs.pc, regs.cpsr>>]
  /\ regs' = [regs EXCEPT !.r = Zero, !.pc = Loop, !.cpsr = Psr("svc", Zero),
                          !.sp_svc = <<Main, 1>>, !.lr_svc = Zero,
                          !.spsr_svc = regs.cpsr]
  /\ UNCHANGED <<created, tcb_regs, expect>>

----------------------------------------------------------------------------
(* The current thread.                                                      *)

InMode(mode) == phase = "running" /\ regs.cpsr.mode = mode

\* What a TCB runs once it is prepared in a running kernel: the idle function
\* given to thread_init is gone with the first interrupt.
Code(q) == IF q = Idle THEN Adc ELSE q

\* User code runs: every register it can write gets a new value.  (The loop of
\* scheduler_start, which the idle TCB may be in, changes none in any mode.)
UserStep ==
  /\ InMode("usr") /\ regs.pc # Loop
  /\ LET v == <<Code(current_task), 1 - regs.pc[2]>>
         s == <<Code(current_task), 3 - regs.pc[2]>>
     IN  /\ regs' = [regs EXCEPT !.r = v, !.pc = v, !.cpsr = Psr("usr", v),
                                 !.sp_usr = s, !.lr_usr = v]
         /\ expect' = [expect EXCEPT ![current_task] =
                         [r |-> v, pc |-> v, cpsr |-> Psr("usr", v), sp_usr |-> s, lr_usr |-> v]]
  /\ UNCHANGED <<phase, current_task, created, tcb_regs, kstack>>

\* swi: the CPU saves pc and cpsr in the supervisor bank; the handler pushes
\* r0-r12, lr and spsr, then switches to system mode with interrupts on.  Only
\* threads of the program: what lies at the address an ADC call names is taken
\* to make no system call.
SwiEntry ==
  /\ InMode("usr") /\ current_task \in Threads
  /\ kstack' = [kstack EXCEPT ![regs.sp_svc[1]] = <<regs.r, regs.pc, regs.cpsr>>]
  /\ regs' = [regs EXCEPT !.r = Zero, !.pc = Peek, !.cpsr = Psr("sys", Zero),
                          !.sp_svc = <<regs.sp_svc[1], regs.sp_svc[2] + 1>>,
                          !.lr_svc = regs.pc, !.spsr_svc = regs.cpsr]
  /\ UNCHANGED <<phase, current_task, created, tcb_regs, expect>>

\* One stretch of the handler that ends at the next point considered, and
\* what it does to the registers.
KernelStep(from, to, newRegs) ==
  /\ phase = "running"
  /\ regs.pc = from
  /\ regs' = [newRegs EXCEPT !.pc = to]
  /\ UNCHANGED <<phase, current_task, created, tcb_regs, kstack, expect>>

\* Back to supervisor mode and into C, which overwrites lr.
SwiHandler == KernelStep(Peek, Body, [regs EXCEPT !.cpsr = Psr("svc", Zero), !.lr_svc = Zero])

\* The result is in r0, which is not popped: of no concern to the other registers.
SwiHandled == KernelStep(Body, Return, regs)

\* Mutant: the address of the function is stored before the user mode.
StoreOrderPcFirst == <<SP_USER, LR_IRQ, SPSR_IRQ, SPSR_SVC, LR_USER, SP_SVC>>

\* The order in which thread_init and thread_create fill the saved context.
StoreOrder == <<SP_USER, SPSR_IRQ, SPSR_SVC, LR_IRQ, LR_USER, SP_SVC>>

\* The context of q after store i.
Filled(q, i, old) ==
  [old EXCEPT ![StoreOrder[i]] = FirstContext(q, Code(q), old)[StoreOrder[i]]]

\* A thread creates q, or makes an ADC call, which prepares the idle TCB with its
\* frequency and channel (with one of them zero it stores nothing: SwiHandled).
\* No two threads create the same one at a time.
CreateCall(q) ==
  /\ \/ q = Idle
     \/ q \notin created /\ \A p \in created : tcb_regs[p][R0_R12] # Fresh(q)
  /\ KernelStep(Body, Storing(1), [regs EXCEPT !.r = Fresh(q)])

\* Store i into the saved context of TCB q; after the last one thread_create
\* puts its thread in the runnable pool.
CreateStore(q, i) ==
  /\ phase = "running"
  /\ regs.pc = Storing(i) /\ regs.r = Fresh(q)
  /\ tcb_regs' = [tcb_regs EXCEPT ![q] = Filled(q, i, @)]
  /\ IF i < Len(StoreOrder)
       THEN regs' = [regs EXCEPT !.pc = Storing(i + 1)] /\ UNCHANGED <<created, expect>>
       ELSE /\ regs' = [regs EXCEPT !.pc = Return, !.r = Zero]
            /\ created' = created \cup {q}
            /\ expect' = IF q = Idle THEN expect ELSE [expect EXCEPT ![q] = AtStart(q)]
  /\ UNCHANGED <<phase, current_task, kstack>>

\* The pushed spsr is put back.
SwiRestoreSpsr ==
  KernelStep(Return, SpsrSet, [regs EXCEPT !.spsr_svc = kstack[regs.sp_svc[1]][3]])

\* Mutant: the words below the frame stay on the stack.
UnwoundNot == regs.sp_svc
Unwound == <<regs.sp_svc[1], regs.sp_svc[2] - 1>>

SwiPop ==
  LET frame == kstack[regs.sp_svc[1]]
  IN  KernelStep(SpsrSet, Popped, [regs EXCEPT !.r = frame[1], !.lr_svc = frame[2],
                                               !.sp_svc = Unwound])

\* movs pc, lr: back to the caller.
SwiExit == KernelStep(Popped, regs.lr_svc, [regs EXCEPT !.cpsr = regs.spsr_svc])

----------------------------------------------------------------------------
(* The timer interrupt.                                                     *)

\* Mutant: the supervisor spsr is not saved.
SavedNoSpsr ==
  <<Psr("usr", Zero), regs.sp_svc, regs.lr_svc, regs.sp_usr, regs.lr_usr,
    regs.r, regs.pc, regs.cpsr>>

\* What irq_asm_handler pushes, from the lowest address up: the interrupted pc
\* and cpsr are in lr_irq and spsr_irq.
Saved ==
  <<regs.spsr_svc, regs.sp_svc, regs.lr_svc, regs.sp_usr, regs.lr_usr,
    regs.r, regs.pc, regs.cpsr>>

\* Mutant: the user sp and lr are loaded in the other order.
RestoredSwapped(f) ==
  [spsr_svc |-> f[1], sp_svc |-> f[2], lr_svc |-> f[3], sp_usr |-> f[5], lr_usr |-> f[4],
   r |-> f[6], pc |-> f[7], cpsr |-> f[8]]

\* What it loads on the way out from the context call_scheduler returned.
Restored(f) ==
  [spsr_svc |-> f[1], sp_svc |-> f[2], lr_svc |-> f[3], sp_usr |-> f[4], lr_usr |-> f[5],
   r |-> f[6], pc |-> f[7], cpsr |-> f[8]]

Tick ==
  /\ phase = "running"
  /\ \E next \in created :
       /\ tcb_regs' = [tcb_regs EXCEPT ![current_task] = Saved]
       /\ current_task' = next
       /\ regs' = Restored(tcb_regs'[next])
  /\ UNCHANGED <<phase, created, kstack, expect>>

Next ==
  \/ \E p \in Threads \cup {Idle} : CreateContext(p)
  \/ scheduler_start
  \/ UserStep
  \/ SwiEntry
  \/ SwiHandler
  \/ SwiHandled
  \/ \E q \in Threads \cup {Idle} : CreateCall(q)
  \/ \E q \in Threads \cup {Idle}, i \in 1 .. Len(StoreOrder) : CreateStore(q, i)
  \/ SwiRestoreSpsr
  \/ SwiPop
  \/ SwiExit
  \/ Tick

Spec == Init /\ [][Next]_vars

----------------------------------------------------------------------------
(* Properties.                                                              *)

Value == Owners \X (0 .. 12)
PsrValue == [mode : {"usr", "sys", "svc"}, flags : Value]

TypeOK ==
  /\ phase \in {"boot", "running"}
  /\ current_task \in Threads \cup {Idle, Main}
  /\ created \subseteq Threads \cup {Idle}
  /\ regs \in [r : Value, pc : Value, cpsr : PsrValue, sp_usr : Value, lr_usr : Value,
               sp_svc : Owners \X (0 .. 1), lr_svc : Value, spsr_svc : PsrValue]
  /\ tcb_regs \in [Threads \cup {Idle} ->
       PsrValue \X Value \X Value \X Value \X Value \X Value \X Value \X PsrValue]
  /\ kstack \in [Owners -> Value \X Value \X PsrValue]
  /\ expect \in [Threads \cup {Idle} ->
       [r : Value, pc : Value, cpsr : PsrValue, sp_usr : Value, lr_usr : Value]]

\* The kernel is invisible to a thread: whenever its own code runs, all its
\* registers hold what it last put there, wherever it was interrupted, in its
\* code or anywhere in a system call, and whatever others did meanwhile; its
\* first instruction is the thread function's, on its stack.
ContextKept ==
  (phase = "running" /\ current_task \in Threads) =>
    LET mine == expect[current_task]
    IN  /\ regs.sp_usr = mine.sp_usr /\ regs.lr_usr = mine.lr_usr
        /\ regs.cpsr.mode = "usr" =>
             regs.r = mine.r /\ regs.pc = mine.pc /\ regs.cpsr = mine.cpsr

\* The way back to the caller is not lost in the handler: it is on the kernel
\* stack, and in the banked lr and spsr from the pop to the last instruction,
\* although another thread's system call may use that bank in between.
CallerKept ==
  (phase = "running" /\ current_task \in Threads /\ regs.cpsr.mode # "usr") =>
    LET mine == expect[current_task]
    IN  /\ regs.pc # Popped => kstack[current_task] = <<mine.r, mine.pc, mine.cpsr>>
        /\ regs.pc = Popped => regs.lr_svc = mine.pc
        /\ regs.pc \in {SpsrSet, Popped} => regs.spsr_svc = mine.cpsr

\* A thread that has run uses its own kernel stack, which is empty while its own
\* code runs: no system call finds another's frame below or above its own.
OwnKernelStack ==
  (phase = "running" /\ current_task \in Threads) =>
    regs.sp_svc = <<current_task, IF regs.cpsr.mode = "usr" \/ regs.pc = Popped THEN 0 ELSE 1>>

\* An ADC call makes the idle TCB run code at the address of its frequency, on a
\* stack at its channel.  That is entered only in idle time, in user mode and on
\* that stack, never with kernel privileges or on the stack of main(), whichever
\* store the call is interrupted at: the order of the stores sees to it.
AdcCodeConfined ==
  (phase = "running" /\ regs.pc[1] = Adc) =>
    current_task = Idle /\ regs.cpsr.mode = "usr" /\ regs.sp_usr[1] = Adc

=============================================================================
