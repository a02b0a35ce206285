# A verification project for the lab 3 real-time kernel

The code is a small real-time kernel for a Raspberry Pi 2 (CMU course 18-349): up to 31 periodic
threads with fixed priorities and enforced budgets, mutexes with a priority ceiling, a handful of
newlib system calls on a UART, all on one CPU driven by a 1 ms timer interrupt. This directory holds
TLA+ models of it, TLC runs that check them on small instances, and TLAPS proofs of the safety
properties of each part for every number of threads, mutexes, tasks and sizes.

`PROJECT.json` maps every definition to the lines it models and lists the runs, the mutants that show
each property can fail, the findings, the hazards and the theorems.

## 1. Inventory

| Part | Source (under `src/code/`) | State | Operations |
|---|---|---|---|
| Scheduler | `kernel/src/syscall_thread.c` 46-217, 265-311; `kernel.c` 37-40; `timer.c` | `tcb_list`, `current_task`, `runnable_pool`, `waiting_pool`, `time` | `thread_init`, `thread_create`, `scheduler_start` (admission test), `wait_until_next_period`, `spin_wait`, `get_time`, `get_priority`, and the timer interrupt: `irq_c_handler`, `call_scheduler`, `find_next_task` |
| Mutexes | `syscall_thread.c` 219-263, `kernel/include/mutex.h` | `mutex_list`, `mutex_ceiling`, the fields of each `mutex_t`, `curr_priority` | `mutex_init`, `mutex_lock`, `mutex_unlock` |
| Context switch | `kernel/src/supervisor.S`, `kernel.c` 51-100, the `tcb_regs` part of `syscall_thread.c` | banked CPU registers, `tcb_regs`, one kernel stack per TCB | SWI entry and exit, IRQ entry and exit, `swi_c_handler`, `enter_user_mode` |
| System calls and console | `syscalls.c`, `uart.c`, `printk.c`, `newlib/349include/swi_stubs.S` | `heap_end`, the UART's FIFOs, `printk`'s 8-byte buffer | `sbrk`, `read`, `write`, `exit`, `printk`, the constant calls `close`, `fstat`, `isatty`, `lseek` |
| Start-up | `349libk/src/boot.S`, `newlib/349include/crt0.S`, `arm.S`, `panic.S` | none that lasts | straight-line |
| GPIO, LEDs | `349libk/src/gpio.c`, `leds.c` | function select registers, levels | `gpio_config` and register writes |
| Display over SPI | `screen.c`, `spi.c` | `_oled_frame_buffer`, the panel's memory, windows and pointers | `oled_init`, `oled_reset`, `oled_buf_clr`, `oled_buf_draw`, `oled_buf_pixel_set`, `oled_buf_pixel_clr`, `oled_clear_screen`; linked into the kernel, called by nothing in it |
| ADC over I2C | `ads1015.c`, `i2c.c` | the controller's FIFO and status, the ADC's registers | `adc_init`, `adc_read`; linked into the kernel, called by nothing in it |
| Test programs | `lab3_test*/src/main.c` | | the user programs the kernel is for |
| Vendored | `newlib/`, `oled_screen_test/` | | not part of the kernel |

How the parts meet. User threads enter the kernel by `swi`; `swi_c_handler` dispatches to the
scheduler's, the mutexes' or the console's functions, which run in supervisor mode on the thread's own
kernel stack **with interrupts on**. The timer interrupt can therefore stop a thread in its own code or
anywhere in a system call, except between `disable_interrupts` and `enable_interrupts` (the decisions
of `mutex_lock` and `mutex_unlock`) and during the interrupt itself. The interrupt increments `time`,
lets `find_next_task` account for the interrupted thread, release waiting threads and choose one, and
swaps the register contexts. Shared memory (`status`, `sleep`, the lock word) is how a spinning system
call learns what the interrupt did. `main()` sets everything up with interrupts masked and the timer
off, so the set-up calls are not interleaved with anything.

What is hard: every order of system calls and interrupts; the three places a thread can be (CPU, two
bit pools) and the status word that must agree with them; budgets and spin counts that must survive
preemption; words that wrap; the gap between looking at the lock word and deciding; the banked
registers on the way out of a system call. `PROJECT.json` "hazards" lists each at its line.

What makes each part correct:

* Scheduler: no thread lost or duplicated; the CPU goes to the highest-priority runnable thread; a
  thread is preempted only by a higher one; releases one period apart, neither early nor late; a bound
  on the CPU a job gets; a waiting thread is released; a long spin ends.
* Mutexes: mutual exclusion, the ceiling rule, no lock left without an owner.
* Context switch: a thread cannot tell that it was interrupted.
* Console and heap: what is typed is what is echoed and returned, no byte lost, no block handed out
  twice, the exit status shown as it was given.
* Display: when a call that draws returns, the glass shows the client's picture; no byte of a command
  is taken for data, or the other way round.
* ADC: a sample is made of the two bytes of one reading, whatever earlier transfers failed.
* Pins: no driver takes another's.

## 2. Modules

| Module | What it is |
|---|---|
| `PeriodicTasks` | Abstract specification: what a scheduler of periodic tasks promises, without pools, status words, budgets or system calls |
| `Scheduler` | The kernel's scheduler; `ImplementsPeriodicTasks` is its refinement of `PeriodicTasks` |
| `RuntimeCreate` | Extends `Scheduler` with threads created while it runs, and with the ADC system calls that fall through to `thread_init` |
| `Mutex` | Extends `Scheduler` with the mutex calls, cut where a thread can lose the CPU |
| `ContextSwitch` | Registers, SWI and IRQ paths, saved contexts and the stores that prepare them |
| `Printk` | `printk`'s number conversion, as operators |
| `Syscalls` | `sbrk`, `read`, `write` and `exit` by several threads, over the UART, with a terminal at the other end |
| `Gpio` | The function select registers the drivers share |
| `Screen` | Abstract specification: a picture one edits and a screen that shows it |
| `Display` | The panel's driver, byte by byte, with the panel; `ImplementsScreenButClear` is its refinement of `Screen` |
| `Adc` | The ADC's driver, transfer by transfer, with the I2C controller and the ADC |
| `Drivers` | UART, display and ADC on one board, under one client |
| `SchedulerProofs`, `RuntimeProofs`, `MutexProofs`, `ContextProofs`, `PrintkProofs`, `SyscallsProofs`, `DriversProofs` | The theorems about the modules of these names |
| `FoldProofs` | Lemmas about `FoldLeft` over sequences, by least counterexample |
| `MCScheduler`, `MCRuntimeCreate`, `MCMutex`, `MCContextSwitch`, `MCSyscalls`, `MCDrivers` | Instances for TLC: task sets, horizons, symmetry |

### Scheduler

A thread is its priority, which is its index in `tcb_list`; `Idle` is `THREAD_NUM - 1`. The pools are
sets (the 1 bits of the two words); the bit operations on them are set operations. `time`, `wakeup` and
`period` are words, taken modulo `WordSize`. `computation` and `execution` are numbers: `execution` is
bounded by the theorem below, `computation` is a constant of the program. `sleep` is compared with the
argument of `spin_wait` only, so counts from `SleepCap` on are one value.

One action per operation. `Tick` is the whole timer interrupt, whose steps are definitions of their
own: `Now` (the new time), `JobEnds`/`WakeupAfter`/`Waiters` (the two branches that account for the
interrupted thread), `Expired` (the release loop), `RunnableAfter`/`WaitingAfter` (the pools when the
search starts), `find_next_task` (the search), `Preempted` (what `call_scheduler` does with the thread
it takes the CPU from), `NewStatus`, `NewExecution`, `NewSleep`. `wait_until_next_period` sets the
status; its spin loop needs no step, since it ends exactly when the thread is made `RUNNING`.
`spin_wait` is two actions, the call and the return. `Admitted` is the floating-point admission test in
exact arithmetic with the two float values that matter: 0/0 is NaN and passes, C/0 is infinite and does
not. `created` and `used` are auxiliary: who was given to `thread_create`, and ticks charged to a job.

Two lines of the source need a remark. Line 248 of `syscall_thread.c` is a stray merge marker
(`<<<<<<< HEAD`) with no counterpart; the model takes the function as what is left without it. And the
idle thread's code: `scheduler_start` makes the idle TCB current while the CPU stays in its own
`while(1)`, so the idle thread makes no system calls (see `ContextSwitch`).

### RuntimeCreate

`swi_c_handler` serves `thread_create` with interrupts on, at any time. All its stores but the last go
to a TCB that is in no pool, where no interrupt looks. The last, `set_run_pool`, is a read, an or and a
write of the pool word, so the call is cut there: `BeginCreate` ends with the read, `set_run_pool` is
the write of what was read (`word`), and ticks come between. `raced` is auxiliary: a word was written
back that no longer was the pool. Any of the `Creators` may be in the call at the same time: one that
loses the CPU there keeps its word while others create. A program gives each priority to one
`thread_create` only (`Unused`). `sample_adc` is the effect of `SWI_ADC_START` and `SWI_ADC_STOP`, which
have no `break`-ing case of their own and reach `thread_init`, on the scheduler's fields.

The properties say how far the damage goes. Unless a stale word was written, nothing is lost
(`LostOnlyByRace`) and budgets and releases are kept (`KeptUnlessRaced`). Once one was, no tick and no
system call of its own brings a lost thread back; only the write of another creator can, one whose word
was read before the thread was lost and is stale too (`OnlyStaleWordFinds`, over the `Holders` of such
words, whose number only falls). And each tick still dispatches by priority among those that are left
(`DispatchedAtTick`). Two facts a reader should know: a thread created late starts with wakeup time 0,
so it is released again at once for every period that has passed since the start, until it has caught
up; and a thread is lost, or doubled, by an interrupt in a window of two instructions, which no comment
of the code excludes.

### Mutex

`mutex_lock` is `LockCall` (the call and the first look at the lock word), `LockSeenFree` (a later look
ends the spin) and `LockDecide` (the region with interrupts off, and the return). A tick can fall
between any two. `mutex_unlock` has interrupts off and is one action. `holds` is what a thread believes
after its lock call returned. The lock word is a plain `int` in a `while` loop, read once by compilers
that hoist the load (gcc does at -O1, the kernel's setting) and every time by others: `hoisted` is
chosen in the initial state. Programs lock a mutex only if its ceiling allows
(`syscalls.h`: "the maximum priority of a thread which could use"), initialise it once, and unlock what
they locked.

### ContextSwitch

Registers hold abstract values that say whose they are; r0-r12 are one register. The SWI path is cut at
every point where the set of registers that matter changes: system mode, C code, after the call, after
`msr spsr`, after the pop. The IRQ path runs with interrupts off and is one action, `Tick`, with the
frame written in the order of the pushes (`Saved`) and read in the order of the loads (`Restored`), and
with the C indices of the frame used by `thread_init` and `thread_create` (`FirstContext`). Which thread
runs next is left open, so the properties hold for any scheduling.

While others run, a thread may prepare the context of a new one (`CreateCall`, `CreateStore`, one step
per store, in `StoreOrder`), or, by an ADC call, write over the saved context of the idle TCB, which may
be interrupted code at that time. The fall-through hands `thread_init` the arguments of
`sample_adc_start(freq, channel)`, so the frequency becomes the address of the code that runs in idle
time and the channel its stack (`Code`, `Adc`). The idle function given to `thread_init` by `main()`
never runs: `scheduler_start` makes the idle TCB current without loading its context, and the first timer
interrupt saves the loop of `scheduler_start` over it. `AdcCodeConfined` says how far the damage goes:
what lies at that address is entered in idle time only, in user mode and on the stack the call names,
whichever two stores an interrupt falls between, and the user threads notice nothing (`ContextKept`).
Assumed of it is that it changes registers at will and makes no system call; that it is code at all is not
known, so an abort at its first instruction, for which the kernel has no handler, is left out.

### Syscalls

The calls run with interrupts on, so a call is cut wherever it touches something threads share: the UART's
status (`SeeRoom`, `SeeByte`), its FIFOs (`PutByte`, `GetByte`) and `heap_end` (`syscall_sbrk`,
`FirstCall`, `SbrkReturn`); the actions of all threads interleave freely, which covers any scheduling.
`out` holds the bytes a call has still to put, `Handled` is the switch of `syscall_read`. A byte read
from an empty FIFO (two readers saw the same one) may be any byte. `heap_end` is `NULL` before the first
`sbrk`; the build may read it again after that test, but the test against `__heap_top` and the store use
one value (gcc at -O1). `Type`, `Transmit` and `Show` are the keyboard, the UART's transmitter and a
terminal that overwrites at its cursor. `base` and `disturbed` are auxiliary: the line when a read began,
and whether another thread has interfered since. Constant results (`write` returns 0) and the file
descriptor tests are left out.

`syscall_exit` puts its status by `printk`, byte by byte with interrupts on, then `ExitHang` turns them
off and stops all threads; the FIFO still drains. The text is one of `SignedText(status)` of `Printk`:
all digits, or, for numbers longer than the 8-byte buffer, garbage for those stored below it. Numbers of
a word in hexadecimal just fit, decimal ones need up to ten digits (`ArrayAssumption`); the instance has
words of 8 bits and a buffer of 2 bytes, where the same is so. `ExitStatusShown` asks for the status on
the last line, whole and followed by blanks at most: a read that ended by EOT after its letters were
rubbed out leaves their blanks, and a shorter text does not reach their end.

### Gpio, Display, Adc, Drivers

A function select register is ten fields, rewritten whole by `gpio_config`. `Display` keeps the calls of
`screen.c` as scripts: a call sets `script` to the commands and data it sends, `OledStep` sends the next,
with the level of the data/command pin (`oled_write_command` lowers it, `oled_buf_draw` raises it). The
panel (external: the SSD1306, whose commands `screen.c` names) collects a command and its arguments,
moves its pointers in its windows, and turns rows and columns round on the way to the glass (`Lit`), as
`BitOf` does on the way to the buffer. The refinement of `Screen` says that the two fit: `Picture`, what
the client set in its own coordinates, is what is on the glass when a drawing call returns, after any
number of resets and set-ups. `Screen` is written from `screen.h`: its `ClearBuffer` clears the whole
picture. `oled_buf_clr` does not (run `DisplayClear`), so what is checked and proved of the driver is
`ImplementsScreenButClear`: every other step is one of `Screen`, and `oled_buf_clr` at least lights nothing
and leaves the glass alone (`ClearsPart`).

`Adc` is the three transfers of `adc_read`. The controller has one FIFO for both directions;
`i2c_master_write` clears it, `i2c_master_read` does not, and neither reports that a transfer was not
acknowledged (`TransferDone` chooses, and an unacknowledged one leaves the FIFO as it is). Nobody waits
for a conversion, which ends when it likes (`ConversionDone`). `failed` and `earlier` are auxiliary.

`Drivers` interleaves the calls of one client with the hardware; the drivers run to completion and are
not called from threads, so there is one client. They meet in the pins only.

## 3. Runs

| Run | Instance | Shows |
|---|---|---|
| `SchedulerSafety` | 3 user priorities, three task shapes, spin of 2, 18 ticks, no wrap | `NoLostThread`, `DispatchOrder`, `ReleaseTimely`, `BudgetBound`, `PreemptedOnlyByHigher`, `IdleGivesWay`, and the refinement |
| `SchedulerWrapping` | 2 user priorities, word of 4 values, whole state space, fair ticks, a task with C = T = 0 | the same invariants across wraps and with period 0, and the liveness properties |
| `SchedulerDeadline` | 2 user priorities, threads that keep to their budgets | violation: an admitted set misses a deadline |
| `RuntimeCreate` | 5 user priorities, the highest two create, one shape, 12 ticks | what creating threads in a running system can damage, and what not |
| `MutexTwo` | 3 user priorities, 2 mutexes with ceilings up to 2, 9 ticks | owners, the ceiling rule, no circular wait, agreement of the two ceiling computations |
| `MutexExclusion` | 2 priorities, 1 mutex, no tick between the last look at the lock word and the decision | violation: two threads in one critical section, after one lock and unlock |
| `MutexSum` | priorities 1 and 2, 3 mutexes, 8 ticks | violation: the ceiling rule, through the sum of ceilings |
| `ContextSwitch` | 2 threads, whole state space | registers, return path and kernel stack of a thread are its own, what an ADC call makes idle run is confined |
| `Console` | 2 threads, 3 calls, 3 keys, FIFOs of 2, reads of 2 bytes, heap of 3 and blocks of 2, statuses -99, 100 and -128 | the line on the terminal is what `read` returns (`EchoShowsBuffer`), the exit status is shown (`ExitStatusShown`), a byte is lost only to a thread in the window of `uart_put_byte` (`LossNeedsRace`), a read stays in its buffer (`TypeOK`), racing `sbrk` calls stay below `__heap_top` (`HeapBelowTop`) |
| `HeapRace` | 2 threads, no keys, no writes | violation: two calls of `sbrk` are granted one block |
| `Drivers` | a glass of 2 columns and 2 pages of 2 rows, one lit pixel, 2 channels | the driver implements `Screen` but for `oled_buf_clr`, a sample is one reading, the pins are kept |
| `DisplayClear` | the same with three lit pixels | violation: `oled_buf_clr` leaves pixels lit |

**Bounds.** The scheduler's decisions compare priorities pairwise and times with wakeups, so three
priorities give every relation of an interrupted, a waiting and a runnable thread; the horizon of 18
ticks is more than two periods of the longest task. The proofs cover all values of these bounds, so
they are there to find errors cheaply. `SchedulerWrapping` needs no horizon: its word wraps.
`RuntimeCreate` has two creators (`MCCreators`): the higher one is stopped in the call by its budget,
the lower one loses a thread by its own stale word meanwhile, and the higher one's word brings it back.
Five priorities leave a thread to be created by each and one below to be lost, and 12 ticks (`MaxTime`)
are more than the nine this takes. For mutexes three threads and two mutexes give every nesting and every race of a lock call with a decision of
another thread; with three mutexes the ceiling rule breaks, as `MutexSum` shows (its constraint keeps
the lower two priorities, a fixed order of set-up and a build that rereads the lock word; the mutexes
are symmetric). `ContextSwitch` has two threads because a third adds no new bank to share: a thread's
state only meets that of the one thread that ran in between. `Console` fills a FIFO and a read buffer,
with one key to spare for a rubout, and has every pair of calls in flight together and a third after
them; the threads are symmetric. The text of an exit makes for many interleavings, so while a thread
exits no other does and at most one key is typed and two calls are made in all (`MaxBesideExit`,
`LittleBesideExit`): enough for another thread to write on its line. `Drivers` has a glass of two pages
and two columns, where every pointer of the panel wraps in both directions and every remapping turns
something round; the client lights one pixel at a time (`MaxLit`), since bits of a picture do not
interact, and once the ADC was used the display is set up and reset and not drawn (`Bounds`), since they
share pins only. `DisplayClear` lights three, since a picture that loses none or one of its pixels may have
been edited so by the client.

Deadlock is checked, except in `Console` and `HeapRace`: there the bounded keys and calls run out, and a
reader then waits for a key for ever. The only places where the kernel itself stops are the loop of
`syscall_exit` (`Hang`, `ExitHang`) and `panic` (`Hang` of `Drivers`).

**Fairness.** `LiveSpec` assumes that the timer goes on (`WF(Tick)`: a periodic hardware interrupt which
user code cannot mask) and that a thread that is on the CPU over and over, with its spin condition true,
leaves the spin loop (`SF(SpinReturn)`: a loop of three instructions against a tick of 1 ms). Nothing is
assumed of user code: threads may never wait, never spin and never end.

**Findings.** Five of the runs expect a violation of what a header or a test program says; each finding
quotes the line. A job's end leaves an idle tick although other threads are runnable (`j <= prio` in the
search), which the admission test does not account for, so admitted sets miss deadlines
(`SchedulerDeadline`). After the last unlock the sum of the ceilings of locked mutexes is 0; no priority is
below that, so every later lock is refused, and returns all the same, so that a mutex used once protects
nothing (`MutexExclusion`: `lab3_test7` prints what is expected, with nothing locked from its third line
on). Its run excludes ticks between the last look at the lock word and the decision; without that
constraint the shortest trace is another, a refusal of the second of two threads that both saw the mutex
free. Ceilings are summed on unlock and minimised on lock (`MutexSum`); two `sbrk` calls interrupted
between reading and writing `heap_end` get the same block (`HeapRace`); `oled_buf_clr` clears `OLED_COLS`
bytes, one page of four, where `screen.h:25` says "Clear the internal OLED display buffer"
(`DisplayClear`).

Other things the models show, without a run of their own:

* A job gets C + 1 ticks, not C: the bound in `BudgetBound` is exact.
* A thread can be lost, or be in two places, by `thread_create` in a running system (`RuntimeCreate`).
* The idle function never runs: idle time is spent in the loop of `scheduler_start`, in supervisor mode,
  and after an ADC system call at the address that is the call's frequency, in user mode.
* `lab3_test5/src/main.c:4-5` expects the mutex to keep thread 3 from being preempted by thread 1.
  `find_next_task` looks at `priority` only, never at `mutex_ceiling` or `curr_priority`, so the owner of a
  mutex is preempted by every higher thread, those that use the mutex included. No run is about it.
* `time >= wakeup` compares wrapped words: when `wakeup` has wrapped past 2^32 and `time` has not, a thread
  that waits is released at the next tick, up to a period early, every 49.7 days. It is why
  `ReleasesOnTime` needs `Horizon`; `WaiterIsReleased` holds across wraps.
* `i2c_master_write` and `i2c_master_read` return 0, where `i2c.h:36` and `:47` say the number of bytes;
  `adc_read` would not look at it either.
* `adc_read` returns the result of an earlier conversion if the one it starts takes longer than two
  transfers: `earlier` in `ReadsOneSample`. The channel goes unchanged into the multiplexer field, whose
  values 0 to 3 are differential inputs, and channel 3 also masks gain bits; the model has channels as
  names only.
* `printk`'s array is `sizeof(uint64_t)`, 8 bytes, under a comment that says 64 digits (`printk.c:17`).

## 4. Proofs

### SchedulerProofs

For every `Idle`, `WordSize`, task set and spin set that satisfy `SchedulerAssumption`:

* `Invariance`: `Spec => []IInv`, where `IInv` strengthens `TypeOK`, `NoLostThread`, `DispatchOrder` and
  `BudgetBound` to an inductive invariant. The additional parts say what the code relies on silently:
  before the start no thread is in the waiting pool and the runnable pool is `created`; TCBs never
  created keep their zeroes; `used` and `execution` agree for a thread in its job, so that the budget test on
  `execution` bounds `used`.
* `TypeCorrect`, `ThreadsInOnePlace`, `PriorityDispatch`, `BudgetWithinOneTick`: the invariants.
* `PreemptionByHigherOnly`, `IdleForOneTick`: the action properties.
* `ReleasesOnTime`: `Spec /\ []Horizon => []ReleaseTimely`, where `Horizon` says that no wakeup is
  within a period of the end of the word. Without that assumption the property is false: see the
  comparison of wrapped words in section 3.
* `Refinement`: `Spec => PT!Spec`, the scheduler implements `PeriodicTasks`: the set-up actions map to
  its set-up, `Tick` to its `Tick` with `jobEnds` the code's `JobEnds`, the system calls to stuttering.

`Tick` is the only hard step; the lemmas `TickType`, `TickPlaces`, `TickOrder`, `TickBudget`,
`TickRelease` and `TickRefines` treat it, one part of the invariant each, over `NextTask` (what the
search returns), `MinOfPrios` and `ModWord`.

### RuntimeProofs

With a stale word the scheduler's invariant is false, so `RInv` starts again from the types: it adds to
`TypeInv` that every creator in the call, however many there are, has a word of threads to write and a
thread of its own that is not created yet (`CreateInv`). The key lemma, `TickKeeps`, needs nothing but
types: a tick keeps the user threads in the pools and on the CPU, together, the same. `LostStaysLost`
follows, since a creator that begins reads a pool without the lost thread (`ReaderIsNoHolder`) and one that
writes gives its word up (`WriterLetsGo`); and so does `TicksDispatch`.

Until a stale word is written back, `KeptInv` holds: the scheduler's invariant without the order of
dispatch (`PlaceInv`; a thread created with a high priority waits for the next tick, so `DispatchOrder`
is false meanwhile), a TCB in creation as `thread_create` filled it, and no charge on a thread before
its creation. `UncreatedKept` says that a tick does not touch such a TCB. It gives `LossByRaceOnly`, and
with the scheduler's `ReleaseStep`, `KeptWithoutRace`: `RSpec /\ []Horizon => []KeptUnlessRaced`.

### MutexProofs

`MutexesKeepScheduler` (`MSpec => Spec`): every step of `Mutex` is one of `Scheduler` or a stutter, so
the scheduler's theorems hold with mutexes. `MInv` adds to them `LockedHasOwner` and what it needs of
`lock`, `thread`, `call` and `target` (`LockInv`), and of the ceilings (`CeilingInv`).
`LocksHaveOwners` and `MutexTypes` follow. That the sum of ceilings is a number
(`MTypeOK`) and how it bounds each of them (`CeilingSum`) is an induction over finite sets, carried out
over `SumTo`, the function that the library's fold chooses (`SumExists`).

The ceiling rule is false for three mutexes (`MutexSum`), so the theorems say what it depends on.
`CeilingCoversLocks`, that the system ceiling is not above that of a locked mutex, is enough for any
number: `CoverGivesRule` (the test of `mutex_lock` needs nothing else) and `CoverPreventsCircles` (by
`Nested`: of two locked mutexes of different owners one's owner and ceiling are below the other's
ceiling, so around a circle of waiting threads the ceilings would go down for ever). `TwoMutexesCover`:
for two mutexes the minimum that a lock keeps and the sum that an unlock computes agree well enough.
`TwoMutexesSafe` puts them together. The hypothesis `[]TwoMutexes` restricts the program, not the
kernel: it says of `mutex_list` that at most two mutexes were ever initialised.

### ContextProofs

`CInv` is the three safety properties of the running thread, said of *every* thread: `Context(p)` is the
CPU's registers if p runs and `Restored(tcb_regs[p])` if not, and the timer interrupt leaves `Context`
of each thread as it is (`TickContext`). `ThreadContext` lists where a thread can be: in its own code, in
the handler with its frame on its kernel stack, or popped and about to return. `IdleContext` and
`StoresInv` follow the stores of `thread_create` and of the ADC calls (`Begun`, `IdleBegun`): what is
already stored when a store is next, and that no two threads create the same one; for idle that its
stack is the named one before its code is. `BootInv` is the
frame before the start. All five invariants of the run are theorems (`ContextTypes`, `KernelInvisible`,
`WayBackKept`, `StacksApart`, `AdcCallConfined`), for every set of threads.

### PrintkProofs, FoldProofs

What a recursive function or a fold computes is proved by least counterexample: a set of naturals that is
not empty has a least element (`LeastNumber`, from `WFMin`), and the definition leads from it to a
smaller one. The functions themselves are `CHOOSE`n, so it is first shown that one with the recursive
equation exists (`SolutionExists`, `IterExists`).

`DigitsAreDigits`: `printnumk`'s loop ends, with at least one digit and only digits of the base.
`SignedTextBytes`: `printk` puts nothing but digits, a sign and, on overflow, garbage. `DigitsDenote`:
the decimal digits read back as the number. `SignedTextDenotes`: for a word with at most `MaxBuf` digits
the text reads back as the signed value (`DecimalFits` says that such a number leaves no digit below the
buffer; a word like -2^31, whose negation is itself, has more digits, by `ArrayAssumption`).

`FoldProofs` is about `FoldLeft` as a loop over the items (`Runs`): one item more at the end
(`LoopAppend`) and the first item first (`LoopTail`).

### SyscallsProofs

`ConsoleTypes`: `TypeInv` adds to `TypeOK` what each kind of call has in `out`, `buf` and `status`
(`CallInv`); a read stays in its buffer because `Handled` lets no letter in when it is full.
`HeapInBounds`: `HeapInv` is `HeapBelowTop` with the types: it is inductive as it stands, because the
store writes the value that was tested, however stale.
`LossIsARace`: `RoomInv` says that for a thread that saw room and has not been overtaken there still is
room, which only other threads take and the transmitter makes.

`EchoFaithful` and `ExitStatusFaithful` compare the line of the terminal with what a call has said, while
bytes are still in the FIFO and in the call. The invariant speaks of `Final(p)`: the screen once the
FIFO, and then the bytes `p` still has to put, are out. The transmitter and `PutByte` leave it as it is
(`FinalKept`, from `ShowLoop`: `Show` is a loop over bytes), as long as no other thread writes on the line,
and a byte is not lost either (`QuietInv`, with `RoomInv`). So only a key changes it: `EchoInv` says that
`Final(p)` is the line before the read and then the buffer, with blanks after the cursor, through each
case of `Handled` (`LineGrows` for a letter, `LineRubout` for the three bytes of a rubout). `StatusInv` is
the same for an exit: the line that `Final(p)` leaves above is the line before, the name and a text of
the status, which `SignedTextDenotes` reads back.

### DriversProofs

`OneSample`: `AdcInv` follows a transfer from its start to its end. `WaitInv` relates `step`, `active`
and `done` (a DONE bit is never left over, or the wait would end early); `WriteInv` says what the FIFO
holds during a write; `ChannelInv` that what is converted was asked for by this call or before it;
`CleanInv` that after an acknowledged write the FIFO is empty, so that the read that follows, which does
not clear it, finds its own two bytes.

`DriversKeepPins`: `ConfigOnePin` says that `gpio_config` gives one pin its function and leaves every
other pin, in that register and the other, as it was (`Sets`); the six calls of `oled_init` and the two
of `adc_init` follow pin by pin.

`DriverShowsPicture`: `Spec => ImplementsScreenButClear`, for every number of columns, pages and rows of a
page. A step of the driver is a step of `Screen`, or none, or
a call of `oled_buf_clr`. The invariant `DInv` is

* `PinInv`, since a byte reaches the panel only if the pins are as they should be;
* `PanelInv`: the panel's window is always the whole memory, and a panel that is on is remapped and in
  horizontal mode;
* `CallInv`: between calls no script is left and no command half sent, so no byte of the next call is
  taken for an argument of the last;
* `ProgressInv`: during a call what is left of the script is the script without its first k items
  (`Rest`), and the panel is where these leave it: `InitDone(k)` for the 25 commands of `oled_init`,
  `DrawDone(k)` for a drawing call, of which the heart is that the pointers stand at place k - 7 of the
  memory, and that all places before hold what they are to hold (`Drawn`).

Pixels and places are matched by arithmetic: `PixelPlace` (where the turned coordinates of a pixel lead
and that it is inside the buffer), `PixelsApart` (no two pixels share a bit), `DataByte` (the pointers go
on by one place, across the end of a line). A byte that arrives changes only pixels of its place, and
these to what the picture wants (`ByteShown`); after the last one all places are done, so the call
returns with the picture on the glass. `PixelEdit` and `PartCleared` treat the calls that edit the buffer.

### Only model-checked

* Liveness under fairness, which is out of the prover's reach, and the admission test's relation to
  deadlines (finite arithmetic over all task sets of the instance).
* The findings: a violation is shown by its trace. Where a property of a violated run holds under a
  condition (`ReleasesOnTime`, the theorems of `MutexProofs`), the condition is proved sufficient.

## 5. Not modelled, and the plan

The plan of the first version is done: number conversion, the ADC fall-through, threads created in a
running system, the drivers, and theorems for every invariant and safety property of the passing runs. What
a next version would add:

1. The liveness properties by hand-made ranking arguments, should a prover for `ENABLED` be at hand.
2. A bound on the number of idle ticks that the ends of jobs cost, as a theorem: it would say by how much
   the admission test has to be corrected.
3. Properties of the ceiling as a promise about the CPU (the owner of a mutex runs before those that may
   use it), as soon as the search looks at it.

Left out on purpose:

* Most of the repository's lines are the vendored C library under `newlib/` (character tables, libm, the
  printf family, ports to other processors), which the kernel neither calls nor is called by except
  through the system calls modelled here; its correctness is not this project's. For that reason the
  map covers a small share of the tree, and most of the kernel.
* `oled_screen_test/`: older copies of the drivers, and a program that draws a box.
* Start-up (`boot.S`, `crt0.S`): straight-line code, whose result is the initial states here.
* LEDs, pull-ups, pin levels other than the panel's data/command input, clock dividers, delays, and the
  wording of output: nothing in the code reads them back.
* `close`, `fstat`, `isatty`, `lseek`, and the results of `read` and `write`: constants, or the length of
  what the models keep.
* Indices past a table (a priority above 31, a 33rd mutex): what lies behind is the linker's choice, so
  there is no state to go on from. The programs of the models stay within the tables, as all test
  programs do.
