------------------------------ MODULE Syscalls ------------------------------
(***************************************************************************)
(* The system calls of kernel/src/syscalls.c that change something (sbrk,   *)
(* read, write, exit), over the UART of kernel/src/uart.c, as several       *)
(* threads make them with interrupts on.                                    *)
(*                                                                          *)
(* A thread can lose the CPU between any two actions, so the actions of the *)
(* threads interleave freely.  A call is cut where it touches what threads  *)
(* share: the UART's status, its FIFOs, heap_end.  At the other end of the  *)
(* line are a keyboard and a terminal that shows what it is sent.           *)
(***************************************************************************)
EXTENDS Printk, SequencesExt

CONSTANTS
  Threads,
  Letters,      \* bytes with no special meaning
  Texts,        \* what programs write
  ReadLen,      \* the len of a read
  FifoSize,     \* places in each FIFO: 8
  MaxTyped,     \* bound on the keys typed
  MaxCalls,     \* bound on the calls made
  Increments,   \* the arguments programs give sbrk
  Statuses,     \* the words programs give exit
  HeapSize      \* __heap_top - __heap_low

\* The bytes with a meaning, on the way in and on the way out.
EOT  == "EOT"    \* 4
BS   == "BS"     \* 8 and 127
CR   == "CR"     \* 13
LF   == "LF"     \* 10
SPC  == " "

\* "Exit Status: ".
EXIT == "Exit Status: "

NumberBytes == Range(digits) \cup {"-", Garbage}

ASSUME SyscallsAssumption ==
  /\ Letters \cap ({EOT, BS, CR, LF, SPC, EXIT} \cup NumberBytes) = {}
  /\ Statuses \subseteq 0 .. WordSize - 1
  /\ Texts \subseteq Seq(Letters \cup {LF})
  /\ ReadLen \in Nat \ {0}
  /\ FifoSize \in Nat \ {0}
  /\ MaxTyped \in Nat /\ MaxCalls \in Nat
  /\ HeapSize \in Nat
  /\ Increments \subseteq Nat \ {0}

VARIABLES
  rx, tx,        \* the UART's FIFOs
  screen,        \* the terminal's current line, its cursor, the line above
  typed,         \* keys typed so far
  calls,         \* calls made so far
  call,          \* the system call each thread is in
  out,           \* the bytes that call has still to put
  sawRoom,       \* uart_put_byte has left its loop: the FIFO had room
  sawByte,       \* uart_get_byte has left its loop: the FIFO had a byte
  buf,           \* read: the first ct bytes of the caller's buffer
  heap_end,      \* bytes from __heap_low, or NULL before the first sbrk
  loaded,        \* sbrk: heap_end as this call read it
  halted,        \* interrupts are off for good
  status,        \* the argument of a thread's exit call
  base,          \* auxiliary: the line on screen when a read or exit began
  disturbed,     \* auxiliary: another thread has put a byte since p last
                 \* looked at the status; or since its read began, on a
                 \* line that others had not left half edited
  granted        \* auxiliary: sum of the increments granted

uartVars == <<rx, tx, screen, typed>>
threadVars == <<calls, call, out, sawRoom, sawByte, buf>>
heapVars == <<heap_end, loaded, granted>>
exitVars == <<halted, status>>
vars == <<uartVars, threadVars, heapVars, exitVars, base, disturbed>>

NULL == -1
Keys == Letters \cup {EOT, BS, CR, LF}
Blank == [text |-> <<>>, cursor |-> 0, above |-> <<>>]

Init ==
  /\ rx = <<>> /\ tx = <<>> /\ screen = Blank /\ typed = 0 /\ calls = 0
  /\ call = [p \in Threads |-> "none"]
  /\ out  = [p \in Threads |-> <<>>]
  /\ sawRoom = [p \in Threads |-> FALSE]
  /\ sawByte = [p \in Threads |-> FALSE]
  /\ buf  = [p \in Threads |-> <<>>]
  /\ heap_end = NULL /\ loaded = [p \in Threads |-> NULL] /\ granted = 0
  /\ halted = FALSE /\ status = [p \in Threads |-> 0]
  /\ base = [p \in Threads |-> <<>>]
  /\ disturbed = [p \in Threads |-> [room |-> FALSE, line |-> FALSE]]

----------------------------------------------------------------------------
(* The other end of the line.                                               *)

\* A terminal: it overwrites at the cursor, BS moves back, LF starts a line.
Show(s, b) ==
  IF b = LF THEN [Blank EXCEPT !.above = s.text]
  ELSE IF b = BS
    THEN [s EXCEPT !.cursor = IF @ = 0 THEN 0 ELSE @ - 1]
    ELSE [s EXCEPT !.text = SubSeq(@, 1, s.cursor) \o <<b>>
                              \o SubSeq(@, s.cursor + 2, Len(@)),
                   !.cursor = @ + 1]

\* The screen once the FIFO has drained.
Shown == FoldLeft(Show, screen, tx)

\* Nothing is left at the cursor or after it.
CleanLine == \A i \in Shown.cursor + 1 .. Len(Shown.text) : Shown.text[i] = SPC

Transmit ==
  /\ tx # <<>>
  /\ screen' = Show(screen, Head(tx))
  /\ tx' = Tail(tx)
  /\ UNCHANGED <<rx, typed, threadVars, heapVars, base, disturbed, exitVars>>

\* A key is typed; the receiver drops it when its FIFO is full.  (Nobody reads
\* what is typed once the CPU hangs.)
Type(k) ==
  /\ typed < MaxTyped /\ ~halted
  /\ typed' = typed + 1
  /\ rx' = IF Len(rx) < FifoSize THEN Append(rx, k) ELSE rx
  /\ UNCHANGED <<tx, screen, threadVars, heapVars, base, disturbed, exitVars>>

----------------------------------------------------------------------------
(* uart_put_byte: wait for room, then write.                                *)

\* Mutant: no look at the status.
RoomAlways == TRUE
Room == Len(tx) < FifoSize

SeeRoom(p) ==
  /\ out[p] # <<>> /\ ~sawRoom[p]
  /\ Room
  /\ sawRoom' = [sawRoom EXCEPT ![p] = TRUE]
  /\ disturbed' = [disturbed EXCEPT ![p].room = FALSE]
  /\ UNCHANGED <<uartVars, calls, call, out, sawByte, buf, heapVars, base, exitVars>>

PutByte(p) ==
  /\ sawRoom[p]
  /\ tx' = IF Len(tx) < FifoSize THEN Append(tx, Head(out[p])) ELSE tx
  /\ out' = [out EXCEPT ![p] = Tail(@)]
  /\ sawRoom' = [sawRoom EXCEPT ![p] = FALSE]
  /\ disturbed' = [q \in Threads |-> IF q = p THEN disturbed[q]
                                     ELSE [room |-> TRUE, line |-> TRUE]]
  /\ UNCHANGED <<rx, screen, typed, calls, call, sawByte, buf, heapVars, base, exitVars>>

----------------------------------------------------------------------------
(* syscall_write and syscall_read.                                          *)

Begin(p, name) ==
  /\ call[p] = "none" /\ calls < MaxCalls
  /\ call' = [call EXCEPT ![p] = name]
  /\ calls' = calls + 1

\* The call's own work is over; what it has put out is not waited for.
Finished(p) ==
  out[p] = <<>> /\ call' = [call EXCEPT ![p] = "none"] /\ UNCHANGED calls

syscall_write(p, text) ==
  /\ Begin(p, "write")
  /\ out' = [out EXCEPT ![p] = text]
  /\ UNCHANGED <<uartVars, sawRoom, sawByte, buf, heapVars, base, disturbed, exitVars>>

WriteReturn(p) ==
  /\ call[p] = "write"
  /\ Finished(p)
  /\ UNCHANGED <<uartVars, out, sawRoom, sawByte, buf, heapVars, base, disturbed, exitVars>>

\* Auxiliary: what is on p's line, and whether the line is its own.
LookAtLine(p) ==
  /\ base' = [base EXCEPT ![p] = SubSeq(Shown.text, 1, Shown.cursor)]
  /\ disturbed' = [disturbed EXCEPT ![p].line =
                     ~CleanLine \/ \E q \in Threads \ {p} : out[q] # <<>>]

syscall_read(p) ==
  /\ Begin(p, "read")
  /\ buf' = [buf EXCEPT ![p] = <<>>]
  /\ LookAtLine(p)
  /\ UNCHANGED <<uartVars, out, sawRoom, sawByte, heapVars, exitVars>>

\* Mutant: "<=" for "<".
ReadGoesOnLate(p) == Len(buf[p]) <= ReadLen
\* The test of the loop of syscall_read.
ReadGoesOn(p) == Len(buf[p]) < ReadLen

\* uart_get_byte leaves its loop: in the loop of read, or for the byte that
\* follows a carriage return.
SeeByte(p) ==
  /\ \/ call[p] = "read" /\ ReadGoesOn(p)
     \/ call[p] = "return"
  /\ out[p] = <<>> /\ ~sawByte[p]
  /\ rx # <<>>
  /\ sawByte' = [sawByte EXCEPT ![p] = TRUE]
  /\ UNCHANGED <<uartVars, calls, call, out, sawRoom, buf, heapVars, base, disturbed, exitVars>>

\* The byte it then reads; nothing is known of one read from an empty FIFO.
ByteRead == IF rx # <<>> THEN {Head(rx)} ELSE Keys
RxAfter == IF rx # <<>> THEN Tail(rx) ELSE rx

\* Mutant: the cursor goes back, the letter stays.
RuboutBare == <<BS>>
Rubout == <<BS, SPC, BS>>

\* What read does with byte b: the new buffer, what it echoes, and where the
\* call goes on ("done": it returns once the echo is out).
Handled(ct, b) ==
  CASE b = EOT -> [buf |-> ct, echo |-> <<>>, then |-> "done"]
    [] b = BS  -> IF ct = <<>> THEN [buf |-> ct, echo |-> <<>>, then |-> "read"]
                  ELSE [buf |-> Front(ct), echo |-> Rubout, then |-> "read"]
    [] b = CR  -> [buf |-> ct, echo |-> <<>>, then |-> "return"]
    [] b = LF  -> [buf |-> Append(ct, LF), echo |-> <<LF>>, then |-> "done"]
    [] OTHER   -> [buf |-> Append(ct, b), echo |-> <<b>>, then |-> "read"]

GetByte(p) ==
  /\ sawByte[p]
  /\ \E b \in ByteRead :
       \* The byte after a carriage return is dropped, and the line ends.
       LET h == Handled(buf[p], IF call[p] = "return" THEN LF ELSE b)
       IN  /\ buf'  = [buf  EXCEPT ![p] = h.buf]
           /\ out'  = [out  EXCEPT ![p] = h.echo]
           /\ call' = [call EXCEPT ![p] = h.then]
  /\ rx' = RxAfter
  /\ sawByte' = [sawByte EXCEPT ![p] = FALSE]
  /\ UNCHANGED <<tx, screen, typed, calls, sawRoom, heapVars, base, disturbed, exitVars>>

ReadReturn(p) ==
  /\ \/ call[p] = "done"
     \/ call[p] = "read" /\ ~ReadGoesOn(p)
  /\ Finished(p)
  /\ UNCHANGED <<uartVars, out, sawRoom, sawByte, buf, heapVars, base, disturbed, exitVars>>

----------------------------------------------------------------------------
(* syscall_exit: the status is printed with interrupts on, then they are     *)
(* turned off and the CPU loops.  What is in the FIFO still goes out.        *)

syscall_exit(p, st) ==
  /\ Begin(p, "exit")
  /\ \E text \in SignedText(st) : out' = [out EXCEPT ![p] = <<EXIT>> \o text \o <<LF>>]
  /\ status' = [status EXCEPT ![p] = st]
  /\ LookAtLine(p)
  /\ UNCHANGED <<uartVars, sawRoom, sawByte, buf, heapVars, halted>>

ExitHang(p) ==
  /\ call[p] = "exit" /\ out[p] = <<>>
  /\ halted' = TRUE
  /\ UNCHANGED <<uartVars, threadVars, heapVars, status, base, disturbed>>

----------------------------------------------------------------------------
(* syscall_sbrk: heap_end is read, set if this is the first call, tested     *)
(* and written back.  The build may keep the first value or read it again;  *)
(* from -O1 on the test and the store use the same one.                     *)

syscall_sbrk(p) ==
  /\ Begin(p, "sbrk")
  /\ loaded' = [loaded EXCEPT ![p] = heap_end]
  /\ UNCHANGED <<uartVars, out, sawRoom, sawByte, buf, heap_end, granted, base, disturbed, exitVars>>

FirstCall(p) ==
  /\ call[p] = "sbrk" /\ loaded[p] = NULL
  /\ heap_end' = 0
  /\ loaded' = [loaded EXCEPT ![p] = 0]
  /\ UNCHANGED <<uartVars, threadVars, granted, base, disturbed, exitVars>>

\* Mutant: the test leaves the increment out.
HeapFullBefore(end, incr) == end > HeapSize
HeapFull(end, incr) == end + incr > HeapSize

SbrkReturn(p, incr) ==
  /\ call[p] = "sbrk" /\ loaded[p] # NULL
  /\ Finished(p)
  /\ \E end \in {loaded[p], heap_end} :
       IF HeapFull(end, incr) THEN UNCHANGED <<heap_end, granted>>
       ELSE heap_end' = end + incr /\ granted' = granted + incr
  /\ loaded' = [loaded EXCEPT ![p] = NULL]
  /\ UNCHANGED <<uartVars, out, sawRoom, sawByte, buf, base, disturbed, exitVars>>

----------------------------------------------------------------------------

\* What a thread that has the CPU does.
ThreadStep(p) ==
  \/ SeeRoom(p)
  \/ PutByte(p)
  \/ \E text \in Texts : syscall_write(p, text)
  \/ WriteReturn(p)
  \/ syscall_read(p)
  \/ SeeByte(p)
  \/ GetByte(p)
  \/ ReadReturn(p)
  \/ \E st \in Statuses : syscall_exit(p, st)
  \/ ExitHang(p)
  \/ syscall_sbrk(p)
  \/ FirstCall(p)
  \/ \E incr \in Increments : SbrkReturn(p, incr)

Next ==
  \/ Transmit
  \/ \E k \in Keys : Type(k)
  \/ ~halted /\ \E p \in Threads : ThreadStep(p)

Spec == Init /\ [][Next]_vars

----------------------------------------------------------------------------
(* Properties.                                                              *)

Sent == Letters \cup {BS, LF, SPC, EXIT} \cup NumberBytes

\* Every variable keeps its type, and read never fills more than the len bytes
\* it was given, though it tests ct only at the head of its loop.
TypeOK ==
  /\ rx \in Seq(Keys) /\ Len(rx) <= FifoSize
  /\ tx \in Seq(Sent) /\ Len(tx) <= FifoSize
  /\ screen.cursor \in 0 .. Len(screen.text)
  /\ typed \in 0 .. MaxTyped /\ calls \in 0 .. MaxCalls
  /\ call \in [Threads -> {"none", "write", "read", "return", "done", "sbrk", "exit"}]
  /\ out \in [Threads -> Seq(Sent)]
  /\ buf \in [Threads -> Seq(Letters \cup {LF})]
  /\ \A p \in Threads : Len(buf[p]) <= ReadLen
  /\ heap_end \in Int /\ loaded \in [Threads -> Int]
  /\ granted \in Nat
  /\ halted \in BOOLEAN /\ status \in [Threads -> Statuses \cup {0}]

\* The terminal shows what the program will get: while a reader waits for a
\* key and no other thread writes on its line, the line is what it was
\* before followed by the buffer, and nothing is left of letters taken back.
EchoShowsBuffer ==
  \A p \in Threads :
    (call[p] = "read" /\ out[p] = <<>> /\ ~disturbed[p].line) =>
      /\ SubSeq(Shown.text, 1, Shown.cursor) = base[p] \o buf[p]
      /\ CleanLine

\* The last line of a program tells its exit status: once the CPU hangs and the
\* FIFO has drained, the terminal shows the line of a thread that exited, whole
\* and with the number it gave, unless another thread wrote in between.  (For
\* numbers of at most MaxBuf digits: printnumk has no room for more.  What an
\* earlier read has rubbed out may follow as blanks.)
ExitStatusShown ==
  \A p \in Threads :
    (halted /\ call[p] = "exit" /\ out[p] = <<>> /\ tx = <<>> /\ ~disturbed[p].line
       /\ Signed(status[p]) < TenTo(MaxBuf) /\ -Signed(status[p]) < TenTo(MaxBuf))
    => LET line == screen.above
           from == Len(base[p]) + 1
       IN  /\ SubSeq(line, 1, from) = base[p] \o <<EXIT>>
           /\ \E to \in from + 1 .. Len(line) :
                /\ \A i \in to + 1 .. Len(line) : line[i] = SPC
                /\ Denoted(SubSeq(line, from + 1, to)) = Signed(status[p])

\* A byte is lost only in the window between a look at the status and the
\* write, when another thread has put one there.
LossNeedsRace ==
  [][\A p \in Threads :
       sawRoom[p] /\ ~sawRoom'[p] /\ tx' = tx => disturbed[p].room]_vars

\* However the calls of several threads interleave, the first ones included, the
\* heap stays below __heap_top: a test on a stale heap_end is still a test of the
\* value that is stored.
HeapBelowTop == heap_end <= HeapSize

\* syscalls.h: sbrk's argument is the "amount to increment data segment size
\* by": the heap has grown by all that was granted.
HeapGrows == heap_end # NULL => heap_end = granted
=============================================================================
