--------------------------- MODULE SyscallsProofs ---------------------------
(***************************************************************************)
(* Proofs about Syscalls for every set of threads, every keyboard, FIFO,    *)
(* buffer and heap, however the calls interleave:                           *)
(*   - every variable keeps its type, and read never overfills its buffer;  *)
(*   - the heap stays below its top;                                        *)
(*   - a byte is lost only in the window of uart_put_byte;                  *)
(*   - the terminal shows a reader's buffer, and the status of an exit,     *)
(*     unless another thread writes on that line.                           *)
(*                                                                          *)
(* The last two rest on one idea: what the screen will show once the FIFO   *)
(* and then the rest of p's own call are out changes only when p reads a    *)
(* key or begins a call, for PutByte and Transmit move bytes along.         *)
(***************************************************************************)
EXTENDS Syscalls, PrintkProofs, SequenceTheorems, TLAPS

----------------------------------------------------------------------------
(* Types.                                                                   *)

\* A state of the terminal.
Lines == {s \in [text : Seq(Sent), cursor : Nat, above : Seq(Sent)] : s.cursor <= Len(s.text)}

\* Where a thread is in its call: a byte is seen only by a read that has room for
\* it and has put out all echo; room is seen only with a byte to put.
CallInv ==
  /\ sawRoom \in [Threads -> BOOLEAN]
  /\ sawByte \in [Threads -> BOOLEAN]
  /\ screen \in Lines
  /\ \A p \in Threads :
       /\ sawRoom[p] => out[p] # <<>>
       /\ call[p] \in {"none", "sbrk"} => out[p] = <<>>
       /\ sawByte[p] => call[p] \in {"read", "return"} /\ out[p] = <<>> /\ Len(buf[p]) < ReadLen
       /\ call[p] = "return" => Len(buf[p]) < ReadLen

TypeInv == TypeOK /\ CallInv

\* The terminal stays one, whatever it is sent.
LEMMA ShowType ==
  ASSUME NEW s \in Lines, NEW b \in Sent
  PROVE  Show(s, b) \in Lines
<1>1. /\ s.text \in Seq(Sent) /\ s.above \in Seq(Sent) /\ s.cursor \in Nat
      /\ s.cursor <= Len(s.text) /\ Len(s.text) \in Nat
      /\ s = [text |-> s.text, cursor |-> s.cursor, above |-> s.above]
  BY DEF Lines
<1>2. CASE b = LF
  <2>1. Show(s, b) = [text |-> <<>>, cursor |-> 0, above |-> s.text]
    BY <1>2 DEF Show, Blank
  <2>. QED  BY <1>1, <2>1 DEF Lines
<1>3. CASE b # LF /\ b = BS
  <2>1. Show(s, b) = [s EXCEPT !.cursor = IF s.cursor = 0 THEN 0 ELSE s.cursor - 1]
    BY <1>3 DEF Show
  <2>. QED  BY <1>1, <2>1 DEF Lines
<1>4. CASE b # LF /\ b # BS
  <2>. DEFINE head == SubSeq(s.text, 1, s.cursor)
              tail == SubSeq(s.text, s.cursor + 2, Len(s.text))
  <2>1. Show(s, b) = [s EXCEPT !.text = head \o <<b>> \o tail, !.cursor = s.cursor + 1]
    BY <1>4 DEF Show
  <2>2. head \in Seq(Sent) /\ Len(head) = s.cursor
    BY <1>1
  <2>3. tail \in Seq(Sent) /\ Len(tail) \in Nat
    BY <1>1
  <2>. HIDE DEF head, tail
  <2>4. head \o <<b>> \o tail \in Seq(Sent)
    BY <2>2, <2>3
  <2>5. Len(head \o <<b>> \o tail) = s.cursor + 1 + Len(tail)
    BY <2>2, <2>3
  <2>. DEFINE whole == head \o <<b>> \o tail
  <2>. HIDE DEF whole
  <2>6. Show(s, b) = [text |-> whole, cursor |-> s.cursor + 1, above |-> s.above]
    <3>1. Show(s, b) = [s EXCEPT !.text = whole, !.cursor = s.cursor + 1]
      BY <2>1 DEF whole
    <3>. QED  BY <1>1, <3>1
  <2>7. whole \in Seq(Sent) /\ s.cursor + 1 <= Len(whole) /\ s.cursor + 1 \in Nat
    BY <1>1, <2>3, <2>4, <2>5 DEF whole
  <2>. QED  BY <1>1, <2>6, <2>7 DEF Lines
<1>. QED  BY <1>2, <1>3, <1>4

\* What a thread puts out: a text of a program, the status of an exit, or the
\* echo of a key.
LEMMA TextBytes ==
  ASSUME NEW text \in Texts
  PROVE  text \in Seq(Sent)
<1>1. text \in Seq(Letters \cup {LF})
  BY SyscallsAssumption
<1>2. Letters \cup {LF} \subseteq Sent
  BY DEF Sent
<1>. HIDE DEF Sent
<1>. QED  BY <1>1, <1>2

LEMMA ExitBytes ==
  ASSUME NEW st \in Statuses, NEW text \in SignedText(st)
  PROVE  <<EXIT>> \o text \o <<LF>> \in Seq(Sent)
<1>1. st \in 0 .. WordSize - 1
  BY SyscallsAssumption
<1>2. text \in Seq(Range(digits) \cup {"-", Garbage})
  BY <1>1, SignedTextBytes
<1>3. Range(digits) \cup {"-", Garbage} \subseteq Sent /\ EXIT \in Sent /\ LF \in Sent
  BY DEF Sent, NumberBytes
<1>. HIDE DEF Sent, EXIT, LF
<1>4. text \in Seq(Sent)
  BY <1>2, <1>3
<1>. QED  BY <1>3, <1>4

\* A key read by read, for a buffer with room: at most one byte is added, and
\* where the call goes on to wait for the end of a line, none is.
LEMMA HandledTypes ==
  ASSUME NEW ct \in Seq(Letters \cup {LF}), NEW b \in Keys, Len(ct) < ReadLen
  PROVE  LET h == Handled(ct, b)
         IN  /\ h.buf \in Seq(Letters \cup {LF}) /\ Len(h.buf) <= ReadLen
             /\ h.echo \in Seq(Sent)
             /\ h.then \in {"read", "return", "done"}
             /\ h.then = "return" => Len(h.buf) < ReadLen
<1>. DEFINE h == Handled(ct, b)
<1>0. ReadLen \in Nat /\ Len(ct) \in Nat
  BY SyscallsAssumption
<1>1. /\ <<>> \in Seq(Sent) /\ Rubout \in Seq(Sent) /\ <<LF>> \in Seq(Sent)
      /\ b \in Letters => <<b>> \in Seq(Sent)
  <2>1. BS \in Sent /\ SPC \in Sent /\ LF \in Sent /\ Letters \subseteq Sent
    BY DEF Sent
  <2>. HIDE DEF Sent, BS, SPC, LF
  <2>. QED  BY <2>1 DEF Rubout
<1>2. \A c \in Letters \cup {LF} :
        Append(ct, c) \in Seq(Letters \cup {LF}) /\ Len(Append(ct, c)) <= ReadLen
  BY <1>0
<1>3. ct # <<>> => Front(ct) \in Seq(Letters \cup {LF}) /\ Len(Front(ct)) <= ReadLen
  BY <1>0 DEF Front
<1>4. EOT # BS /\ EOT # CR /\ EOT # LF /\ BS # CR /\ BS # LF /\ CR # LF
  BY DEF EOT, BS, CR, LF
<1>. HIDE DEF EOT, BS, CR, LF, Sent, Rubout
<1>5. CASE b = EOT
  <2>1. h = [buf |-> ct, echo |-> <<>>, then |-> "done"]
    BY <1>4, <1>5, Zenon DEF Handled
  <2>. QED  BY <1>0, <1>1, <2>1
<1>6. CASE b = BS
  <2>1. h = IF ct = <<>> THEN [buf |-> ct, echo |-> <<>>, then |-> "read"]
            ELSE [buf |-> Front(ct), echo |-> Rubout, then |-> "read"]
    BY <1>4, <1>6, Zenon DEF Handled
  <2>. QED  BY <1>0, <1>1, <1>3, <2>1
<1>7. CASE b = CR
  <2>1. h = [buf |-> ct, echo |-> <<>>, then |-> "return"]
    BY <1>4, <1>7, Zenon DEF Handled
  <2>. QED  BY <1>0, <1>1, <2>1
<1>8. CASE b = LF
  <2>1. h = [buf |-> Append(ct, LF), echo |-> <<LF>>, then |-> "done"]
    BY <1>4, <1>8, Zenon DEF Handled
  <2>. QED  BY <1>0, <1>1, <1>2, <2>1
<1>9. CASE b \notin {EOT, BS, CR, LF}
  <2>1. h = [buf |-> Append(ct, b), echo |-> <<b>>, then |-> "read"]
    BY <1>9, Zenon DEF Handled
  <2>2. b \in Letters
    BY <1>9 DEF Keys
  <2>. QED  BY <1>0, <1>1, <1>2, <2>1, <2>2
<1>. QED  BY <1>5, <1>6, <1>7, <1>8, <1>9

\* The parts of TypeInv that each side of the line owns.
LineTypes ==
  /\ rx \in Seq(Keys) /\ Len(rx) <= FifoSize
  /\ tx \in Seq(Sent) /\ Len(tx) <= FifoSize
  /\ screen \in Lines
  /\ typed \in 0 .. MaxTyped
ThreadTypes ==
  /\ calls \in 0 .. MaxCalls
  /\ call \in [Threads -> {"none", "write", "read", "return", "done", "sbrk", "exit"}]
  /\ out \in [Threads -> Seq(Sent)]
  /\ buf \in [Threads -> Seq(Letters \cup {LF})]
  /\ sawRoom \in [Threads -> BOOLEAN] /\ sawByte \in [Threads -> BOOLEAN]
  /\ status \in [Threads -> Statuses \cup {0}] /\ halted \in BOOLEAN
ThreadInv(p) ==
  /\ Len(buf[p]) <= ReadLen
  /\ sawRoom[p] => out[p] # <<>>
  /\ call[p] \in {"none", "sbrk"} => out[p] = <<>>
  /\ sawByte[p] => call[p] \in {"read", "return"} /\ out[p] = <<>> /\ Len(buf[p]) < ReadLen
  /\ call[p] = "return" => Len(buf[p]) < ReadLen
HeapTypes == heap_end \in Int /\ loaded \in [Threads -> Int] /\ granted \in Nat

LEMMA TypeParts ==
  TypeInv <=> LineTypes /\ ThreadTypes /\ (\A p \in Threads : ThreadInv(p)) /\ HeapTypes
<1>1. ASSUME screen \in Lines PROVE screen.cursor \in 0 .. Len(screen.text)
  BY <1>1 DEF Lines
<1>. QED  BY <1>1 DEF TypeInv, TypeOK, CallInv, LineTypes, ThreadTypes, ThreadInv, HeapTypes

\* The line: the terminal takes a byte, a key is typed, a thread puts a byte or
\* takes one.
LEMMA LineStep ==
  ASSUME TypeInv, [Next]_vars
  PROVE  LineTypes'
<1>. USE TypeParts
<1>0. FifoSize \in Nat /\ MaxTyped \in Nat /\ Len(rx) \in Nat /\ Len(tx) \in Nat
  BY SyscallsAssumption DEF LineTypes
<1>. HIDE DEF Sent, Keys, Lines
<1>1. CASE UNCHANGED uartVars
  BY <1>1 DEF LineTypes, uartVars
<1>2. CASE Transmit
  <2>1. Head(tx) \in Sent /\ Tail(tx) \in Seq(Sent) /\ Len(Tail(tx)) <= FifoSize
    BY <1>0, <1>2 DEF Transmit, LineTypes
  <2>2. screen' \in Lines
    BY <1>2, <2>1, ShowType DEF Transmit, LineTypes
  <2>. QED  BY <1>2, <2>1, <2>2 DEF Transmit, LineTypes
<1>3. ASSUME NEW k \in Keys, Type(k)
      PROVE  LineTypes'
  <2>1. Append(rx, k) \in Seq(Keys) /\ Len(Append(rx, k)) = Len(rx) + 1
    BY DEF LineTypes
  <2>. QED  BY <1>0, <1>3, <2>1 DEF Type, LineTypes
<1>4. ASSUME NEW p \in Threads, PutByte(p)
      PROVE  LineTypes'
  <2>1. out[p] \in Seq(Sent) /\ out[p] # <<>>
    BY <1>4 DEF PutByte, ThreadTypes, ThreadInv
  <2>2. Head(out[p]) \in Sent
    BY <2>1
  <2>3. Append(tx, Head(out[p])) \in Seq(Sent) /\ Len(Append(tx, Head(out[p]))) = Len(tx) + 1
    BY <2>2 DEF LineTypes
  <2>. QED  BY <1>0, <1>4, <2>3 DEF PutByte, LineTypes
<1>5. ASSUME NEW p \in Threads, GetByte(p)
      PROVE  LineTypes'
  <2>1. rx' \in Seq(Keys) /\ Len(rx') <= FifoSize
    BY <1>0, <1>5 DEF GetByte, RxAfter, LineTypes
  <2>. QED  BY <1>5, <2>1 DEF GetByte, LineTypes
<1>6. ASSUME NEW p \in Threads, ThreadStep(p), ~PutByte(p), ~GetByte(p)
      PROVE  UNCHANGED uartVars
  BY <1>6 DEF ThreadStep, SeeRoom, syscall_write, WriteReturn, syscall_read, SeeByte, ReadReturn,
     syscall_exit, ExitHang, syscall_sbrk, FirstCall, SbrkReturn
<1>. QED  BY <1>1, <1>2, <1>3, <1>4, <1>5, <1>6 DEF Next, vars

\* The heap: no action leaves anything but numbers there.
LEMMA HeapTypesStep ==
  ASSUME TypeInv, [Next]_vars
  PROVE  HeapTypes'
<1>. USE TypeParts, SyscallsAssumption DEF HeapTypes
<1>1. CASE UNCHANGED heapVars
  BY <1>1 DEF heapVars
<1>2. ASSUME NEW p \in Threads, syscall_sbrk(p) \/ FirstCall(p)
      PROVE  HeapTypes'
  BY <1>2 DEF syscall_sbrk, FirstCall
<1>3. ASSUME NEW p \in Threads, NEW incr \in Increments, SbrkReturn(p, incr)
      PROVE  HeapTypes'
  BY <1>3 DEF SbrkReturn, NULL
<1>4. ASSUME NEW p \in Threads, ThreadStep(p), ~syscall_sbrk(p), ~FirstCall(p),
             \A incr \in Increments : ~SbrkReturn(p, incr)
      PROVE  UNCHANGED heapVars
  BY <1>4 DEF ThreadStep, SeeRoom, PutByte, syscall_write, WriteReturn, syscall_read,
     SeeByte, GetByte, ReadReturn, syscall_exit, ExitHang
<1>. QED  BY <1>1, <1>2, <1>3, <1>4 DEF Next, Transmit, Type, vars

\* Thread p becomes one in call c, with o to put and b read; what it has seen may
\* change too; the others stay what they were.
Modes == {"none", "write", "read", "return", "done", "sbrk", "exit"}
Becomes(p, c, o, b) ==
  /\ call' = [call EXCEPT ![p] = c] /\ out' = [out EXCEPT ![p] = o]
  /\ buf' = [buf EXCEPT ![p] = b]
  /\ sawRoom' \in [Threads -> BOOLEAN] /\ sawByte' \in [Threads -> BOOLEAN]
  /\ \A q \in Threads \ {p} : sawRoom'[q] = sawRoom[q] /\ sawByte'[q] = sawByte[q]
Counted ==
  /\ calls' \in 0 .. MaxCalls
  /\ status' \in [Threads -> Statuses \cup {0}] /\ halted' \in BOOLEAN

LEMMA BecomesTypes ==
  ASSUME TypeInv, Counted, NEW p \in Threads,
         NEW c \in Modes, NEW o \in Seq(Sent), NEW b \in Seq(Letters \cup {LF}),
         Becomes(p, c, o, b),
         Len(b) <= ReadLen,
         sawRoom'[p] => o # <<>>,
         c \in {"none", "sbrk"} => o = <<>>,
         sawByte'[p] => c \in {"read", "return"} /\ o = <<>> /\ Len(b) < ReadLen,
         c = "return" => Len(b) < ReadLen
  PROVE  ThreadTypes' /\ \A q \in Threads : ThreadInv(q)'
<1>. HIDE DEF Sent
<1>1. ThreadTypes /\ \A q \in Threads : ThreadInv(q)
  BY TypeParts
<1>2. ThreadTypes'
  BY <1>1 DEF ThreadTypes, Becomes, Counted, Modes
<1>3. ThreadInv(p)'
  BY <1>1 DEF ThreadTypes, Becomes, ThreadInv
<1>4. ASSUME NEW q \in Threads, q # p PROVE ThreadInv(q)'
  <2>1. call'[q] = call[q] /\ out'[q] = out[q] /\ buf'[q] = buf[q]
        /\ sawRoom'[q] = sawRoom[q] /\ sawByte'[q] = sawByte[q]
    BY <1>1, <1>4 DEF ThreadTypes, Becomes
  <2>. QED  BY <1>1, <2>1 DEF ThreadInv
<1>. QED  BY <1>2, <1>3, <1>4

\* What BecomesTypes asks of the variables an action leaves alone.
Own(p) ==
  /\ call[p] \in Modes /\ out[p] \in Seq(Sent) /\ buf[p] \in Seq(Letters \cup {LF})
  /\ sawRoom \in [Threads -> BOOLEAN] /\ sawByte \in [Threads -> BOOLEAN]
  /\ ThreadInv(p)
  /\ call = [call EXCEPT ![p] = call[p]] /\ out = [out EXCEPT ![p] = out[p]]
  /\ buf = [buf EXCEPT ![p] = buf[p]]
  /\ Len(buf[p]) \in Nat /\ ReadLen \in Nat \ {0}
  /\ UNCHANGED <<calls, exitVars>> => Counted
  /\ calls < MaxCalls /\ calls' = calls + 1 /\ UNCHANGED exitVars => Counted
  /\ <<>> \in Seq(Sent) /\ <<>> \in Seq(Letters \cup {LF}) /\ Len(<<>>) = 0

LEMMA OwnTypes ==
  ASSUME TypeInv, NEW p \in Threads
  PROVE  Own(p)
<1>. HIDE DEF Sent
<1>1. ThreadTypes /\ ThreadInv(p)
  BY TypeParts
<1>2. ReadLen \in Nat \ {0} /\ MaxCalls \in Nat
  BY SyscallsAssumption
<1>. QED  BY <1>1, <1>2 DEF ThreadTypes, Modes, Counted, exitVars, Own

\* uart_put_byte.
LEMMA PutTypes ==
  ASSUME TypeInv, NEW p \in Threads, SeeRoom(p) \/ PutByte(p)
  PROVE  ThreadTypes' /\ \A q \in Threads : ThreadInv(q)'
<1>0. Own(p)
  BY OwnTypes
<1>. USE <1>0 DEF Own, ThreadInv
<1>. HIDE DEF Sent
<1>1. CASE SeeRoom(p)
  <2>1. Becomes(p, call[p], out[p], buf[p]) /\ sawRoom'[p] /\ sawByte'[p] = sawByte[p] /\ Counted
    BY <1>1 DEF SeeRoom, Becomes
  <2>. QED  BY <1>1, <2>1, BecomesTypes DEF SeeRoom
<1>2. CASE PutByte(p)
  <2>1. Becomes(p, call[p], Tail(out[p]), buf[p]) /\ ~sawRoom'[p] /\ sawByte'[p] = sawByte[p] /\ Counted
    BY <1>2 DEF PutByte, Becomes
  <2>2. Tail(out[p]) \in Seq(Sent) /\ out[p] # <<>>
    BY <1>2 DEF PutByte
  <2>. QED  BY <1>2, <2>1, <2>2, BecomesTypes DEF PutByte
<1>. QED  BY <1>1, <1>2

\* A call begins.
LEMMA BeginTypes ==
  ASSUME TypeInv, NEW p \in Threads,
         \/ \E text \in Texts : syscall_write(p, text)
         \/ syscall_read(p)
         \/ \E st \in Statuses : syscall_exit(p, st)
         \/ syscall_sbrk(p)
  PROVE  ThreadTypes' /\ \A q \in Threads : ThreadInv(q)'
<1>0. Own(p)
  BY OwnTypes
<1>. USE <1>0 DEF Own, ThreadInv
<1>. HIDE DEF Sent
<1>1. ASSUME NEW text \in Texts, syscall_write(p, text)
      PROVE  ThreadTypes' /\ \A q \in Threads : ThreadInv(q)'
  <2>1. Becomes(p, "write", text, buf[p]) /\ ~sawRoom'[p] /\ ~sawByte'[p] /\ Counted
    BY <1>1 DEF syscall_write, Becomes, Begin
  <2>. QED  BY <2>1, TextBytes, BecomesTypes DEF Modes
<1>2. CASE syscall_read(p)
  <2>. DEFINE none == <<>>
  <2>1. Becomes(p, "read", none, none) /\ ~sawRoom'[p] /\ ~sawByte'[p] /\ Counted
    BY <1>2 DEF syscall_read, Becomes, Begin
  <2>2. none \in Seq(Sent) /\ none \in Seq(Letters \cup {LF}) /\ Len(none) < ReadLen
    OBVIOUS
  <2>. HIDE DEF none
  <2>. QED  BY <2>1, <2>2, BecomesTypes DEF Modes
<1>3. ASSUME NEW st \in Statuses, syscall_exit(p, st)
      PROVE  ThreadTypes' /\ \A q \in Threads : ThreadInv(q)'
  <2>1. PICK text \in SignedText(st) : out' = [out EXCEPT ![p] = <<EXIT>> \o text \o <<LF>>]
    BY <1>3 DEF syscall_exit
  <2>. DEFINE o == <<EXIT>> \o text \o <<LF>>
  <2>2. o \in Seq(Sent)
    BY <2>1, ExitBytes
  <2>. HIDE DEF o
  <2>3. Becomes(p, "exit", o, buf[p]) /\ ~sawRoom'[p] /\ ~sawByte'[p]
    BY <1>3, <2>1 DEF syscall_exit, Becomes, Begin, o
  <2>4. Counted
    <3>1. calls \in 0 .. MaxCalls /\ status \in [Threads -> Statuses \cup {0}] /\ halted \in BOOLEAN
      BY TypeParts DEF ThreadTypes
    <3>2. MaxCalls \in Nat
      BY SyscallsAssumption
    <3>. QED  BY <1>3, <3>1, <3>2 DEF syscall_exit, Begin, Counted
  <2>. QED  BY <2>2, <2>3, <2>4, BecomesTypes DEF Modes
<1>4. CASE syscall_sbrk(p)
  <2>1. Becomes(p, "sbrk", <<>>, buf[p]) /\ ~sawRoom'[p] /\ ~sawByte'[p] /\ Counted
    BY <1>4 DEF syscall_sbrk, Becomes, Begin
  <2>. QED  BY <2>1, BecomesTypes DEF Modes
<1>. QED  BY <1>1, <1>2, <1>3, <1>4

\* read takes a byte.
LEMMA GetTypes ==
  ASSUME TypeInv, NEW p \in Threads, SeeByte(p) \/ GetByte(p)
  PROVE  ThreadTypes' /\ \A q \in Threads : ThreadInv(q)'
<1>0. Own(p)
  BY OwnTypes
<1>. USE <1>0 DEF Own, ThreadInv
<1>. HIDE DEF Sent
<1>1. CASE SeeByte(p)
  <2>1. Becomes(p, call[p], out[p], buf[p]) /\ sawRoom'[p] = sawRoom[p] /\ sawByte'[p] /\ Counted
    BY <1>1 DEF SeeByte, Becomes
  <2>. QED  BY <1>1, <2>1, BecomesTypes DEF SeeByte, ReadGoesOn
<1>2. CASE GetByte(p)
  <2>1. PICK b \in ByteRead :
          LET h == Handled(buf[p], IF call[p] = "return" THEN LF ELSE b)
          IN  /\ buf'  = [buf  EXCEPT ![p] = h.buf]
              /\ out'  = [out  EXCEPT ![p] = h.echo]
              /\ call' = [call EXCEPT ![p] = h.then]
    BY <1>2 DEF GetByte
  <2>. DEFINE k == IF call[p] = "return" THEN LF ELSE b
              h == Handled(buf[p], k)
  <2>2. k \in Keys
    <3>1. rx \in Seq(Keys)
      BY TypeParts DEF LineTypes
    <3>2. b \in Keys
      <4>. HIDE DEF Keys
      <4>. QED  BY <2>1, <3>1 DEF ByteRead
    <3>. QED  BY <3>2 DEF Keys
  <2>3. Len(buf[p]) < ReadLen /\ ~sawRoom[p]
    BY <1>2 DEF GetByte
  <2>4. /\ h.buf \in Seq(Letters \cup {LF}) /\ Len(h.buf) <= ReadLen
        /\ h.echo \in Seq(Sent)
        /\ h.then \in {"read", "return", "done"}
        /\ h.then = "return" => Len(h.buf) < ReadLen
    <3>. HIDE DEF k
    <3>. QED  BY <2>2, <2>3, HandledTypes
  <2>5. Becomes(p, h.then, h.echo, h.buf) /\ ~sawRoom'[p] /\ ~sawByte'[p] /\ Counted
    BY <1>2, <2>1, <2>3 DEF GetByte, Becomes
  <2>. HIDE DEF h, k
  <2>. QED  BY <2>4, <2>5, BecomesTypes DEF Modes
<1>. QED  BY <1>1, <1>2

\* A call ends, or goes on without a byte.
LEMMA EndTypes ==
  ASSUME TypeInv, NEW p \in Threads,
         \/ WriteReturn(p) \/ ReadReturn(p) \/ ExitHang(p) \/ FirstCall(p)
         \/ \E incr \in Increments : SbrkReturn(p, incr)
  PROVE  ThreadTypes' /\ \A q \in Threads : ThreadInv(q)'
<1>0. Own(p)
  BY OwnTypes
<1>. USE <1>0 DEF Own, ThreadInv
<1>. HIDE DEF Sent
<1>1. CASE WriteReturn(p) \/ ReadReturn(p) \/ \E incr \in Increments : SbrkReturn(p, incr)
  <2>1. out[p] = <<>> /\ ~sawByte[p] /\ ~sawRoom[p]
    BY <1>1 DEF WriteReturn, ReadReturn, SbrkReturn, Finished, ReadGoesOn
  <2>2. Becomes(p, "none", <<>>, buf[p]) /\ ~sawRoom'[p] /\ ~sawByte'[p] /\ Counted
    BY <1>1, <2>1 DEF WriteReturn, ReadReturn, SbrkReturn, Finished, Becomes
  <2>. QED  BY <2>1, <2>2, BecomesTypes DEF Modes
<1>2. CASE ExitHang(p) \/ FirstCall(p)
  <2>1. Becomes(p, call[p], out[p], buf[p]) /\ sawRoom'[p] = sawRoom[p] /\ sawByte'[p] = sawByte[p]
    BY <1>2 DEF ExitHang, FirstCall, threadVars, Becomes
  <2>2. Counted
    <3>1. status \in [Threads -> Statuses \cup {0}] /\ calls \in 0 .. MaxCalls
      BY TypeParts DEF ThreadTypes
    <3>. QED  BY <1>2, <3>1 DEF ExitHang, FirstCall, threadVars, Counted
  <2>. QED  BY <2>1, <2>2, BecomesTypes
<1>. QED  BY <1>1, <1>2

LEMMA TypeStep ==
  ASSUME TypeInv, [Next]_vars
  PROVE  TypeInv'
<1>1. ThreadTypes' /\ \A q \in Threads : ThreadInv(q)'
  <2>1. CASE UNCHANGED <<threadVars, exitVars>>
    BY <2>1, TypeParts DEF threadVars, exitVars, ThreadTypes, ThreadInv
  <2>2. CASE Transmit \/ (\E k \in Keys : Type(k)) \/ UNCHANGED vars
    BY <2>1, <2>2 DEF Transmit, Type, vars
  <2>3. ASSUME NEW p \in Threads, ThreadStep(p)
        PROVE  ThreadTypes' /\ \A q \in Threads : ThreadInv(q)'
    BY <2>3, PutTypes, BeginTypes, GetTypes, EndTypes DEF ThreadStep
  <2>. QED  BY <2>2, <2>3 DEF Next
<1>2. LineTypes' /\ HeapTypes'
  BY LineStep, HeapTypesStep
<1>3. TypeInv' <=> LineTypes' /\ ThreadTypes' /\ (\A p \in Threads : ThreadInv(p)') /\ HeapTypes'
  <2>1. ASSUME screen' \in Lines PROVE screen'.cursor \in 0 .. Len(screen'.text)
    BY <2>1 DEF Lines
  <2>. QED  BY <2>1 DEF TypeInv, TypeOK, CallInv, LineTypes, ThreadTypes, ThreadInv, HeapTypes
<1>. QED  BY <1>1, <1>2, <1>3

LEMMA TypeInit == Init => TypeInv
<1>. SUFFICES ASSUME Init PROVE TypeInv
  OBVIOUS
<1>. USE SyscallsAssumption
<1>0. <<>> \in Seq(Sent) /\ <<>> \in Seq(Keys) /\ <<>> \in Seq(Letters \cup {LF}) /\ Len(<<>>) = 0
  OBVIOUS
<1>. HIDE DEF Sent, Keys
<1>1. LineTypes
  BY <1>0 DEF Init, LineTypes, Lines, Blank
<1>2. ThreadTypes /\ HeapTypes
  <2>1. HeapTypes
    BY DEF Init, HeapTypes, NULL
  <2>2. calls \in 0 .. MaxCalls
    BY DEF Init
  <2>3. halted \in BOOLEAN
        /\ sawRoom \in [Threads -> BOOLEAN] /\ sawByte \in [Threads -> BOOLEAN]
    BY Zenon DEF Init
  <2>4. call \in [Threads -> {"none", "write", "read", "return", "done", "sbrk", "exit"}]
        /\ status \in [Threads -> Statuses \cup {0}]
    BY DEF Init
  <2>5. out \in [Threads -> Seq(Sent)] /\ buf \in [Threads -> Seq(Letters \cup {LF})]
    BY <1>0 DEF Init
  <2>. QED  BY <2>1, <2>2, <2>3, <2>4, <2>5 DEF ThreadTypes
<1>3. \A p \in Threads : ThreadInv(p)
  BY <1>0 DEF Init, ThreadInv
<1>. QED  BY <1>1, <1>2, <1>3, TypeParts

\* Every variable keeps its type and no read overruns its buffer, for every set
\* of threads, keyboard, texts, statuses and sizes.
THEOREM ConsoleTypes == Spec => []TypeOK
<1>1. Init => TypeInv
  BY TypeInit
<1>2. TypeInv /\ [Next]_vars => TypeInv'
  BY TypeStep
<1>3. TypeInv => TypeOK
  BY DEF TypeInv
<1>. QED  BY <1>1, <1>2, <1>3, PTL DEF Spec

----------------------------------------------------------------------------
(* The heap.                                                                *)

\* What a call of sbrk has read is a number, or NULL; the heap is below its
\* top.
HeapInv ==
  /\ heap_end \in Int
  /\ loaded \in [Threads -> Int]
  /\ HeapBelowTop

\* No action but two of sbrk touches heap_end: FirstCall stores 0, and
\* SbrkReturn what it has just tested.
LEMMA HeapStep ==
  ASSUME HeapInv, [Next]_vars
  PROVE  HeapInv'
<1>. USE SyscallsAssumption DEF HeapInv, HeapBelowTop
<1>1. CASE UNCHANGED heapVars
  BY <1>1 DEF heapVars
<1>2. ASSUME NEW p \in Threads, syscall_sbrk(p)
      PROVE  HeapInv'
  BY <1>2 DEF syscall_sbrk
<1>3. ASSUME NEW p \in Threads, FirstCall(p)
      PROVE  HeapInv'
  BY <1>3 DEF FirstCall
<1>4. ASSUME NEW p \in Threads, NEW incr \in Increments, SbrkReturn(p, incr)
      PROVE  HeapInv'
  BY <1>4 DEF SbrkReturn, HeapFull, NULL
<1>5. ASSUME NEW p \in Threads, ThreadStep(p)
      PROVE  HeapInv'
  <2>1. CASE UNCHANGED heapVars
    BY <1>1, <2>1
  <2>2. CASE ~UNCHANGED heapVars
    <3>1. \/ syscall_sbrk(p)
          \/ FirstCall(p)
          \/ \E incr \in Increments : SbrkReturn(p, incr)
      BY <1>5, <2>2 DEF ThreadStep, SeeRoom, PutByte, syscall_write, WriteReturn, syscall_read,
         SeeByte, GetByte, ReadReturn, syscall_exit, ExitHang
    <3>. QED  BY <1>2, <1>3, <1>4, <3>1
  <2>. QED  BY <2>1, <2>2
<1>6. CASE Transmit \/ \E k \in Keys : Type(k)
  BY <1>1, <1>6 DEF Transmit, Type
<1>7. CASE UNCHANGED vars
  BY <1>1, <1>7 DEF vars
<1>. QED  BY <1>5, <1>6, <1>7 DEF Next

\* However the calls of several threads interleave, the heap stays below
\* __heap_top, for every size of the heap and every increment.
THEOREM HeapInBounds == Spec => []HeapBelowTop
<1>1. Init => HeapInv
  BY SyscallsAssumption DEF Init, HeapInv, HeapBelowTop, NULL
<1>2. HeapInv /\ [Next]_vars => HeapInv'
  BY HeapStep
<1>3. HeapInv => HeapBelowTop
  BY DEF HeapInv
<1>. QED  BY <1>1, <1>2, <1>3, PTL DEF Spec

----------------------------------------------------------------------------
(* The transmit FIFO.                                                       *)

\* The FIFO is a sequence, of whatever bytes; a thread that saw room, and
\* since then no other thread, still finds it.
RoomInv ==
  /\ \E S : tx \in Seq(S)
  /\ sawRoom \in [Threads -> BOOLEAN]
  /\ disturbed \in [Threads -> [room : BOOLEAN, line : BOOLEAN]]
  /\ \A p \in Threads : sawRoom[p] /\ ~disturbed[p].room => Len(tx) < FifoSize

\* The terminal takes a byte: there is more room than before.
LEMMA TransmitRoom ==
  ASSUME RoomInv, Transmit
  PROVE  RoomInv'
<1>1. PICK S : tx \in Seq(S)
  BY DEF RoomInv
<1>2. tx' = Tail(tx) /\ tx # <<>> /\ UNCHANGED <<sawRoom, disturbed>>
  BY DEF Transmit, threadVars
<1>3. tx' \in Seq(S) /\ Len(tx') = Len(tx) - 1 /\ Len(tx) \in Nat
  BY <1>1, <1>2
<1>4. FifoSize \in Nat
  BY SyscallsAssumption
<1>. QED  BY <1>2, <1>3, <1>4 DEF RoomInv

\* A thread sees room, and may from now on rely on it.
LEMMA SeeRoomRoom ==
  ASSUME RoomInv, NEW p \in Threads, SeeRoom(p)
  PROVE  RoomInv'
<1>1. /\ tx' = tx /\ Len(tx) < FifoSize
      /\ sawRoom' = [sawRoom EXCEPT ![p] = TRUE]
      /\ disturbed' = [disturbed EXCEPT ![p].room = FALSE]
  BY DEF SeeRoom, Room, uartVars
<1>. QED  BY <1>1 DEF RoomInv

\* A thread puts its byte, and all others are disturbed.
LEMMA PutByteRoom ==
  ASSUME RoomInv, NEW p \in Threads, PutByte(p)
  PROVE  RoomInv'
<1>1. PICK S : tx \in Seq(S)
  BY DEF RoomInv
<1>2. /\ tx' = IF Len(tx) < FifoSize THEN Append(tx, Head(out[p])) ELSE tx
      /\ sawRoom' = [sawRoom EXCEPT ![p] = FALSE]
      /\ disturbed' = [q \in Threads |-> IF q = p THEN disturbed[q]
                                         ELSE [room |-> TRUE, line |-> TRUE]]
  BY DEF PutByte
<1>3. tx \in Seq(S \cup {Head(out[p])})
  BY <1>1
<1>4. tx' \in Seq(S \cup {Head(out[p])})
  BY <1>2, <1>3
<1>5. /\ sawRoom' \in [Threads -> BOOLEAN]
      /\ disturbed' \in [Threads -> [room : BOOLEAN, line : BOOLEAN]]
      /\ \A q \in Threads : ~(sawRoom'[q] /\ ~disturbed'[q].room)
  BY <1>2 DEF RoomInv
<1>. QED  BY <1>4, <1>5 DEF RoomInv

\* The other actions leave the FIFO alone, and change at most what is known of
\* the lines.
LEMMA RoomStep ==
  ASSUME RoomInv, [Next]_vars
  PROVE  RoomInv'
<1>1. CASE UNCHANGED <<tx, sawRoom, disturbed>>
  BY <1>1 DEF RoomInv
<1>2. ASSUME NEW p \in Threads, UNCHANGED <<tx, sawRoom>>, LookAtLine(p)
      PROVE  RoomInv'
  <2>1. PICK b \in BOOLEAN : disturbed' = [disturbed EXCEPT ![p].line = b]
    BY <1>2 DEF LookAtLine
  <2>. QED  BY <1>2, <2>1 DEF RoomInv
<1>3. ASSUME NEW p \in Threads, ThreadStep(p)
      PROVE  RoomInv'
  <2>1. CASE SeeRoom(p)
    BY <2>1, SeeRoomRoom
  <2>2. CASE PutByte(p)
    BY <2>2, PutByteRoom
  <2>3. CASE syscall_read(p) \/ \E st \in Statuses : syscall_exit(p, st)
    BY <1>2, <2>3 DEF syscall_read, syscall_exit, uartVars
  <2>4. CASE \/ (\E text \in Texts : syscall_write(p, text)) \/ WriteReturn(p)
             \/ SeeByte(p) \/ GetByte(p) \/ ReadReturn(p) \/ ExitHang(p)
    BY <1>1, <2>4 DEF syscall_write, WriteReturn, SeeByte, GetByte, ReadReturn, ExitHang,
       uartVars, threadVars
  <2>5. CASE syscall_sbrk(p) \/ FirstCall(p) \/ \E incr \in Increments : SbrkReturn(p, incr)
    BY <1>1, <2>5 DEF syscall_sbrk, FirstCall, SbrkReturn, uartVars, threadVars
  <2>. QED  BY <1>3, <2>1, <2>2, <2>3, <2>4, <2>5 DEF ThreadStep
<1>4. CASE \E k \in Keys : Type(k)
  BY <1>1, <1>4 DEF Type, threadVars
<1>5. CASE UNCHANGED vars
  BY <1>1, <1>5 DEF vars, uartVars, threadVars
<1>. QED  BY <1>3, <1>4, <1>5, TransmitRoom DEF Next

\* A byte that was not disturbed finds room: the FIFO grows by it.
LEMMA LossStep ==
  ASSUME RoomInv, [Next]_vars, NEW p \in Threads, sawRoom[p], ~sawRoom'[p], tx' = tx
  PROVE  disturbed[p].room
<1>. SUFFICES ASSUME ~disturbed[p].room PROVE FALSE
  OBVIOUS
<1>1. PutByte(p)
  <2>1. sawRoom' # sawRoom
    OBVIOUS
  <2>2. PICK q \in Threads : SeeRoom(q) \/ PutByte(q)
    BY <2>1 DEF Next, Transmit, Type, vars, threadVars, ThreadStep, syscall_write, WriteReturn,
       syscall_read, SeeByte, GetByte, ReadReturn, syscall_exit, ExitHang, syscall_sbrk,
       FirstCall, SbrkReturn
  <2>3. \/ SeeRoom(q) /\ sawRoom' = [sawRoom EXCEPT ![q] = TRUE]
        \/ PutByte(q) /\ sawRoom' = [sawRoom EXCEPT ![q] = FALSE]
    BY <2>2 DEF SeeRoom, PutByte
  <2>. QED  BY <2>3 DEF RoomInv
<1>2. PICK S : tx \in Seq(S)
  BY DEF RoomInv
<1>3. tx \in Seq(S \cup {Head(out[p])})
  BY <1>2
<1>4. Len(tx) < FifoSize
  BY DEF RoomInv
<1>5. tx' = Append(tx, Head(out[p]))
  BY <1>1, <1>4 DEF PutByte
<1>6. Len(tx') = Len(tx) + 1 /\ Len(tx) \in Nat
  BY <1>3, <1>5
<1>. QED  BY <1>6

LEMMA RoomInit == Init => RoomInv
<1>1. ASSUME Init PROVE tx \in Seq({})
  BY <1>1 DEF Init
<1>. QED  BY <1>1 DEF Init, RoomInv

\* A byte is lost only in the window of uart_put_byte, to another thread that
\* has put one there, for every size of the FIFO.
THEOREM LossIsARace == Spec => LossNeedsRace
<1>1. Init => RoomInv
  BY RoomInit
<1>2. RoomInv /\ [Next]_vars => RoomInv'
  BY RoomStep
<1>3. RoomInv /\ [Next]_vars =>
        [\A p \in Threads : sawRoom[p] /\ ~sawRoom'[p] /\ tx' = tx => disturbed[p].room]_vars
  BY LossStep
<1>. QED  BY <1>1, <1>2, <1>3, PTL DEF Spec, LossNeedsRace

----------------------------------------------------------------------------
(* What the screen shows once the FIFO has drained.                         *)

showing == [a \in Lines \X Sent |-> Show(a[1], a[2])]

LEMMA ShowingType == showing \in [Lines \X Sent -> Lines]
<1>1. ASSUME NEW a \in Lines \X Sent PROVE Show(a[1], a[2]) \in Lines
  BY ShowType
<1>. QED  BY <1>1 DEF showing

LEMMA ShowingAt ==
  ASSUME NEW s \in Lines, NEW b \in Sent
  PROVE  showing[<<s, b>>] = Show(s, b)
<1>. HIDE DEF Lines, Sent
<1>. QED  BY DEF showing

\* FoldLeft of Show is the loop of showing.
LEMMA ShowFolds ==
  ASSUME NEW s \in Lines, NEW t \in Seq(Sent)
  PROVE  FoldsTo(Lines, showing, s, t, FoldLeft(Show, s, t))
<1>. HIDE DEF Lines, Sent
<1>. DEFINE n == Len(t)
            Step(iter) == [u \in SUBSET DOMAIN t |->
              IF u = {} THEN s ELSE LET x == Max(u) IN Show(iter[u \ {x}], t[x])]
            chosen == CHOOSE iter : iter = Step(iter)
<1>1. n \in Nat /\ DOMAIN t = 1 .. n /\ \A k \in 1 .. n : t[k] \in Sent
  OBVIOUS
<1>2. ASSUME NEW u \in SUBSET (1 .. n), u # {}
      PROVE  Max(u) \in u /\ u \ {Max(u)} \in SUBSET (1 .. n)
  <2>1. Max(u) \in u
    BY <1>1, <1>2, MaxIn
  <2>. QED  BY <2>1
<1>3. PICK it \in [SUBSET (1 .. n) -> Lines] : Iterates(it, showing, s, t, SUBSET (1 .. n))
  <2>. HIDE DEF n
  <2>1. n <= Len(t)
    BY <1>1 DEF n
  <2>. QED  BY <1>1, <2>1, ShowingType, IterExists
<1>4. it = Step(it)
  <2>1. ASSUME NEW u \in SUBSET (1 .. n)
        PROVE  it[u] = IF u = {} THEN s ELSE Show(it[u \ {Max(u)}], t[Max(u)])
    <3>1. CASE u = {}
      BY <1>3, <3>1 DEF Iterates
    <3>2. CASE u # {}
      <4>1. it[u] = showing[<<it[u \ {Max(u)}], t[Max(u)]>>]
        BY <1>3, <3>2 DEF Iterates
      <4>2. it[u \ {Max(u)}] \in Lines /\ t[Max(u)] \in Sent
        BY <1>1, <1>2, <1>3, <3>2
      <4>. QED  BY <3>2, <4>1, <4>2, ShowingAt
    <3>. QED  BY <3>1, <3>2
  <2>. HIDE DEF n
  <2>. QED  BY <1>1, <1>3, <2>1
<1>5. chosen = Step(chosen)
  <2>. HIDE DEF Step
  <2>. QED  BY <1>4
<1>6. FoldLeft(Show, s, t) = chosen[1 .. n]
  <2>1. FoldLeft(Show, s, t) = chosen[DOMAIN t]
    BY DEF FoldLeft, MapThenFoldSet
  <2>. HIDE DEF n, chosen
  <2>. QED  BY <1>1, <2>1
<1>. HIDE DEF chosen
<1>7. ASSUME NEW u \in SUBSET (1 .. n)
      PROVE  /\ u = {} => chosen[u] = s
             /\ u # {} /\ chosen[u \ {Max(u)}] \in Lines
                  => chosen[u] = showing[<<chosen[u \ {Max(u)}], t[Max(u)]>>]
  <2>1. chosen[u] = IF u = {} THEN s ELSE Show(chosen[u \ {Max(u)}], t[Max(u)])
    BY <1>1, <1>5
  <2>2. u # {} => t[Max(u)] \in Sent
    BY <1>1, <1>2
  <2>. QED  BY <2>1, <2>2, ShowingAt
<1>8. FoldsTo(Lines, showing, s, t, chosen[1 .. n])
  BY <1>7, ShowingType, IterFolds
<1>. QED  BY <1>6, <1>8

\* Nothing to show, one byte more at the end, and the first byte first.
Drained(s, t) == FoldLeft(Show, s, t)

LEMMA ShowLoop ==
  ASSUME NEW s \in Lines, NEW t \in Seq(Sent)
  PROVE  /\ Drained(s, t) \in Lines
         /\ Drained(s, <<>>) = s
         /\ \A b \in Sent : Drained(s, Append(t, b)) = Show(Drained(s, t), b)
         /\ t # <<>> => Drained(Show(s, Head(t)), Tail(t)) = Drained(s, t)
<1>. HIDE DEF Lines, Sent
<1>0. ASSUME NEW r \in Lines, NEW u \in Seq(Sent)
      PROVE  FoldsTo(Lines, showing, r, u, Drained(r, u))
  BY ShowFolds DEF Drained
<1>1. Drained(s, t) \in Lines
  BY <1>0, ShowingType, LoopEnds
<1>2. Drained(s, <<>>) = s
  <2>1. <<>> \in Seq(Sent)
    OBVIOUS
  <2>. QED  BY <1>0, <2>1, ShowingType, LoopEnds
<1>3. ASSUME NEW b \in Sent
      PROVE  Drained(s, Append(t, b)) = Show(Drained(s, t), b)
  <2>1. Append(t, b) \in Seq(Sent)
    OBVIOUS
  <2>2. /\ FoldsTo(Lines, showing, s, t, Drained(s, t))
        /\ FoldsTo(Lines, showing, s, Append(t, b), Drained(s, Append(t, b)))
    BY <1>0, <2>1
  <2>3. Drained(s, Append(t, b)) = showing[<<Drained(s, t), b>>]
    <3>1. OneMore(Lines, showing, s, t, b)
      BY ShowingType, LoopAppend
    <3>. QED  BY <2>2, <3>1 DEF OneMore
  <2>. QED  BY <1>1, <2>3, ShowingAt
<1>4. ASSUME t # <<>> PROVE Drained(Show(s, Head(t)), Tail(t)) = Drained(s, t)
  <2>1. Head(t) \in Sent /\ Tail(t) \in Seq(Sent)
    BY <1>4
  <2>2. showing[<<s, Head(t)>>] = Show(s, Head(t)) /\ Show(s, Head(t)) \in Lines
    BY <2>1, ShowingAt, ShowType
  <2>3. FoldsTo(Lines, showing, s, t, Drained(s, t))
    BY <1>0
  <2>4. FoldsTo(Lines, showing, showing[<<s, Head(t)>>], Tail(t), Drained(Show(s, Head(t)), Tail(t)))
    BY <1>0, <2>1, <2>2
  <2>5. FirstFirst(Lines, showing, s, t)
    BY <1>4, ShowingType, LoopTail
  <2>. QED  BY <2>3, <2>4, <2>5 DEF FirstFirst
<1>. QED  BY <1>1, <1>2, <1>3, <1>4

----------------------------------------------------------------------------
(* A line on the terminal.                                                  *)

\* The line up to the cursor, with nothing but blanks after it.
LineIs(s, line) ==
  /\ SubSeq(s.text, 1, s.cursor) = line
  /\ \A i \in s.cursor + 1 .. Len(s.text) : s.text[i] = SPC

\* The same, byte by byte.
LineBytes(s, line) ==
  /\ Len(line) = s.cursor /\ Len(line) <= Len(s.text)
  /\ \A i \in 1 .. Len(s.text) : s.text[i] = IF i <= Len(line) THEN line[i] ELSE SPC

LEMMA LineByByte ==
  ASSUME NEW s \in Lines, NEW line \in Seq(Sent)
  PROVE  LineIs(s, line) <=> LineBytes(s, line)
<1>. HIDE DEF Sent, SPC
<1>. DEFINE head == SubSeq(s.text, 1, s.cursor)
<1>1. s.text \in Seq(Sent) /\ s.cursor \in Nat /\ s.cursor <= Len(s.text) /\ Len(s.text) \in Nat
  BY DEF Lines
<1>2. head \in Seq(Sent) /\ Len(head) = s.cursor /\ \A i \in 1 .. s.cursor : head[i] = s.text[i]
  BY <1>1
<1>3. Len(line) \in Nat
  OBVIOUS
<1>. HIDE DEF head
<1>4. head = line <=> Len(line) = s.cursor /\ \A i \in 1 .. s.cursor : line[i] = s.text[i]
  BY <1>1, <1>2, <1>3, SeqEqual
<1>5. LineIs(s, line) <=> head = line /\ \A i \in s.cursor + 1 .. Len(s.text) : s.text[i] = SPC
  BY DEF LineIs, head
<1>. QED  BY <1>1, <1>3, <1>4, <1>5 DEF LineBytes

\* Overwriting a sequence after its first c items.
Overwritten(w, u, b, c) ==
  /\ Len(w) = IF c < Len(u) THEN Len(u) ELSE c + 1
  /\ \A i \in 1 .. Len(w) : w[i] = IF i = c + 1 THEN b ELSE u[i]

LEMMA Overwrite ==
  ASSUME NEW S, NEW u \in Seq(S), NEW b \in S, NEW c \in Nat, c <= Len(u)
  PROVE  Overwritten(SubSeq(u, 1, c) \o <<b>> \o SubSeq(u, c + 2, Len(u)), u, b, c)
<1>. DEFINE head == SubSeq(u, 1, c)
            tail == SubSeq(u, c + 2, Len(u))
            front == head \o <<b>>
            w == front \o tail
            l == IF c < Len(u) THEN Len(u) - (c + 1) ELSE 0
<1>0. Len(u) \in Nat /\ l \in Nat
  OBVIOUS
<1>1. head \in Seq(S) /\ Len(head) = c /\ \A i \in 1 .. c : head[i] = u[i]
  BY <1>0
<1>2. tail \in Seq(S) /\ Len(tail) = l /\ \A i \in 1 .. l : tail[i] = u[i + c + 1]
  <2>1. CASE c < Len(u)
    BY <1>0, <2>1
  <2>2. CASE ~(c < Len(u))
    BY <1>0, <2>2
  <2>. QED  BY <2>1, <2>2
<1>. HIDE DEF head, tail
<1>3. front \in Seq(S) /\ Len(front) = c + 1
      /\ \A i \in 1 .. c + 1 : front[i] = IF i = c + 1 THEN b ELSE u[i]
  BY <1>1
<1>. HIDE DEF front
<1>4. c + 1 + l = IF c < Len(u) THEN Len(u) ELSE c + 1
  <2>1. CASE c < Len(u)
    BY <1>0, <2>1
  <2>2. CASE ~(c < Len(u))
    BY <1>0, <2>2
  <2>. QED  BY <2>1, <2>2
<1>. HIDE DEF l
<1>5. Len(w) = c + 1 + l
      /\ \A i \in 1 .. c + 1 + l : w[i] = IF i <= c + 1 THEN front[i] ELSE tail[i - (c + 1)]
  <2>1. /\ Len(w) = Len(front) + Len(tail)
        /\ \A i \in 1 .. Len(front) + Len(tail) :
             w[i] = IF i <= Len(front) THEN front[i] ELSE tail[i - Len(front)]
    BY <1>2, <1>3, ConcatProperties
  <2>. HIDE DEF w
  <2>. QED  BY <1>2, <1>3, <2>1
<1>6. ASSUME NEW i \in 1 .. c + 1 + l PROVE w[i] = IF i = c + 1 THEN b ELSE u[i]
  <2>1. CASE i <= c + 1
    BY <1>0, <1>3, <1>5, <2>1
  <2>2. CASE ~(i <= c + 1)
    <3>1. i - (c + 1) \in 1 .. l /\ (i - (c + 1)) + c + 1 = i
      BY <1>0, <2>2
    <3>2. tail[i - (c + 1)] = u[i]
      BY <1>2, <3>1
    <3>. QED  BY <1>0, <1>5, <2>2, <3>2
  <2>. QED  BY <2>1, <2>2
<1>7. w = SubSeq(u, 1, c) \o <<b>> \o SubSeq(u, c + 2, Len(u))
  BY DEF head, tail, front
<1>. HIDE DEF w
<1>. QED  BY <1>4, <1>5, <1>6, <1>7 DEF Overwritten

\* A byte that is not special is written at the cursor.
LEMMA ShowPlain ==
  ASSUME NEW s \in Lines, NEW b \in Sent \ {LF, BS}
  PROVE  /\ Show(s, b) \in Lines
         /\ Show(s, b).cursor = s.cursor + 1 /\ Show(s, b).above = s.above
         /\ Len(Show(s, b).text) = IF s.cursor < Len(s.text) THEN Len(s.text) ELSE s.cursor + 1
         /\ \A i \in 1 .. Len(Show(s, b).text) :
              Show(s, b).text[i] = IF i = s.cursor + 1 THEN b ELSE s.text[i]
<1>. HIDE DEF Sent, LF, BS
<1>. DEFINE whole == SubSeq(s.text, 1, s.cursor) \o <<b>> \o SubSeq(s.text, s.cursor + 2, Len(s.text))
<1>1. s.text \in Seq(Sent) /\ s.cursor \in Nat /\ s.cursor <= Len(s.text)
      /\ s = [text |-> s.text, cursor |-> s.cursor, above |-> s.above]
  BY DEF Lines
<1>2. /\ Len(whole) = IF s.cursor < Len(s.text) THEN Len(s.text) ELSE s.cursor + 1
      /\ \A i \in 1 .. Len(whole) : whole[i] = IF i = s.cursor + 1 THEN b ELSE s.text[i]
  <2>1. b \in Sent
    OBVIOUS
  <2>2. Overwritten(whole, s.text, b, s.cursor)
    BY <1>1, <2>1, Overwrite
  <2>. HIDE DEF whole
  <2>. QED  BY <2>2 DEF Overwritten
<1>3. Show(s, b) = [s EXCEPT !.text = whole, !.cursor = s.cursor + 1]
  BY DEF Show
<1>. HIDE DEF whole
<1>4. Show(s, b) = [text |-> whole, cursor |-> s.cursor + 1, above |-> s.above]
  BY <1>1, <1>3
<1>. QED  BY <1>2, <1>4, ShowType

\* So a line grows by it.
LEMMA LineGrows ==
  ASSUME NEW s \in Lines, NEW line \in Seq(Sent), LineIs(s, line), NEW b \in Sent \ {LF, BS}
  PROVE  LineIs(Show(s, b), Append(line, b)) /\ Append(line, b) \in Seq(Sent)
<1>. HIDE DEF Sent, LF, BS, SPC
<1>. DEFINE r == Show(s, b)
            more == Append(line, b)
<1>1. LineBytes(s, line)
  BY LineByByte
<1>2. /\ r \in Lines /\ r.cursor = s.cursor + 1
      /\ Len(r.text) = IF s.cursor < Len(s.text) THEN Len(s.text) ELSE s.cursor + 1
      /\ \A i \in 1 .. Len(r.text) : r.text[i] = IF i = s.cursor + 1 THEN b ELSE s.text[i]
  BY ShowPlain
<1>3. /\ more \in Seq(Sent) /\ Len(more) = Len(line) + 1 /\ more[Len(line) + 1] = b
      /\ \A i \in 1 .. Len(line) : more[i] = line[i]
  OBVIOUS
<1>4. Len(line) \in Nat /\ Len(s.text) \in Nat /\ s.cursor \in Nat
  BY DEF Lines
<1>. HIDE DEF r, more
<1>5. LineBytes(r, more)
  BY <1>1, <1>2, <1>3, <1>4 DEF LineBytes
<1>6. LineIs(r, more)
  BY <1>2, <1>3, <1>5, LineByByte
<1>. QED  BY <1>3, <1>6 DEF r, more

\* A rubout takes the last byte of the line back.
LEMMA LineRubout ==
  ASSUME NEW s \in Lines, NEW line \in Seq(Sent), line # <<>>, LineIs(s, line)
  PROVE  LineIs(Show(Show(Show(s, BS), SPC), BS), Front(line)) /\ Front(line) \in Seq(Sent)
<1>. DEFINE r == Show(s, BS)
            q == Show(r, SPC)
            z == Show(q, BS)
            less == Front(line)
<1>1. BS \in Sent /\ SPC \in Sent \ {LF, BS} /\ BS # LF
  BY DEF Sent, BS, LF, SPC
<1>. HIDE DEF Sent, LF, BS, SPC
<1>2. LineBytes(s, line)
  BY LineByByte
<1>3. Len(line) \in Nat \ {0} /\ Len(s.text) \in Nat /\ s.cursor \in Nat
      /\ s = [text |-> s.text, cursor |-> s.cursor, above |-> s.above]
  BY DEF Lines
<1>4. r \in Lines /\ r = [text |-> s.text, cursor |-> s.cursor - 1, above |-> s.above]
  <2>1. s.cursor # 0
    BY <1>2, <1>3 DEF LineBytes
  <2>2. Show(s, BS) = [s EXCEPT !.cursor = s.cursor - 1]
    BY <1>1, <2>1 DEF Show
  <2>. QED  BY <1>1, <1>3, <2>2, ShowType
<1>. HIDE DEF r
<1>5. /\ q \in Lines /\ q.cursor = s.cursor /\ Len(q.text) = Len(s.text)
      /\ \A i \in 1 .. Len(q.text) : q.text[i] = IF i = s.cursor THEN SPC ELSE s.text[i]
  <2>1. s.cursor - 1 < Len(s.text) /\ (s.cursor - 1) + 1 = s.cursor
    BY <1>2, <1>3 DEF LineBytes
  <2>2. r.cursor = s.cursor - 1 /\ r.text = s.text
    BY <1>4
  <2>3. /\ q \in Lines /\ q.cursor = r.cursor + 1
        /\ Len(q.text) = IF r.cursor < Len(r.text) THEN Len(r.text) ELSE r.cursor + 1
        /\ \A i \in 1 .. Len(q.text) : q.text[i] = IF i = r.cursor + 1 THEN SPC ELSE r.text[i]
    BY <1>1, <1>4, ShowPlain
  <2>. HIDE DEF q
  <2>. QED  BY <2>1, <2>2, <2>3
<1>. HIDE DEF q
<1>6. z \in Lines /\ z.cursor = s.cursor - 1 /\ z.text = q.text
  <2>1. q.cursor # 0 /\ q = [text |-> q.text, cursor |-> q.cursor, above |-> q.above]
    BY <1>2, <1>3, <1>5 DEF LineBytes, Lines
  <2>2. Show(q, BS) = [q EXCEPT !.cursor = q.cursor - 1]
    BY <1>1, <2>1 DEF Show
  <2>3. z = [text |-> q.text, cursor |-> q.cursor - 1, above |-> q.above]
    BY <2>1, <2>2
  <2>. QED  BY <1>1, <1>5, <2>3, ShowType
<1>. HIDE DEF z
<1>7. less \in Seq(Sent) /\ Len(less) = Len(line) - 1 /\ \A i \in 1 .. Len(less) : less[i] = line[i]
  <2>1. Len(line) \in Nat \ {0}
    BY <1>3
  <2>2. less = SubSeq(line, 1, Len(line) - 1)
    BY DEF Front
  <2>. HIDE DEF less
  <2>3. PICK n \in Nat : Len(line) = n + 1
    <3>1. Len(line) - 1 \in Nat /\ Len(line) = (Len(line) - 1) + 1
      BY <2>1
    <3>. QED  BY <3>1
  <2>4. less = SubSeq(line, 1, n)
    BY <2>2, <2>3
  <2>5. \A i \in 1 .. n : line[i] \in Sent
    BY <2>3
  <2>6. less \in Seq(Sent) /\ Len(less) = n /\ \A i \in 1 .. n : less[i] = line[i]
    BY <2>4, <2>5
  <2>. QED  BY <2>3, <2>6
<1>. HIDE DEF less
<1>8. LineBytes(z, less)
  BY <1>2, <1>3, <1>5, <1>6, <1>7 DEF LineBytes
<1>9. LineIs(z, less)
  BY <1>6, <1>7, <1>8, LineByByte
<1>. QED  BY <1>7, <1>9 DEF less, z, q, r

\* The screen after one byte, and after a rubout.
LEMMA DrainedEcho ==
  ASSUME NEW s \in Lines
  PROVE  /\ \A b \in Sent : Drained(s, <<b>>) = Show(s, b)
         /\ Drained(s, Rubout) = Show(Show(Show(s, BS), SPC), BS)
<1>1. BS \in Sent /\ SPC \in Sent
  BY DEF Sent
<1>. HIDE DEF Sent, Lines, BS, SPC
<1>2. <<>> \in Seq(Sent)
  OBVIOUS
<1>3. ASSUME NEW b \in Sent PROVE Drained(s, <<b>>) = Show(s, b)
  <2>1. <<b>> = Append(<<>>, b)
    OBVIOUS
  <2>2. Drained(s, Append(<<>>, b)) = Show(Drained(s, <<>>), b) /\ Drained(s, <<>>) = s
    BY <1>2, ShowLoop
  <2>. QED  BY <2>1, <2>2
<1>4. Drained(s, Rubout) = Show(Show(Show(s, BS), SPC), BS)
  <2>1. <<BS>> \in Seq(Sent) /\ <<BS, SPC>> \in Seq(Sent)
    BY <1>1
  <2>2. <<BS, SPC>> = Append(<<BS>>, SPC) /\ Rubout = Append(<<BS, SPC>>, BS)
    BY DEF Rubout
  <2>3. Drained(s, Append(<<BS>>, SPC)) = Show(Drained(s, <<BS>>), SPC)
    BY <1>1, <2>1, ShowLoop
  <2>4. Drained(s, Append(<<BS, SPC>>, BS)) = Show(Drained(s, <<BS, SPC>>), BS)
    BY <1>1, <2>1, ShowLoop
  <2>. QED  BY <1>1, <1>3, <2>2, <2>3, <2>4
<1>. QED  BY <1>3, <1>4

----------------------------------------------------------------------------
(* The line of a thread that nobody disturbs.                               *)

\* What the screen shows once the FIFO and then the bytes of p's call are out.
Final(p) == Drained(Shown, out[p])

\* Between the line and the window of uart_put_byte: a thread whose line nobody
\* wrote on was not disturbed since it saw room either.
QuietInv ==
  /\ TypeInv /\ RoomInv
  /\ base \in [Threads -> Seq(Sent)]
  /\ \A p \in Threads : sawRoom[p] /\ ~disturbed[p].line => ~disturbed[p].room

LEMMA ShownType ==
  ASSUME TypeInv
  PROVE  /\ Shown = Drained(screen, tx) /\ Shown \in Lines
         /\ \A p \in Threads : Final(p) \in Lines
<1>1. screen \in Lines /\ tx \in Seq(Sent) /\ \A p \in Threads : out[p] \in Seq(Sent)
  BY TypeParts DEF LineTypes, ThreadTypes
<1>2. Shown = Drained(screen, tx)
  BY DEF Shown, Drained
<1>. HIDE DEF Lines, Sent
<1>. QED  BY <1>1, <1>2, ShowLoop DEF Final

\* What is on p's line is text.
LEMMA LookType ==
  ASSUME TypeInv
  PROVE  SubSeq(Shown.text, 1, Shown.cursor) \in Seq(Sent)
<1>1. Shown.text \in Seq(Sent) /\ Shown.cursor \in Nat /\ Shown.cursor <= Len(Shown.text)
  BY ShownType DEF Lines
<1>. HIDE DEF Sent
<1>. QED  BY <1>1

LEMMA QuietStep ==
  ASSUME QuietInv, [Next]_vars
  PROVE  QuietInv'
<1>. HIDE DEF Sent
<1>0. /\ sawRoom \in [Threads -> BOOLEAN]
      /\ disturbed \in [Threads -> [room : BOOLEAN, line : BOOLEAN]]
  BY DEF QuietInv, RoomInv
<1>1. TypeInv' /\ RoomInv'
  BY TypeStep, RoomStep DEF QuietInv
<1>2. CASE UNCHANGED <<sawRoom, disturbed, base>>
  BY <1>1, <1>2 DEF QuietInv
<1>3. ASSUME NEW p \in Threads, SeeRoom(p)
      PROVE  QuietInv'
  <2>1. sawRoom' = [sawRoom EXCEPT ![p] = TRUE] /\ disturbed' = [disturbed EXCEPT ![p].room = FALSE]
        /\ base' = base
    BY <1>3 DEF SeeRoom
  <2>. QED  BY <1>0, <1>1, <2>1 DEF QuietInv
<1>4. ASSUME NEW p \in Threads, PutByte(p)
      PROVE  QuietInv'
  <2>1. /\ sawRoom' = [sawRoom EXCEPT ![p] = FALSE] /\ base' = base
        /\ disturbed' = [q \in Threads |-> IF q = p THEN disturbed[q]
                                           ELSE [room |-> TRUE, line |-> TRUE]]
    BY <1>4 DEF PutByte
  <2>. QED  BY <1>0, <1>1, <2>1 DEF QuietInv
<1>5. ASSUME NEW p \in Threads, LookAtLine(p), call[p] = "none", sawRoom' = sawRoom
      PROVE  QuietInv'
  <2>1. PICK b \in BOOLEAN : disturbed' = [disturbed EXCEPT ![p].line = b]
    BY <1>5 DEF LookAtLine
  <2>2. base' = [base EXCEPT ![p] = SubSeq(Shown.text, 1, Shown.cursor)]
    BY <1>5 DEF LookAtLine
  <2>3. SubSeq(Shown.text, 1, Shown.cursor) \in Seq(Sent)
    BY LookType DEF QuietInv
  <2>4. ~sawRoom[p]
    BY <1>5, TypeParts DEF QuietInv, ThreadInv
  <2>5. base' \in [Threads -> Seq(Sent)]
    BY <2>2, <2>3 DEF QuietInv
  <2>6. ASSUME NEW q \in Threads, sawRoom[q], ~disturbed'[q].line PROVE ~disturbed'[q].room
    BY <1>0, <2>1, <2>4, <2>6 DEF QuietInv
  <2>. QED  BY <1>1, <1>5, <2>5, <2>6 DEF QuietInv
<1>6. ASSUME NEW p \in Threads, syscall_read(p) \/ \E st \in Statuses : syscall_exit(p, st)
      PROVE  QuietInv'
  BY <1>5, <1>6 DEF syscall_read, syscall_exit, Begin
<1>7. ASSUME NEW p \in Threads, ThreadStep(p), ~SeeRoom(p), ~PutByte(p), ~syscall_read(p),
             \A st \in Statuses : ~syscall_exit(p, st)
      PROVE  UNCHANGED <<sawRoom, disturbed, base>>
  BY <1>7 DEF ThreadStep, syscall_write, WriteReturn, SeeByte, GetByte, ReadReturn, ExitHang,
     syscall_sbrk, FirstCall, SbrkReturn, threadVars
<1>8. CASE Transmit \/ (\E k \in Keys : Type(k)) \/ UNCHANGED vars
  BY <1>2, <1>8 DEF Transmit, Type, vars, threadVars
<1>. QED  BY <1>2, <1>3, <1>4, <1>6, <1>7, <1>8 DEF Next

\* The thread begins a call, or reads a byte.
OwnCall(p) ==
  \/ \E text \in Texts : syscall_write(p, text)
  \/ syscall_read(p)
  \/ \E st \in Statuses : syscall_exit(p, st)
  \/ GetByte(p)

\* Whatever else happens, as long as nobody disturbs p's line, what will be on
\* the screen does not change, and what p wants there neither.
LEMMA FinalKept ==
  ASSUME QuietInv, [Next]_vars, NEW p \in Threads, ~OwnCall(p), ~disturbed'[p].line
  PROVE  /\ Final(p)' = Final(p) /\ ~disturbed[p].line
         /\ base'[p] = base[p] /\ buf'[p] = buf[p] /\ status'[p] = status[p]
         /\ call'[p] \in {"read", "exit"} => call'[p] = call[p]
<1>. HIDE DEF Sent, Lines
<1>. DEFINE Kept == /\ Final(p)' = Final(p) /\ ~disturbed[p].line
                    /\ base'[p] = base[p] /\ buf'[p] = buf[p] /\ status'[p] = status[p]
                    /\ call'[p] \in {"read", "exit"} => call'[p] = call[p]
<1>0. /\ screen \in Lines /\ tx \in Seq(Sent)
      /\ out \in [Threads -> Seq(Sent)] /\ sawRoom \in [Threads -> BOOLEAN]
      /\ disturbed \in [Threads -> [room : BOOLEAN, line : BOOLEAN]]
      /\ buf \in [Threads -> Seq(Letters \cup {LF})]
      /\ call \in [Threads -> Modes] /\ base \in [Threads -> Seq(Sent)]
      /\ status \in [Threads -> Statuses \cup {0}]
  BY TypeParts DEF QuietInv, RoomInv, LineTypes, ThreadTypes, Modes
<1>1. ASSUME UNCHANGED <<screen, tx>>, out'[p] = out[p] PROVE Final(p)' = Final(p)
  BY <1>1 DEF Final, Shown
<1>2. CASE UNCHANGED <<screen, tx, out, disturbed, base, buf, status, call>>
  BY <1>1, <1>2
<1>3. CASE Transmit
  <2>1. screen' = Show(screen, Head(tx)) /\ tx' = Tail(tx) /\ tx # <<>>
    BY <1>3 DEF Transmit
  <2>2. Drained(screen', tx') = Drained(screen, tx)
    BY <1>0, <2>1, ShowLoop
  <2>3. Shown' = Shown
    BY <2>2 DEF Shown, Drained
  <2>4. UNCHANGED <<out, disturbed, base, buf, status, call>>
    BY <1>3 DEF Transmit, threadVars, exitVars
  <2>. QED  BY <2>3, <2>4 DEF Final
<1>4. ASSUME NEW q \in Threads, SeeRoom(q) PROVE Kept
  <2>1. UNCHANGED <<screen, tx, out, base, buf, status, call>>
        /\ disturbed' = [disturbed EXCEPT ![q].room = FALSE]
    BY <1>4 DEF SeeRoom, uartVars, exitVars
  <2>2. ~disturbed[p].line
    BY <1>0, <2>1
  <2>. QED  BY <1>1, <2>1, <2>2
<1>5. ASSUME NEW q \in Threads, PutByte(q) PROVE Kept
  <2>1. /\ UNCHANGED <<screen, base, buf, status, call>>
        /\ disturbed' = [r \in Threads |-> IF r = q THEN disturbed[r]
                                           ELSE [room |-> TRUE, line |-> TRUE]]
        /\ sawRoom[q]
        /\ tx' = IF Len(tx) < FifoSize THEN Append(tx, Head(out[q])) ELSE tx
        /\ out' = [out EXCEPT ![q] = Tail(@)]
    BY <1>5 DEF PutByte, exitVars
  <2>2. q = p /\ ~disturbed[p].line
    BY <2>1
  <2>3. Len(tx) < FifoSize
    BY <2>1, <2>2 DEF QuietInv, RoomInv
  <2>4. out[p] # <<>> /\ out[p] \in Seq(Sent)
    BY <1>0, <2>1, <2>2, TypeParts DEF QuietInv, ThreadInv
  <2>5. Head(out[p]) \in Sent /\ tx' = Append(tx, Head(out[p])) /\ out'[p] = Tail(out[p])
    BY <1>0, <2>1, <2>2, <2>3, <2>4
  <2>6. Drained(screen', tx') = Show(Drained(screen, tx), Head(out[p]))
    BY <1>0, <2>1, <2>5, ShowLoop
  <2>7. Drained(Show(Drained(screen, tx), Head(out[p])), Tail(out[p]))
          = Drained(Drained(screen, tx), out[p])
    BY <1>0, <2>4, ShowLoop
  <2>8. Final(p)' = Final(p)
    BY <2>5, <2>6, <2>7 DEF Final, Shown, Drained
  <2>. QED  BY <2>1, <2>2, <2>8
<1>6. ASSUME NEW q \in Threads, q # p, OwnCall(q) PROVE Kept
  <2>1. UNCHANGED <<screen, tx>> /\ out'[p] = out[p] /\ buf'[p] = buf[p] /\ call'[p] = call[p]
        /\ status'[p] = status[p]
    BY <1>0, <1>6 DEF OwnCall, syscall_write, syscall_read, syscall_exit, GetByte, Begin, uartVars,
       exitVars
  <2>2. UNCHANGED <<base, disturbed>> \/ LookAtLine(q)
    BY <1>6 DEF OwnCall, syscall_write, syscall_read, syscall_exit, GetByte
  <2>3. base'[p] = base[p] /\ disturbed'[p] = disturbed[p]
    BY <1>0, <1>6, <2>2 DEF LookAtLine
  <2>. QED  BY <1>1, <2>1, <2>3
<1>7. ASSUME NEW q \in Threads, ThreadStep(q), ~SeeRoom(q), ~PutByte(q), ~OwnCall(q) PROVE Kept
  <2>1. UNCHANGED <<screen, tx, out, buf, status, base, disturbed>>
    BY <1>7 DEF OwnCall, ThreadStep, WriteReturn, SeeByte, ReadReturn, ExitHang, syscall_sbrk,
       FirstCall, SbrkReturn, threadVars, uartVars, exitVars
  <2>2. call' = call \/ call' = [call EXCEPT ![q] = "none"] \/ call' = [call EXCEPT ![q] = "sbrk"]
    BY <1>7 DEF OwnCall, ThreadStep, WriteReturn, SeeByte, ReadReturn, ExitHang, syscall_sbrk,
       FirstCall, SbrkReturn, threadVars, Begin, Finished
  <2>3. call'[p] \in {"read", "exit"} => call'[p] = call[p]
    BY <1>0, <2>2
  <2>. QED  BY <1>1, <2>1, <2>3
<1>8. CASE (\E k \in Keys : Type(k)) \/ UNCHANGED vars
  BY <1>2, <1>8 DEF Type, vars, threadVars, uartVars, exitVars
<1>. HIDE DEF Kept
<1>9. Kept
  <2>1. ASSUME NEW q \in Threads, ThreadStep(q) PROVE Kept
    BY <1>4, <1>5, <1>6, <1>7, <2>1
  <2>. QED  BY <1>3, <1>8, <2>1 DEF Next, Kept
<1>. QED  BY <1>9 DEF Kept

\* Once the echo is out, the line is what it was before and the buffer.
EchoInv ==
  \A p \in Threads : call[p] = "read" /\ ~disturbed[p].line => LineIs(Final(p), base[p] \o buf[p])

\* A read begins on a line of its own; nothing is read, nothing is to be shown.
LEMMA ReadEcho ==
  ASSUME QuietInv, NEW p \in Threads, syscall_read(p), ~disturbed'[p].line
  PROVE  LineIs(Final(p)', base'[p] \o buf'[p])
<1>. HIDE DEF Sent, Lines
<1>0. /\ disturbed \in [Threads -> [room : BOOLEAN, line : BOOLEAN]]
      /\ buf \in [Threads -> Seq(Letters \cup {LF})] /\ base \in [Threads -> Seq(Sent)]
      /\ call[p] = "none" /\ out[p] = <<>>
  BY TypeParts DEF QuietInv, RoomInv, ThreadTypes, ThreadInv, syscall_read, Begin
<1>. DEFINE left == SubSeq(Shown.text, 1, Shown.cursor)
<1>1. /\ UNCHANGED <<screen, tx, out>> /\ buf' = [buf EXCEPT ![p] = <<>>]
      /\ base' = [base EXCEPT ![p] = left]
      /\ disturbed' = [disturbed EXCEPT ![p].line =
                         ~CleanLine \/ \E q \in Threads \ {p} : out[q] # <<>>]
  BY DEF syscall_read, LookAtLine, uartVars
<1>2. CleanLine
  <2>1. disturbed'[p].line = (~CleanLine \/ \E q \in Threads \ {p} : out[q] # <<>>)
    BY <1>0, <1>1
  <2>. QED  BY <2>1
<1>3. Final(p)' = Shown
  <2>1. Final(p)' = Final(p)
    BY <1>1 DEF Final, Shown
  <2>2. Drained(Shown, <<>>) = Shown
    <3>1. <<>> \in Seq(Sent)
      OBVIOUS
    <3>. QED  BY <3>1, ShownType, ShowLoop DEF QuietInv
  <2>. QED  BY <1>0, <2>1, <2>2 DEF Final
<1>4. base'[p] \o buf'[p] = left
  <2>1. left \in Seq(Sent)
    BY LookType DEF QuietInv
  <2>. HIDE DEF left
  <2>2. base'[p] = left /\ buf'[p] = <<>>
    BY <1>0, <1>1
  <2>. QED  BY <2>1, <2>2, ConcatEmptySeq
<1>. QED  BY <1>2, <1>3, <1>4 DEF LineIs, CleanLine

\* A byte is read: the line to come follows the buffer.
LEMMA GetEcho ==
  ASSUME QuietInv, EchoInv, NEW p \in Threads, GetByte(p), call'[p] = "read", ~disturbed'[p].line
  PROVE  LineIs(Final(p)', base'[p] \o buf'[p])
<1>0. /\ buf \in [Threads -> Seq(Letters \cup {LF})] /\ base \in [Threads -> Seq(Sent)]
      /\ out \in [Threads -> Seq(Sent)] /\ call \in [Threads -> Modes]
      /\ call[p] \in {"read", "return"} /\ out[p] = <<>>
  BY TypeParts DEF QuietInv, ThreadTypes, ThreadInv, Modes, GetByte
<1>1. /\ Letters \cup {LF} \subseteq Sent /\ LF \in Sent /\ BS \in Sent
      /\ EOT # BS /\ EOT # CR /\ EOT # LF /\ BS # CR /\ BS # LF /\ CR # LF
      /\ Letters \subseteq Sent \ {LF, BS}
  BY SyscallsAssumption DEF Sent, EOT, BS, CR, LF
<1>. HIDE DEF Sent, Lines, LF, BS, EOT, CR, SPC, Rubout
<1>2. PICK b \in ByteRead :
        LET h == Handled(buf[p], IF call[p] = "return" THEN LF ELSE b)
        IN  /\ buf'  = [buf  EXCEPT ![p] = h.buf]
            /\ out'  = [out  EXCEPT ![p] = h.echo]
            /\ call' = [call EXCEPT ![p] = h.then]
  BY DEF GetByte
<1>. DEFINE k == IF call[p] = "return" THEN LF ELSE b
            h == Handled(buf[p], k)
<1>3. UNCHANGED <<screen, tx, base, disturbed>>
  BY DEF GetByte
<1>4. Shown' = Shown /\ Shown \in Lines
  BY <1>3, ShownType DEF Shown, QuietInv
<1>5. buf'[p] = h.buf /\ Final(p)' = Drained(Shown, h.echo) /\ call'[p] = h.then
  <2>1. buf'[p] = h.buf /\ out'[p] = h.echo /\ call'[p] = h.then
    BY <1>0, <1>2
  <2>. QED  BY <1>4, <2>1 DEF Final
<1>6. k \in Keys
  <2>1. rx \in Seq(Keys)
    BY TypeParts DEF QuietInv, LineTypes
  <2>2. b \in Keys
    <3>. HIDE DEF Keys
    <3>. QED  BY <1>2, <2>1 DEF ByteRead
  <2>. QED  BY <2>2 DEF Keys
<1>7. k # LF /\ k # EOT /\ k # CR /\ call[p] = "read"
  <2>1. h.then = "read"
    BY <1>5
  <2>2. ASSUME k = EOT \/ k = CR \/ k = LF PROVE h.then # "read"
    <3>1. \/ h = [buf |-> buf[p], echo |-> <<>>, then |-> "done"]
          \/ h = [buf |-> buf[p], echo |-> <<>>, then |-> "return"]
          \/ h = [buf |-> Append(buf[p], LF), echo |-> <<LF>>, then |-> "done"]
      <4>. HIDE DEF k
      <4>. QED  BY <1>1, <2>2, Zenon DEF Handled
    <3>. HIDE DEF h
    <3>. QED  BY <3>1
  <2>3. k # LF /\ k # EOT /\ k # CR
    BY <2>1, <2>2
  <2>. QED  BY <1>0, <2>3
<1>. DEFINE line == base[p] \o buf[p]
<1>8. line \in Seq(Sent) /\ buf[p] \in Seq(Sent) /\ base[p] \in Seq(Sent)
  BY <1>0, <1>1
<1>9. LineIs(Shown, line)
  <2>1. LineIs(Final(p), line)
    BY <1>3, <1>7 DEF EchoInv
  <2>2. Drained(Shown, <<>>) = Shown
    <3>1. <<>> \in Seq(Sent)
      OBVIOUS
    <3>. QED  BY <1>4, <3>1, ShowLoop
  <2>. QED  BY <1>0, <2>1, <2>2 DEF Final
<1>. HIDE DEF k
<1>10. CASE k = BS /\ buf[p] = <<>>
  <2>1. h = [buf |-> buf[p], echo |-> <<>>, then |-> "read"]
    BY <1>1, <1>10, Zenon DEF Handled
  <2>2. h.buf = buf[p] /\ h.echo = <<>>
    BY <2>1
  <2>3. Drained(Shown, <<>>) = Shown
    <3>1. <<>> \in Seq(Sent)
      OBVIOUS
    <3>. QED  BY <1>4, <3>1, ShowLoop
  <2>. HIDE DEF h
  <2>. QED  BY <1>3, <1>5, <1>9, <2>2, <2>3
<1>11. CASE k = BS /\ buf[p] # <<>>
  <2>1. h = [buf |-> Front(buf[p]), echo |-> Rubout, then |-> "read"]
    BY <1>1, <1>11, Zenon DEF Handled
  <2>2. h.buf = Front(buf[p]) /\ h.echo = Rubout
    BY <2>1
  <2>3. line # <<>> /\ base[p] \o Front(buf[p]) = Front(line)
    BY <1>8, <1>11, BaseAndBuffer
  <2>. HIDE DEF h, line
  <2>4. LineIs(Drained(Shown, Rubout), Front(line))
    BY <1>4, <1>8, <1>9, <2>3, LineRubout, DrainedEcho
  <2>. QED  BY <1>3, <1>5, <2>2, <2>3, <2>4
<1>12. CASE k \notin {BS, LF, EOT, CR}
  <2>1. h = [buf |-> Append(buf[p], k), echo |-> <<k>>, then |-> "read"]
    BY <1>12, Zenon DEF Handled
  <2>2. h.buf = Append(buf[p], k) /\ h.echo = <<k>>
    BY <2>1
  <2>3. k \in Sent \ {LF, BS}
    BY <1>1, <1>6, <1>12 DEF Keys
  <2>4. base[p] \o Append(buf[p], k) = Append(line, k)
    <3>1. k \in Sent
      BY <2>3
    <3>2. Follows(base[p], buf[p], k)
      BY <1>8, <3>1, BaseAndBuffer
    <3>. QED  BY <3>2 DEF Follows
  <2>. HIDE DEF h, line
  <2>5. LineIs(Drained(Shown, <<k>>), Append(line, k))
    BY <1>4, <1>8, <1>9, <2>3, LineGrows, DrainedEcho
  <2>. QED  BY <1>3, <1>5, <2>2, <2>4, <2>5
<1>. QED  BY <1>7, <1>10, <1>11, <1>12

LEMMA EchoStep ==
  ASSUME QuietInv, EchoInv, [Next]_vars
  PROVE  EchoInv'
<1>. SUFFICES ASSUME NEW p \in Threads, call'[p] = "read", ~disturbed'[p].line
              PROVE  LineIs(Final(p)', base'[p] \o buf'[p])
  BY DEF EchoInv
<1>1. CASE syscall_read(p)
  BY <1>1, ReadEcho
<1>2. CASE GetByte(p)
  BY <1>2, GetEcho
<1>3. CASE (\E text \in Texts : syscall_write(p, text)) \/ \E st \in Statuses : syscall_exit(p, st)
  <2>1. call \in [Threads -> Modes]
    BY TypeParts DEF QuietInv, ThreadTypes, Modes
  <2>2. call'[p] \in {"write", "exit"}
    BY <1>3, <2>1 DEF syscall_write, syscall_exit, Begin
  <2>. QED  BY <2>2
<1>4. CASE ~OwnCall(p)
  <2>1. /\ Final(p)' = Final(p) /\ ~disturbed[p].line
        /\ base'[p] = base[p] /\ buf'[p] = buf[p] /\ call[p] = "read"
    BY <1>4, FinalKept
  <2>. QED  BY <2>1 DEF EchoInv
<1>. QED  BY <1>1, <1>2, <1>3, <1>4 DEF OwnCall

LEMMA QuietInit == Init => QuietInv
<1>. SUFFICES ASSUME Init PROVE QuietInv
  OBVIOUS
<1>1. TypeInv /\ RoomInv
  BY TypeInit, RoomInit
<1>2. base \in [Threads -> Seq(Sent)]
  <2>1. <<>> \in Seq(Sent)
    OBVIOUS
  <2>. HIDE DEF Sent
  <2>. QED  BY <2>1 DEF Init
<1>. QED  BY <1>1, <1>2 DEF Init, QuietInv

\* While a reader waits for a key and no other thread writes on its line, the
\* terminal shows what the program will get, for every set of threads, every
\* keyboard, buffer and FIFO.
THEOREM EchoFaithful == Spec => []EchoShowsBuffer
<1>1. Init => EchoInv
  BY DEF Init, EchoInv
<1>2. QuietInv /\ EchoInv /\ [Next]_vars => QuietInv' /\ EchoInv'
  BY QuietStep, EchoStep
<1>3. QuietInv /\ EchoInv => EchoShowsBuffer
  <2>. SUFFICES ASSUME QuietInv, EchoInv, NEW p \in Threads,
                       call[p] = "read", out[p] = <<>>, ~disturbed[p].line
                PROVE  SubSeq(Shown.text, 1, Shown.cursor) = base[p] \o buf[p] /\ CleanLine
    BY DEF EchoShowsBuffer
  <2>1. Final(p) = Shown
    <3>1. <<>> \in Seq(Sent)
      OBVIOUS
    <3>. HIDE DEF Sent, Lines
    <3>. QED  BY <3>1, ShownType, ShowLoop DEF QuietInv, Final
  <2>2. LineIs(Shown, base[p] \o buf[p])
    BY <2>1 DEF EchoInv
  <2>. QED  BY <2>2 DEF LineIs, CleanLine
<1>. QED  BY <1>1, <1>2, <1>3, QuietInit, PTL DEF Spec

----------------------------------------------------------------------------
(* The last line of a program.                                              *)

\* The line above the cursor's, with nothing but blanks after it.
AboveIs(s, line) ==
  /\ Len(line) <= Len(s.above)
  /\ \A i \in 1 .. Len(s.above) : s.above[i] = IF i <= Len(line) THEN line[i] ELSE SPC

\* A text with no rubout and no line end is written after what is there.
Written(s, line, t) == LineIs(Drained(s, t), line \o t)

LEMMA LineGrowsByText ==
  ASSUME NEW s \in Lines, NEW line \in Seq(Sent), LineIs(s, line), NEW t \in Seq(Sent \ {LF, BS})
  PROVE  Written(s, line, t)
<1>. HIDE DEF Sent, Lines, LF, BS
<1>. DEFINE plain == Sent \ {LF, BS}
            front(k) == SubSeq(t, 1, k)
            bad == {k \in Nat : k <= Len(t) /\ ~Written(s, line, front(k))}
<1>1. Len(t) \in Nat /\ front(Len(t)) = t
  OBVIOUS
<1>2. ASSUME NEW k \in Nat, k <= Len(t)
      PROVE  front(k) \in Seq(plain) /\ front(k) \in Seq(Sent)
  BY <1>2
<1>. SUFFICES ASSUME bad # {} PROVE FALSE
  <2>1. Len(t) \notin bad => Written(s, line, front(Len(t)))
    BY <1>1
  <2>. HIDE DEF bad, front
  <2>. QED  BY <1>1, <2>1
<1>3. PICK k \in bad : \A j \in bad : k <= j
  <2>. HIDE DEF bad
  <2>1. bad \in SUBSET Nat
    BY DEF bad
  <2>. QED  BY <2>1, LeastNumber
<1>4. CASE k = 0
  <2>1. front(0) = <<>> /\ <<>> \in Seq(Sent)
    OBVIOUS
  <2>2. Drained(s, <<>>) = s /\ line \o <<>> = line
    <3>1. Drained(s, <<>>) = s
      BY <2>1, ShowLoop
    <3>. QED  BY <3>1, ConcatEmptySeq
  <2>3. Written(s, line, <<>>)
    BY <2>2 DEF Written
  <2>. HIDE DEF front
  <2>. QED  BY <1>3, <1>4, <2>1, <2>3
<1>5. CASE k # 0
  <2>1. PICK l \in Nat : k = l + 1
    <3>1. k - 1 \in Nat /\ k = (k - 1) + 1
      BY <1>3, <1>5
    <3>. QED  BY <3>1
  <2>2. k \in Nat /\ k <= Len(t) /\ l <= Len(t) /\ l < k /\ k \in 1 .. Len(t)
    BY <1>1, <1>3, <2>1
  <2>. DEFINE u == front(l)
              b == t[k]
  <2>3. b \in plain
    BY <2>2
  <2>4. front(k) = Append(u, b)
    BY <2>1, <2>2
  <2>5. u \in Seq(plain) /\ u \in Seq(Sent)
    BY <1>2, <2>2
  <2>6. Written(s, line, u)
    <3>1. l \notin bad
      <4>. HIDE DEF bad
      <4>. QED  BY <1>3, <2>1, <2>2
    <3>. HIDE DEF front
    <3>. QED  BY <2>2, <3>1
  <2>. HIDE DEF u, b
  <2>7. b \in Sent \ {LF, BS} /\ b \in Sent
    BY <2>3
  <2>8. Drained(s, Append(u, b)) = Show(Drained(s, u), b) /\ Drained(s, u) \in Lines
    BY <2>5, <2>7, ShowLoop
  <2>9. line \o Append(u, b) = Append(line \o u, b) /\ line \o u \in Seq(Sent)
    <3>1. Follows(line, u, b)
      BY <2>5, <2>7, BaseAndBuffer
    <3>. QED  BY <2>5, <3>1 DEF Follows
  <2>. DEFINE now == Drained(s, u)
              here == line \o u
  <2>10. now \in Lines /\ here \in Seq(Sent) /\ LineIs(now, here)
    BY <2>6, <2>8, <2>9 DEF Written
  <2>. HIDE DEF now, here
  <2>11. LineIs(Show(now, b), Append(here, b))
    BY <2>7, <2>10, LineGrows
  <2>12. Written(s, line, Append(u, b))
    BY <2>8, <2>9, <2>11 DEF Written, now, here
  <2>. HIDE DEF front
  <2>. QED  BY <1>3, <2>4, <2>12
<1>. QED  BY <1>4, <1>5

\* A line end sends it up.
LEMMA LineGoesUp ==
  ASSUME NEW s \in Lines, NEW line \in Seq(Sent), LineIs(s, line)
  PROVE  AboveIs(Show(s, LF), line)
<1>1. Show(s, LF).above = s.text
  BY DEF Show, Blank
<1>. HIDE DEF Lines, Sent, LF, SPC
<1>2. LineBytes(s, line)
  BY LineByByte
<1>. QED  BY <1>1, <1>2 DEF LineBytes, AboveIs

\* The line an exit is to leave.
ExitLine(p, text) == base[p] \o (<<EXIT>> \o text)
StatusInv ==
  \A p \in Threads : call[p] = "exit" /\ ~disturbed[p].line =>
    \E text \in SignedText(status[p]) : AboveIs(Final(p), ExitLine(p, text))

\* The bytes of an exit: a name, a number, a line end.
LEMMA ExitText ==
  ASSUME NEW st \in Statuses, NEW text \in SignedText(st)
  PROVE  <<EXIT>> \o text \in Seq(Sent \ {LF, BS}) /\ <<EXIT>> \o text \in Seq(Sent)
<1>1. st \in 0 .. WordSize - 1
  BY SyscallsAssumption
<1>2. text \in Seq(Range(digits) \cup {"-", Garbage})
  BY <1>1, SignedTextBytes
<1>3. Range(digits) \cup {"-", Garbage} \subseteq Sent \ {LF, BS}
  <2>1. \A i \in DOMAIN digits : digits[i] # LF /\ digits[i] # BS
    BY DEF digits, LF, BS
  <2>2. "-" # LF /\ "-" # BS /\ Garbage # LF /\ Garbage # BS
    BY DEF LF, BS, Garbage
  <2>3. Range(digits) \cup {"-", Garbage} \subseteq Sent
    BY DEF Sent, NumberBytes
  <2>. HIDE DEF Sent, LF, BS, Garbage, digits
  <2>. QED  BY <2>1, <2>2, <2>3 DEF Range
<1>4. EXIT \in Sent \ {LF, BS}
  BY DEF Sent, EXIT, LF, BS
<1>. HIDE DEF Sent, LF, BS, EXIT
<1>5. text \in Seq(Sent \ {LF, BS})
  BY <1>2, <1>3
<1>6. text \in Seq(Sent)
  BY <1>5
<1>. QED  BY <1>4, <1>5, <1>6

\* An exit begins on a line of its own.
LEMMA ExitBegins ==
  ASSUME QuietInv, NEW p \in Threads, NEW st \in Statuses, syscall_exit(p, st),
         ~disturbed'[p].line
  PROVE  \E text \in SignedText(status'[p]) : AboveIs(Final(p)', ExitLine(p, text)')
<1>. HIDE DEF Sent, Lines, LF, BS, EXIT
<1>0. /\ disturbed \in [Threads -> [room : BOOLEAN, line : BOOLEAN]]
      /\ base \in [Threads -> Seq(Sent)] /\ out \in [Threads -> Seq(Sent)]
      /\ status \in [Threads -> Statuses \cup {0}]
  BY TypeParts DEF QuietInv, RoomInv, ThreadTypes
<1>. DEFINE left == SubSeq(Shown.text, 1, Shown.cursor)
<1>1. PICK text \in SignedText(st) : out' = [out EXCEPT ![p] = <<EXIT>> \o text \o <<LF>>]
  BY DEF syscall_exit
<1>2. /\ UNCHANGED <<screen, tx>> /\ status' = [status EXCEPT ![p] = st]
      /\ base' = [base EXCEPT ![p] = left]
      /\ disturbed' = [disturbed EXCEPT ![p].line =
                         ~CleanLine \/ \E q \in Threads \ {p} : out[q] # <<>>]
  BY DEF syscall_exit, LookAtLine, uartVars
<1>3. CleanLine
  <2>1. disturbed'[p].line = (~CleanLine \/ \E q \in Threads \ {p} : out[q] # <<>>)
    BY <1>0, <1>2
  <2>. QED  BY <2>1
<1>4. left \in Seq(Sent) /\ Shown \in Lines /\ LineIs(Shown, left)
  BY <1>3, LookType, ShownType DEF QuietInv, LineIs, CleanLine
<1>. DEFINE t == <<EXIT>> \o text
            now == Drained(Shown, t)
<1>5. t \in Seq(Sent \ {LF, BS}) /\ t \in Seq(Sent)
  BY ExitText
<1>6. out'[p] = Append(t, LF)
  <2>1. out'[p] = t \o <<LF>>
    BY <1>0, <1>1
  <2>. HIDE DEF t
  <2>. QED  BY <1>5, <2>1, AppendIsConcat
<1>7. base'[p] = left /\ status'[p] = st
  BY <1>0, <1>2
<1>8. Shown' = Shown
  BY <1>2 DEF Shown
<1>9. ExitLine(p, text)' = left \o t
  BY <1>7 DEF ExitLine
<1>10. Final(p)' = Drained(Shown, Append(t, LF))
  BY <1>6, <1>8 DEF Final
<1>. HIDE DEF left, t
<1>11. LineIs(now, left \o t) /\ now \in Lines /\ left \o t \in Seq(Sent)
  <2>1. Written(Shown, left, t)
    BY <1>4, <1>5, LineGrowsByText
  <2>. QED  BY <1>4, <1>5, <2>1, ShowLoop DEF Written
<1>12. Drained(Shown, Append(t, LF)) = Show(now, LF)
  <2>1. LF \in Sent
    BY DEF Sent
  <2>. QED  BY <1>4, <1>5, <2>1, ShowLoop
<1>. DEFINE line == left \o t
<1>. HIDE DEF now, line
<1>13. AboveIs(Show(now, LF), line)
  BY <1>11, LineGoesUp DEF line
<1>. QED  BY <1>1, <1>7, <1>9, <1>10, <1>12, <1>13 DEF line

LEMMA StatusStep ==
  ASSUME QuietInv, StatusInv, [Next]_vars
  PROVE  StatusInv'
<1>. SUFFICES ASSUME NEW p \in Threads, call'[p] = "exit", ~disturbed'[p].line
              PROVE  \E text \in SignedText(status'[p]) : AboveIs(Final(p)', ExitLine(p, text)')
  BY DEF StatusInv
<1>0. call \in [Threads -> Modes]
  BY TypeParts DEF QuietInv, ThreadTypes, Modes
<1>1. ASSUME NEW st \in Statuses, syscall_exit(p, st)
      PROVE  \E text \in SignedText(status'[p]) : AboveIs(Final(p)', ExitLine(p, text)')
  BY <1>1, ExitBegins
<1>2. CASE (\E text \in Texts : syscall_write(p, text)) \/ syscall_read(p)
  <2>1. call'[p] \in {"write", "read"}
    BY <1>0, <1>2 DEF syscall_write, syscall_read, Begin
  <2>. QED  BY <2>1
<1>3. CASE GetByte(p)
  <2>1. PICK b \in ByteRead :
          call' = [call EXCEPT ![p] = Handled(buf[p], IF call[p] = "return" THEN LF ELSE b).then]
    BY <1>3 DEF GetByte
  <2>2. call[p] \in {"read", "return"} /\ buf[p] \in Seq(Letters \cup {LF}) /\ Len(buf[p]) < ReadLen
    BY <1>3, TypeParts DEF QuietInv, ThreadTypes, ThreadInv, GetByte
  <2>. DEFINE k == IF call[p] = "return" THEN LF ELSE b
  <2>3. k \in Keys
    <3>1. rx \in Seq(Keys)
      BY TypeParts DEF QuietInv, LineTypes
    <3>2. b \in Keys
      <4>. HIDE DEF Keys
      <4>. QED  BY <2>1, <3>1 DEF ByteRead
    <3>. QED  BY <3>2 DEF Keys
  <2>4. Handled(buf[p], k).then \in {"read", "return", "done"}
    <3>. HIDE DEF k
    <3>. QED  BY <2>2, <2>3, HandledTypes
  <2>. QED  BY <1>0, <2>1, <2>4
<1>4. CASE ~OwnCall(p)
  <2>1. /\ Final(p)' = Final(p) /\ ~disturbed[p].line
        /\ base'[p] = base[p] /\ status'[p] = status[p] /\ call[p] = "exit"
    BY <1>4, FinalKept
  <2>2. \A text : ExitLine(p, text)' = ExitLine(p, text)
    BY <2>1 DEF ExitLine
  <2>. QED  BY <2>1, <2>2 DEF StatusInv
<1>. QED  BY <1>1, <1>2, <1>3, <1>4 DEF OwnCall

\* The line of an exit, cut where its parts begin.
Cut(above, line, b, e, t) ==
  /\ Len(line) \in Len(b) + 2 .. Len(above)
  /\ SubSeq(above, 1, Len(b) + 1) = b \o <<e>>
  /\ SubSeq(above, Len(b) + 2, Len(line)) = t

LEMMA LineParts ==
  ASSUME NEW S, NEW b \in Seq(S), NEW e \in S, NEW t \in Seq(S), t # <<>>,
         NEW above \in Seq(S), Len(b \o (<<e>> \o t)) <= Len(above),
         \A i \in 1 .. Len(b \o (<<e>> \o t)) : above[i] = (b \o (<<e>> \o t))[i]
  PROVE  Cut(above, b \o (<<e>> \o t), b, e, t)
<1>. DEFINE line == b \o (<<e>> \o t)
<1>0. Len(line) <= Len(above) /\ \A i \in 1 .. Len(line) : above[i] = line[i]
  OBVIOUS
<1>. HIDE DEF line
<1>. DEFINE m == Len(b)
            n == Len(t)
<1>1. m \in Nat /\ n \in Nat /\ n >= 1 /\ Len(above) \in Nat
  OBVIOUS
<1>. HIDE DEF m
<1>2. /\ line \in Seq(S) /\ Len(line) = m + 1 + n /\ line[m + 1] = e
      /\ \A i \in 1 .. m : line[i] = b[i]
      /\ \A i \in 1 .. n : line[i + m + 1] = t[i]
  <2>. DEFINE r == <<e>> \o t
  <2>1. r \in Seq(S) /\ Len(r) = n + 1 /\ r[1] = e /\ \A i \in 1 .. n : r[i + 1] = t[i]
    OBVIOUS
  <2>. HIDE DEF r, n
  <2>2. /\ line \in Seq(S) /\ Len(line) = m + (n + 1)
        /\ \A i \in 1 .. m + (n + 1) : line[i] = IF i <= m THEN b[i] ELSE r[i - m]
    <3>1. /\ line \in Seq(S) /\ Len(line) = m + Len(r)
          /\ \A i \in 1 .. m + Len(r) : line[i] = IF i <= m THEN b[i] ELSE r[i - m]
      BY <2>1, ConcatProperties DEF m, r, line
    <3>2. m + Len(r) = m + (n + 1)
      BY <2>1
    <3>. QED  BY <3>1, <3>2
  <2>3. line[m + 1] = e
    <3>1. m + 1 \in 1 .. m + (n + 1) /\ ~(m + 1 <= m) /\ (m + 1) - m = 1
      BY <1>1
    <3>. QED  BY <2>1, <2>2, <3>1
  <2>4. ASSUME NEW i \in 1 .. m PROVE line[i] = b[i]
    <3>1. i \in 1 .. m + (n + 1) /\ i <= m
      BY <1>1
    <3>. QED  BY <2>2, <3>1
  <2>5. ASSUME NEW i \in 1 .. n PROVE line[i + m + 1] = t[i]
    <3>1. i + m + 1 \in 1 .. m + (n + 1) /\ ~(i + m + 1 <= m) /\ (i + m + 1) - m = i + 1
      BY <1>1
    <3>. QED  BY <2>1, <2>2, <3>1
  <2>6. Len(line) = m + 1 + n
    BY <1>1, <2>1, <2>2
  <2>. QED  BY <2>2, <2>3, <2>4, <2>5, <2>6
<1>. HIDE DEF n
<1>3. Len(line) \in m + 2 .. Len(above)
  BY <1>0, <1>1, <1>2
<1>4. SubSeq(above, 1, m + 1) = b \o <<e>>
  <2>. DEFINE x == SubSeq(above, 1, m + 1)
              y == b \o <<e>>
  <2>1. x \in Seq(S) /\ Len(x) = m + 1 /\ \A i \in 1 .. m + 1 : x[i] = above[i]
    BY <1>0, <1>1, <1>2
  <2>2. y \in Seq(S) /\ Len(y) = m + 1 /\ y[m + 1] = e /\ \A i \in 1 .. m : y[i] = b[i]
    BY DEF m
  <2>. HIDE DEF x, y
  <2>3. ASSUME NEW i \in 1 .. m + 1 PROVE x[i] = y[i]
    <3>1. i \in 1 .. Len(line)
      BY <1>1, <1>2
    <3>2. x[i] = line[i]
      BY <1>0, <2>1, <3>1
    <3>3. i = m + 1 \/ i \in 1 .. m
      BY <1>1
    <3>. QED  BY <1>2, <2>2, <3>2, <3>3
  <2>4. x = y
    BY <2>1, <2>2, <2>3, SeqEqual
  <2>. QED  BY <2>4 DEF x, y
<1>5. SubSeq(above, m + 2, Len(line)) = t
  <2>. DEFINE x == SubSeq(above, m + 2, m + 1 + n)
  <2>1. x \in Seq(S) /\ Len(x) = n /\ \A i \in 1 .. n : x[i] = above[i + m + 1]
    BY <1>0, <1>1, <1>2
  <2>. HIDE DEF x
  <2>2. ASSUME NEW i \in 1 .. n PROVE x[i] = t[i]
    <3>1. i + m + 1 \in 1 .. Len(line)
      BY <1>1, <1>2
    <3>. QED  BY <1>0, <1>2, <2>1, <3>1
  <2>3. x = t
    BY <2>1, <2>2, SeqEqual DEF n
  <2>. QED  BY <1>2, <2>3 DEF x
<1>. QED  BY <1>3, <1>4, <1>5 DEF Cut, line, m

\* Once the CPU hangs and the FIFO has drained, the last line of a program tells
\* its exit status, unless another thread wrote in between: for every set of
\* threads, every word size and every status of at most MaxBuf digits.
THEOREM ExitStatusFaithful == Spec => []ExitStatusShown
<1>1. Init => StatusInv
  BY DEF Init, StatusInv
<1>2. QuietInv /\ StatusInv /\ [Next]_vars => QuietInv' /\ StatusInv'
  BY QuietStep, StatusStep
<1>3. QuietInv /\ StatusInv => ExitStatusShown
  <2>. SUFFICES ASSUME QuietInv, StatusInv, NEW p \in Threads,
                       call[p] = "exit", out[p] = <<>>, tx = <<>>, ~disturbed[p].line,
                       Signed(status[p]) < TenTo(MaxBuf), -Signed(status[p]) < TenTo(MaxBuf)
                PROVE  LET line == screen.above
                           from == Len(base[p]) + 1
                       IN  /\ SubSeq(line, 1, from) = base[p] \o <<EXIT>>
                           /\ \E to \in from + 1 .. Len(line) :
                                /\ \A i \in to + 1 .. Len(line) : line[i] = SPC
                                /\ Denoted(SubSeq(line, from + 1, to)) = Signed(status[p])
    BY DEF ExitStatusShown
  <2>. HIDE DEF Sent, Lines, EXIT, SPC
  <2>0. /\ base[p] \in Seq(Sent) /\ screen \in Lines /\ status[p] \in Statuses \cup {0}
    BY TypeParts DEF QuietInv, LineTypes, ThreadTypes
  <2>1. Final(p) = screen
    <3>1. <<>> \in Seq(Sent)
      OBVIOUS
    <3>2. Drained(screen, <<>>) = screen
      BY <2>0, <3>1, ShowLoop
    <3>. QED  BY <3>2, ShownType DEF QuietInv, Final
  <2>2. PICK text \in SignedText(status[p]) : AboveIs(screen, ExitLine(p, text))
    BY <2>1 DEF StatusInv
  <2>3. status[p] \in 0 .. WordSize - 1
    <3>1. 0 \in 0 .. WordSize - 1
      BY PrintkAssumption
    <3>2. Statuses \subseteq 0 .. WordSize - 1
      BY SyscallsAssumption
    <3>. HIDE DEF Sent
    <3>. QED  BY <2>0, <3>1, <3>2
  <2>4. text # <<>> /\ Denoted(text) = Signed(status[p]) /\ text \in Seq(DigitsOf(10) \cup {"-"})
    BY <2>2, <2>3, SignedTextDenotes
  <2>5. text \in Seq(Sent) /\ EXIT \in Sent /\ screen.above \in Seq(Sent)
    <3>1. DigitsOf(10) \subseteq Range(digits)
      BY DigitCharacters DEF DigitsOf, Bases
    <3>2. DigitsOf(10) \cup {"-"} \subseteq Sent /\ EXIT \in Sent
      BY <3>1 DEF Sent, NumberBytes
    <3>. HIDE DEF DigitsOf
    <3>. QED  BY <2>0, <2>4, <3>2 DEF Lines
  <2>. DEFINE above == screen.above
              line == ExitLine(p, text)
              b == base[p]
              from == Len(b) + 1
  <2>6. /\ Len(line) <= Len(above) /\ Len(b) \in Nat /\ Len(above) \in Nat
        /\ \A i \in 1 .. Len(above) : above[i] = IF i <= Len(line) THEN line[i] ELSE SPC
    BY <2>0, <2>2, <2>5 DEF AboveIs
  <2>7. line = b \o (<<EXIT>> \o text)
    BY DEF ExitLine
  <2>8. Len(line) \in Nat
    <3>1. <<EXIT>> \o text \in Seq(Sent)
      BY <2>5
    <3>2. line \in Seq(Sent)
      BY <2>0, <2>7, <3>1
    <3>. QED  BY <3>2
  <2>. HIDE DEF above, line, b
  <2>9. \A i \in 1 .. Len(line) : above[i] = line[i]
    BY <2>6, <2>8
  <2>10. /\ Len(line) \in Len(b) + 2 .. Len(above)
         /\ SubSeq(above, 1, Len(b) + 1) = b \o <<EXIT>>
         /\ SubSeq(above, Len(b) + 2, Len(line)) = text
    <3>1. /\ b \in Seq(Sent) /\ EXIT \in Sent /\ text \in Seq(Sent) /\ text # <<>>
          /\ above \in Seq(Sent) /\ Len(b \o (<<EXIT>> \o text)) <= Len(above)
          /\ \A i \in 1 .. Len(b \o (<<EXIT>> \o text)) : above[i] = (b \o (<<EXIT>> \o text))[i]
      BY <2>0, <2>4, <2>5, <2>6, <2>7, <2>9 DEF above, b
    <3>2. Cut(above, b \o (<<EXIT>> \o text), b, EXIT, text)
      BY <3>1, LineParts
    <3>. QED  BY <2>7, <3>2 DEF Cut
  <2>11. from + 1 = Len(b) + 2
    BY <2>6
  <2>12. \A i \in Len(line) + 1 .. Len(above) : above[i] = SPC
    BY <2>6, <2>8
  <2>13. /\ SubSeq(above, 1, from) = b \o <<EXIT>>
         /\ \E to \in from + 1 .. Len(above) :
              /\ \A i \in to + 1 .. Len(above) : above[i] = SPC
              /\ Denoted(SubSeq(above, from + 1, to)) = Signed(status[p])
    <3>. HIDE DEF from
    <3>. QED  BY <2>4, <2>10, <2>11, <2>12 DEF from
  <2>. QED  BY <2>13 DEF above, b
<1>. QED  BY <1>1, <1>2, <1>3, QuietInit, PTL DEF Spec
=============================================================================
