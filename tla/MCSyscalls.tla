----------------------------- MODULE MCSyscalls -----------------------------
(***************************************************************************)
(* Small instances of Syscalls for TLC.                                     *)
(***************************************************************************)
EXTENDS Syscalls, TLC

\* A line of one letter: the FIFO below has room for one of them.
MCTexts == {<<"w", LF>>}
MCNoTexts == {}
MCLetters == {"w"}
\* Exit statuses for words of 8 bits and an array of 2 bytes, in which two
\* hexadecimal digits fit exactly, as eight of a 32-bit word do in 8 bytes: -99,
\* which just fits, 100 and the least int, which do not.
MCStatuses == {256 - 99, 100, 128}
MCNoStatuses == {}

\* Exit does not look at the keyboard, and the text it prints makes for many
\* interleavings: it is explored for one thread at a time, with at most
\* MaxBesideExit keys typed and as many other calls made, by which another
\* thread may write on its line.
CONSTANT MaxBesideExit
LittleBesideExit ==
  \A p \in Threads : call[p] = "exit" =>
    /\ \A q \in Threads \ {p} : call[q] # "exit"
    /\ typed <= MaxBesideExit /\ calls <= MaxBesideExit + 1

MCSymmetry == Permutations(Threads)
=============================================================================
