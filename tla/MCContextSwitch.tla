-------------------------- MODULE MCContextSwitch --------------------------
(***************************************************************************)
(* A small instance of ContextSwitch for TLC.                               *)
(***************************************************************************)
EXTENDS ContextSwitch, TLC

\* The user threads are interchangeable.
Symmetric == Permutations(Threads)
=============================================================================
