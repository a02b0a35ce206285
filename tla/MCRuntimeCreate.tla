-------------------------- MODULE MCRuntimeCreate --------------------------
(***************************************************************************)
(* A small instance of RuntimeCreate for TLC.                               *)
(***************************************************************************)
EXTENDS RuntimeCreate

CONSTANT MaxTime    \* how long the run looks ahead

\* (C, T) in ticks: three threads of this shape are admitted (load 0.75).
MCTaskParams == {[C |-> 1, T |-> 4]}
MCNoSpin == {}

\* The two highest of five priorities create.  A creator in the call can then
\* overrun its budget and let the other one, and a thread below, go on.
MCCreators == {0, 1}

BeforeHorizon == time <= MaxTime
=============================================================================
