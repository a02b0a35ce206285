----------------------------- MODULE MCDrivers -----------------------------
(***************************************************************************)
(* A small instance of Drivers for TLC.                                     *)
(***************************************************************************)
EXTENDS Drivers, FiniteSets

CONSTANT MaxLit    \* how many pixels the client lights at a time

MCNoChannel == -1

\* The drivers meet in the pins only: once the ADC has been used, the display is
\* set up, reset and edited within bounds, and not drawn again.
Bounds ==
  /\ Cardinality(Picture) <= MaxLit
  /\ converting # NoChannel =>
       Picture = {} /\ oledCall \in {"none", "init"} /\ ~panicked
=============================================================================
