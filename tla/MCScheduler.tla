---------------------------- MODULE MCScheduler ----------------------------
(***************************************************************************)
(* Small instances of Scheduler for TLC.                                    *)
(***************************************************************************)
EXTENDS Scheduler

CONSTANT MaxTime    \* how long the runs that exclude a timer wrap look ahead

\* Task sets: (C, T) in ticks.  Three threads with C=1,T=4 or C=2,T=8 pass the
\* admission test (load 0.75), and overrunning by a tick each they overload
\* the CPU; C=1,T=2 is admitted with one of them, not with two.
MCTaskParams == {[C |-> 1, T |-> 2], [C |-> 1, T |-> 4], [C |-> 2, T |-> 8]}

\* Tasks for the run in which the timer word wraps, one of them degenerate: 0/0
\* is NaN, which the admission test accepts.
MCZeroParams == {[C |-> 0, T |-> 0], [C |-> 1, T |-> 3]}

MCSpinTimes == {2}
MCNoSpin == {}

\* State constraint: stay before the time at which the timer word wraps.
BeforeHorizon == time <= MaxTime
=============================================================================
