--------------------------- MODULE PeriodicTasks ---------------------------
(***************************************************************************)
(* What the kernel's scheduler promises a program, with none of its         *)
(* bookkeeping (no pools, status words, budgets or system calls): a set of  *)
(* periodic tasks, each with a job that is ready or done, and one CPU.      *)
(* Scheduler implements it.                                                 *)
(***************************************************************************)
EXTENDS Integers

CONSTANTS Idle, WordSize

VARIABLES
  mode,     \* "boot", "running" or "halted"
  now,      \* the clock, a word
  tasks,    \* the user tasks
  every,    \* their periods
  cpu,      \* the task that has the CPU, Idle, or -1 before the start
  ready,    \* the tasks whose job is not done
  due       \* the release time of a task's job: current if ready, else next

ptVars == <<mode, now, tasks, every, cpu, ready, due>>

Init ==
  /\ mode = "boot" /\ now = 0 /\ cpu = -1
  /\ tasks = {} /\ ready = {}
  /\ every = [p \in 0 .. Idle |-> 0]
  /\ due   = [p \in 0 .. Idle |-> 0]

\* A task is added, its first job released at time 0.
Add(p, T) ==
  /\ mode = "boot"
  /\ tasks' = tasks \cup {p} /\ ready' = ready \cup {p}
  /\ every' = [every EXCEPT ![p] = T]
  /\ due'   = [due EXCEPT ![p] = 0]
  /\ UNCHANGED <<mode, now, cpu>>

\* The idle task is set up: the clock of a program with no tasks.
AddIdle ==
  /\ mode = "boot"
  /\ every' = [every EXCEPT ![Idle] = 1]
  /\ due'   = [due EXCEPT ![Idle] = 0]
  /\ UNCHANGED <<mode, now, tasks, cpu, ready>>

\* The idle task gets the CPU; the task set is admitted, or main() goes on.
Start ==
  /\ mode = "boot"
  /\ cpu' = Idle
  /\ \/ mode' = "running" /\ now' = 0
     \/ UNCHANGED <<mode, now>>
  /\ UNCHANGED <<tasks, every, ready, due>>

\* The highest-priority tasks of S: at most one.
Top(S) == {p \in S : \A q \in S : p <= q}

\* One tick.  The job on the CPU may end (its task waits for the next period);
\* the tasks whose period begins become ready; the CPU goes to the
\* highest-priority ready task.  Straight after the end of a job the CPU may
\* instead idle for one tick when only lower-priority tasks are ready.
Tick(jobEnds) ==
  /\ mode = "running"
  /\ now' = (now + 1) % WordSize
  /\ due' = IF jobEnds THEN [due EXCEPT ![cpu] = (@ + every[cpu]) % WordSize]
                       ELSE due
  /\ LET unfinished == IF jobEnds THEN ready \ {cpu} ELSE ready
     IN  ready' = unfinished \cup {p \in tasks \ unfinished : now' >= due'[p]}
  /\ \/ cpu' \in Top(ready')
     \/ /\ cpu' = Idle
        /\ \/ ready' = {}
           \/ jobEnds /\ \A p \in ready' : cpu < p
  /\ UNCHANGED <<mode, tasks, every>>

Halt == /\ mode' = "halted"
        /\ UNCHANGED <<now, tasks, every, cpu, ready, due>>

Next ==
  \/ \E p \in 0 .. Idle - 1, T \in 0 .. WordSize - 1 : Add(p, T)
  \/ AddIdle
  \/ Start
  \/ \E jobEnds \in BOOLEAN : Tick(jobEnds)
  \/ Halt

Spec == Init /\ [][Next]_ptVars
=============================================================================
