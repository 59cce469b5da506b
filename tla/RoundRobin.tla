----------------------------- MODULE RoundRobin ------------------------------
(***************************************************************************)
(* The scheduler of nivisor's build without CFS (Scheduler in              *)
(* scheduler.cpp): tasks in a vector, of which the one at cycle modulo the *)
(* size is entered for one call.                                           *)
(***************************************************************************)
EXTENDS Integers, SequencesExt

CONSTANTS
  NumTasks,         \* bounds the names of tasks
  MaxProcesses,     \* NIVISOR_MAX_PROCESSES
  CycleBits         \* uint32_t: cycle

\* m_last_spid only grows.  Here a spid is the name of a task, which another one may have
\* after it, so that there is no end to the tasks that a guest may split off.
Spid == 1 .. NumTasks

VARIABLES
  cycle,
  spids,            \* m_spids
  threads,          \* the keys of m_threads
  entered,          \* whom SwitchAndExec was last called for, 0 at first
  returned          \* whether Run has returned

schedVars == <<cycle, spids, threads, entered, returned>>

InitSched ==
  /\ cycle = 0 /\ spids = <<1>> /\ threads = {1}
  /\ entered = 0 /\ returned = FALSE

\* Slip: the task at the end is left out.
NextBeforeLast == spids[1 + (cycle % (IF Len(spids) > 1 THEN Len(spids) - 1 ELSE 1))]

NextSpid == spids[1 + (cycle % Len(spids))]

\* Run enters the task s.
Enters(s) ==
  /\ ~returned /\ threads # {}
  /\ s = NextSpid
  /\ entered' = s
  /\ cycle' = (cycle + 1) % 2 ^ CycleBits

\* SwitchAndExec returns NIVISOR_SUCCESS.
GoesOn == UNCHANGED <<spids, threads, returned>>

DescheduleThread(s) == threads' = threads \ {s} /\ spids' = Remove(spids, s)

\* NIVISOR_THREAD_EXIT or NIVISOR_FAULT.
Leaves(s) == DescheduleThread(s) /\ UNCHANGED returned

\* Any other error: Run returns, whatever tasks there are.
Breaks == returned' = TRUE /\ UNCHANGED <<spids, threads>>

CanScheduleMore == Cardinality(threads) < MaxProcesses

ScheduleThread(new) ==
  /\ threads' = threads \cup {new}
  /\ spids' = Append(spids, new)
  /\ UNCHANGED returned

\* No task is left.
Done ==
  /\ ~returned /\ threads = {}
  /\ returned' = TRUE
  /\ UNCHANGED <<cycle, spids, threads, entered>>
-----------------------------------------------------------------------------

\* A task that stays is entered again and again, although the place of every task in the
\* round moves with each death and each split.  Tasks that are split off and end again and
\* again may keep cycle off a place for long, whatever the size is by then, but not for
\* ever: when cycle has wrapped it is the index of each place in turn.
TasksAreEntered ==
  \A s \in Spid : s \in threads ~> entered = s \/ s \notin threads \/ returned
=============================================================================
