------------------------------- MODULE Kernel --------------------------------
(***************************************************************************)
(* Tasks under the round-robin scheduler and the files they share: each    *)
(* turn of Scheduler::Run is one system call or page fault of one task.    *)
(***************************************************************************)
EXTENDS RoundRobin, FileTables

kernelVars == <<schedVars, fileVars>>

InitKernel == InitSched /\ InitFiles

\* A call that concerns files.
CallsFile(s) == Enters(s) /\ GoesOn /\ FileCall(s)

\* A call or a page fault that changes nothing here: also a split that is refused or whose
\* clone fails.
CallsOther(s) == Enters(s) /\ GoesOn /\ CallFails(s)

\* Names that no task has, nor any table that was used or still is.
NewSpids == {s \in Spid \ threads : tables[s] = EmptyTable /\ \A t \in threads : tableOf[t] # s}

\* sys_split_proc: the child is ready before the parent goes on.
Splits(s) ==
  /\ CanScheduleMore /\ NewSpids # {}
  /\ Enters(s)
  /\ \E unshare \in BOOLEAN : CloneFiles(s, Min(NewSpids), unshare)
  /\ ScheduleThread(Min(NewSpids))

\* sys_exit, or a fault that is the guest's own: its files stay as they are.
Ends(s) == Enters(s) /\ Leaves(s) /\ CallFails(s)

\* ptrace or waitpid fails.
SwitchFails(s) == Enters(s) /\ Breaks /\ CallFails(s)

Turn(s) == CallsFile(s) \/ CallsOther(s) \/ Splits(s) \/ Ends(s) \/ SwitchFails(s)

NextKernel == (\E s \in Spid : Turn(s)) \/ (Done /\ UNCHANGED fileVars)

\* Fairness: a task that is entered makes a call or faults before long.  Nothing in this
\* build interrupts a guest that does neither, and Run waits for it.
SpecKernel == InitKernel /\ [][NextKernel]_kernelVars /\ WF_kernelVars(NextKernel)
-----------------------------------------------------------------------------
=============================================================================
