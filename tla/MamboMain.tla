----------------------------- MODULE MamboMain ------------------------------
(***************************************************************************)
(* The accepting process of mambo (main of mambo.c).  It derives a key     *)
(* from the flag and the number of connections so far, accepts, forks, and *)
(* derives a new one before it accepts again if the alarm has gone off.    *)
(* The child talks with the key its copy of regs holds.                    *)
(***************************************************************************)
EXTENDS Integers

CONSTANT Flag        \* contents of the flag file

VARIABLES
  pc,                \* "loop" before the test of shouldRekey, "accept", "exited"
  shouldRekey,
  alarm,             \* whether alarm(4) is pending
  flag,              \* what is in the flag file
  key,               \* of what regs is the hash: [flag, conns], NoKey at first
  numConnections,
  period,            \* how often a key was derived
  served             \* every connection: [id, key, period, late], late after the alarm

mainVars == <<pc, shouldRekey, alarm, flag, key, numConnections, period, served>>

NoKey == [flag |-> "none", conns |-> 0]

InitMain ==
  /\ pc = "loop" /\ shouldRekey = TRUE /\ alarm = FALSE
  /\ flag \in Flag /\ key = NoKey
  /\ numConnections = 0 /\ period = 0 /\ served = {}

\* Slip: only the flag makes the key.
doRekeyFlagOnly ==
  /\ pc = "loop" /\ shouldRekey
  /\ key' = [flag |-> flag, conns |-> 0]
  /\ shouldRekey' = FALSE /\ alarm' = TRUE
  /\ period' = period + 1
  /\ pc' = "accept"
  /\ UNCHANGED <<flag, numConnections, served>>

doRekey ==
  /\ pc = "loop" /\ shouldRekey
  /\ key' = [flag |-> flag, conns |-> numConnections]
  /\ shouldRekey' = FALSE /\ alarm' = TRUE
  /\ period' = period + 1
  /\ pc' = "accept"
  /\ UNCHANGED <<flag, numConnections, served>>

\* There is no flag file.
NoFlagFile ==
  /\ pc = "loop" /\ shouldRekey
  /\ pc' = "exited"
  /\ UNCHANGED <<shouldRekey, alarm, flag, key, numConnections, period, served>>

\* Slip: the loop does not test shouldRekey every time.
KeepKeyAnyway ==
  /\ pc = "loop" /\ period > 0
  /\ pc' = "accept"
  /\ UNCHANGED <<shouldRekey, alarm, flag, key, numConnections, period, served>>

KeepKey ==
  /\ pc = "loop" /\ ~shouldRekey
  /\ pc' = "accept"
  /\ UNCHANGED <<shouldRekey, alarm, flag, key, numConnections, period, served>>

\* A connection is accepted, and the child has what the parent had.  accept is
\* restarted after a signal; when it fails there is a child all the same.
Accept ==
  /\ pc = "accept"
  /\ served' = served \cup {[id |-> numConnections, key |-> key, period |-> period,
                             late |-> shouldRekey]}
  /\ numConnections' = numConnections + 1
  /\ pc' = "loop"
  /\ UNCHANGED <<shouldRekey, alarm, flag, key, period>>

ForkFails ==
  /\ pc = "accept"
  /\ pc' = "exited"
  /\ UNCHANGED <<shouldRekey, alarm, flag, key, numConnections, period, served>>

\* setRekey handles SIGALRM.
setRekey ==
  /\ alarm /\ pc # "exited"
  /\ alarm' = FALSE /\ shouldRekey' = TRUE
  /\ UNCHANGED <<pc, flag, key, numConnections, period, served>>

\* The organisers change the flag.
NewFlag ==
  /\ flag' \in Flag \ {flag}
  /\ UNCHANGED <<pc, shouldRekey, alarm, key, numConnections, period, served>>

NextMain == doRekey \/ NoFlagFile \/ KeepKey \/ Accept \/ ForkFails \/ setRekey \/ NewFlag

SpecMain == InitMain /\ [][NextMain]_mainVars
-----------------------------------------------------------------------------
\* Connections of different periods have different keys, although the flag may be the
\* same or come back: the key depends on the count, which only the parent advances.
FreshKeys == \A a, b \in served : a.key = b.key => a.period = b.period

\* A key is kept for one connection at most after its alarm has gone off: the signal
\* does not interrupt accept, but the loop comes back to the test.
OneLate == \A a, b \in served : a.late /\ b.late /\ a.period = b.period => a = b
=============================================================================
