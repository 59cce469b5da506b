---------------------------- MODULE CoreWarTurns ----------------------------
(***************************************************************************)
(* run_game and create_process of corewar-ni's vm.c: players take turns,   *)
(* and in a turn one process of the player executes one instruction, which *)
(* may kill it or fork another.  What the instruction does to the core is  *)
(* in CoreWar.  The count of cycles up to MAX_CYCLE is left out here: any  *)
(* cycle may be the last.                                                  *)
(***************************************************************************)
EXTENDS Integers, Sequences, FiniteSets

CONSTANTS NumPlayers,
          MAX_PROCESSES,
          ProcMax,       \* the largest current_procs, an int8_t: 127 in the code
          NULL

ASSUME TurnsAssumption == /\ NumPlayers \in Nat \ {0, 1}
                          /\ MAX_PROCESSES \in Nat /\ NumPlayers <= MAX_PROCESSES
                          /\ ProcMax \in Nat \ {0}
                          /\ NULL \notin Nat

VARIABLES
  proc_ids,          \* the entries of proc_ids in use
  current_procs,
  next_proc_offset,
  owner,             \* owner[i] = processes[i].player, or NULL
  state,             \* state[i] = processes[i].state
  turn,              \* whose turn it is, NumPlayers at the end of a cycle
  alive_players,
  result,            \* what run_game printed: "none", "tie", "won" or "unexpected"
  last_alive_player

turnVars == <<proc_ids, current_procs, next_proc_offset, owner, state, turn,
              alive_players, result, last_alive_player>>

Player == 0 .. NumPlayers - 1
Slot   == 0 .. MAX_PROCESSES - 1

\* What is in current_procs for a count of at most ProcMax + 1.
Signed(n) == IF n > ProcMax THEN n - 2 * (ProcMax + 1) ELSE n

InitTurns ==
  /\ proc_ids = [p \in Player |-> <<p>>]
  /\ current_procs = [p \in Player |-> 1]
  /\ next_proc_offset = [p \in Player |-> 0]
  /\ owner = [i \in Slot |-> IF i \in Player THEN i ELSE NULL]
  /\ state = [i \in Slot |-> IF i \in Player THEN "ACTIVE" ELSE "NONEXIST"]
  /\ turn = 0 /\ alive_players = 0 /\ result = "none"
  /\ last_alive_player = -1

Lives(p)   == current_procs[p] > 0
Plays(p)   == result = "none" /\ turn = p /\ Lives(p)
Current(p) == proc_ids[p][next_proc_offset[p] + 1]

\* The entries after the k-th move down.
Removed(ids, k) ==
  [j \in 1 .. Len(ids) - 1 |-> IF j < k THEN ids[j] ELSE ids[j + 1]]

\* create_process takes the first slot that never had a player.
Free  == {i \in Slot : owner[i] = NULL}
Fresh == CHOOSE i \in Free : \A j \in Free : i <= j

\* Slip: the offset stays after a removal.
AdvanceUnlessRemoved(p, count) ==
  next_proc_offset' = [next_proc_offset EXCEPT ![p] =
    IF count # 0 /\ count >= current_procs[p] THEN (@ + 1) % count ELSE @]

\* The end of a turn: the next process is the one after the offset.
Advance(p, count) ==
  next_proc_offset' = [next_proc_offset EXCEPT ![p] =
    IF count # 0 THEN (@ + 1) % count ELSE @]

\* The process goes on; also when a fork was refused.
GoesOn(p) ==
  /\ Plays(p) /\ state[Current(p)] # "DEAD"
  /\ Advance(p, current_procs[p])
  /\ turn' = turn + 1 /\ alive_players' = alive_players + 1
  /\ UNCHANGED <<proc_ids, current_procs, owner, state, result, last_alive_player>>

\* Slip: the slot of a process that died is given away again.
DiesFreeingSlot(p) ==
  /\ Plays(p)
  /\ proc_ids' = [proc_ids EXCEPT ![p] = Removed(@, next_proc_offset[p] + 1)]
  /\ current_procs' = [current_procs EXCEPT ![p] = @ - 1]
  /\ state' = [state EXCEPT ![Current(p)] = "NONEXIST"]
  /\ owner' = [owner EXCEPT ![Current(p)] = NULL]
  /\ Advance(p, current_procs'[p])
  /\ turn' = turn + 1
  /\ alive_players' = IF current_procs'[p] = 0 THEN alive_players ELSE alive_players + 1
  /\ UNCHANGED <<result, last_alive_player>>

\* Slip: a player that lost its last process still counts.
DiesCounted(p) ==
  /\ Plays(p)
  /\ proc_ids' = [proc_ids EXCEPT ![p] = Removed(@, next_proc_offset[p] + 1)]
  /\ current_procs' = [current_procs EXCEPT ![p] = @ - 1]
  /\ state' = [state EXCEPT ![Current(p)] = "DEAD"]
  /\ Advance(p, current_procs'[p])
  /\ turn' = turn + 1 /\ alive_players' = alive_players + 1
  /\ UNCHANGED <<owner, result, last_alive_player>>

\* The process dies, and leaves the list.
Dies(p) ==
  /\ Plays(p)
  /\ proc_ids' = [proc_ids EXCEPT ![p] = Removed(@, next_proc_offset[p] + 1)]
  /\ current_procs' = [current_procs EXCEPT ![p] = @ - 1]
  /\ state' = [state EXCEPT ![Current(p)] = "DEAD"]
  /\ Advance(p, current_procs'[p])
  /\ turn' = turn + 1
  /\ alive_players' = IF current_procs'[p] = 0 THEN alive_players ELSE alive_players + 1
  /\ UNCHANGED <<owner, result, last_alive_player>>

\* The process forks another one.  A count that wrapped to -128 divides the offset
\* as 128 does.
Forks(p) ==
  /\ Plays(p) /\ state[Current(p)] = "ACTIVE" /\ Free # {}
  /\ owner' = [owner EXCEPT ![Fresh] = p]
  /\ state' = [state EXCEPT ![Fresh] = "ACTIVE"]
  /\ proc_ids' = [proc_ids EXCEPT ![p] = Append(@, Fresh)]
  /\ current_procs' = [current_procs EXCEPT ![p] = Signed(@ + 1)]
  /\ Advance(p, Len(proc_ids'[p]))
  /\ turn' = turn + 1 /\ alive_players' = alive_players + 1
  /\ UNCHANGED <<result, last_alive_player>>

\* A player without processes.
Passes(p) ==
  /\ result = "none" /\ turn = p /\ ~Lives(p)
  /\ turn' = turn + 1
  /\ UNCHANGED <<proc_ids, current_procs, next_proc_offset, owner, state,
                 alive_players, result, last_alive_player>>

\* The end of a cycle.
EndCycle(last) ==
  LET living == {p \in Player : Lives(p)}
  IN  /\ result = "none" /\ turn = NumPlayers
      /\ turn' = 0 /\ alive_players' = 0
      /\ result' = CASE alive_players = 0 -> "tie"
                     [] alive_players = 1 -> IF Cardinality(living) > 1
                                             THEN "unexpected" ELSE "won"
                     [] OTHER -> IF last THEN "tie" ELSE "none"
      /\ last_alive_player' \in IF result' = "won" /\ living # {} THEN living
                               ELSE {last_alive_player}
      /\ UNCHANGED <<proc_ids, current_procs, next_proc_offset, owner, state>>

\* run_game returns.
GameOver == result # "none" /\ UNCHANGED turnVars

NextTurn ==
  \/ \E p \in Player : GoesOn(p) \/ Dies(p) \/ Forks(p) \/ Passes(p)
  \/ \E last \in BOOLEAN : EndCycle(last)
  \/ GameOver

SpecTurns == InitTurns /\ [][NextTurn]_turnVars /\ WF_turnVars(NextTurn)
-----------------------------------------------------------------------------
\* The types of the members of PLAYER and PROCESS.
TurnsTypeOK ==
  /\ proc_ids \in [Player -> Seq(Slot)]
  /\ current_procs \in [Player -> -(ProcMax + 1) .. ProcMax]
  /\ next_proc_offset \in [Player -> Nat]
  /\ owner \in [Slot -> Player \cup {NULL}]
  /\ state \in [Slot -> {"NONEXIST", "ACTIVE", "DEAD"}]
  /\ turn \in 0 .. NumPlayers /\ alive_players \in 0 .. NumPlayers
  /\ result \in {"none", "tie", "won", "unexpected"}
  /\ last_alive_player \in Player \cup {-1}

\* The list of a player has current_procs entries, the offset is one of them, and
\* the entries are its living processes, each once: removals shift the list, forks
\* extend it and the offset is reduced by a count that has just changed.
ProcIdsSound ==
  \A p \in Player :
    /\ current_procs[p] = Signed(Len(proc_ids[p]))
    /\ Lives(p) => next_proc_offset[p] < current_procs[p]
    /\ \A i \in Slot : owner[i] = p /\ state[i] = "ACTIVE"
                         <=> \E k \in 1 .. Len(proc_ids[p]) : proc_ids[p][k] = i
    /\ \A j, k \in 1 .. Len(proc_ids[p]) :
         proc_ids[p][j] = proc_ids[p][k] => j = k

\* As long as no count has wrapped, the end of the game is right: a cycle counts
\* the living players, a winner is the only one, and two are never taken for one.
ResultRight ==
  (\A p \in Player : current_procs[p] >= 0) =>
    /\ turn = NumPlayers => alive_players = Cardinality({p \in Player : Lives(p)})
    /\ result # "unexpected"
    /\ result = "won" => \A p \in Player : Lives(p) <=> p = last_alive_player

\* Every process of a living player has its turn again: a process is passed over
\* each time one before it is removed, but slots are never given away twice, so
\* that cannot go on.
EveryProcessRuns ==
  \A i \in Slot :
    state[i] = "ACTIVE" ~>
      \/ result # "none" \/ state[i] # "ACTIVE"
      \/ owner[i] \in Player /\ \/ ~Lives(owner[i])
                                \/ turn = owner[i] /\ Current(owner[i]) = i
=============================================================================
