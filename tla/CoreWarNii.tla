----------------------------- MODULE CoreWarNii -----------------------------
(***************************************************************************)
(* corewar-nii (vm.cpp): one process per player, each on an x86 CPU of its *)
(* own with its own stack, all of them in one arena.  Players take turns;  *)
(* a turn is one instruction.  No process is ever added, so that a player  *)
(* has its one process or none, and next_proc_offset stays 0.              *)
(***************************************************************************)
EXTENDS X86Exec

CONSTANTS NumPlayers,
          MAX_CYCLE,
          Loads,         \* the players' programs, after the decryption of their files
          Offsets,       \* values of the random_offset argument
          FlagWords,     \* the flag, as the double words pushed for player 0
          Leftovers,     \* what may be in an InstrData before a turn
          Unset          \* what a new CPU may hold: [eflags, halted]

ASSUME NiiAssumption == /\ NumPlayers \in Nat \ {0, 1}
                        /\ MAX_CYCLE \in Nat \ {0}
                        /\ Offsets \subseteq Nat
                        /\ \A load \in Loads, p \in 0 .. NumPlayers - 1 : load[p] \in Seq(Byte)
                        /\ FlagWords \in Seq(0 .. 2 * DHalf - 1)
                        /\ Leftovers \subseteq [modrm : Byte, sib : Byte, repeat : 0 .. 3]
                        /\ Leftovers # {}
                        /\ Unset \subseteq [eflags : SUBSET (0 .. DBits - 1), halted : BOOLEAN]

VARIABLES
  arena,
  cpus,            \* cpus[p], the CPU of p's process; what is left of it once it died
  current_procs,
  cycle,           \* i
  player_id,       \* whose turn it is, NumPlayers at the end of a cycle
  alive_players,
  result,          \* "none", "tie", "won", "unexpected", or what ended the program
  last_alive_player

vars == <<arena, cpus, current_procs, cycle, player_id, alive_players, result, last_alive_player>>

Player == 0 .. NumPlayers - 1

\* load_program
StartPos(p, offset) ==
  ((CORE_SIZE \div NumPlayers) * p + (IF p # 0 THEN offset ELSE 0)) % CORE_SIZE

\* The arena after the first n players' programs; what runs over its end is lost.
Loaded(n, load, offset) ==
  LET f[k \in 0 .. n] ==
        IF k = 0 THEN [a \in 0 .. CORE_SIZE - 1 |-> 204]
        ELSE LET at == StartPos(k - 1, offset) IN
             [a \in 0 .. CORE_SIZE - 1 |->
                IF a - at \in 0 .. Len(load[k - 1]) - 1 THEN load[k - 1][a - at + 1]
                ELSE f[k - 1][a]]
  IN  f[n]

\* The flag is pushed eight times.
FlagStack ==
  LET f[k \in 0 .. 8] == IF k = 0 THEN <<>> ELSE f[k - 1] \o FlagWords IN f[8]

\* The constructor sets neither eflags nor b_halted.
NewCpu(p, offset, unset) ==
  [reg |-> [r \in Registers |-> 0], eip |-> StartPos(p, offset), eflags |-> unset.eflags,
   stack |-> IF p = 0 THEN FlagStack ELSE <<>>, halted |-> unset.halted]

Init ==
  /\ \E load \in Loads, offset \in Offsets, unset \in [Player -> Unset] :
       /\ arena = Loaded(NumPlayers, load, offset)
       /\ cpus = [p \in Player |-> NewCpu(p, offset, unset[p])]
  /\ current_procs = [p \in Player |-> 1]
  /\ cycle = 0 /\ player_id = 0 /\ alive_players = 0
  /\ result = "none" /\ last_alive_player = -1

Lives(p) == current_procs[p] > 0
Plays(p) == result = "none" /\ player_id = p /\ Lives(p)

\* What p's CPU and the arena are for exec.
Machine(p) ==
  [reg |-> cpus[p].reg, eip |-> cpus[p].eip, eflags |-> cpus[p].eflags,
   stack |-> cpus[p].stack, halted |-> cpus[p].halted, arena |-> arena, fate |-> "runs"]

\* One instruction.  A CPU that has halted takes its process with it.
Turn(p) ==
  /\ Plays(p)
  /\ \E old \in Leftovers : \E m \in {Step(Machine(p), old)} :
       /\ arena' = m.arena
       /\ cpus' = [cpus EXCEPT ![p] = [reg |-> m.reg, eip |-> m.eip, eflags |-> m.eflags,
                                       stack |-> m.stack, halted |-> m.halted]]
       /\ IF m.fate = "runs"
          THEN /\ current_procs' = [current_procs EXCEPT ![p] = IF m.halted THEN 0 ELSE 1]
               /\ player_id' = player_id + 1
               /\ alive_players' = alive_players + 1
               /\ result' = result
          ELSE /\ result' = IF m.fate = "hung" THEN "hung" ELSE "crashed"
               /\ UNCHANGED <<current_procs, player_id, alive_players>>
  /\ UNCHANGED <<cycle, last_alive_player>>

NoTurn(p) ==
  /\ result = "none" /\ player_id = p /\ p \in Player /\ ~Lives(p)
  /\ player_id' = player_id + 1
  /\ UNCHANGED <<arena, cpus, current_procs, cycle, alive_players, result, last_alive_player>>

\* Slip: last_alive_player starts at 0.
EndCycleFromZero ==
  LET living == {p \in Player : Lives(p)} IN
  /\ result = "none" /\ player_id = NumPlayers
  /\ CASE alive_players = 0 -> result' = "tie" /\ UNCHANGED last_alive_player
       [] alive_players = 1 ->
            /\ result' = "won"
            /\ last_alive_player' = IF living = {} THEN 0 ELSE CHOOSE p \in living : TRUE
       [] OTHER -> /\ result' = IF cycle = MAX_CYCLE - 1 THEN "tie" ELSE "none"
                   /\ UNCHANGED last_alive_player
  /\ IF result' = "none" THEN player_id' = 0 /\ alive_players' = 0 /\ cycle' = cycle + 1
     ELSE UNCHANGED <<player_id, alive_players, cycle>>
  /\ UNCHANGED <<arena, cpus, current_procs>>

\* The end of a cycle: who played in it is counted, who still lives is looked for.
EndCycle ==
  LET living == {p \in Player : Lives(p)} IN
  /\ result = "none" /\ player_id = NumPlayers
  /\ CASE alive_players = 0 -> result' = "tie" /\ UNCHANGED last_alive_player
       [] alive_players = 1 ->
            IF \E p, q \in living : p # q
            THEN result' = "unexpected" /\ UNCHANGED last_alive_player
            ELSE /\ result' = "won"
                 /\ last_alive_player' = IF living = {} THEN -1 ELSE CHOOSE p \in living : TRUE
       [] OTHER -> /\ result' = IF cycle = MAX_CYCLE - 1 THEN "tie" ELSE "none"
                   /\ UNCHANGED last_alive_player
  /\ IF result' = "none" THEN player_id' = 0 /\ alive_players' = 0 /\ cycle' = cycle + 1
     ELSE UNCHANGED <<player_id, alive_players, cycle>>
  /\ UNCHANGED <<arena, cpus, current_procs>>

Next == EndCycle \/ \E p \in Player : Turn(p) \/ NoTurn(p)

Spec == Init /\ [][Next]_vars
-----------------------------------------------------------------------------
(* What should hold.                                                       *)

\* run_game announces the one player who lives; or player -1, when the last two
\* died in the last cycle and the one before; or a tie of all or of none.
ResultSound ==
  /\ result # "unexpected"
  /\ result = "won" => \A p \in Player : Lives(p) <=> p = last_alive_player
  /\ result = "tie" => \/ \A p \in Player : ~Lives(p)
                       \/ cycle = MAX_CYCLE - 1 /\ alive_players > 1
  /\ result \in {"none", "crashed", "hung"} => last_alive_player = -1

\* What the instruction p is about to execute reads.
Due(p, old) == Parse(arena, cpus[p].eip, old)
Grouped(op) == op \in 128 .. 131
Operation(d) == IF d.opcode < 64 THEN d.opcode \div 8 ELSE Reg(d.modrm)
IsAlu(d) == Grouped(d.opcode) \/ (/\ d.opcode < 64 /\ d.opcode % 8 < 6
                                  /\ d.opcode \div 8 \in {0, 1, 4, 5, 6, 7})
Left(d)  == IF Grouped(d.opcode) \/ d.opcode % 8 < 2 THEN "rm"
            ELSE IF d.opcode % 8 < 4 THEN "r" ELSE "acc"
Right(d) == IF Grouped(d.opcode) \/ d.opcode % 8 > 3 THEN "imm"
            ELSE IF d.opcode % 8 < 2 THEN "r" ELSE "rm"
WidthDue(d) == IF d.opcode % 2 = 0 THEN 1 ELSE NB

LeftDue(p, d)  == Get(Machine(p), d, Left(d), WidthDue(d))
RightDue(p, d) == InWidth(Get(Machine(p), d, Right(d), WidthDue(d)), HalfOf(WidthDue(d)))
FlagsAfter(p, old) == Step(Machine(p), old).eflags

DifferenceTold(a, b, H, f) ==
  /\ Holds(2, f)  <=> a < b
  /\ Holds(4, f)  <=> a = b
  /\ Holds(6, f)  <=> a <= b
  /\ Holds(12, f) <=> WithSign(a, H) < WithSign(b, H)
  /\ Holds(14, f) <=> WithSign(a, H) <= WithSign(b, H)
SumTold(a, b, H, f) ==
  /\ Holds(2, f) <=> a + b >= 2 * H
  /\ Holds(0, f) <=> WithSign(a, H) + WithSign(b, H) \notin -H .. H - 1
  /\ Holds(4, f) <=> a = 0 /\ b = 0

\* After a comparison or a subtraction the conditions of jcc and setcc say how the
\* operands compare, with and without their signs, in every form and width.
ComparesRight ==
  \A p \in Player, old \in Leftovers : Plays(p) =>
    \A d \in {Due(p, old)} :
      IsAlu(d) /\ Operation(d) \in {5, 7} =>
        DifferenceTold(LeftDue(p, d), RightDue(p, d), HalfOf(WidthDue(d)), FlagsAfter(p, old))

\* After an addition the carry says whether the sum left the width, the overflow
\* whether the signed sum did, and only a sum of 0 is told to be zero.
SumsRight ==
  \A p \in Player, old \in Leftovers : Plays(p) =>
    \A d \in {Due(p, old)} :
      IsAlu(d) /\ Operation(d) = 0 =>
        SumTold(LeftDue(p, d), RightDue(p, d), HalfOf(WidthDue(d)), FlagsAfter(p, old))

\* What is left in the InstrData matters only to the instructions that are known to
\* read it: xchg with eax, cmps, lea of a register, and memory addressed by a
\* register alone, whose length depends on the last SIB byte.
ReadsLeftovers(d) ==
  \/ d.opcode \in (145 .. 151) \cup {166, 167}
  \/ d.opcode = 141 /\ Mod(d.modrm) = 3 /\ RmOf(d.modrm) = 4
  \/ HasModRm(d.opcode) /\ Mod(d.modrm) = 0 /\ RmOf(d.modrm) \notin {4, 5}
LeftoversUnused ==
  \A p \in Player : Plays(p) =>
    LET some == CHOOSE x \in Leftovers : TRUE
    IN  ReadsLeftovers(Due(p, some)) \/ Cardinality({Step(Machine(p), x) : x \in Leftovers}) = 1
=============================================================================
