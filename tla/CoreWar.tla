------------------------------ MODULE CoreWar -------------------------------
(***************************************************************************)
(* A game of corewar-ni: main and load_program of vm.c put the programs    *)
(* into the core, the turns of CoreWarTurns execute the instructions of    *)
(* Redcode.                                                                *)
(***************************************************************************)
EXTENDS Redcode, CoreWarTurns

CONSTANTS Loads,         \* the programs of the players, in every combination
          Offsets,       \* random_offset
          MAX_CYCLE

ASSUME WarAssumption ==
  /\ Loads \subseteq [Player -> Seq(Instr)] /\ Offsets \subseteq Nat
  /\ MAX_CYCLE \in Nat \ {0} /\ 2 * NumPlayers <= CORE_SIZE
  /\ CORE_SIZE + Margin + Behind < 2 ^ AddrBits

VARIABLES
  core,      \* vm->arena and the memory behind it
  pc,        \* registers[REG_PC] of every process
  cycle

warVars == <<core, pc, cycle, proc_ids, current_procs, next_proc_offset, owner,
             state, turn, alive_players, result, last_alive_player>>

AreaSize == CORE_SIZE \div NumPlayers
Area(p) == [start |-> AreaSize * p, end |-> AreaSize * (p + 1), size |-> AreaSize]
InArea(p, x) == Area(p).start <= x /\ x < Area(p).end

\* load_program: all but the first player start somewhere in their area, and a
\* program that starts near its end runs over it.
StartPos(p, offset) ==
  IF p = 0 THEN 0 ELSE (Area(p).start + (offset % AreaSize)) % CORE_SIZE

InitWar ==
  /\ InitTurns
  /\ \E load \in Loads, offset \in Offsets :
       LET At(p, q) == q - StartPos(p, offset) + 1
           Covers(p, q) == At(p, q) \in DOMAIN load[p]
           Last(q) == CHOOSE p \in Player : Covers(p, q) /\ \A o \in Player : Covers(o, q) => o <= p
       IN  /\ core = [q \in Pos |-> IF \E p \in Player : Covers(p, q)
                                    THEN load[Last(q)][At(Last(q), q)] ELSE Zero]
           /\ pc = [i \in Slot |-> IF i \in Player THEN StartPos(i, offset) ELSE 0]
  /\ cycle = 0

\* What the instruction of the current process yields.
Executed(p) == Execute(core, Area(p), pc[Current(p)])

Killed(p) ==
  /\ Plays(p) /\ Executed(p).dead /\ Dies(p)
  /\ UNCHANGED <<core, pc, cycle>>

\* create_process refuses a location outside the player's area, or when no slot is
\* left.
MayFork(p) == Executed(p).fork # -1 /\ InArea(p, Executed(p).fork) /\ Free # {}

Forked(p) ==
  /\ Plays(p) /\ ~Executed(p).dead /\ MayFork(p) /\ Forks(p)
  /\ core' = Executed(p).core
  /\ pc' = [pc EXCEPT ![Current(p)] = Executed(p).pc, ![Fresh] = Executed(p).fork]
  /\ UNCHANGED cycle

Stepped(p) ==
  /\ Plays(p) /\ ~Executed(p).dead /\ ~MayFork(p) /\ GoesOn(p)
  /\ core' = Executed(p).core
  /\ pc' = [pc EXCEPT ![Current(p)] = Executed(p).pc]
  /\ UNCHANGED cycle

Passed(p) == Passes(p) /\ UNCHANGED <<core, pc, cycle>>

CycleEnds == /\ EndCycle(cycle = MAX_CYCLE - 1)
             /\ cycle' = cycle + 1
             /\ UNCHANGED <<core, pc>>

Over == GameOver /\ UNCHANGED <<core, pc, cycle>>

NextWar ==
  \/ \E p \in Player : Killed(p) \/ Forked(p) \/ Stepped(p) \/ Passed(p)
  \/ CycleEnds \/ Over

SpecWar == InitWar /\ [][NextWar]_warVars
-----------------------------------------------------------------------------
\* A process in the area of its player stays there, forks included: every
\* instruction wraps its target or tests the end, but for the two whose comments
\* in cpu.c say that they cross it, cpu.c:440 and cpu.c:653.
StaysInArea ==
  [][\A i \in Slot :
       LET p == owner'[i]
       IN  p # NULL /\ pc'[i] # pc[i] /\ ~InArea(p, pc'[i])
             => owner[i] = p /\ \/ ~InArea(p, pc[i])
                                \/ core[pc[i]].opcode \in {Op.JMZ, Op.SEQ}]_warVars

\* A process in the area of its player changes nothing outside of it, but for a MOV:
\* that may "throw" at most 10 instructions past its end, cpu.c:120 says, and the
\* guard lets an eleventh through.  In the last area the eleventh is at the index after
\* the array, which only a relative operand can reach, as the other is cut to the core.
WritesNearArea ==
  [][core' # core => \A p \in Player :
       Plays(p) /\ InArea(p, pc[Current(p)]) =>
         LET i == core[pc[Current(p)]]
             eleventh == Area(p).end + Margin
         IN \A q \in Pos : core'[q] # core[q] =>
              \/ InArea(p, q)
              \/ i.opcode = Op.MOV /\ Area(p).end <= q /\ q < eleventh
              \/ /\ i.opcode = Op.MOV /\ q = eleventh
                 /\ q \in Array \/ (q = CORE_SIZE + Margin /\ i.b_mode = Relative)]_warVars
=============================================================================
