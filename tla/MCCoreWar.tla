----------------------------- MODULE MCCoreWar ------------------------------
EXTENDS CoreWar, TLC

I(op, a, am, b, bm) == [opcode |-> op, a |-> a, a_mode |-> am, b |-> b, b_mode |-> bm]

\* Any instruction, and some programs.
AnyInstr == {I(op, a, am, b, bm) : op \in 0 .. 19, a \in {-1, 2}, am \in 0 .. 3,
                                   b \in {-1, 0, 3, 4}, bm \in 0 .. 3}
Imp      == <<I(Op.MOV, 0, Mem, 1, Mem)>>
Back     == I(Op.JMP, -1, Mem, 0, Mem)
Splits   == <<I(Op.SPL, 1, Mem, 0, Mem), I(Op.NOP, 0, Mem, 0, Mem), Zero>>
Floods   == <<I(Op.SPL, 0, Mem, 0, Mem)>>

\* The second player starts with any instruction while the first one copies
\* itself or forks; or the first one comes to any instruction at its area's end.
AllLoads ==
  {(0 :> f) @@ (1 :> <<i>> \o g) :
     f \in {Imp, Splits, Floods}, g \in {<<>>, <<Back>>}, i \in AnyInstr}
  \cup {(0 :> <<I(Op.JMP, 3, Mem, 0, Mem), Zero, Back, i>>) @@ (1 :> Imp) : i \in AnyInstr}

\* The turns alone: core is NULL, instructions do anything, and games may be endless.
InitAny == /\ InitTurns
           /\ core = NULL /\ pc = [i \in Slot |-> 0] /\ cycle = 0
NextAny == core = NULL /\ NextTurn /\ UNCHANGED <<core, pc, cycle>>

NextMC == NextAny \/ (core # NULL /\ NextWar)
SpecMC == /\ InitWar \/ InitAny
          /\ [][NextMC]_warVars
          /\ WF_turnVars(NextTurn)

=============================================================================
