------------------------------ MODULE Redcode -------------------------------
(***************************************************************************)
(* The processor of corewar-ni (cpu.c, execute_instruction of vm.c): what  *)
(* one instruction does to the core, to the program counter and to its     *)
(* process.  Everything is a function of the core, the player's area and   *)
(* the program counter.  Integers keep their widths, scaled by constants.  *)
(***************************************************************************)
EXTENDS Integers

CONSTANTS CORE_SIZE,
          Margin,        \* how far past its area a MOV may write, 10 in the code
          Behind,        \* bound: positions of memory behind the array
          ByteBits,      \* uint8_t: opcodes and modes
          FieldBits,     \* int16_t: the fields a and b
          AddrBits,      \* uint32_t: resolved operands
          SizeBits       \* size_t: differences to the start of a sub-area

ASSUME RedcodeAssumption ==
  /\ CORE_SIZE \in Nat \ {0} /\ Margin \in Nat \ {0} /\ Behind \in Nat \ {0}
  /\ ByteBits \in Nat \ {0} /\ FieldBits \in Nat \ {0}
  /\ AddrBits \in Nat /\ AddrBits > FieldBits
  /\ SizeBits \in Nat /\ SizeBits > AddrBits

\* What the provers do not know of powers.
ASSUME PowersAssumption ==
  /\ 2 ^ ByteBits > 0 /\ 2 ^ AddrBits > 0 /\ 2 ^ SizeBits > 0
  /\ 2 ^ (FieldBits - 1) > 0 /\ 2 ^ FieldBits = 2 * 2 ^ (FieldBits - 1)

Op == [DAT |-> 0, MOV |-> 1, ADD |-> 2, SUB |-> 3, MUL |-> 4, DIV |-> 5, MOD |-> 6,
       JMP |-> 7, JMZ |-> 8, JMN |-> 9, DJN |-> 10, SPL |-> 11, CMP |-> 12,
       SEQ |-> 13, SNE |-> 14, SLT |-> 15, LDP |-> 16, STP |-> 17, NOP |-> 18]
Mem == 0
Const == 1
Relative == 2

\* The array, and what an index past it reaches: the heap behind the VM object,
\* where the game keeps nothing.
Array == 0 .. CORE_SIZE + Margin - 1
Pos   == 0 .. CORE_SIZE + Margin + Behind - 1
Byte  == 0 .. 2 ^ ByteBits - 1
Field == -(2 ^ (FieldBits - 1)) .. 2 ^ (FieldBits - 1) - 1
Instr == [opcode : Byte, a : Field, a_mode : Byte, b : Field, b_mode : Byte]
Zero  == [opcode |-> 0, a |-> 0, a_mode |-> 0, b |-> 0, b_mode |-> 0]

ToByte(x)  == x % 2 ^ ByteBits
ToField(x) == ((x + 2 ^ (FieldBits - 1)) % 2 ^ FieldBits) - 2 ^ (FieldBits - 1)
Unsigned(x) == x % 2 ^ AddrBits

\* What is in the core; further behind the array nothing is known, so nothing is read.
Cell(core, p) == IF p \in DOMAIN core THEN core[p] ELSE Zero
-----------------------------------------------------------------------------
(* Positions.  area is [start, end, size] of the player.                   *)

\* Into the sub-area of the program counter, which is the player's own or one it
\* has crossed into.
Near(area, pc, x) ==
  LET start == (pc \div area.size) * area.size
  IN  Unsigned((((x - start) % 2 ^ SizeBits) % area.size) + start)

\* W: into the player's area.
Wrap(area, x) == Unsigned((Unsigned(x - area.start) % area.size) + area.start)

\* CH and CH2: what is at the end goes to the start.
CheckEnd(area, x)    == IF x = area.end THEN area.start ELSE x
CheckEndTwo(area, x) == IF x = area.end + 1 THEN area.start + 1 ELSE x

\* Slip: a skip at the last instruction of the area is not checked.
SkipUnchecked(area, pc) == CheckEnd(area, Unsigned(pc + 2))

Advance1(area, pc) == CheckEnd(area, Unsigned(pc + 1))
Skip(area, pc) == CheckEndTwo(area, CheckEnd(area, Unsigned(pc + 2)))

\* RESOLVE_A and RESOLVE_B of an operand x, for a relative one through field f.
Resolve(core, area, pc, x, mode, f) ==
  LET p == Near(area, pc, Unsigned(x + pc))
  IN  CASE mode = Mem      -> p
        [] mode = Relative -> Near(area, pc, Unsigned(Cell(core, p)[f] + p))
        [] OTHER           -> Unsigned(x)

\* Slip: the difference to the end of the area is signed.
InMarginSigned(area, p) == p - area.end <= Margin

\* exec_mov lets its destination lie a little past the area.
InMargin(area, p) == Unsigned(p - area.end) <= Margin
Destination(core, area, pc) ==
  LET i == core[pc]
      b == Unsigned(i.b + pc)
      Kept(p) == IF InMargin(area, p) THEN p ELSE Near(area, pc, p)
  IN  IF i.b_mode = Mem THEN Kept(b % CORE_SIZE)
      ELSE LET p == Near(area, pc, b) IN Kept(Unsigned(Cell(core, p).b + p))
-----------------------------------------------------------------------------
(* Arithmetic, field by field.                                             *)

Abs(x) == IF x < 0 THEN -x ELSE x
Quotient(x, y) == IF (x < 0) = (y < 0) THEN Abs(x) \div Abs(y) ELSE -(Abs(x) \div Abs(y))

Compute(opcode, x, y) ==
  CASE opcode = Op.ADD -> x + y
    [] opcode = Op.SUB -> x - y
    [] opcode = Op.MUL -> x * y
    [] opcode = Op.DIV -> Quotient(x, y)
    [] opcode = Op.MOD -> x - y * Quotient(x, y)

ComputeInstr(opcode, i, j) ==
  [opcode |-> ToByte(Compute(opcode, i.opcode, j.opcode)),
   a      |-> ToField(Compute(opcode, i.a, j.a)),
   a_mode |-> ToByte(Compute(opcode, i.a_mode, j.a_mode)),
   b      |-> ToField(Compute(opcode, i.b, j.b)),
   b_mode |-> ToByte(Compute(opcode, i.b_mode, j.b_mode))]

\* A field and an operand of type uint32_t.
ComputeField(opcode, i, x) ==
  [i EXCEPT !.b = ToField(Compute(opcode, Unsigned(i.b), x))]

Divides(opcode) == opcode \in {Op.DIV, Op.MOD}
HasZero(i) == \E f \in DOMAIN i : i[f] = 0
-----------------------------------------------------------------------------
(* One instruction: what becomes of the core, the program counter and the  *)
(* process, and the location of a process it forks, or -1.                 *)

Stays(core, pc) == [core |-> core, pc |-> pc, dead |-> FALSE, fork |-> -1]
Dead(core, pc)  == [Stays(core, pc) EXCEPT !.dead = TRUE]
Goto(core, p)   == Stays(core, p)
On(core, area, pc) == Goto(core, Advance1(area, pc))

\* No index is compared with the size of the array.
Write(core, area, pc, p, x) ==
  On(IF p \in DOMAIN core THEN [core EXCEPT ![p] = x] ELSE core, area, pc)

\* What RESOLVE_A, RESOLVE_B and RESOLVE_B_INSB leave in a, ins, b and ins_b.
OperandA(core, area, pc) ==
  LET i == Cell(core, pc) IN Resolve(core, area, pc, i.a, i.a_mode, "a")
OperandB(core, area, pc) ==
  LET i == Cell(core, pc) IN Resolve(core, area, pc, i.b, i.b_mode, "b")
Ins(core, area, pc) ==
  IF Cell(core, pc).a_mode = Mem THEN Cell(core, OperandA(core, area, pc)) ELSE Zero
InsB(core, area, pc) ==
  LET i == Cell(core, pc)
  IN  IF i.b_mode = Mem THEN Cell(core, Wrap(area, Unsigned(i.b + pc))) ELSE Zero

Legal(mode) == mode \in {Mem, Const, Relative}

Move(core, area, pc) ==
  LET i == Cell(core, pc)
  IN  IF ~Legal(i.a_mode) \/ i.b_mode \notin {Mem, Relative} THEN Dead(core, pc)
      ELSE Write(core, area, pc, Destination(core, area, pc), Ins(core, area, pc))

Calculate(core, area, pc) ==
  LET i   == Cell(core, pc)
      A   == OperandA(core, area, pc)
      B   == OperandB(core, area, pc)
      ins == Ins(core, area, pc)
  IN  IF ~Legal(i.a_mode) \/ ~Legal(i.b_mode) THEN Dead(core, pc)
      ELSE IF i.b_mode = Const THEN Stays(core, pc)
      ELSE IF i.a_mode = Relative THEN Dead(core, pc)
      ELSE IF Divides(i.opcode) /\ (IF i.a_mode = Mem THEN HasZero(ins) ELSE A = 0)
      THEN Dead(core, pc)
      ELSE Write(core, area, pc, B,
                 IF i.a_mode = Mem THEN ComputeInstr(i.opcode, Cell(core, B), ins)
                 ELSE ComputeField(i.opcode, Cell(core, B), A))

Jump(core, area, pc) ==
  LET mode == Cell(core, pc).a_mode
  IN  IF ~Legal(mode) \/ mode = Const THEN Dead(core, pc)
      ELSE Goto(core, Near(area, pc, OperandA(core, area, pc)))

JumpIf(cond, next, core, area, pc) ==
  LET i == Cell(core, pc)
  IN  IF ~Legal(i.a_mode) \/ ~Legal(i.b_mode) \/ i.a_mode = Const THEN Dead(core, pc)
      ELSE Goto(core, IF cond THEN Wrap(area, OperandA(core, area, pc)) ELSE next)

Decrement(core, area, pc) ==
  LET i   == Cell(core, pc)
      dec == [core EXCEPT ![pc].b = ToField(@ - 1)]
      p   == Wrap(area, Unsigned(dec[pc].b + pc))
      b   == CASE i.b_mode = Mem   -> p
               [] i.b_mode = Const -> Unsigned(dec[pc].b)
               [] OTHER            -> Wrap(area, Unsigned(Cell(dec, p).b + p))
  IN  IF ~Legal(i.a_mode) \/ ~Legal(i.b_mode) THEN Dead(core, pc)
      ELSE Goto(dec, IF b = 0 THEN Wrap(area, OperandA(core, area, pc)) ELSE Advance1(area, pc))

Split(core, area, pc) ==
  IF Legal(Cell(core, pc).a_mode)
  THEN [Stays(core, pc) EXCEPT !.fork = OperandA(core, area, pc)] ELSE Dead(core, pc)

\* What a comparison compares: a whole instruction, one's field or a number.
Equal(core, area, pc) ==
  LET i == Cell(core, pc)
      A == OperandA(core, area, pc)
  IN  CASE i.a_mode = Mem /\ i.b_mode = Mem -> Ins(core, area, pc) = InsB(core, area, pc)
        [] i.a_mode = Mem /\ i.b_mode # Mem -> Unsigned(Ins(core, area, pc).b) = A
        [] i.a_mode # Mem /\ i.b_mode = Mem -> A = Unsigned(InsB(core, area, pc).b)
        [] OTHER -> A = OperandB(core, area, pc)
Less(core, area, pc) ==
  LET i == Cell(core, pc)
      A == OperandA(core, area, pc)
  IN  IF i.a_mode = Mem THEN Unsigned(Ins(core, area, pc).b) < A
      ELSE A < IF i.b_mode = Mem THEN Unsigned(InsB(core, area, pc).b)
               ELSE OperandB(core, area, pc)

SkipIf(cond, to, core, area, pc) ==
  LET i == Cell(core, pc)
  IN  IF i.a_mode \notin {Mem, Const} \/ i.b_mode \notin {Mem, Const} THEN Dead(core, pc)
      ELSE IF cond THEN Goto(core, to) ELSE On(core, area, pc)

SkipIfLess(core, area, pc) ==
  LET i == Cell(core, pc)
  IN  IF i.a_mode = Mem /\ i.b_mode = Mem THEN Dead(core, pc)
      ELSE SkipIf(Less(core, area, pc), Skip(area, pc), core, area, pc)

\* JMZ and SEQ go on past the end of the area.
Past(n, pc) == Unsigned(pc + n) % CORE_SIZE

\* Execution of the instruction at pc.
Execute(core, area, pc) ==
  LET op == Cell(core, pc).opcode
      B  == OperandB(core, area, pc)
  IN  CASE op = Op.MOV -> Move(core, area, pc)
        [] op \in {Op.ADD, Op.SUB, Op.MUL, Op.DIV, Op.MOD} -> Calculate(core, area, pc)
        [] op = Op.JMP -> Jump(core, area, pc)
        [] op = Op.JMZ -> JumpIf(B = 0, Past(1, pc), core, area, pc)
        [] op = Op.JMN -> JumpIf(B # 0, Advance1(area, pc), core, area, pc)
        [] op = Op.DJN -> Decrement(core, area, pc)
        [] op = Op.SPL -> Split(core, area, pc)
        [] op = Op.CMP -> SkipIf(Equal(core, area, pc), Skip(area, pc), core, area, pc)
        [] op = Op.SEQ -> SkipIf(Equal(core, area, pc), Past(2, pc), core, area, pc)
        [] op = Op.SNE -> SkipIf(~Equal(core, area, pc), Skip(area, pc), core, area, pc)
        [] op = Op.SLT -> SkipIfLess(core, area, pc)
        [] op \in {Op.LDP, Op.STP} -> Stays(core, pc)
        [] op = Op.NOP -> On(core, area, pc)
        [] OTHER -> Dead(core, pc)
=============================================================================
