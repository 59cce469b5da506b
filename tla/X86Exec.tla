------------------------------- MODULE X86Exec ------------------------------
(***************************************************************************)
(* CPU::exec of corewar-nii: the moves, the stack, the jumps and the       *)
(* dispatch.  What is no case of the switch, or is one the emulator does   *)
(* not support (segments, ports, far jumps, the interrupt and direction    *)
(* flags), changes nothing; so does jmp rel32, which has no case.          *)
(***************************************************************************)
EXTENDS X86Cpu

\* xchg_r8_rm8 and xchg_r32_rm32: the address is computed again, after the register
\* has changed.
Xchg(m, i, w) ==
  SetRm(SetReg(m, Reg(i.modrm), w, GetRm(m, i, w)), i, w, GetReg(m, Reg(i.modrm), w))

\* xchg_r32_eax takes the register of the ModRM byte, which these opcodes do not have.
XchgEax(m, i) ==
  SetReg(SetReg(m, Reg(i.modrm), NB, m.reg[EAX]), EAX, NB, m.reg[Reg(i.modrm)])

WidthOf(opcode) == IF opcode % 2 = 0 THEN 1 ELSE NB

MovFamily(m, i, w) ==
  CASE i.opcode \in {136, 137} -> SetRm(m, i, w, GetReg(m, Reg(i.modrm), w))
    [] i.opcode \in {138, 139} -> SetReg(m, Reg(i.modrm), w, GetRm(m, i, w))
    [] i.opcode \in {198, 199} -> SetRm(m, i, w, i.imm)
    [] i.opcode \in {160, 161} -> SetReg(m, EAX, w, GetData(m.arena, i.moffs, w))
    [] i.opcode \in {162, 163} -> PutData(m, i.moffs, w, GetReg(m, EAX, w))

Lea(m, i) == SetReg(m, Reg(i.modrm), NB, CalcModRm(m, i))
Cwde(m)   == SetReg(m, EAX, NB, WithSign(GetReg(m, EAX, 2), HalfOf(2)))
Cdq(m)    == SetReg(m, EDX, NB, IF Sign(m.reg[EAX], DHalf) THEN -1 ELSE 0)

\* movzx and movsx
Extend(m, i) ==
  LET w == IF i.opcode \in {Two(182), Two(190)} THEN 1 ELSE 2
      v == GetRm(m, i, w)
  IN  SetReg(m, Reg(i.modrm), NB,
             IF i.opcode < Two(190) THEN v ELSE WithSign(v, HalfOf(w)))
-----------------------------------------------------------------------------
(* The stack.                                                              *)

PushAll(m) ==
  LET r == m.reg
  IN  [m EXCEPT !.stack = @ \o <<r[EAX], r[ECX], r[EDX], r[EBX], r[ESP], r[EBP], r[ESI], r[EDI]>>]

PopAll(m) ==
  LET low  == PopTo(PopTo(PopTo(m, EDI), ESI), EBP)
      high == PopTo(PopTo(PopTo(PopTo(Drop(low), EBX), EDX), ECX), EAX)
  IN  SetReg(high, ESP, NB, Top(low))

\* Flags as a double word, and a double word as flags.
FlagWord(f) ==
  LET g[k \in 0 .. DBits] == IF k = 0 THEN 0
                             ELSE g[k - 1] + (IF k - 1 \in f THEN Power(2, k - 1) ELSE 0)
  IN  g[DBits]
PushFlags(m) == Push(m, FlagWord(m.eflags))
PopFlags(m)  == [Drop(m) EXCEPT !.eflags = {k \in 0 .. DBits - 1 : Bit(Top(m), k)}]

Leave(m) == PopTo(SetReg(m, ESP, NB, m.reg[EBP]), EBP)
Ret(m)   == [Drop(m) EXCEPT !.eip = Top(m)]
Call(m, to) == [Push(m, m.eip) EXCEPT !.eip = Addr(to)]
-----------------------------------------------------------------------------
(* The rest.                                                               *)

Halt(m) == [m EXCEPT !.halted = TRUE]

\* int_imm8: exit.  The read and the write of the other two system calls reach the
\* host's memory, not the machine.  imm8 has a sign and is compared with 0x80.
Interrupt(m, i) == IF i.imm = 128 /\ m.reg[EAX] = 0 THEN Halt(m) ELSE m

\* cmps_m8_m8 and cmps_m32_m32: ESI and EDI become 1 or -1.  With the REPZ (1) that an
\* earlier instruction left, equal data are compared again for ever; with REPNZ (2),
\* different ones once more, when both addresses are the same.
CompareOnce(m, w) ==
  LET f  == SubFlags(m.eflags, GetData(m.arena, m.reg[ESI], w),
                               GetData(m.arena, m.reg[EDI], w), HalfOf(w))
      by == IF DF \in f THEN -1 ELSE 1
  IN  [SetReg(SetReg(m, ESI, NB, by), EDI, NB, by) EXCEPT !.eflags = f]
Compare(m, i, w) ==
  LET once == CompareOnce(m, w)
      zero == ZF \in once.eflags
  IN  CASE i.repeat = 0 -> once
        [] i.repeat = 1 /\ zero -> [once EXCEPT !.fate = "hung"]
        [] i.repeat = 2 /\ ~zero -> CompareOnce(SetReg(once, ECX, NB, -1), w)
        [] OTHER -> SetReg(once, ECX, NB, -1)

\* setcc writes all of the register, whatever the mod field says.
SetCc(m, i) == SetReg(m, RmOf(i.modrm), NB, IF Holds(i.opcode % 16, m.eflags) THEN 1 ELSE 0)
Jcc(m, i)   == IF Holds(i.opcode % 16, m.eflags) THEN Jump(m, i.imm) ELSE m

CallRm(m, i) == Call(m, GetRm(m, i, NB))
JmpRm(m, i)  == [m EXCEPT !.eip = GetRm(m, i, NB)]
PushRm(m, i) == Push(m, GetRm(m, i, NB))

\* code_ff
CodeFf(m, i) == CASE Reg(i.modrm) = 0 -> BumpRm(m, i, 1)
                  [] Reg(i.modrm) = 1 -> BumpRm(m, i, -1)
                  [] Reg(i.modrm) = 2 -> CallRm(m, i)
                  [] Reg(i.modrm) = 4 -> JmpRm(m, i)
                  [] Reg(i.modrm) = 6 -> PushRm(m, i)
                  [] OTHER -> m
-----------------------------------------------------------------------------
(* The dispatch.                                                           *)

\* Opcodes below 0x70.
ExecLow(m, i, op) ==
  CASE op \div 8 \in {0, 1, 4, 5, 6, 7} /\ op % 8 \in {0, 2, 4} -> Family8(m, i)
    [] op \div 8 \in {0, 1, 4, 5, 6, 7} /\ op % 8 \in {1, 3, 5} -> Family32(m, i)
    [] op \in 64 .. 71 -> BumpReg(m, op % 8, 1)
    [] op \in 72 .. 79 -> BumpReg(m, op % 8, -1)
    [] op \in 80 .. 87 -> Push(m, m.reg[op % 8])
    [] op \in 88 .. 95 -> PopTo(m, op % 8)
    [] op = 96 -> PushAll(m)
    [] op = 97 -> PopAll(m)
    [] op \in {104, 106} -> Push(m, i.imm)
    [] op \in {105, 107} -> ImulImm(m, i)
    [] OTHER -> m

\* Opcodes from 0x70 to 0x9d.
ExecMiddle(m, i, op) ==
  CASE op \in 112 .. 127 -> Jcc(m, i)
    [] op \in {128, 130} -> Code80(m, i)
    [] op = 129 -> Code81(m, i)
    [] op = 131 -> Code83(m, i)
    [] op \in {132, 133} -> Alu(m, i, 8, WidthOf(op), "rm", "r")
    [] op \in {134, 135} -> Xchg(m, i, WidthOf(op))
    [] op \in 136 .. 139 -> MovFamily(m, i, WidthOf(op))
    [] op = 141 -> Lea(m, i)
    [] op \in 145 .. 151 -> XchgEax(m, i)
    [] op = 152 -> Cwde(m)
    [] op = 153 -> Cdq(m)
    [] op = 156 -> PushFlags(m)
    [] op = 157 -> PopFlags(m)
    [] OTHER -> m

\* Opcodes from 0xa0.
ExecHigh(m, i, op) ==
  CASE op \in (160 .. 163) \cup {198, 199} -> MovFamily(m, i, WidthOf(op))
    [] op \in {166, 167} -> Compare(m, i, WidthOf(op))
    [] op \in {168, 169} -> Alu(m, i, 8, WidthOf(op), "acc", "imm")
    [] op \in 176 .. 183 -> SetReg(m, op % 8, 1, i.imm)
    [] op \in 184 .. 191 -> SetReg(m, op % 8, NB, i.imm)
    [] op \in {192, 193} -> Shift(m, i, WidthOf(op), i.imm % 256)
    [] op = 211 -> Shift(m, i, NB, GetReg(m, ECX, 1))
    [] op = 195 -> Ret(m)
    [] op = 201 -> Leave(m)
    [] op \in {204, 244} -> Halt(m)
    [] op = 205 -> Interrupt(m, i)
    [] op = 232 -> Call(m, m.eip + i.imm)
    [] op = 235 -> Jump(m, i.imm)
    [] op = 246 -> CodeF6(m, i)
    [] op = 247 -> CodeF7(m, i)
    [] op = 255 -> CodeFf(m, i)
    [] OTHER -> m

\* Opcodes of two bytes, by the second one.
ExecTwo(m, i, op) ==
  CASE op \in 128 .. 143 -> Jcc(m, i)
    [] op \in 144 .. 159 -> SetCc(m, i)
    [] op = 175 -> ImulReg(m, i)
    [] op \in {182, 183, 190, 191} -> Extend(m, i)
    [] OTHER -> m

Exec(m, i) == CASE i.opcode < 112 -> ExecLow(m, i, i.opcode)
                [] i.opcode \in 112 .. 159 -> ExecMiddle(m, i, i.opcode)
                [] i.opcode \in 160 .. 255 -> ExecHigh(m, i, i.opcode)
                [] OTHER -> ExecTwo(m, i, i.opcode - Two(0))

\* One turn of a process: parse, then exec.
Step(m, old) ==
  LET i == Parse(m.arena, m.eip, old)
  IN  Exec([m EXCEPT !.eip = i.next], i)
=============================================================================
