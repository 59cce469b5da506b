------------------------------- MODULE X86Cpu -------------------------------
(***************************************************************************)
(* The instructions of corewar-nii's x86 emulator (cpu.cpp).  A machine is *)
(* a CPU and the arena it shares with the others:                          *)
(*   [reg, eip, eflags, stack, halted, arena, fate]                        *)
(* where fate is what becomes of the whole program: it runs, a host        *)
(* exception has ended it, or exec never returns.  Step is a function of   *)
(* the machine and of what was left in the InstrData.                      *)
(***************************************************************************)
EXTENDS X86Decode, Sequences

EAX == 0
ECX == 1
EDX == 2
EBX == 3
ESP == 4
EBP == 5
ESI == 6
EDI == 7
Registers == 0 .. 7
DBits == 8 * NB
HalfOf(w) == Power(2, 8 * w - 1)     \* of a width of w bytes
-----------------------------------------------------------------------------
(* Registers, memory and the stack, which is outside the arena.            *)

GetReg(m, n, w) == IF w = 1 /\ n >= 4 THEN (m.reg[n - 4] \div 256) % 256
                   ELSE m.reg[n] % Power(256, w)
SetReg(m, n, w, v) ==
  IF w = 1 /\ n >= 4
  THEN [m EXCEPT !.reg[n - 4] = @ - 256 * ((@ \div 256) % 256) + 256 * (v % 256)]
  ELSE [m EXCEPT !.reg[n] = @ - (@ % Power(256, w)) + (v % Power(256, w))]

\* put_data8, put_data16 and put_data32
PutData(m, a, w, v) ==
  LET f[k \in 0 .. w] ==
        IF k = 0 THEN m.arena
        ELSE [f[k - 1] EXCEPT ![Addr(a + k - 1) % CORE_SIZE] = (v \div Power(256, k - 1)) % 256]
  IN  [m EXCEPT !.arena = f[w]]

Push(m, v) == [m EXCEPT !.stack = Append(@, Addr(v))]
Top(m)     == IF m.stack = <<>> THEN 0 ELSE m.stack[Len(m.stack)]
Drop(m)    == [m EXCEPT !.stack = IF @ = <<>> THEN @ ELSE SubSeq(@, 1, Len(@) - 1)]
PopTo(m, n) == SetReg(Drop(m), n, NB, Top(m))

\* update_eip
Jump(m, by) == [m EXCEPT !.eip = Addr(@ + by)]

\* calc_sib: a base of 4 stands for no base, and for -1 when the index is scaled.
CalcSib(m, i) ==
  LET base  == i.sib % 8
      scale == i.sib \div 64
      from  == IF base = 5 /\ Mod(i.modrm) = 0 THEN i.disp
               ELSE IF base = 4 THEN 0 ELSE m.reg[base]
  IN  IF base = 4 /\ scale # 0 THEN Addr(-1)
      ELSE Addr(from + m.reg[(i.sib \div 8) % 8] * Power(2, scale))

\* calc_modrm32
CalcModRm(m, i) ==
  LET rm   == RmOf(i.modrm)
      disp == IF Mod(i.modrm) \in {1, 2} THEN i.disp ELSE 0
  IN  Addr(CASE rm = 4 -> disp + CalcSib(m, i)
             [] rm = 5 /\ Mod(i.modrm) = 0 -> i.disp
             [] OTHER -> disp + m.reg[rm])

GetRm(m, i, w) == IF Mod(i.modrm) = 3 THEN GetReg(m, RmOf(i.modrm), w)
                  ELSE GetData(m.arena, CalcModRm(m, i), w)
SetRm(m, i, w, v) == IF Mod(i.modrm) = 3 THEN SetReg(m, RmOf(i.modrm), w, v)
                     ELSE PutData(m, CalcModRm(m, i), w, v)

Get(m, i, o, w) == CASE o = "rm"  -> GetRm(m, i, w)
                     [] o = "r"   -> GetReg(m, Reg(i.modrm), w)
                     [] o = "acc" -> GetReg(m, EAX, w)
                     [] o = "imm" -> i.imm
Put(m, i, o, w, v) == CASE o = "rm"  -> SetRm(m, i, w, v)
                        [] o = "r"   -> SetReg(m, Reg(i.modrm), w, v)
                        [] o = "acc" -> SetReg(m, EAX, w, v)
-----------------------------------------------------------------------------
(* Arithmetic.  Operations by their number in the opcode: 0 add, 1 or,     *)
(* 2 adc, 3 sbb, 4 and, 5 sub, 6 xor, 7 cmp; 8 is test.                    *)

Bitwise(op, x, y) ==
  LET bit(k) == CASE op = 1 -> Bit(x, k) \/ Bit(y, k)
                  [] op \in {4, 8} -> Bit(x, k) /\ Bit(y, k)
                  [] op = 6 -> Bit(x, k) # Bit(y, k)
      f[k \in 0 .. DBits] == IF k = 0 THEN 0
                             ELSE f[k - 1] + (IF bit(k - 1) THEN Power(2, k - 1) ELSE 0)
  IN  f[DBits]

Result(op, a, b, c) == CASE op = 0 -> a + b
                         [] op = 2 -> a + b + c
                         [] op = 3 -> a - b - c
                         [] op \in {5, 7} -> a - b
                         [] OTHER -> Bitwise(op, a, Addr(b))

\* xor tells nothing.  adc and sbb give the immediate and the carry as one operand.
AluFlags(op, f, a, b, c, H) ==
  CASE op \in {0, 2} -> AddFlags(f, a, IF op = 2 THEN b + c ELSE b, H)
    [] op \in {3, 5, 7} -> SubFlags(f, a, IF op = 3 THEN b + c ELSE b, H)
    [] op = 6 -> f
    [] OTHER -> LogicFlags(f, InWidth(Result(op, a, b, c), H), H)

Alu(m, i, op, w, dst, src) ==
  LET a == Get(m, i, dst, w)
      b == Get(m, i, src, w)
      c == IF CF \in m.eflags THEN 1 ELSE 0
      n == IF op \in {7, 8} THEN m ELSE Put(m, i, dst, w, Result(op, a, b, c))
  IN  [n EXCEPT !.eflags = AluFlags(op, @, a, b, c, HalfOf(w))]

\* add_rm8_r8 to cmp_al_imm8: the even opcodes below 0x40.
Family8(m, i) ==
  LET op == i.opcode \div 8 IN
  CASE i.opcode % 8 = 0 -> Alu(m, i, op, 1, "rm", "r")
    [] i.opcode % 8 = 2 -> Alu(m, i, op, 1, "r", "rm")
    [] i.opcode % 8 = 4 -> Alu(m, i, op, 1, "acc", "imm")

\* add_rm32_r32 to cmp_eax_imm32: the odd ones.
Family32(m, i) ==
  LET op == i.opcode \div 8 IN
  CASE i.opcode % 8 = 1 -> Alu(m, i, op, NB, "rm", "r")
    [] i.opcode % 8 = 3 -> Alu(m, i, op, NB, "r", "rm")
    [] i.opcode % 8 = 5 -> Alu(m, i, op, NB, "acc", "imm")

\* code_80, code_82, code_81 and code_83
Code80(m, i) == Alu(m, i, Reg(i.modrm), 1, "rm", "imm")
Code81(m, i) == Alu(m, i, Reg(i.modrm), NB, "rm", "imm")
Code83(m, i) == Alu(m, i, Reg(i.modrm), NB, "rm", "imm")

BumpFlags(f, v, by) == IF by = 1 THEN AddFlags(f, v, 1, DHalf) ELSE SubFlags(f, v, 1, DHalf)

\* inc_r32 and dec_r32; inc_rm32 and dec_rm32
BumpReg(m, n, by) ==
  [SetReg(m, n, NB, m.reg[n] + by) EXCEPT !.eflags = BumpFlags(@, m.reg[n], by)]
BumpRm(m, i, by) ==
  LET v == GetRm(m, i, NB)
  IN  [SetRm(m, i, NB, v + by) EXCEPT !.eflags = BumpFlags(@, v, by)]

\* code_c0, code_c1 and code_d3: 4 shl, 5 shr, 6 sal, 7 sar, the last two without flags.
Shift(m, i, w, c) ==
  LET v == GetRm(m, i, w)
      n == 8 * w
  IN  CASE Reg(i.modrm) = 4 -> [SetRm(m, i, w, Shifted(v, c % DBits, n))
                                  EXCEPT !.eflags = ShlFlags(@, v, c, n, DBits)]
        [] Reg(i.modrm) = 5 -> [SetRm(m, i, w, v \div Power(2, c % DBits))
                                  EXCEPT !.eflags = ShrFlags(@, v, c, n, DBits)]
        [] Reg(i.modrm) = 6 -> SetRm(m, i, w, Shifted(v, c % DBits, n))
        [] Reg(i.modrm) = 7 -> SetRm(m, i, w, WithSign(v, HalfOf(w)) \div Power(2, c % DBits))
        [] OTHER -> m
-----------------------------------------------------------------------------
(* Multiplication and division.                                            *)

\* C's division, towards zero.
Magnitude(n) == IF n < 0 THEN -n ELSE n
Quotient(n, d)  == LET q == Magnitude(n) \div Magnitude(d)
                   IN  IF (n < 0) = (d < 0) THEN q ELSE -q
Remainder(n, d) == n - d * Quotient(n, d)

Crash(m) == [m EXCEPT !.fate = "crashed"]

\* mul_ax_al_rm8 and imul_ax_al_rm8
Mul8(m, i) ==
  LET a == GetReg(m, EAX, 1)
      b == GetRm(m, i, 1)
  IN  [SetReg(m, EAX, 2, a * b) EXCEPT !.eflags = MulFlags(@, a, b, HalfOf(1))]
Imul8(m, i) ==
  LET a == WithSign(GetReg(m, EAX, 1), HalfOf(1))
      b == WithSign(GetRm(m, i, 1), HalfOf(1))
  IN  [SetReg(m, EAX, 2, a * b) EXCEPT !.eflags = ImulFlags(@, a, b, HalfOf(1))]

\* div_al_ah_rm8 and idiv_al_ah_rm8: a zero is not looked for.
Div8(m, i) ==
  LET d  == GetRm(m, i, 1)
      ax == GetReg(m, EAX, 2)
  IN  IF d = 0 THEN Crash(m)
      ELSE SetReg(SetReg(m, EAX, 1, ax \div d), 4, 1, ax % d)
Idiv8(m, i) ==
  LET d  == WithSign(GetRm(m, i, 1), HalfOf(1))
      ax == WithSign(GetReg(m, EAX, 2), HalfOf(2))
  IN  IF d = 0 THEN Crash(m)
      ELSE SetReg(SetReg(m, EAX, 1, Quotient(ax, d)), 4, 1, Remainder(ax, d))

SetPair(m, high, low) == SetReg(SetReg(m, EAX, NB, low), EDX, NB, high)

\* mul_edx_eax_rm32 and imul_edx_eax_rm32: the product is cut before it is widened.
Mul32(m, i) ==
  LET d == GetRm(m, i, NB)
  IN  [SetPair(m, 0, m.reg[EAX] * d) EXCEPT !.eflags = MulFlags(@, m.reg[EAX], d, DHalf)]
Imul32(m, i) ==
  LET a == WithSign(m.reg[EAX], DHalf)
      d == WithSign(GetRm(m, i, NB), DHalf)
  IN  [SetPair(m, IF Sign(a * d, DHalf) THEN -1 ELSE 0, a * d)
         EXCEPT !.eflags = ImulFlags(@, a, d, DHalf)]

\* div_edx_eax_rm32 and idiv_edx_eax_rm32: nothing happens for a zero; the smallest
\* dividend over -1 is a host exception.
Div32(m, i) ==
  LET d == GetRm(m, i, NB)
      n == m.reg[EDX] * (2 * DHalf) + m.reg[EAX]
  IN  IF d = 0 THEN m ELSE SetPair(m, n % d, n \div d)
Idiv32(m, i) ==
  LET d == WithSign(GetRm(m, i, NB), DHalf)
      n == WithSign(m.reg[EDX], DHalf) * (2 * DHalf) + m.reg[EAX]
  IN  CASE d = 0 -> m
        [] d = -1 /\ m.reg[EDX] = DHalf /\ m.reg[EAX] = 0 -> Crash(m)
        [] OTHER -> SetPair(m, Remainder(n, d), Quotient(n, d))

\* imul_r32_rm32_imm32 and imul_r32_rm32_imm8; imul_r32_rm32 takes 16 bits of each.
ImulImm(m, i) ==
  LET v == WithSign(GetRm(m, i, NB), DHalf)
  IN  [SetReg(m, Reg(i.modrm), NB, v * i.imm) EXCEPT !.eflags = ImulFlags(@, v, i.imm, DHalf)]
ImulReg(m, i) ==
  LET a == WithSign(GetReg(m, Reg(i.modrm), NB), HalfOf(2))
      b == WithSign(GetRm(m, i, NB), HalfOf(2))
  IN  [SetReg(m, Reg(i.modrm), NB, a * b) EXCEPT !.eflags = ImulFlags(@, a, b, HalfOf(2))]

\* test, not and neg of code_f6 and code_f7; the parser leaves test's immediate at EIP.
TestImm(m, i, w) ==
  LET r == Bitwise(8, GetRm(m, i, w), GetData(m.arena, m.eip, w))
  IN  [Jump(m, w) EXCEPT !.eflags = LogicFlags(@, r, HalfOf(w))]
Not(m, i, w) == SetRm(m, i, w, -1 - GetRm(m, i, w))
Neg(m, i, w) ==
  LET v == GetRm(m, i, w)
  IN  [SetRm(m, i, w, -v) EXCEPT !.eflags = SubFlags(@, 0, v, HalfOf(w))]

CodeF6(m, i) == CASE Reg(i.modrm) = 0 -> TestImm(m, i, 1)
                  [] Reg(i.modrm) = 1 -> m
                  [] Reg(i.modrm) = 2 -> Not(m, i, 1)
                  [] Reg(i.modrm) = 3 -> Neg(m, i, 1)
                  [] Reg(i.modrm) = 4 -> Mul8(m, i)
                  [] Reg(i.modrm) = 5 -> Imul8(m, i)
                  [] Reg(i.modrm) = 6 -> Div8(m, i)
                  [] Reg(i.modrm) = 7 -> Idiv8(m, i)
CodeF7(m, i) == CASE Reg(i.modrm) = 0 -> TestImm(m, i, NB)
                  [] Reg(i.modrm) = 1 -> m
                  [] Reg(i.modrm) = 2 -> Not(m, i, NB)
                  [] Reg(i.modrm) = 3 -> Neg(m, i, NB)
                  [] Reg(i.modrm) = 4 -> Mul32(m, i)
                  [] Reg(i.modrm) = 5 -> Imul32(m, i)
                  [] Reg(i.modrm) = 6 -> Div32(m, i)
                  [] Reg(i.modrm) = 7 -> Idiv32(m, i)
=============================================================================
