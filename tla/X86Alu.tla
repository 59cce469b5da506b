------------------------------- MODULE X86Alu -------------------------------
(***************************************************************************)
(* The status flags of corewar-nii's x86 emulator: the update_eflags       *)
(* templates of cpu.cpp and the conditions that jcc and setcc read.  A     *)
(* width is given by half its range H, 2^7 for a byte, so that what is     *)
(* said here is said for every width.  Flags are a set of bit positions.   *)
(***************************************************************************)
EXTENDS Integers, FiniteSets

CF == 0
PF == 2
ZF == 6
SF == 7
DF == 10
OF == 11
Status == {CF, PF, ZF, SF, OF}

\* b to the n-th power.
Power(b, n) == LET f[k \in 0 .. n] == IF k = 0 THEN 1 ELSE b * f[k - 1] IN f[n]

\* A value in the width, and what it is when it is read with a sign.
InWidth(v, H)  == v % (2 * H)
WithSign(v, H) == IF InWidth(v, H) >= H THEN InWidth(v, H) - 2 * H ELSE InWidth(v, H)
Sign(v, H)     == InWidth(v, H) >= H

Bit(v, k) == (v \div Power(2, k)) % 2 = 1

\* chk_parity
Even(v) == Cardinality({k \in 0 .. 7 : Bit(v % 256, k)}) % 2 = 0

On(flag, set) == IF set THEN {flag} ELSE {}

\* The flags told by a result alone.
Told(r, H) == On(PF, Even(r)) \cup On(ZF, r = 0) \cup On(SF, Sign(r, H))

\* Slip: overflow is taken for carry.
AddFlagsCarryOnly(f, a, b, H) ==
  LET r == a + InWidth(b, H)
  IN  (f \ Status) \cup Told(r, H) \cup On(CF, r >= 2 * H) \cup On(OF, r >= 2 * H)

\* update_eflags_add.  The sum is not cut to the width: one that wraps to 0 is not zero.
AddFlags(f, a, b, H) ==
  LET v == InWidth(b, H)
      r == a + v
  IN  (f \ Status) \cup Told(r, H) \cup On(CF, r >= 2 * H)
      \cup On(OF, Sign(a, H) = Sign(v, H) /\ Sign(a, H) # Sign(r, H))

\* update_eflags_or and update_eflags_and
LogicFlags(f, r, H) == (f \ Status) \cup Told(r, H)

\* Slip: the overflow of an addition.
SubFlagsLikeAdd(f, a, b, H) ==
  LET v == InWidth(b, H)
      r == a - v
  IN  (f \ Status) \cup Told(r, H) \cup On(CF, r < 0)
      \cup On(OF, Sign(a, H) = Sign(v, H) /\ Sign(a, H) # Sign(r, H))

\* update_eflags_sub
SubFlags(f, a, b, H) ==
  LET v == InWidth(b, H)
      r == a - v
  IN  (f \ Status) \cup Told(r, H) \cup On(CF, r < 0)
      \cup On(OF, Sign(a, H) # Sign(v, H) /\ Sign(a, H) # Sign(r, H))

\* update_eflags_mul
MulFlags(f, a, b, H) ==
  LET wide == a * InWidth(b, H) >= 2 * H
  IN  (f \ {CF, OF}) \cup On(CF, wide) \cup On(OF, wide)

\* update_eflags_imul: the high half is compared with -1 only.
ImulFlags(f, a, b, H) ==
  LET p    == a * WithSign(b, H)
      wide == ~(-2 * H <= p /\ p < 0)
  IN  (f \ {CF, OF}) \cup On(CF, wide) \cup On(OF, wide)

\* v << k in n bits, v with or without a sign.
Shifted(v, k, n) == IF k >= n THEN 0 ELSE (v % Power(2, n - k)) * Power(2, k)

\* update_eflags_shl of a value of n bits; the host shifts by the count modulo D bits.
ShlFlags(f, v, c, n, D) ==
  LET H == Power(2, n - 1)
      r == Shifted(v, c % D, n)
  IN  (f \ (Status \ (IF c = 1 THEN {} ELSE {OF}))) \cup Told(r, H)
      \cup On(CF, Bit(v, (n - c) % D))
      \cup On(OF, c = 1 /\ Bit(v, n - 1) # Bit(v, n - 2))

\* update_eflags_shr
ShrFlags(f, v, c, n, D) ==
  LET r == v \div Power(2, c % D)
  IN  (f \ (Status \ (IF c = 1 THEN {} ELSE {OF}))) \cup Told(r, Power(2, n - 1))
      \cup On(CF, Bit(v, (c - 1) % D))
      \cup On(OF, c = 1 /\ Bit(v, n - 1))

\* The conditions, by the low four bits of the opcode of jcc and setcc.
Holds(cc, f) ==
  LET base == CASE cc \div 2 = 0 -> OF \in f
                [] cc \div 2 = 1 -> CF \in f
                [] cc \div 2 = 2 -> ZF \in f
                [] cc \div 2 = 3 -> CF \in f \/ ZF \in f
                [] cc \div 2 = 4 -> SF \in f
                [] cc \div 2 = 5 -> PF \in f
                [] cc \div 2 = 6 -> (SF \in f) # (OF \in f)
                [] cc \div 2 = 7 -> ZF \in f \/ (SF \in f) # (OF \in f)
  IN  IF cc % 2 = 0 THEN base ELSE ~base
=============================================================================
