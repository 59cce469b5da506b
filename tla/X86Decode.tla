----------------------------- MODULE X86Decode ------------------------------
(***************************************************************************)
(* The parser of corewar-nii (parser.cpp): which bytes of the core belong  *)
(* to the instruction at EIP, and what the emulator finds in its           *)
(* InstrData.  The core wraps at CORE_SIZE, addresses wrap at their width. *)
(* An InstrData is a local of run_game that nobody initialises, so that a  *)
(* field the instruction does not have keeps what was there: "old".        *)
(***************************************************************************)
EXTENDS X86Alu

CONSTANTS CORE_SIZE,
          NB             \* the bytes of a double word: 4 in the code

ASSUME DecodeAssumption == CORE_SIZE \in Nat \ {0} /\ NB \in Nat \ {0, 1}

Byte  == 0 .. 255
DHalf == Power(2, 8 * NB - 1)
Addr(a) == InWidth(a, DHalf)

\* get_data8, get_data16 and get_data32
Get8(arena, a) == arena[Addr(a) % CORE_SIZE]
GetData(arena, a, bytes) ==
  LET f[k \in 0 .. bytes] == IF k = 0 THEN 0 ELSE f[k - 1] + Get8(arena, a + k - 1) * Power(256, k - 1)
  IN  f[bytes]

\* What chk says of an opcode; those of two bytes are 15 * 256 + the second one.
Two(b) == 3840 + b
RmFamilies == UNION {{8 * op + k : k \in 0 .. 3} : op \in {0, 1, 4, 5, 6, 7}}
ModRmOpcodes == RmFamilies \cup {105, 107} \cup 128 .. 142
                \cup {192, 193, 198, 199, 211, 246, 247, 255}
ModRmTwoByte == {Two(b) : b \in {0, 1, 32, 34} \cup 144 .. 159 \cup {175, 182, 183, 190, 191}}
HasModRm(opcode) == opcode \in ModRmOpcodes \/ opcode \in ModRmTwoByte

\* 0x90 to 0x97, nop and xchg, take four bytes too.
Imm32Opcodes == {8 * op + 5 : op \in {0, 1, 4, 5, 6, 7}} \cup {104, 105} \cup {129}
                \cup 144 .. 151 \cup {154, 169} \cup 184 .. 191 \cup {199, 232, 233, 234}
                \cup {Two(b) : b \in 128 .. 143}
Imm8Opcodes  == {8 * op + 4 : op \in {0, 1, 4, 5, 6, 7}} \cup {106, 107} \cup 112 .. 127
                \cup {128, 130, 131, 168} \cup 176 .. 183 \cup {192, 193, 198, 205}
                \cup 228 .. 231 \cup {235}
HasMoffs(opcode) == opcode \in 160 .. 163

Mod(b) == b \div 64
Reg(b) == (b \div 8) % 8
RmOf(b) == b % 8

\* parse_opcode
Opcode(arena, eip) ==
  LET b == Get8(arena, eip) IN IF b = 15 THEN Two(Get8(arena, eip + 1)) ELSE b

\* Slip: no SIB byte with mod 0.
HasSibDisplaced(modrm) == Mod(modrm) \in {1, 2} /\ RmOf(modrm) = 4

\* parse_modrm_sib_disp: the SIB byte is that of an earlier instruction when there
\* is none, and with mod 0 its base still says whether a displacement follows.
HasSib(modrm) == Mod(modrm) # 3 /\ RmOf(modrm) = 4
DispBytes(modrm, sib) ==
  IF Mod(modrm) = 2 \/ (Mod(modrm) = 0 /\ (RmOf(modrm) = 5 \/ sib % 8 = 5)) THEN NB
  ELSE IF Mod(modrm) = 1 THEN 1
  ELSE 0

\* parse: the instruction, and next, EIP after it.
Parse(arena, eip, old) ==
  LET opcode == Opcode(arena, eip)
      a      == eip + (IF opcode >= 3840 THEN 2 ELSE 1)
      rm     == HasModRm(opcode)
      modrm  == IF rm THEN Get8(arena, a) ELSE old.modrm
      hasSib == rm /\ HasSib(modrm)
      sib    == IF hasSib THEN Get8(arena, a + 1) ELSE old.sib
      b      == a + (IF rm THEN 1 ELSE 0) + (IF hasSib THEN 1 ELSE 0)
      dn     == IF rm THEN DispBytes(modrm, sib) ELSE 0
      c      == b + dn
      immn   == IF opcode \in Imm32Opcodes THEN NB ELSE IF opcode \in Imm8Opcodes THEN 1 ELSE 0
      d      == c + immn
  IN  [opcode |-> opcode, modrm |-> modrm, sib |-> sib, repeat |-> old.repeat,
       disp  |-> IF dn = 0 THEN 0 ELSE WithSign(GetData(arena, b, dn), Power(2, 8 * dn - 1)),
       imm   |-> IF immn = 0 THEN 0 ELSE WithSign(GetData(arena, c, immn), Power(2, 8 * immn - 1)),
       moffs |-> IF HasMoffs(opcode) THEN GetData(arena, d, NB) ELSE 0,
       next  |-> Addr(d + (IF HasMoffs(opcode) THEN NB ELSE 0))]
=============================================================================
