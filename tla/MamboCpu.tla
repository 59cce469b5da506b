------------------------------ MODULE MamboCpu ------------------------------
(***************************************************************************)
(* The instructions of mambo (mambo.c): registers, a heap that is never    *)
(* freed, and parseInstruction, which the service and its poller share.    *)
(* Both execute the same bytes, the service to answer and the poller to    *)
(* know the answers.  A machine is [base, sp, heap].                       *)
(***************************************************************************)
EXTENDS Integers, Sequences

CONSTANTS NUM_BASE_REG,
          FAKE_HEAP_SIZE,
          WORD,          \* the bytes of a register: 8 in the code
          NULL

ASSUME CpuAssumption == /\ NUM_BASE_REG \in 2 .. 32 /\ WORD \in Nat \ {0}
                        /\ FAKE_HEAP_SIZE \in Nat /\ FAKE_HEAP_SIZE > 2 * WORD

Register == 0 .. NUM_BASE_REG - 1

\* b to the n-th.
Power(b, n) == LET f[k \in 0 .. n] == IF k = 0 THEN 1 ELSE b * f[k - 1] IN f[n]
Value(n) == n % Power(256, WORD)

\* The operations, and the bytes of an instruction.
ADD_CMD  == 8
SUB_CMD  == 16
MUL_CMD  == 24
DIV_CMD  == 32
XOR_CMD  == 40
ROL_CMD  == 48
ROR_CMD  == 56
BYE_CMD  == 64
WR_REG   == 80
WR_BUF   == 88
RD_REG   == 96
RD_BUF   == 120
LD4_CMD  == 1
LD8_CMD  == 2
ST4_CMD  == 3
ST8_CMD  == 4
PUSH_CMD == 5
POP_CMD  == 6

\* encodeInstruction
Encoded(instr, r1, r2, r3, type) ==
  IF type = 0 THEN <<instr % 128, (8 * r1) % 256, (8 * r2) % 256>>
  ELSE <<(instr % 128) + 128, r1, r2, r3>>

StartMachine == [base |-> [r \in Register |-> 0], sp |-> FAKE_HEAP_SIZE \div 2,
                 heap |-> [a \in 0 .. FAKE_HEAP_SIZE - 1 |-> 0]]
-----------------------------------------------------------------------------
\* The sum of s[1] to s[n].
SumTo(s, n) == LET f[k \in 0 .. n] == IF k = 0 THEN 0 ELSE f[k - 1] + s[k] IN f[n]

\* A word in the heap.  What lies around the heap is not modelled.
Peek(m, a) == IF a \in 0 .. FAKE_HEAP_SIZE - 1 THEN m.heap[a] ELSE 0
Load(m, a) == SumTo([k \in 1 .. WORD |-> Peek(m, a + k - 1) * Power(256, k - 1)], WORD)
Stored(m, a, bytes) ==
  [m EXCEPT !.heap = [x \in DOMAIN m.heap |->
                        IF x - a \in 0 .. Len(bytes) - 1 THEN bytes[x - a + 1] ELSE m.heap[x]]]
BytesOf(v) == [k \in 1 .. WORD |-> (v \div Power(256, k - 1)) % 256]

\* getRegisters(bufs, length, rs), which exits unless Decodes.
Decodes(b, length) == IF length = 0 THEN b[2] % 8 = 0 /\ b[3] % 8 = 0 ELSE length = 1
BadLength(length)  == IF length = 0 THEN 19 ELSE 21
Operands(b, length) == IF length = 0 THEN <<b[2] \div 8, b[3] \div 8, 0>> ELSE <<b[2], b[3], b[4]>>

\* The bits of a word; exclusive or, and or.
Bits == 8 * WORD
Bit(x, k) == (x \div Power(2, k - 1)) % 2
BitsWhere(Test(_)) == SumTo([k \in 1 .. Bits |-> IF Test(k) THEN Power(2, k - 1) ELSE 0], Bits)
Xor(x, y) == BitsWhere(LAMBDA k : Bit(x, k) # Bit(y, k))
Or(x, y)  == BitsWhere(LAMBDA k : Bit(x, k) + Bit(y, k) > 0)

Times(x, y) == x * (y % 256) + 256 * Value(x * (y \div 256))

\* ROL and ROR do the same, by the number of the second register.
Computed(op, x, y, r2) ==
  CASE op = ADD_CMD -> Value(x + y)
    [] op = SUB_CMD -> Value(x - y)
    [] op = MUL_CMD -> Value(Times(x, y))
    [] op = DIV_CMD -> IF y = 0 THEN 0 ELSE x \div y
    [] op = XOR_CMD -> Xor(x, y)
    [] OTHER -> Or(Value(x * Power(2, r2)), x \div Power(2, r2))

\* What has become of an instruction: the machine, the bytes given to writeBuffer
\* (NoOutput if it is not called), instrLength, and exit's argument or NULL.
NoOutput == <<-1>>
Exits(x, code) == [x EXCEPT !.exit = code]
Put(m, r, v) == [m EXCEPT !.base[r] = v]

\* The first switch.
FirstSwitch(x, b, op) ==
  LET m  == x.m
      o  == Operands(b, x.len)
      s  == Operands(b, 0)
      at == (m.base[o[1]] + o[2]) % FAKE_HEAP_SIZE
  IN  IF op \in {RD_REG, WR_REG, WR_BUF, RD_BUF} /\ ~Decodes(b, x.len)
      THEN Exits(x, BadLength(x.len))
      ELSE CASE op = 0 -> x
             [] op \in ADD_CMD .. ROR_CMD ->
                  IF ~Decodes(b, 0) THEN Exits(x, 19)
                  ELSE [x EXCEPT !.m = Put(m, s[1], Computed(op, m.base[s[1]], m.base[s[2]], s[2]))]
             [] op = RD_REG -> [x EXCEPT !.m = Put(m, o[1], Value(o[2] + 256 * o[3]))]
             [] op = WR_REG -> [x EXCEPT !.out = BytesOf(m.base[o[1]])]
             [] op = WR_BUF -> [x EXCEPT !.out = [k \in 1 .. m.base[o[3]] |-> Peek(m, at + k - 1)]]
             [] op = RD_BUF -> [x EXCEPT !.m = Stored(m, at, SubSeq(b, 5, 4 + o[3])),
                                         !.len = (o[3] + 4) % 256]
             [] op = BYE_CMD -> Exits(x, 0)
             [] OTHER -> Exits(x, 1)

\* The second switch.  LD4, ST4 and PUSH never get here: INSTR_MASK drops their
\* lowest bit.
SecondSwitch(x, b, op) ==
  LET m  == x.m
      o  == Operands(b, x.len)
      p  == Operands(b, 1)
      at == m.base[o[1]] % (FAKE_HEAP_SIZE - WORD)
  IN  IF op = 0 \/ x.exit # NULL THEN x
      ELSE IF op = POP_CMD
           THEN [x EXCEPT !.m = [Put(m, p[1], Load(m, m.sp - WORD)) EXCEPT !.sp = @ - WORD]]
      ELSE IF ~Decodes(b, x.len) THEN Exits(x, BadLength(x.len))
      ELSE IF op = LD8_CMD THEN [x EXCEPT !.m = Put(m, o[2], Load(m, at))]
      ELSE [x EXCEPT !.m = Stored(m, at, BytesOf(m.base[o[2]]))]

Consumed(len) == CASE len = 0 -> 3 [] len = 1 -> 4 [] OTHER -> len

\* The two operations that an instruction names.
Type(b)   == (b[1] % 128) - (b[1] % 2)
First(b)  == Type(b) - (Type(b) % 8)
Second(b) == Type(b) % 8

\* parseInstruction: both switches once, since the second one leaves no bit of the
\* type; used is what it returns.
parseInstruction(m, b, bytesRemaining) ==
  LET start == [m |-> m, out |-> NoOutput, len |-> b[1] \div 128, exit |-> NULL]
      done  == SecondSwitch(FirstSwitch(start, b, First(b)), b, Second(b))
  IN  [m |-> Put(done.m, 0, 0), out |-> done.out, exit |-> done.exit,
       used |-> IF bytesRemaining = 0 THEN -1 ELSE Consumed(done.len)]

\* The bytes writeBuffer was given.
Written(out) == IF out = NoOutput THEN 0 ELSE Len(out)

\* Where an instruction of bytes begins, and what the processor reads from there.
From(bytes, at) == SubSeq(bytes, at + 1, Len(bytes)) \o <<0, 0, 0, 0>>

\* parseData of the poller: the machine, NULL after abort or exit, and what was written.
\* Each instruction takes a byte at least.
parseData(m, bytes) ==
  LET n == Len(bytes)
      Did(x) == parseInstruction(x.m, From(bytes, x.at), n - x.at)
      run[k \in 0 .. n + 1] ==
        IF k = 0 THEN [m |-> m, at |-> 0, wrote |-> 0]
        ELSE LET x == run[k - 1] IN
             IF x.m = NULL \/ (x.at >= n /\ k > 1) THEN x
             ELSE IF Did(x).used <= 0 \/ Did(x).exit # NULL THEN [m |-> NULL, at |-> 0, wrote |-> 0]
             ELSE [m |-> Did(x).m, at |-> x.at + Did(x).used, wrote |-> x.wrote + Written(Did(x).out)]
  IN  run[n + 1]
=============================================================================
