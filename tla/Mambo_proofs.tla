---------------------------- MODULE Mambo_proofs ----------------------------
(***************************************************************************)
(* mambo: keys are fresh, and late by one connection at most, whatever the *)
(* flag does and whenever the alarm goes off; every byte between a child   *)
(* and its poller is decrypted at the place where it was encrypted,        *)
(* whatever is drawn and however it is cut into reads; and the machines of *)
(* the two are the same whenever the poller compares them.                 *)
(*                                                                         *)
(* The second part goes from the bytes up: what an instruction does to the *)
(* machine and how long it is, what lengths and bytes on their way look    *)
(* like, and the invariant of the session, SessionInv, step by step.       *)
(*                                                                         *)
(* The third part follows the machines: an instruction does the same at    *)
(* both ends, whatever comes after it; so what was sent and is not yet     *)
(* executed has a trace, from the child's machine to the poller's. TwinOK  *)
(* says that there is one, what the child can answer, and that it has      *)
(* nothing left to do once it has answered; and it is kept step by step.   *)
(***************************************************************************)
EXTENDS Mambo, FiniteSetTheorems, SequenceTheorems, WellFoundedInduction, TLAPS
-----------------------------------------------------------------------------
(* The keys.                                                               *)

Key == [flag : Flag \cup {"none"}, conns : Nat]

MainTypes ==
  /\ pc \in {"loop", "accept", "exited"}
  /\ shouldRekey \in BOOLEAN /\ alarm \in BOOLEAN
  /\ flag \in Flag /\ key \in Key
  /\ numConnections \in Nat /\ period \in Nat
  /\ served \subseteq [id : Nat, key : Key, period : Nat, late : BOOLEAN]

\* Keys of later periods have larger counts, and the present one the largest.
CountsGrow ==
  /\ key.conns <= numConnections
  /\ \A a \in served : /\ a.period <= period
                       /\ a.key.conns < numConnections
                       /\ a.period = period => a.key = key
                       /\ a.period < period => a.key.conns < key.conns
  /\ \A a, b \in served : a.period < b.period => a.key.conns < b.key.conns
  /\ \A a, b \in served : a.period = b.period => a.key = b.key

\* After a late connection comes no other of its period.
LateIsLast ==
  /\ \A a \in served : a.late /\ a.period = period => shouldRekey /\ pc # "accept"
  /\ OneLate

KeyInv == MainTypes /\ CountsGrow /\ LateIsLast

LEMMA KeyInvInit == InitMain => KeyInv
<1> SUFFICES ASSUME InitMain PROVE KeyInv
  OBVIOUS
<1>1. NoKey \in Key /\ NoKey.conns = 0
  BY DEF NoKey, Key
<1>2. MainTypes
  BY <1>1 DEF InitMain, MainTypes
<1> QED
  BY <1>1, <1>2 DEF InitMain, KeyInv, CountsGrow, LateIsLast, OneLate

\* A step that keeps the key and adds no connection.
LEMMA KeyInvSame ==
  ASSUME KeyInv, UNCHANGED <<key, numConnections, period, served>>,
         flag' \in Flag, alarm' \in BOOLEAN, shouldRekey' \in BOOLEAN,
         pc' \in {"loop", "accept", "exited"},
         shouldRekey => shouldRekey',
         pc' = "accept" => pc = "accept" \/ ~shouldRekey
  PROVE  KeyInv'
<1>1. MainTypes'
  BY DEF KeyInv, MainTypes
<1>2. CountsGrow'
  BY DEF KeyInv, CountsGrow
<1>3. LateIsLast'
  BY DEF KeyInv, LateIsLast, OneLate
<1> QED
  BY <1>1, <1>2, <1>3 DEF KeyInv

LEMMA KeyInvRekey == ASSUME KeyInv, doRekey PROVE KeyInv'
<1> USE DEF KeyInv, doRekey
<1>1. MainTypes'
  <2>1. key' \in Key
    BY DEF MainTypes, Key
  <2>2. period' \in Nat
    BY DEF MainTypes
  <2> QED
    BY <2>1, <2>2 DEF MainTypes
<1>2. \A a \in served : a.period \in Nat /\ a.key.conns \in Nat
  BY DEF MainTypes, Key
<1>3. CountsGrow'
  BY <1>2 DEF CountsGrow, MainTypes
<1>4. LateIsLast'
  BY <1>2 DEF LateIsLast, OneLate, CountsGrow, MainTypes
<1> QED
  BY <1>1, <1>3, <1>4

LEMMA KeyInvAccept == ASSUME KeyInv, Accept PROVE KeyInv'
<1> USE DEF KeyInv, Accept
<1> DEFINE new == [id |-> numConnections, key |-> key, period |-> period, late |-> shouldRekey]
<1>1. MainTypes'
  BY DEF MainTypes
<1>2. \A a \in served : a.period \in Nat /\ a.key.conns \in Nat
  BY DEF MainTypes, Key
<1>3. key.conns \in Nat /\ numConnections \in Nat /\ period \in Nat
  BY DEF MainTypes, Key
<1>4. served' = served \cup {new} /\ new.key = key /\ new.period = period
      /\ new.late = shouldRekey
  OBVIOUS
<1> HIDE DEF new
<1>5. CountsGrow'
  <2>1. key'.conns <= numConnections'
    BY <1>3 DEF CountsGrow
  <2>2. \A a \in served' : /\ a.period <= period
                           /\ a.key.conns < numConnections'
                           /\ a.period = period => a.key = key
                           /\ a.period < period => a.key.conns < key.conns
    BY <1>2, <1>3, <1>4 DEF CountsGrow
  <2>3. \A a, b \in served' : a.period < b.period => a.key.conns < b.key.conns
    BY <1>2, <1>3, <1>4 DEF CountsGrow
  <2>4. \A a, b \in served' : a.period = b.period => a.key = b.key
    BY <1>2, <1>3, <1>4 DEF CountsGrow
  <2> QED
    BY <2>1, <2>2, <2>3, <2>4 DEF CountsGrow
<1>6. LateIsLast'
  <2>1. \A a \in served : a.late => a.period # period
    BY DEF LateIsLast
  <2>2. OneLate'
    BY <2>1, <1>4 DEF LateIsLast, OneLate
  <2>3. \A a \in served' : a.late /\ a.period = period => shouldRekey /\ pc' # "accept"
    BY <2>1, <1>4
  <2> QED
    BY <2>2, <2>3 DEF LateIsLast
<1> QED
  BY <1>1, <1>5, <1>6

LEMMA KeyInvNext == ASSUME KeyInv, [NextMain]_mainVars PROVE KeyInv'
<1>1. CASE doRekey
  BY <1>1, KeyInvRekey
<1>2. CASE Accept
  BY <1>2, KeyInvAccept
<1>3. CASE NoFlagFile \/ KeepKey \/ ForkFails \/ setRekey \/ NewFlag
           \/ UNCHANGED mainVars
  <2>1. UNCHANGED <<key, numConnections, period, served>>
    BY <1>3 DEF NoFlagFile, KeepKey, ForkFails, setRekey, NewFlag, mainVars
  <2>2. /\ flag' \in Flag /\ alarm' \in BOOLEAN /\ shouldRekey' \in BOOLEAN
        /\ pc' \in {"loop", "accept", "exited"}
        /\ shouldRekey => shouldRekey'
        /\ pc' = "accept" => pc = "accept" \/ ~shouldRekey
    BY <1>3 DEF NoFlagFile, KeepKey, ForkFails, setRekey, NewFlag, mainVars, KeyInv, MainTypes
  <2> QED
    BY <2>1, <2>2, KeyInvSame
<1> QED
  BY <1>1, <1>2, <1>3 DEF NextMain

\* Two connections have the same key only if both were accepted while it was the
\* current one, for every number of connections and every sequence of flags.
THEOREM KeysAreFresh == SpecMain => []FreshKeys
<1>1. KeyInv => FreshKeys
  <2> SUFFICES ASSUME KeyInv, NEW a \in served, NEW b \in served, a.key = b.key
               PROVE  a.period = b.period
    BY DEF FreshKeys
  <2>1. /\ a.period \in Nat /\ b.period \in Nat
        /\ a.key.conns \in Nat /\ b.key.conns \in Nat
    BY DEF KeyInv, MainTypes, Key
  <2> QED
    BY <2>1 DEF KeyInv, CountsGrow
<1> QED
  BY <1>1, KeyInvInit, KeyInvNext, PTL DEF SpecMain

\* A period has at most one connection that was accepted after its alarm.
THEOREM OneLateConnection == SpecMain => []OneLate
<1>1. KeyInv => OneLate
  BY DEF KeyInv, LateIsLast
<1> QED
  BY <1>1, KeyInvInit, KeyInvNext, PTL DEF SpecMain

\* To main a session is a connection, or nothing.
LEMMA SessionStep == [NextMambo]_mamboVars => [NextMain]_mainVars
BY DEF NextMambo, NextMain, mamboVars, mainVars, ServiceStep, PollerStep, SendKey, ReadLength,
   ReadPayload, Parse, PollerGone, GetKey, SendBatch, Ask, SendIo, RunIo, SendMemory, GetLength,
   GetPayload, ChildGone, LengthCut, GoAway, TimeOut, Closed, ConnectElsewhere, Connect

\* The service with its sessions does what main does alone: nothing that a child or a
\* poller does, dies or waits for changes when keys are made and handed out.
THEOREM SessionsLeaveMain == SpecMambo => SpecMain
<1>1. InitMambo => InitMain
  BY DEF InitMambo
<1> QED
  BY <1>1, SessionStep, PTL DEF SpecMambo, SpecMain
-----------------------------------------------------------------------------
(* Functions that are defined step by step.                                *)

\* Induction over an interval, for a set of numbers.
LEMMA UpTo ==
  ASSUME NEW n \in Nat, NEW A, 0 \in A, \A k \in 0 .. n - 1 : k \in A => k + 1 \in A
  PROVE  n \in A
<1> DEFINE B == (0 .. n) \ A
<1> SUFFICES ASSUME n \notin A PROVE FALSE
  OBVIOUS
<1>1. B \subseteq Nat /\ B # {}
  OBVIOUS
<1>2. PICK m \in B : \A i \in B : ~(<<i, m>> \in OpToRel(<, Nat))
  <2> HIDE DEF B
  <2> QED
    BY <1>1, NatLessThanWellFounded, WFMin, Zenon
<1>3. m \in 1 .. n /\ m - 1 \in 0 .. n - 1
  OBVIOUS
<1>4. m - 1 \in A
  <2> SUFFICES ASSUME m - 1 \notin A PROVE FALSE
    OBVIOUS
  <2>1. m - 1 \in B /\ m - 1 \in Nat /\ m \in Nat /\ m - 1 < m
    BY <1>3
  <2> HIDE DEF B
  <2>2. <<m - 1, m>> \in OpToRel(<, Nat)
    BY <2>1 DEF OpToRel
  <2> QED
    BY <1>2, <2>1, <2>2
<1>5. (m - 1) + 1 \in A
  BY <1>3, <1>4
<1> QED
  BY <1>3, <1>5

\* g is what n steps from R on give.
IsIteration(g, n, S, R, step) ==
  g \in [0 .. n -> S] /\ g[0] = R /\ \A k \in 1 .. n : g[k] = step[k][g[k - 1]]

\* A step that depends on how often it was made can be made n times.
LEMMA Recursion ==
  ASSUME NEW n \in Nat, NEW S, NEW R \in S, NEW step \in [1 .. n -> [S -> S]]
  PROVE  \E g : IsIteration(g, n, S, R, step)
<1> USE DEF IsIteration
<1> DEFINE A == {m \in 0 .. n : \E g \in [0 .. m -> S] :
                   g[0] = R /\ \A k \in 1 .. m : g[k] = step[k][g[k - 1]]}
<1>1. 0 \in A
  <2> DEFINE g == [k \in 0 .. 0 |-> R]
  <2>1. g \in [0 .. 0 -> S] /\ g[0] = R /\ 1 .. 0 = {} /\ 0 \in 0 .. n
    OBVIOUS
  <2> HIDE DEF g
  <2> QED
    BY <2>1
<1>2. ASSUME NEW m \in 0 .. n - 1, m \in A
      PROVE  m + 1 \in A
  <2>1. PICK g \in [0 .. m -> S] : g[0] = R /\ \A k \in 1 .. m : g[k] = step[k][g[k - 1]]
    BY <1>2
  <2> DEFINE last == step[m + 1][g[m]]
             h == [k \in 0 .. m + 1 |-> IF k = m + 1 THEN last ELSE g[k]]
  <2>2. last \in S
    <3>1. m + 1 \in 1 .. n /\ g[m] \in S
      BY <2>1
    <3> QED
      BY <3>1
  <2> HIDE DEF last
  <2>3. h \in [0 .. m + 1 -> S] /\ h[0] = R
    BY <2>1, <2>2
  <2>4. \A k \in 1 .. m : h[k] = g[k] /\ h[k - 1] = g[k - 1]
    OBVIOUS
  <2>5. h[m + 1] = last /\ h[m] = g[m] /\ (m + 1) - 1 = m /\ m + 1 \in 0 .. n
    OBVIOUS
  <2>6. \A k \in 1 .. m + 1 : k = m + 1 \/ k \in 1 .. m
    OBVIOUS
  <2> HIDE DEF h
  <2>7. \A k \in 1 .. m + 1 : h[k] = step[k][h[k - 1]]
    BY <2>1, <2>4, <2>5, <2>6 DEF last
  <2> QED
    BY <2>3, <2>5, <2>7
<1>3. n \in A
  <2> HIDE DEF A
  <2> QED
    BY <1>1, <1>2, UpTo
<1> QED
  BY <1>3

LEMMA SumToNat ==
  ASSUME NEW n \in Nat, NEW s \in [1 .. n -> Nat]
  PROVE  SumTo(s, n) \in Nat
<1> DEFINE step == [k \in 1 .. n |-> [x \in Nat |-> x + s[k]]]
           F(f) == f = [k \in 0 .. n |-> IF k = 0 THEN 0 ELSE f[k - 1] + s[k]]
<1>1. step \in [1 .. n -> [Nat -> Nat]]
  OBVIOUS
<1>2. PICK g : IsIteration(g, n, Nat, 0, step)
  <2>1. 0 \in Nat
    OBVIOUS
  <2> HIDE DEF step
  <2> QED
    BY <1>1, <2>1, Recursion, Zenon
<1>3. \A k \in 1 .. n : g[k] = g[k - 1] + s[k]
  <2> TAKE k \in 1 .. n
  <2>1. g[k - 1] \in Nat
    BY <1>2 DEF IsIteration
  <2>2. step[k][g[k - 1]] = g[k - 1] + s[k]
    BY <2>1
  <2> QED
    BY <1>2, <2>2 DEF IsIteration
<1>4. F(g)
  BY <1>2, <1>3 DEF IsIteration
<1>5. F(CHOOSE f : F(f))
  <2> HIDE DEF F
  <2> QED
    BY <1>4
<1> DEFINE f == CHOOSE f : F(f)
<1>6. SumTo(s, n) = f[n]
  BY DEF SumTo
<1> HIDE DEF f
<1>7. f = [k \in 0 .. n |-> IF k = 0 THEN 0 ELSE f[k - 1] + s[k]]
  BY <1>5 DEF f
<1> DEFINE A == {k \in 0 .. n : f[k] \in Nat}
<1>8. f[0] = 0 /\ \A k \in 1 .. n : f[k] = f[k - 1] + s[k]
  <2> HIDE DEF F
  <2> QED
    BY <1>7
<1>9. 0 \in A
  BY <1>8
<1>10. \A k \in 0 .. n - 1 : k \in A => k + 1 \in A
  <2> SUFFICES ASSUME NEW k \in 0 .. n - 1, k \in A PROVE k + 1 \in A
    OBVIOUS
  <2>1. k + 1 \in 1 .. n /\ (k + 1) - 1 = k /\ f[k] \in Nat
    OBVIOUS
  <2>2. f[k + 1] = f[k] + s[k + 1] /\ s[k + 1] \in Nat
    BY <1>8, <2>1
  <2> QED
    BY <2>1, <2>2
<1>11. n \in A
  <2> HIDE DEF A
  <2> QED
    BY <1>9, <1>10, UpTo
<1> QED
  BY <1>6, <1>11

LEMMA PowerPositive ==
  ASSUME NEW b \in Nat \ {0}, NEW n \in Nat
  PROVE  Power(b, n) \in Nat \ {0}
<1> DEFINE P == Nat \ {0}
           step == [k \in 1 .. n |-> [x \in P |-> b * x]]
           F(f) == f = [k \in 0 .. n |-> IF k = 0 THEN 1 ELSE b * f[k - 1]]
<1>1. step \in [1 .. n -> [P -> P]]
  <2>1. \A x \in P : b * x \in P
    OBVIOUS
  <2> QED
    BY <2>1
<1>2. PICK g : IsIteration(g, n, P, 1, step)
  <2>1. 1 \in P
    OBVIOUS
  <2> HIDE DEF step, P
  <2> QED
    BY <1>1, <2>1, Recursion, Zenon
<1>3. \A k \in 1 .. n : g[k] = b * g[k - 1]
  <2> TAKE k \in 1 .. n
  <2>1. g[k - 1] \in P
    BY <1>2 DEF IsIteration
  <2>2. step[k][g[k - 1]] = b * g[k - 1]
    BY <2>1
  <2> HIDE DEF step
  <2> QED
    BY <1>2, <2>2 DEF IsIteration
<1>4. F(g)
  BY <1>2, <1>3 DEF IsIteration
<1>5. F(CHOOSE f : F(f))
  <2> HIDE DEF F
  <2> QED
    BY <1>4
<1> DEFINE f == CHOOSE f : F(f)
<1>6. Power(b, n) = f[n]
  BY DEF Power
<1> HIDE DEF f
<1>7. f = [k \in 0 .. n |-> IF k = 0 THEN 1 ELSE b * f[k - 1]]
  BY <1>5 DEF f
<1>8. f[0] = 1 /\ \A k \in 1 .. n : f[k] = b * f[k - 1]
  <2> HIDE DEF F
  <2> QED
    BY <1>7
<1> DEFINE A == {k \in 0 .. n : f[k] \in P}
<1>9. 0 \in A
  BY <1>8
<1>10. \A k \in 0 .. n - 1 : k \in A => k + 1 \in A
  <2> SUFFICES ASSUME NEW k \in 0 .. n - 1, k \in A PROVE k + 1 \in A
    OBVIOUS
  <2>1. k + 1 \in 1 .. n /\ (k + 1) - 1 = k /\ f[k] \in P
    OBVIOUS
  <2>2. f[k + 1] = b * f[k]
    BY <1>8, <2>1
  <2>3. b * f[k] \in P
    BY <2>1
  <2> QED
    BY <2>1, <2>2, <2>3
<1>11. n \in A
  <2> HIDE DEF A
  <2> QED
    BY <1>9, <1>10, UpTo
<1> QED
  BY <1>6, <1>11
-----------------------------------------------------------------------------
(* What an instruction does.                                               *)

Machine == [base : [Register -> Nat], sp : Int, heap : [0 .. FAKE_HEAP_SIZE - 1 -> Nat]]

LEMMA Sizes ==
  /\ WORD \in Nat \ {0} /\ FAKE_HEAP_SIZE \in Nat /\ FAKE_HEAP_SIZE - WORD \in Nat \ {0}
  /\ NUM_BASE_REG \in Nat /\ Register \subseteq 0 .. 31 /\ 0 \in Register
  /\ Bits \in Nat
BY CpuAssumption DEF Register, Bits

LEMMA ValueNat == ASSUME NEW n \in Int PROVE Value(n) \in Nat
<1>1. Power(256, WORD) \in Nat \ {0}
  BY Sizes, PowerPositive
<1> QED
  BY <1>1 DEF Value

LEMMA LoadNat == ASSUME NEW m \in Machine, NEW a \in Int PROVE Load(m, a) \in Nat
<1> DEFINE s == [k \in 1 .. WORD |-> Peek(m, a + k - 1) * Power(256, k - 1)]
<1>1. \A x \in Int : Peek(m, x) \in Nat
  BY DEF Peek, Machine
<1>2. ASSUME NEW k \in 1 .. WORD PROVE Peek(m, a + k - 1) * Power(256, k - 1) \in Nat
  <2>1. a + k - 1 \in Int /\ k - 1 \in Nat
    BY Sizes
  <2>2. Power(256, k - 1) \in Nat /\ Peek(m, a + k - 1) \in Nat
    BY <1>1, <2>1, PowerPositive
  <2> QED
    BY <2>2
<1>3. s \in [1 .. WORD -> Nat]
  BY <1>2
<1>4. SumTo(s, WORD) \in Nat
  <2> HIDE DEF s
  <2> QED
    BY <1>3, Sizes, SumToNat
<1> QED
  BY <1>4 DEF Load

LEMMA BytesOfNat ==
  ASSUME NEW v \in Nat
  PROVE  BytesOf(v) \in Seq(Nat) /\ Len(BytesOf(v)) = WORD
<1>1. ASSUME NEW k \in 1 .. WORD PROVE (v \div Power(256, k - 1)) % 256 \in Nat
  <2>1. Power(256, k - 1) \in Nat \ {0}
    BY Sizes, PowerPositive
  <2>2. v \div Power(256, k - 1) \in Int
    BY <2>1
  <2> QED
    BY <2>2
<1>2. BytesOf(v) \in [1 .. WORD -> Nat]
  BY <1>1 DEF BytesOf
<1> QED
  BY <1>2, Sizes DEF BytesOf

LEMMA BitsNat ==
  ASSUME NEW x, NEW y
  PROVE  Xor(x, y) \in Nat /\ Or(x, y) \in Nat
<1> DEFINE s == [k \in 1 .. Bits |-> IF Bit(x, k) # Bit(y, k) THEN Power(2, k - 1) ELSE 0]
           t == [k \in 1 .. Bits |-> IF Bit(x, k) + Bit(y, k) > 0 THEN Power(2, k - 1) ELSE 0]
<1>1. \A k \in 1 .. Bits : Power(2, k - 1) \in Nat
  BY Sizes, PowerPositive
<1>2. s \in [1 .. Bits -> Nat] /\ t \in [1 .. Bits -> Nat]
  BY <1>1
<1>3. SumTo(s, Bits) \in Nat /\ SumTo(t, Bits) \in Nat
  <2> HIDE DEF s, t
  <2> QED
    BY <1>2, Sizes, SumToNat
<1>4. Xor(x, y) = SumTo(s, Bits) /\ Or(x, y) = SumTo(t, Bits)
  BY Zenon DEF Xor, Or, BitsWhere
<1> QED
  BY <1>3, <1>4

LEMMA ComputedNat ==
  ASSUME NEW op, NEW x \in Nat, NEW y \in Nat, NEW r2 \in Nat
  PROVE  Computed(op, x, y, r2) \in Nat
<1>1. Value(x + y) \in Nat /\ Value(x - y) \in Nat
  BY ValueNat
<1>2. Value(Times(x, y)) \in Nat
  <2>1. y \div 256 \in Nat /\ y % 256 \in Nat
    OBVIOUS
  <2>2. x * (y \div 256) \in Int /\ x * (y % 256) \in Int
    BY <2>1
  <2>3. Times(x, y) \in Int
    BY <2>2, ValueNat DEF Times
  <2> QED
    BY <2>3, ValueNat
<1>3. y # 0 => x \div y \in Nat
  OBVIOUS
<1> QED
  BY <1>1, <1>2, <1>3, BitsNat DEF Computed

LEMMA PutMachine ==
  ASSUME NEW m \in Machine, NEW r \in Register, NEW v \in Nat
  PROVE  Put(m, r, v) \in Machine
BY DEF Put, Machine

LEMMA StoredMachine ==
  ASSUME NEW m \in Machine, NEW a \in Int, NEW bytes \in Seq(Nat)
  PROVE  Stored(m, a, bytes) \in Machine
<1>1. ASSUME NEW x \in 0 .. FAKE_HEAP_SIZE - 1, x - a \in 0 .. Len(bytes) - 1
      PROVE  bytes[x - a + 1] \in Nat
  <2>1. x - a + 1 \in 1 .. Len(bytes)
    BY <1>1, Sizes
  <2> QED
    BY <2>1
<1> QED
  BY <1>1 DEF Stored, Machine

\* The bytes x of an instruction are read from b.
Reads(b, x) == \A i \in 1 .. Len(x) : b[i] = x[i]

\* The first register is 0 after every instruction.
LEMMA PutZero == ASSUME NEW m \in Machine PROVE Put(m, 0, 0).base[0] = 0
BY Sizes DEF Put, Machine

\* What drawn instructions write, and how many bytes they take.
LEMMA QuietDoes ==
  ASSUME NEW m \in Machine, NEW x, Quiet(x), NEW b, Reads(b, x), NEW n \in Nat \ {0}
  PROVE  LET did == parseInstruction(m, b, n)
         IN  did.m \in Machine /\ did.m.base[0] = 0 /\ did.out = NoOutput /\ did.used = Len(x)
<1> DEFINE start == [m |-> m, out |-> NoOutput, len |-> b[1] \div 128, exit |-> NULL]
           one == FirstSwitch(start, b, First(b))
           two == SecondSwitch(one, b, Second(b))
<1> SUFFICES two.m \in Machine /\ two.out = NoOutput /\ Consumed(two.len) = Len(x)
  <2>1. 0 \in Register /\ 0 \in Nat /\ n # 0
    BY Sizes
  <2>2. parseInstruction(m, b, n) =
          [m |-> Put(two.m, 0, 0), out |-> two.out, exit |-> two.exit,
           used |-> IF n = 0 THEN -1 ELSE Consumed(two.len)]
    BY Zenon DEF parseInstruction
  <2> HIDE DEF two
  <2> QED
    BY <2>1, <2>2, PutMachine, PutZero
<1>1. CASE /\ Len(x) = 4 /\ x[3] \in Byte /\ x[4] \in Byte
           /\ \E r \in Register : x = Encoded(RD_REG, r, x[3], x[4], 1)
  <2>1. PICK r \in Register : x = <<224, r, x[3], x[4]>>
    BY <1>1 DEF Encoded, RD_REG
  <2>2. b[1] = 224 /\ b[2] = r /\ b[3] \in Byte /\ b[4] \in Byte /\ Len(x) = 4
    BY <1>1, <2>1 DEF Reads
  <2>3. First(b) = 96 /\ Second(b) = 0 /\ b[1] \div 128 = 1
    BY <2>2 DEF First, Second, Type
  <2>4. Value(b[3] + 256 * b[4]) \in Nat
    <3>1. b[3] + 256 * b[4] \in Int
      <4>1. b[3] \in Int /\ b[4] \in Int
        BY <2>2 DEF Byte
      <4> QED
        BY <4>1
    <3> QED
      BY <3>1, ValueNat
  <2>5. one = [start EXCEPT !.m = Put(m, r, Value(b[3] + 256 * b[4]))]
    <3>1. start.len = 1 /\ start.m = m
      BY <2>3
    <3>2. Operands(b, 1) = <<r, b[3], b[4]>> /\ Decodes(b, 1)
      BY <2>2 DEF Operands, Decodes
    <3> HIDE DEF start
    <3> QED
      BY <2>3, <3>1, <3>2 DEF FirstSwitch, RD_REG, WR_REG, WR_BUF, RD_BUF, ADD_CMD, ROR_CMD, BYE_CMD
  <2>6. two = one
    BY <2>3 DEF SecondSwitch
  <2> QED
    BY <2>2, <2>3, <2>4, <2>5, <2>6, PutMachine DEF Consumed
<1>2. CASE \E r1, r2 \in Register :
             \E op \in {ADD_CMD, SUB_CMD, MUL_CMD, DIV_CMD, XOR_CMD, ROL_CMD, ROR_CMD} :
               x = Encoded(op, r1, r2, 0, 0)
  <2>1. PICK r1 \in Register, r2 \in Register, op \in {8, 16, 24, 32, 40, 48, 56} :
          x = <<op % 128, (8 * r1) % 256, (8 * r2) % 256>>
    BY <1>2 DEF Encoded, ADD_CMD, SUB_CMD, MUL_CMD, DIV_CMD, XOR_CMD, ROL_CMD, ROR_CMD
  <2>2. r1 \in 0 .. 31 /\ r2 \in 0 .. 31
    BY Sizes
  <2>3. b[1] = op /\ b[2] = 8 * r1 /\ b[3] = 8 * r2 /\ Len(x) = 3
    BY <2>1, <2>2 DEF Reads
  <2>4. First(b) = op /\ Second(b) = 0 /\ b[1] \div 128 = 0
    BY <2>3 DEF First, Second, Type
  <2>5. Operands(b, 0) = <<r1, r2, 0>> /\ Decodes(b, 0)
    BY <2>2, <2>3 DEF Operands, Decodes
  <2>6. one = [start EXCEPT !.m = Put(m, r1, Computed(op, m.base[r1], m.base[r2], r2))]
    <3>1. start.len = 0 /\ start.m = m
      BY <2>4
    <3> HIDE DEF start
    <3> QED
      BY <2>4, <2>5, <3>1 DEF FirstSwitch, RD_REG, WR_REG, WR_BUF, RD_BUF, ADD_CMD, ROR_CMD, BYE_CMD
  <2>7. Computed(op, m.base[r1], m.base[r2], r2) \in Nat
    BY <2>2, ComputedNat DEF Machine
  <2>8. two = one
    BY <2>4 DEF SecondSwitch
  <2> QED
    BY <2>3, <2>4, <2>6, <2>7, <2>8, PutMachine DEF Consumed
<1>3. CASE \E r1, r2 \in Register :
             \E op \in {LD4_CMD, LD8_CMD, ST4_CMD, ST8_CMD, PUSH_CMD, POP_CMD} :
               x = Encoded(op, r1, r2, 0, 1)
  <2>1. PICK r1 \in Register, r2 \in Register, op \in 1 .. 6 : x = <<op + 128, r1, r2, 0>>
    BY <1>3 DEF Encoded, LD4_CMD, LD8_CMD, ST4_CMD, ST8_CMD, PUSH_CMD, POP_CMD
  <2>2. b[1] = op + 128 /\ b[2] = r1 /\ b[3] = r2 /\ b[4] = 0 /\ Len(x) = 4
    BY <2>1 DEF Reads
  <2>3. First(b) = 0 /\ Second(b) \in {0, 2, 4, 6} /\ b[1] \div 128 = 1
    BY <2>2 DEF First, Second, Type
  <2>4. Operands(b, 1) = <<r1, r2, 0>> /\ Decodes(b, 1)
    BY <2>2 DEF Operands, Decodes
  <2>5. one = start /\ start.len = 1 /\ start.m = m /\ start.out = NoOutput /\ start.exit = NULL
    <3>1. start.len = 1 /\ start.m = m /\ start.out = NoOutput /\ start.exit = NULL
      BY <2>3
    <3> HIDE DEF start
    <3>2. FirstSwitch(start, b, 0) = start
      BY DEF FirstSwitch, RD_REG, WR_REG, WR_BUF, RD_BUF, ADD_CMD, ROR_CMD, BYE_CMD
    <3> QED
      BY <2>3, <3>1, <3>2
  <2>6. m.base[r1] % (FAKE_HEAP_SIZE - WORD) \in Int
    BY Sizes DEF Machine
  <2> DEFINE at == m.base[r1] % (FAKE_HEAP_SIZE - WORD)
  <2>7. CASE Second(b) = 0
    <3>1. two = start
      BY <2>5, <2>7 DEF SecondSwitch
    <3> QED
      BY <2>2, <2>5, <3>1 DEF Consumed
  <2>8. CASE Second(b) = 6
    <3> DEFINE put == Put(m, r1, Load(m, m.sp - WORD))
    <3>1. m.sp - WORD \in Int
      BY Sizes DEF Machine
    <3>2. put \in Machine
      BY <3>1, LoadNat, PutMachine
    <3>3. two = [start EXCEPT !.m = [put EXCEPT !.sp = @ - WORD]]
      BY <2>4, <2>5, <2>8 DEF SecondSwitch, POP_CMD
    <3>4. [put EXCEPT !.sp = @ - WORD] \in Machine
      <4> HIDE DEF put
      <4>1. put.sp - WORD \in Int
        BY <3>2, Sizes DEF Machine
      <4> QED
        BY <3>2, <4>1 DEF Machine
    <3> HIDE DEF put
    <3> QED
      BY <2>2, <2>5, <3>3, <3>4 DEF Consumed
  <2>9. CASE Second(b) = 2
    <3>1. two = [start EXCEPT !.m = Put(m, r2, Load(m, at))]
      BY <2>4, <2>5, <2>9 DEF SecondSwitch, POP_CMD, LD8_CMD
    <3>2. Put(m, r2, Load(m, at)) \in Machine
      BY <2>6, LoadNat, PutMachine
    <3> QED
      BY <2>2, <2>5, <3>1, <3>2 DEF Consumed
  <2>10. CASE Second(b) = 4
    <3>1. two = [start EXCEPT !.m = Stored(m, at, BytesOf(m.base[r2]))]
      BY <2>4, <2>5, <2>10 DEF SecondSwitch, POP_CMD, LD8_CMD
    <3>2. m.base[r2] \in Nat
      BY DEF Machine
    <3>3. Stored(m, at, BytesOf(m.base[r2])) \in Machine
      BY <2>6, <3>2, BytesOfNat, StoredMachine
    <3> QED
      BY <2>2, <2>5, <3>1, <3>3 DEF Consumed
  <2> QED
    BY <2>3, <2>7, <2>8, <2>9, <2>10
<1> HIDE DEF two
<1> QED
  BY <1>1, <1>2, <1>3, Zenon DEF Quiet

\* A register that is asked for, and a buffer.
LEMMA AskRegisterDoes ==
  ASSUME NEW m \in Machine, NEW r \in Register, NEW b, Reads(b, Encoded(WR_REG, r, 0, 0, 1)),
         NEW n \in Nat \ {0}
  PROVE  LET did == parseInstruction(m, b, n)
         IN  did.m = Put(m, 0, 0) /\ did.out = BytesOf(m.base[r]) /\ did.used = 4
<1> DEFINE start == [m |-> m, out |-> NoOutput, len |-> b[1] \div 128, exit |-> NULL]
           one == FirstSwitch(start, b, First(b))
           two == SecondSwitch(one, b, Second(b))
           out == BytesOf(m.base[r])
<1>1. Encoded(WR_REG, r, 0, 0, 1) = <<208, r, 0, 0>>
  BY DEF Encoded, WR_REG
<1>2. b[1] = 208 /\ b[2] = r /\ b[3] = 0 /\ b[4] = 0
  <2> DEFINE x == <<208, r, 0, 0>>
  <2>1. /\ x[1] = 208 /\ x[2] = r /\ x[3] = 0 /\ x[4] = 0 /\ 1 \in 1 .. Len(x)
        /\ 2 \in 1 .. Len(x) /\ 3 \in 1 .. Len(x) /\ 4 \in 1 .. Len(x)
    OBVIOUS
  <2>2. Reads(b, x)
    BY <1>1
  <2> HIDE DEF x
  <2> QED
    BY <2>1, <2>2 DEF Reads
<1>3. First(b) = 80 /\ Second(b) = 0 /\ b[1] \div 128 = 1
  BY <1>2 DEF First, Second, Type
<1>4. one = [start EXCEPT !.out = out]
  <2>1. start.len = 1 /\ start.m = m
    BY <1>3
  <2>2. Operands(b, 1) = <<r, 0, 0>> /\ Decodes(b, 1)
    BY <1>2 DEF Operands, Decodes
  <2> HIDE DEF start
  <2> QED
    BY <1>3, <2>1, <2>2 DEF FirstSwitch, RD_REG, WR_REG, WR_BUF, RD_BUF, ADD_CMD, ROR_CMD, BYE_CMD
<1>5. two = one
  BY <1>3 DEF SecondSwitch
<1> HIDE DEF out
<1>6. two.m = m /\ two.out = out /\ two.len = 1
  BY <1>3, <1>4, <1>5
<1>7. parseInstruction(m, b, n) =
        [m |-> Put(two.m, 0, 0), out |-> two.out, exit |-> two.exit,
         used |-> IF n = 0 THEN -1 ELSE Consumed(two.len)]
  BY Zenon DEF parseInstruction
<1> HIDE DEF two
<1> QED
  BY <1>6, <1>7 DEF Consumed, out

LEMMA AskBufferDoes ==
  ASSUME NEW m \in Machine, NEW r1 \in Register, NEW r2 \in Register, NEW r3 \in Register,
         NEW b, Reads(b, Encoded(WR_BUF, r1, r2, r3, 1)), NEW n \in Nat \ {0}
  PROVE  LET did == parseInstruction(m, b, n)
         IN  did.m = Put(m, 0, 0) /\ did.out \in Seq(Nat) /\ Len(did.out) = m.base[r3] /\ did.used = 4
<1> DEFINE start == [m |-> m, out |-> NoOutput, len |-> b[1] \div 128, exit |-> NULL]
           one == FirstSwitch(start, b, First(b))
           two == SecondSwitch(one, b, Second(b))
           at == (m.base[r1] + r2) % FAKE_HEAP_SIZE
           out == [k \in 1 .. m.base[r3] |-> Peek(m, at + k - 1)]
<1>1. Encoded(WR_BUF, r1, r2, r3, 1) = <<216, r1, r2, r3>>
  BY DEF Encoded, WR_BUF
<1>2. b[1] = 216 /\ b[2] = r1 /\ b[3] = r2 /\ b[4] = r3
  <2> DEFINE x == <<216, r1, r2, r3>>
  <2>1. Reads(b, x)
    BY <1>1
  <2>2. \A i \in 1 .. Len(x) : b[i] = x[i]
    BY <2>1 DEF Reads
  <2>3. Len(x) = 4 /\ x[1] = 216 /\ x[2] = r1 /\ x[3] = r2 /\ x[4] = r3
    OBVIOUS
  <2> HIDE DEF x
  <2> QED
    BY <2>2, <2>3
<1>3. First(b) = 88 /\ Second(b) = 0 /\ b[1] \div 128 = 1
  BY <1>2 DEF First, Second, Type
<1>4. one = [start EXCEPT !.out = out]
  <2>1. start.len = 1 /\ start.m = m
    BY <1>3
  <2>2. Operands(b, 1) = <<r1, r2, r3>> /\ Decodes(b, 1)
    BY <1>2 DEF Operands, Decodes
  <2> DEFINE o == Operands(b, 1)
             there == (m.base[o[1]] + o[2]) % FAKE_HEAP_SIZE
             read == [k \in 1 .. m.base[o[3]] |-> Peek(m, there + k - 1)]
  <2>3. read = out
    <3>1. o[1] = r1 /\ o[2] = r2 /\ o[3] = r3
      BY <2>2
    <3> HIDE DEF o
    <3> QED
      BY <3>1, Zenon
  <2>4. one = [start EXCEPT !.out = read]
    <3> HIDE DEF start
    <3> QED
      BY <1>3, <2>1, <2>2 DEF FirstSwitch, RD_REG, WR_REG, WR_BUF, RD_BUF, ADD_CMD, ROR_CMD, BYE_CMD
  <2> HIDE DEF read, out, start
  <2> QED
    BY <2>3, <2>4
<1>5. two = one
  BY <1>3 DEF SecondSwitch
<1>6. m.base[r3] \in Nat
  BY DEF Machine
<1>7. at \in Int
  <2>1. m.base[r1] + r2 \in Int
    BY Sizes DEF Machine
  <2> QED
    BY <2>1, Sizes, CpuAssumption
<1>8. \A k \in 1 .. m.base[r3] : Peek(m, at + k - 1) \in Nat
  <2> HIDE DEF at
  <2> QED
    BY <1>6, <1>7 DEF Peek, Machine
<1>9. out \in Seq(Nat) /\ Len(out) = m.base[r3]
  <2> HIDE DEF at
  <2> QED
    BY <1>6, <1>8
<1> HIDE DEF out
<1>10. two.m = m /\ two.out = out /\ two.len = 1
  BY <1>3, <1>4, <1>5
<1>11. parseInstruction(m, b, n) =
         [m |-> Put(two.m, 0, 0), out |-> two.out, exit |-> two.exit,
          used |-> IF n = 0 THEN -1 ELSE Consumed(two.len)]
  BY Zenon DEF parseInstruction
<1> HIDE DEF two
<1> QED
  BY <1>9, <1>10, <1>11 DEF Consumed

\* What instructions that ask write, and how many bytes they take.
LEMMA AskDoes ==
  ASSUME NEW m \in Machine, NEW x, Asks(x), NEW b, Reads(b, x), NEW n \in Nat \ {0}
  PROVE  LET did == parseInstruction(m, b, n)
         IN  did.m \in Machine /\ did.m.base[0] = 0 /\ did.out \in Seq(Nat) /\ did.used = Len(x)
<1> DEFINE did == parseInstruction(m, b, n)
<1>1. Put(m, 0, 0) \in Machine /\ Put(m, 0, 0).base[0] = 0
  BY Sizes, PutMachine, PutZero
<1>2. Len(x) = 4
  BY DEF Asks, Encoded, WR_REG, WR_BUF
<1>3. CASE \E r \in Register : x = Encoded(WR_REG, r, 0, 0, 1)
  <2>1. PICK r \in Register : x = Encoded(WR_REG, r, 0, 0, 1)
    BY <1>3
  <2>2. did.m = Put(m, 0, 0) /\ did.out = BytesOf(m.base[r]) /\ did.used = 4
    BY <2>1, AskRegisterDoes
  <2>3. BytesOf(m.base[r]) \in Seq(Nat)
    <3>1. m.base[r] \in Nat
      BY DEF Machine
    <3> QED
      BY <3>1, BytesOfNat
  <2> HIDE DEF did
  <2> QED
    BY <1>1, <1>2, <2>2, <2>3 DEF did
<1>4. CASE \E r1, r2, r3 \in Register : x = Encoded(WR_BUF, r1, r2, r3, 1)
  BY <1>1, <1>2, <1>4, AskBufferDoes
<1> QED
  BY <1>3, <1>4, Zenon DEF Asks
-----------------------------------------------------------------------------
(* Items on their way.                                                     *)

Items(k, dir) == [len : Nat] \cup [v : Nat, k : {k} \X {dir} \X Nat]

\* rest bytes of a message that was begun, then whole messages.
Framed(items, rest) ==
  /\ rest <= Len(items)
  /\ \A i \in 1 .. rest : Coded(items[i])
  /\ rest < Len(items) => ~Coded(items[rest + 1])
  /\ \A i \in 1 .. Len(items) : ~Coded(items[i]) =>
       /\ i + items[i].len <= Len(items)
       /\ \A j \in 1 .. items[i].len : Coded(items[i + j])
       /\ i + items[i].len < Len(items) => ~Coded(items[i + items[i].len + 1])

\* Counting the bytes from n on gives the place of each, and m after the last.
IsCount(q, items, k, dir, n) ==
  /\ q[0] = n
  /\ \A i \in 1 .. Len(items) :
       /\ ~Coded(items[i]) => q[i] = q[i - 1]
       /\ Coded(items[i]) => q[i] = q[i - 1] + 1 /\ items[i].k = Place(k, dir, q[i - 1])
Numbered(items, k, dir, n, m) ==
  \E q \in [0 .. Len(items) -> Nat] : IsCount(q, items, k, dir, n) /\ q[Len(items)] = m

\* The bytes of the message whose length is items[i].
Body(items, i) == [j \in 1 .. items[i].len |-> items[i + j].v]

LEMMA ItemIs ==
  ASSUME NEW k, NEW dir, NEW x \in Items(k, dir)
  PROVE  /\ ~Coded(x) => x.len \in Nat
         /\ Coded(x) => x.v \in Nat
BY DEF Items, Coded

\* t is s without its first c items.
Dropped(t, s, c) == Len(t) = Len(s) - c /\ \A i \in 1 .. Len(t) : t[i] = s[c + i]

LEMMA SubSeqDrops ==
  ASSUME NEW S, NEW s \in Seq(S), NEW c \in 0 .. Len(s)
  PROVE  SubSeq(s, c + 1, Len(s)) \in Seq(S) /\ Dropped(SubSeq(s, c + 1, Len(s)), s, c)
BY DEF Dropped

LEMMA TailDrops ==
  ASSUME NEW S, NEW s \in Seq(S), s # <<>>
  PROVE  /\ Tail(s) \in Seq(S) /\ Dropped(Tail(s), s, 1)
         /\ Len(s) \in Nat \ {0} /\ Head(s) = s[1] /\ s[1] \in S
BY DEF Dropped

LEMMA FramedDrop ==
  ASSUME NEW k, NEW dir, NEW s \in Seq(Items(k, dir)), NEW t \in Seq(Items(k, dir)),
         NEW rest \in Nat, Framed(s, rest), NEW c \in 0 .. rest, Dropped(t, s, c)
  PROVE  Framed(t, rest - c)
<1>1. \A i \in 1 .. Len(s) : ~Coded(s[i]) => s[i].len \in Nat
  BY ItemIs
<1>2. Len(t) = Len(s) - c /\ Len(s) \in Nat /\ rest <= Len(s)
  BY DEF Dropped, Framed
<1>3. ASSUME NEW i \in 1 .. rest - c PROVE Coded(t[i])
  <2>1. c + i \in 1 .. rest /\ i \in 1 .. Len(t)
    BY <1>2
  <2>2. t[i] = s[c + i] /\ Coded(s[c + i])
    BY <2>1 DEF Dropped, Framed
  <2> QED
    BY <2>2
<1>4. rest - c < Len(t) => ~Coded(t[rest - c + 1])
  BY <1>2 DEF Dropped, Framed
<1>5. ASSUME NEW i \in 1 .. Len(t), ~Coded(t[i])
      PROVE  /\ i + t[i].len <= Len(t)
             /\ \A j \in 1 .. t[i].len : Coded(t[i + j])
             /\ i + t[i].len < Len(t) => ~Coded(t[i + t[i].len + 1])
  <2>1. t[i] = s[c + i] /\ c + i \in 1 .. Len(s) /\ s[c + i].len \in Nat
    BY <1>1, <1>2, <1>5 DEF Dropped
  <2>2. /\ (c + i) + s[c + i].len <= Len(s)
        /\ \A j \in 1 .. s[c + i].len : Coded(s[(c + i) + j])
        /\ (c + i) + s[c + i].len < Len(s) => ~Coded(s[(c + i) + s[c + i].len + 1])
    BY <1>5, <2>1 DEF Framed
  <2>3. \A j \in 1 .. t[i].len + 1 : i + j <= Len(t) => t[i + j] = s[(c + i) + j]
    <3> SUFFICES ASSUME NEW j \in 1 .. t[i].len + 1, i + j <= Len(t)
                 PROVE  t[i + j] = s[(c + i) + j]
      OBVIOUS
    <3>1. i + j \in 1 .. Len(t) /\ c + (i + j) = (c + i) + j
      BY <1>2, <2>1
    <3> QED
      BY <3>1 DEF Dropped
  <2> DEFINE n == s[c + i].len
  <2>4. t[i].len = n /\ n \in Nat /\ i + n <= Len(t)
    BY <1>2, <2>1, <2>2
  <2> HIDE DEF n
  <2>5. ASSUME NEW j \in 1 .. n PROVE Coded(t[i + j])
    <3>1. j \in 1 .. t[i].len + 1 /\ i + j <= Len(t)
      BY <1>2, <2>4
    <3>2. t[i + j] = s[(c + i) + j]
      BY <2>3, <3>1
    <3> QED
      BY <2>2, <3>2 DEF n
  <2>6. ASSUME i + n < Len(t) PROVE ~Coded(t[i + n + 1])
    <3>1. n + 1 \in 1 .. n + 1 /\ i + (n + 1) <= Len(t) /\ (c + i) + n < Len(s)
      BY <1>2, <2>4, <2>6
    <3>2. t[i + (n + 1)] = s[(c + i) + (n + 1)]
      BY <2>3, <2>4, <3>1
    <3>3. i + (n + 1) = i + n + 1 /\ (c + i) + (n + 1) = (c + i) + n + 1
      BY <2>4
    <3> QED
      BY <2>2, <3>1, <3>2, <3>3 DEF n
  <2> QED
    BY <2>4, <2>5, <2>6
<1> QED
  BY <1>2, <1>3, <1>4, <1>5 DEF Framed

LEMMA FramedHead ==
  ASSUME NEW k, NEW dir, NEW s \in Seq(Items(k, dir)), NEW t \in Seq(Items(k, dir)),
         Len(s) > 0, Framed(s, 0), Dropped(t, s, 1)
  PROVE  ~Coded(s[1]) /\ s[1].len \in Nat /\ Framed(t, s[1].len)
<1>1. ~Coded(s[1]) /\ s[1].len \in Nat
  BY ItemIs DEF Framed
<1>2. /\ 1 + s[1].len <= Len(s)
      /\ \A j \in 1 .. s[1].len : Coded(s[1 + j])
      /\ 1 + s[1].len < Len(s) => ~Coded(s[1 + s[1].len + 1])
  BY <1>1 DEF Framed
<1> DEFINE n == s[1].len
<1>3. Len(t) = Len(s) - 1 /\ \A i \in 1 .. Len(t) : t[i] = s[1 + i]
  BY DEF Dropped
<1>4. n <= Len(t) /\ (\A i \in 1 .. n : Coded(t[i])) /\ (n < Len(t) => ~Coded(t[n + 1]))
  <2>1. n \in Nat /\ n <= Len(t)
    BY <1>1, <1>2, <1>3
  <2>2. ASSUME NEW i \in 1 .. n PROVE Coded(t[i])
    <3>1. t[i] = s[1 + i]
      BY <1>3, <2>1
    <3> QED
      BY <1>2, <3>1
  <2>3. ASSUME n < Len(t) PROVE ~Coded(t[n + 1])
    <3>1. t[n + 1] = s[1 + (n + 1)] /\ 1 + (n + 1) = 1 + n + 1 /\ 1 + n < Len(s)
      BY <1>3, <2>1, <2>3
    <3> QED
      BY <1>2, <3>1
  <2> QED
    BY <2>1, <2>2, <2>3
<1>5. ASSUME NEW i \in 1 .. Len(t), ~Coded(t[i])
      PROVE  /\ i + t[i].len <= Len(t)
             /\ \A j \in 1 .. t[i].len : Coded(t[i + j])
             /\ i + t[i].len < Len(t) => ~Coded(t[i + t[i].len + 1])
  <2>1. t[i] = s[1 + i] /\ 1 + i \in 1 .. Len(s)
    BY <1>3, <1>5
  <2>2. s[1 + i].len \in Nat
    BY <1>5, <2>1, ItemIs
  <2>3. /\ (1 + i) + s[1 + i].len <= Len(s)
        /\ \A j \in 1 .. s[1 + i].len : Coded(s[(1 + i) + j])
        /\ (1 + i) + s[1 + i].len < Len(s) => ~Coded(s[(1 + i) + s[1 + i].len + 1])
    BY <1>5, <2>1 DEF Framed
  <2>4. \A j \in 1 .. t[i].len + 1 : i + j <= Len(t) => t[i + j] = s[(1 + i) + j]
    BY <1>3, <2>1, <2>2
  <2> DEFINE l == s[1 + i].len
  <2>5. t[i].len = l /\ l \in Nat /\ i + l <= Len(t)
    BY <1>3, <2>1, <2>2, <2>3
  <2> HIDE DEF l
  <2>6. ASSUME NEW j \in 1 .. l PROVE Coded(t[i + j])
    <3>1. t[i + j] = s[(1 + i) + j]
      BY <1>3, <2>4, <2>5
    <3> QED
      BY <2>3, <3>1 DEF l
  <2>7. ASSUME i + l < Len(t) PROVE ~Coded(t[i + l + 1])
    <3>1. l + 1 \in 1 .. l + 1 /\ i + (l + 1) <= Len(t) /\ (1 + i) + l < Len(s)
      BY <1>3, <2>5, <2>7
    <3>2. t[i + (l + 1)] = s[(1 + i) + (l + 1)]
      BY <2>4, <2>5, <3>1
    <3>3. i + (l + 1) = i + l + 1 /\ (1 + i) + (l + 1) = (1 + i) + l + 1
      BY <2>5
    <3> QED
      BY <2>3, <3>1, <3>2, <3>3 DEF l
  <2> QED
    BY <2>5, <2>6, <2>7
<1> QED
  BY <1>1, <1>4, <1>5 DEF Framed

\* The first c of items are bytes that have the places from n on.
Placed(items, k, dir, n, c) ==
  \A i \in 1 .. c : Coded(items[i]) /\ items[i].k = Place(k, dir, n + i - 1)

\* The bytes at the start of items have the places from n on.
LEMMA FirstPlaces ==
  ASSUME NEW s, Len(s) \in Nat, NEW k, NEW dir, NEW n \in Nat,
         NEW q \in [0 .. Len(s) -> Nat], IsCount(q, s, k, dir, n),
         NEW c \in 0 .. Len(s), \A i \in 1 .. c : Coded(s[i])
  PROVE  q[c] = n + c /\ Placed(s, k, dir, n, c)
<1> DEFINE A(d) == {e \in 0 .. d : q[e] = n + e}
<1>1. ASSUME NEW d \in 0 .. c PROVE q[d] = n + d
  <2>1. 0 \in A(d)
    BY DEF IsCount
  <2>2. ASSUME NEW e \in 0 .. d - 1, e \in A(d) PROVE e + 1 \in A(d)
    <3>1. e + 1 \in 1 .. Len(s) /\ Coded(s[e + 1]) /\ (e + 1) - 1 = e
      OBVIOUS
    <3>2. q[e + 1] = q[e] + 1
      BY <3>1 DEF IsCount
    <3> QED
      BY <2>2, <3>2
  <2>3. d \in A(d)
    <3> HIDE DEF A
    <3> QED
      BY <2>1, <2>2, UpTo
  <2> QED
    BY <2>3
<1>2. ASSUME NEW i \in 1 .. c PROVE s[i].k = Place(k, dir, n + i - 1)
  <2>1. q[i - 1] = n + (i - 1) /\ i \in 1 .. Len(s) /\ n + (i - 1) = n + i - 1
    BY <1>1
  <2>2. s[i].k = Place(k, dir, q[i - 1])
    BY <2>1 DEF IsCount
  <2> QED
    BY <2>1, <2>2
<1> QED
  BY <1>1, <1>2 DEF Placed

LEMMA NumberedDrop ==
  ASSUME NEW s, Len(s) \in Nat, NEW t, NEW k, NEW dir, NEW n \in Nat, NEW m \in Nat,
         Numbered(s, k, dir, n, m), NEW c \in 0 .. Len(s), Dropped(t, s, c),
         \A i \in 1 .. c : Coded(s[i])
  PROVE  Numbered(t, k, dir, n + c, m) /\ Placed(s, k, dir, n, c)
<1>1. PICK q \in [0 .. Len(s) -> Nat] : IsCount(q, s, k, dir, n) /\ q[Len(s)] = m
  BY DEF Numbered
<1>2. q[c] = n + c /\ Placed(s, k, dir, n, c)
  <2>1. IsCount(q, s, k, dir, n)
    BY <1>1
  <2> QED
    BY <2>1, FirstPlaces, Zenon
<1> DEFINE r == [i \in 0 .. Len(t) |-> q[c + i]]
<1>3. Len(t) = Len(s) - c /\ Len(t) \in Nat /\ \A i \in 1 .. Len(t) : t[i] = s[c + i]
  BY DEF Dropped
<1>4. r \in [0 .. Len(t) -> Nat] /\ r[Len(t)] = m /\ r[0] = n + c
  BY <1>1, <1>2, <1>3
<1>5. ASSUME NEW i \in 1 .. Len(t)
      PROVE  /\ ~Coded(t[i]) => r[i] = r[i - 1]
             /\ Coded(t[i]) => r[i] = r[i - 1] + 1 /\ t[i].k = Place(k, dir, r[i - 1])
  <2>1. t[i] = s[c + i] /\ c + i \in 1 .. Len(s) /\ r[i] = q[c + i] /\ r[i - 1] = q[(c + i) - 1]
    BY <1>3
  <2> HIDE DEF r
  <2> QED
    BY <1>1, <2>1 DEF IsCount
<1> HIDE DEF r
<1>6. IsCount(r, t, k, dir, n + c)
  BY <1>4, <1>5 DEF IsCount
<1> QED
  BY <1>2, <1>4, <1>6 DEF Numbered

LEMMA NumberedHead ==
  ASSUME NEW s, Len(s) \in Nat \ {0}, NEW t, NEW k, NEW dir, NEW n \in Nat, NEW m \in Nat,
         Numbered(s, k, dir, n, m), Dropped(t, s, 1), ~Coded(s[1])
  PROVE  Numbered(t, k, dir, n, m)
<1>1. PICK q \in [0 .. Len(s) -> Nat] : IsCount(q, s, k, dir, n) /\ q[Len(s)] = m
  BY DEF Numbered
<1> DEFINE r == [i \in 0 .. Len(t) |-> q[1 + i]]
<1>2. q[1] = n
  <2>1. 1 \in 1 .. Len(s) /\ 1 - 1 = 0
    OBVIOUS
  <2> QED
    BY <1>1, <2>1 DEF IsCount
<1>3. Len(t) = Len(s) - 1 /\ Len(t) \in Nat /\ \A i \in 1 .. Len(t) : t[i] = s[1 + i]
  BY DEF Dropped
<1>4. r \in [0 .. Len(t) -> Nat] /\ r[Len(t)] = m /\ r[0] = n
  BY <1>1, <1>2, <1>3
<1>5. ASSUME NEW i \in 1 .. Len(t)
      PROVE  /\ ~Coded(t[i]) => r[i] = r[i - 1]
             /\ Coded(t[i]) => r[i] = r[i - 1] + 1 /\ t[i].k = Place(k, dir, r[i - 1])
  <2>1. t[i] = s[1 + i] /\ 1 + i \in 1 .. Len(s) /\ r[i] = q[1 + i] /\ r[i - 1] = q[(1 + i) - 1]
    BY <1>3
  <2> HIDE DEF r
  <2> QED
    BY <1>1, <2>1 DEF IsCount
<1> HIDE DEF r
<1>6. IsCount(r, t, k, dir, n)
  BY <1>4, <1>5 DEF IsCount
<1> QED
  BY <1>4, <1>6 DEF Numbered

\* t is a length and bytes, which have the places from n on.
IsMessage(t, bytes, k, dir, n) ==
  /\ t \in Seq(Items(k, dir)) /\ Len(t) = 1 + Len(bytes)
  /\ ~Coded(t[1]) /\ t[1].len = Len(bytes)
  /\ \A i \in 1 .. Len(bytes) : /\ Coded(t[1 + i]) /\ t[1 + i].v = bytes[i]
                                /\ t[1 + i].k = Place(k, dir, n + i - 1)

LEMMA MessageIs ==
  ASSUME NEW bytes \in Seq(Nat), NEW k, NEW dir, NEW n \in Nat
  PROVE  IsMessage(Message(bytes, k, dir, n), bytes, k, dir, n)
<1> DEFINE h == [len |-> Len(bytes)]
           c(i) == [v |-> bytes[i], k |-> Place(k, dir, n + i - 1)]
           u == [i \in 1 .. Len(bytes) |-> c(i)]
           t == Message(bytes, k, dir, n)
<1>1. h \in Items(k, dir) /\ ~Coded(h) /\ h.len = Len(bytes)
  BY DEF Items, Coded
<1>2. ASSUME NEW i \in 1 .. Len(bytes)
      PROVE  c(i) \in Items(k, dir) /\ Coded(c(i)) /\ c(i).v = bytes[i]
             /\ c(i).k = Place(k, dir, n + i - 1)
  <2>1. bytes[i] \in Nat /\ n + i - 1 \in Nat
    OBVIOUS
  <2>2. Place(k, dir, n + i - 1) \in {k} \X {dir} \X Nat
    BY <2>1 DEF Place
  <2> QED
    BY <2>1, <2>2 DEF Items, Coded
<1>3. u \in Seq(Items(k, dir)) /\ Len(u) = Len(bytes)
  <2> HIDE DEF c
  <2> QED
    BY <1>2
<1>4. t = <<h>> \o u
  BY DEF Message
<1>5. <<h>> \in Seq(Items(k, dir)) /\ Len(<<h>>) = 1 /\ <<h>>[1] = h
  BY <1>1
<1> HIDE DEF h, c, u, t
<1>6. t \in Seq(Items(k, dir)) /\ Len(t) = 1 + Len(bytes) /\ t[1] = h
  BY <1>3, <1>4, <1>5
<1>7. ASSUME NEW i \in 1 .. Len(bytes) PROVE t[1 + i] = c(i)
  <2>1. t[1 + i] = u[i]
    BY <1>3, <1>4, <1>5
  <2> QED
    BY <2>1 DEF u
<1> QED
  BY <1>1, <1>2, <1>6, <1>7 DEF t, IsMessage

\* What comes after other items.
LEMMA CatIs ==
  ASSUME NEW S, NEW s \in Seq(S), NEW t \in Seq(S)
  PROVE  /\ s \o t \in Seq(S) /\ Len(s \o t) = Len(s) + Len(t)
         /\ \A i \in 1 .. Len(s) : (s \o t)[i] = s[i]
         /\ \A i \in 1 .. Len(t) : (s \o t)[Len(s) + i] = t[i]
OBVIOUS

\* A message in S goes out after s.
Sends(u, s, t) ==
  /\ Len(u) = Len(s) + Len(t)
  /\ \A i \in 1 .. Len(s) : u[i] = s[i]
  /\ \A i \in 1 .. Len(t) : u[Len(s) + i] = t[i]

LEMMA FramedCat ==
  ASSUME NEW k, NEW dir, NEW s \in Seq(Items(k, dir)), NEW rest \in Nat, Framed(s, rest),
         NEW bytes \in Seq(Nat), NEW n \in Nat, NEW u,
         Sends(u, s, Message(bytes, k, dir, n))
  PROVE  Framed(u, rest)
<1> DEFINE t == Message(bytes, k, dir, n)
<1>1. /\ Len(t) = 1 + Len(bytes) /\ ~Coded(t[1]) /\ t[1].len = Len(bytes)
      /\ \A i \in 1 .. Len(bytes) : Coded(t[1 + i])
  <2>1. IsMessage(t, bytes, k, dir, n)
    BY MessageIs
  <2> HIDE DEF t
  <2> QED
    BY <2>1 DEF IsMessage
<1>2. /\ Len(u) = Len(s) + Len(t)
      /\ \A i \in 1 .. Len(s) : u[i] = s[i]
      /\ \A i \in 1 .. Len(t) : u[Len(s) + i] = t[i]
  BY DEF Sends
<1> HIDE DEF t
<1>3. Len(s) \in Nat /\ Len(bytes) \in Nat /\ rest <= Len(s)
  BY DEF Framed
<1>4. ~Coded(u[Len(s) + 1]) /\ u[Len(s) + 1].len = Len(bytes)
  <2>1. 1 \in 1 .. Len(t)
    BY <1>1, <1>3
  <2> QED
    BY <1>1, <1>2, <2>1
<1>5. \A i \in 1 .. rest : Coded(u[i])
  BY <1>2, <1>3 DEF Framed
<1>6. rest < Len(u) => ~Coded(u[rest + 1])
  <2>1. CASE rest = Len(s)
    BY <1>4, <2>1
  <2>2. CASE rest < Len(s)
    <3>1. rest + 1 \in 1 .. Len(s) /\ ~Coded(s[rest + 1])
      BY <1>3, <2>2 DEF Framed
    <3> QED
      BY <1>2, <3>1
  <2> QED
    BY <1>3, <2>1, <2>2
<1>7. ASSUME NEW i \in 1 .. Len(u), ~Coded(u[i])
      PROVE  /\ i + u[i].len <= Len(u)
             /\ \A j \in 1 .. u[i].len : Coded(u[i + j])
             /\ i + u[i].len < Len(u) => ~Coded(u[i + u[i].len + 1])
  <2>1. CASE i \in 1 .. Len(s)
    <3> DEFINE l == s[i].len
    <3>1. u[i] = s[i] /\ ~Coded(s[i]) /\ l \in Nat
      BY <1>2, <1>7, <2>1, ItemIs
    <3>2. /\ i + l <= Len(s)
          /\ \A j \in 1 .. l : Coded(s[i + j])
          /\ i + l < Len(s) => ~Coded(s[i + l + 1])
      BY <2>1, <3>1 DEF Framed
    <3> HIDE DEF l
    <3>3. ASSUME NEW j \in 1 .. l PROVE Coded(u[i + j])
      <4>1. i + j \in 1 .. Len(s)
        BY <1>3, <2>1, <3>1, <3>2
      <4> QED
        BY <1>2, <3>2, <4>1
    <3>4. ~Coded(u[i + l + 1])
      <4>1. CASE i + l = Len(s)
        BY <1>4, <4>1
      <4>2. CASE i + l < Len(s)
        <5>1. i + l + 1 \in 1 .. Len(s)
          BY <1>3, <2>1, <3>1, <4>2
        <5> QED
          BY <1>2, <3>2, <4>2, <5>1
      <4> QED
        BY <1>3, <2>1, <3>1, <3>2, <4>1, <4>2
    <3>5. i + l <= Len(u)
      BY <1>1, <1>2, <1>3, <2>1, <3>1, <3>2
    <3>6. u[i].len = l
      BY <3>1 DEF l
    <3> QED
      BY <3>3, <3>4, <3>5, <3>6
  <2>2. CASE i = Len(s) + 1
    <3>1. u[i].len = Len(bytes) /\ i + Len(bytes) = Len(u)
      BY <1>1, <1>2, <1>3, <1>4, <2>2
    <3>2. ASSUME NEW j \in 1 .. Len(bytes) PROVE Coded(u[i + j])
      <4>1. 1 + j \in 1 .. Len(t) /\ i + j = Len(s) + (1 + j)
        BY <1>1, <1>3, <2>2
      <4>2. u[i + j] = t[1 + j]
        BY <1>2, <4>1
      <4> QED
        BY <1>1, <4>2
    <3> QED
      BY <3>1, <3>2
  <2>3. CASE i \in Len(s) + 2 .. Len(u)
    <3> DEFINE j == i - Len(s) - 1
    <3>1. j \in 1 .. Len(bytes) /\ 1 + j \in 1 .. Len(t) /\ i = Len(s) + (1 + j)
      BY <1>1, <1>2, <1>3, <2>3
    <3> HIDE DEF j
    <3>2. u[i] = t[1 + j]
      BY <1>2, <3>1
    <3>3. Coded(u[i])
      BY <1>1, <3>1, <3>2
    <3> QED
      BY <1>7, <3>3, Zenon
  <2>4. i \in 1 .. Len(s) \/ i = Len(s) + 1 \/ i \in Len(s) + 2 .. Len(u)
    BY <1>3
  <2> QED
    BY <2>1, <2>2, <2>3, <2>4, Zenon
<1> QED
  BY <1>1, <1>2, <1>3, <1>5, <1>6, <1>7 DEF Framed

LEMMA NumberedCat ==
  ASSUME NEW k, NEW dir, NEW s, Len(s) \in Nat, NEW n \in Nat, NEW m \in Nat,
         Numbered(s, k, dir, n, m), NEW bytes \in Seq(Nat), NEW u,
         Sends(u, s, Message(bytes, k, dir, m))
  PROVE  Numbered(u, k, dir, n, m + Len(bytes))
<1> DEFINE t == Message(bytes, k, dir, m)
<1>1. /\ Len(t) = 1 + Len(bytes) /\ ~Coded(t[1])
      /\ \A i \in 1 .. Len(bytes) : Coded(t[1 + i]) /\ t[1 + i].k = Place(k, dir, m + i - 1)
  <2>1. IsMessage(t, bytes, k, dir, m)
    BY MessageIs
  <2> HIDE DEF t
  <2> QED
    BY <2>1 DEF IsMessage
<1>2. /\ Len(u) = Len(s) + Len(t)
      /\ \A i \in 1 .. Len(s) : u[i] = s[i]
      /\ \A i \in 1 .. Len(t) : u[Len(s) + i] = t[i]
  BY DEF Sends
<1> HIDE DEF t
<1>3. PICK q \in [0 .. Len(s) -> Nat] : IsCount(q, s, k, dir, n) /\ q[Len(s)] = m
  BY DEF Numbered
<1>4. Len(bytes) \in Nat
  OBVIOUS
<1> DEFINE r == [i \in 0 .. Len(u) |-> IF i <= Len(s) THEN q[i] ELSE m + (i - Len(s) - 1)]
<1>5. r \in [0 .. Len(u) -> Nat] /\ r[0] = n /\ r[Len(u)] = m + Len(bytes)
  <2>1. r \in [0 .. Len(u) -> Nat]
    BY <1>1, <1>2, <1>4
  <2>2. r[0] = n
    BY <1>1, <1>2, <1>3, <1>4 DEF IsCount
  <2>3. r[Len(u)] = m + Len(bytes)
    BY <1>1, <1>2, <1>4
  <2> QED
    BY <2>1, <2>2, <2>3
<1>6. ASSUME NEW i \in 1 .. Len(u)
      PROVE  /\ ~Coded(u[i]) => r[i] = r[i - 1]
             /\ Coded(u[i]) => r[i] = r[i - 1] + 1 /\ u[i].k = Place(k, dir, r[i - 1])
  <2>1. CASE i \in 1 .. Len(s)
    <3>1. u[i] = s[i] /\ r[i] = q[i] /\ r[i - 1] = q[i - 1]
      BY <1>1, <1>2, <1>4, <2>1
    <3> HIDE DEF r
    <3> QED
      BY <1>3, <2>1, <3>1 DEF IsCount
  <2>2. CASE i = Len(s) + 1
    <3>1. u[i] = t[1]
      <4>1. 1 \in 1 .. Len(t)
        BY <1>1, <1>4
      <4> QED
        BY <1>2, <2>2, <4>1
    <3>2. r[i] = m /\ r[i - 1] = m
      BY <1>1, <1>2, <1>3, <1>4, <2>2
    <3> HIDE DEF r
    <3> QED
      BY <1>1, <3>1, <3>2
  <2>3. CASE i \in Len(s) + 2 .. Len(u)
    <3> DEFINE j == i - Len(s) - 1
    <3>1. j \in 1 .. Len(bytes) /\ 1 + j \in 1 .. Len(t) /\ i = Len(s) + (1 + j)
      <4>1. Len(s) \in Nat /\ Len(bytes) \in Nat
        BY <1>4
      <4>2. Len(t) = 1 + Len(bytes) /\ Len(u) = Len(s) + (1 + Len(bytes))
        BY <1>1, <1>2, <4>1
      <4>3. i \in Len(s) + 2 .. Len(s) + (1 + Len(bytes))
        BY <2>3, <4>2
      <4> QED
        BY <4>1, <4>2, <4>3
    <3>2. r[i] = m + j /\ r[i - 1] = m + j - 1
      BY <1>1, <1>2, <1>4, <2>3
    <3> HIDE DEF j, r
    <3>3. u[i] = t[1 + j]
      BY <1>2, <3>1
    <3>4. m + j = (m + j - 1) + 1
      BY <3>1
    <3> QED
      BY <1>1, <3>1, <3>2, <3>3, <3>4
  <2> QED
    BY <1>2, <2>1, <2>2, <2>3
<1> HIDE DEF r
<1>7. IsCount(r, u, k, dir, n)
  BY <1>5, <1>6 DEF IsCount
<1> QED
  BY <1>5, <1>7 DEF Numbered

LEMMA NothingSent ==
  ASSUME NEW k, NEW dir, NEW n \in Nat
  PROVE  Framed(<<>>, 0) /\ Numbered(<<>>, k, dir, n, n) /\ <<>> \in Seq(Items(k, dir))
<1>1. Framed(<<>>, 0)
  BY DEF Framed
<1>2. Len(<<>>) = 0 /\ <<>> \in Seq(Items(k, dir))
  OBVIOUS
<1> DEFINE q == [i \in 0 .. 0 |-> n]
<1>3. q \in [0 .. 0 -> Nat] /\ q[0] = n
  OBVIOUS
<1> HIDE DEF q
<1>4. IsCount(q, <<>>, k, dir, n) /\ q[Len(<<>>)] = n /\ q \in [0 .. Len(<<>>) -> Nat]
  BY <1>2, <1>3 DEF IsCount
<1> QED
  BY <1>1, <1>2, <1>4 DEF Numbered

\* What is numbered is in turn.
LEMMA NumberedInTurn ==
  ASSUME NEW k, NEW dir, NEW S, NEW s \in Seq(S), NEW n \in Nat, NEW m,
         Numbered(s, k, dir, n, m)
  PROVE  InTurn(s, k, dir, n)
<1>1. PICK q \in [0 .. Len(s) -> Nat] : IsCount(q, s, k, dir, n)
  BY DEF Numbered
<1> DEFINE C(i) == {j \in 1 .. i : Coded(s[j])}
           A(d) == {i \in 0 .. d : IsFiniteSet(C(i)) /\ q[i] = n + Cardinality(C(i))}
<1>2. ASSUME NEW d \in 0 .. Len(s) PROVE q[d] = n + Cardinality(C(d))
  <2>1. 0 \in A(d)
    <3>1. C(0) = {}
      OBVIOUS
    <3>2. q[0] = n /\ 0 \in 0 .. d
      BY <1>1 DEF IsCount
    <3> HIDE DEF C
    <3>3. IsFiniteSet(C(0)) /\ Cardinality(C(0)) = 0
      BY <3>1, FS_EmptySet
    <3> QED
      BY <3>2, <3>3
  <2>2. ASSUME NEW i \in 0 .. d - 1, i \in A(d) PROVE i + 1 \in A(d)
    <3>1. i + 1 \in 1 .. Len(s) /\ (i + 1) - 1 = i /\ i + 1 \in 0 .. d
      OBVIOUS
    <3>2. IsFiniteSet(C(i)) /\ q[i] = n + Cardinality(C(i))
      BY <2>2
    <3>3. CASE Coded(s[i + 1])
      <4>1. C(i + 1) = C(i) \cup {i + 1} /\ i + 1 \notin C(i)
        BY <3>3
      <4>2. q[i + 1] = q[i] + 1
        BY <1>1, <3>1, <3>3 DEF IsCount
      <4> HIDE DEF C
      <4>3. IsFiniteSet(C(i + 1)) /\ Cardinality(C(i + 1)) = Cardinality(C(i)) + 1
        BY <3>2, <4>1, FS_AddElement
      <4>4. Cardinality(C(i)) \in Nat
        BY <3>2, FS_CardinalityType
      <4> QED
        BY <3>1, <3>2, <4>2, <4>3, <4>4
    <3>4. CASE ~Coded(s[i + 1])
      <4>1. C(i + 1) = C(i)
        BY <3>4
      <4>2. q[i + 1] = q[i]
        BY <1>1, <3>1, <3>4 DEF IsCount
      <4> HIDE DEF C
      <4> QED
        BY <3>1, <3>2, <4>1, <4>2
    <3> QED
      BY <3>3, <3>4
  <2>3. d \in A(d)
    <3> HIDE DEF A
    <3> QED
      BY <2>1, <2>2, UpTo
  <2> QED
    BY <2>3
<1>3. ASSUME NEW i \in DOMAIN s, Coded(s[i])
      PROVE  s[i].k = Place(k, dir, n + Cardinality(C(i - 1)))
  <2>1. i \in 1 .. Len(s) /\ i - 1 \in 0 .. Len(s)
    OBVIOUS
  <2>2. s[i].k = Place(k, dir, q[i - 1])
    BY <1>1, <1>3, <2>1 DEF IsCount
  <2> HIDE DEF C
  <2> QED
    BY <1>2, <2>1, <2>2
<1> QED
  BY <1>3 DEF InTurn

\* Bytes with consecutive places, and a message, are in turn.
LEMMA PlacedInTurn ==
  ASSUME NEW k, NEW dir, NEW S, NEW s \in Seq(S), NEW n \in Nat, Placed(s, k, dir, n, Len(s))
  PROVE  InTurn(s, k, dir, n)
<1> DEFINE q == [i \in 0 .. Len(s) |-> n + i]
<1>1. q \in [0 .. Len(s) -> Nat] /\ q[0] = n
  OBVIOUS
<1>2. ASSUME NEW i \in 1 .. Len(s)
      PROVE  Coded(s[i]) /\ q[i] = q[i - 1] + 1 /\ s[i].k = Place(k, dir, q[i - 1])
  <2>1. q[i] = n + i /\ q[i - 1] = n + i - 1 /\ n + i = (n + i - 1) + 1
    OBVIOUS
  <2> HIDE DEF q
  <2> QED
    BY <2>1 DEF Placed
<1> HIDE DEF q
<1>3. IsCount(q, s, k, dir, n)
  BY <1>1, <1>2 DEF IsCount
<1>4. Numbered(s, k, dir, n, q[Len(s)])
  BY <1>1, <1>3 DEF Numbered
<1> QED
  BY <1>4, NumberedInTurn

LEMMA MessageInTurn ==
  ASSUME NEW bytes \in Seq(Nat), NEW k, NEW dir, NEW n \in Nat
  PROVE  InTurn(Message(bytes, k, dir, n), k, dir, n)
<1> DEFINE t == Message(bytes, k, dir, n)
<1>1. t \in Seq(Items(k, dir))
  <2>1. IsMessage(t, bytes, k, dir, n)
    BY MessageIs
  <2> HIDE DEF t
  <2> QED
    BY <2>1 DEF IsMessage
<1>2. Sends(t, <<>>, t)
  <2>1. Len(<<>>) = 0 /\ Len(t) \in Nat
    BY <1>1
  <2> HIDE DEF t
  <2> QED
    BY <2>1 DEF Sends
<1>3. Numbered(t, k, dir, n, n + Len(bytes))
  <2>1. Numbered(<<>>, k, dir, n, n) /\ Len(<<>>) \in Nat
    BY NothingSent
  <2> QED
    BY <1>2, <2>1, NumberedCat
<1> HIDE DEF t
<1> QED
  BY <1>1, <1>3, NumberedInTurn DEF t
-----------------------------------------------------------------------------
(* The session.                                                            *)

\* Alive and Polling: the child, or the poller, goes on.
AliveStates   == {"hello", "header", "payload", "parse"}
PollingStates == {"batch", "ask", "io", "run", "memory", "length", "payload"}
Alive   == sv.pc \in AliveStates
Polling == cl.pc \in PollingStates

Children(k) ==
  [pc : AliveStates, key : {k}, m : Machine, rx : Nat, tx : Nat, buf : Seq(Nat),
   read : Nat, off : Nat, want : Nat, got : Seq(Items(k, "up"))]
Pollers(c) ==
  [pc : PollingStates, poll : Polls, key : {c.key}, m : {c.m}, rx : Nat, tx : Nat,
   pass : {1, 2}, i : Nat, room : Nat, want : Nat, count : Nat, buf : {c.buf}, torn : {c.torn}]

ChildOK == Alive =>
  /\ sv \in Children(sv.key)
  /\ sv.pc # "payload" => sv.got = <<>>
  /\ sv.pc = "payload" => /\ Len(sv.got) < sv.want
                          /\ Placed(sv.got, sv.key, "up", sv.rx, Len(sv.got))
  /\ sv.pc = "parse" => sv.off < sv.read /\ sv.read <= Len(sv.buf)

\* How many bytes of a message that was begun are still to come.
Rest == IF sv.pc = "payload" THEN sv.want - Len(sv.got) ELSE 0

\* The poller is at the place of the key stream that follows what is on its way.
UpOK == Alive =>
  /\ up \in Seq(Items(sv.key, "up")) /\ Framed(up, Rest)
  /\ \E m \in Nat : /\ Numbered(up, sv.key, "up", sv.rx + Len(sv.got), m)
                    /\ Polling => cl.tx = m /\ cl.key = sv.key

\* The child may still answer, and the instruction that asks is at the end of the last
\* message.  What happens after the poller has ended does not matter.
May(last) == Polling => cl.pc = "length" /\ down = <<>> /\ last

\* The message that the child has begun to read.
Begun(s, items) ==
  [j \in 1 .. s.want |-> IF j <= Len(s.got) THEN s.got[j].v ELSE items[j - Len(s.got)].v]

Sound(bytes, asking) ==
  bytes \in Seq(Byte) /\ \E starts : 0 \in starts /\ Program(bytes, starts, asking)

BytesOK == Alive =>
  /\ \A i \in 1 .. Len(up) : ~Coded(up[i]) =>
       Sound(Body(up, i), May(i + up[i].len = Len(up)))
  /\ sv.pc = "payload" => Sound(Begun(sv, up), May(Len(up) = Rest))
  /\ sv.pc = "parse" =>
       \E starts : /\ sv.off \in starts
                   /\ Program(SubSeq(sv.buf, 1, sv.read), starts, May(up = <<>>))

StartOK ==
  /\ sv.pc \in AliveStates \cup {"none", "exited"}
  /\ cl.pc \in PollingStates \cup Ends \cup {"none", "key"}
  /\ sv.pc = "none" <=> cl.pc = "none"
  /\ sv.pc = "none" => up = <<>> /\ down = <<>>
  /\ sv.pc = "hello" => ~Polling /\ down = <<>>
  /\ cl.pc = "key" =>
       /\ cl = [pc |-> "key", poll |-> cl.poll] /\ cl.poll \in Polls
       /\ Alive => sv.pc \in {"hello", "header"} /\ up = <<>> /\ sv.rx = 0 /\ sv.tx = 0
       /\ sv.pc = "header" => down = <<[key |-> sv.key]>>
       /\ sv.pc = "exited" => down = <<>> \/ \E k : down = <<[key |-> k]>>

\* At most one answer is on its way, the one that the poller waits for.
PollerOK == Polling =>
  /\ cl \in Pollers(cl)
  /\ cl.pc = "ask" => cl.i \in Register
  /\ cl.pc = "batch" => cl.i = 0
  /\ cl.pc \notin {"length", "payload"} => down = <<>>
  /\ cl.pc = "length" =>
       down = <<>> \/ \E bytes \in Seq(Nat) : down = Message(bytes, cl.key, "down", cl.rx)
  /\ cl.pc = "payload" =>
       /\ cl.count < cl.want /\ cl.want <= cl.room
       /\ down \in Seq(Items(cl.key, "down")) /\ Len(down) = cl.want - cl.count
       /\ Placed(down, cl.key, "down", cl.rx + cl.count, Len(down))
  /\ Alive => sv.tx = IF cl.pc = "payload" THEN cl.rx + cl.want
                      ELSE IF down = <<>> THEN cl.rx ELSE cl.rx + Len(down) - 1

SessionInv == ChildOK /\ UpOK /\ BytesOK /\ StartOK /\ PollerOK

LEMMA ProgramMono ==
  ASSUME NEW bytes, NEW starts, NEW a \in BOOLEAN, NEW b \in BOOLEAN, a => b,
         Program(bytes, starts, a)
  PROVE  Program(bytes, starts, b)
BY DEF Program

LEMMA SoundMono ==
  ASSUME NEW bytes, NEW a \in BOOLEAN, NEW b \in BOOLEAN, a => b, Sound(bytes, a)
  PROVE  Sound(bytes, b)
<1>1. bytes \in Seq(Byte)
  BY DEF Sound
<1>2. PICK starts : 0 \in starts /\ Program(bytes, starts, a)
  BY DEF Sound
<1>3. Program(bytes, starts, b)
  BY <1>2, ProgramMono
<1> QED
  BY <1>1, <1>2, <1>3 DEF Sound

LEMMA MayIs == \A l \in BOOLEAN : May(l) \in BOOLEAN /\ May(l)' \in BOOLEAN
BY DEF May

LEMMA ChildSame == ASSUME ChildOK, sv' = sv PROVE ChildOK'
BY DEF ChildOK, Alive

LEMMA UpSame ==
  ASSUME UpOK, UNCHANGED <<sv, up>>,
         Polling' => Polling /\ cl'.tx = cl.tx /\ cl'.key = cl.key
  PROVE  UpOK'
<1> SUFFICES ASSUME Alive' PROVE UpOK'
  BY DEF UpOK
<1>1. Alive /\ Rest' = Rest
  BY DEF Alive, Rest
<1>2. PICK m \in Nat : /\ Numbered(up, sv.key, "up", sv.rx + Len(sv.got), m)
                       /\ Polling => cl.tx = m /\ cl.key = sv.key
  BY <1>1 DEF UpOK
<1>3. Polling' => cl'.tx = m /\ cl'.key = sv'.key
  BY <1>2
<1> QED
  BY <1>1, <1>2, <1>3 DEF UpOK

LEMMA BytesSame ==
  ASSUME BytesOK, UNCHANGED <<sv, up>>, \A l \in BOOLEAN : May(l) => May(l)'
  PROVE  BytesOK'
<1> SUFFICES ASSUME Alive' PROVE BytesOK'
  BY DEF BytesOK
<1>1. Alive /\ Rest' = Rest
  BY DEF Alive, Rest
<1>2. ASSUME NEW i \in 1 .. Len(up), ~Coded(up[i])
      PROVE  Sound(Body(up, i), May(i + up[i].len = Len(up))')
  <2>1. (i + up[i].len = Len(up)) \in BOOLEAN
    OBVIOUS
  <2>2. Sound(Body(up, i), May(i + up[i].len = Len(up)))
    BY <1>1, <1>2 DEF BytesOK
  <2> QED
    BY <2>1, <2>2, MayIs, SoundMono
<1>3. ASSUME sv.pc = "payload"
      PROVE  Sound(Begun(sv, up), May(Len(up) = Rest)')
  <2>1. (Len(up) = Rest) \in BOOLEAN
    OBVIOUS
  <2>2. Sound(Begun(sv, up), May(Len(up) = Rest))
    BY <1>1, <1>3 DEF BytesOK
  <2> QED
    BY <1>1, <2>1, <2>2, MayIs, SoundMono
<1>4. ASSUME sv.pc = "parse"
      PROVE  \E starts : /\ sv.off \in starts
                         /\ Program(SubSeq(sv.buf, 1, sv.read), starts, May(up = <<>>)')
  <2>1. (up = <<>>) \in BOOLEAN
    OBVIOUS
  <2>2. PICK starts : /\ sv.off \in starts
                      /\ Program(SubSeq(sv.buf, 1, sv.read), starts, May(up = <<>>))
    BY <1>1, <1>4 DEF BytesOK
  <2>3. Program(SubSeq(sv.buf, 1, sv.read), starts, May(up = <<>>)')
    BY <2>1, <2>2, MayIs, ProgramMono
  <2> QED
    BY <2>2, <2>3
<1> QED
  BY <1>1, <1>2, <1>3, <1>4 DEF BytesOK

LEMMA PollerSame ==
  ASSUME PollerOK, UNCHANGED <<cl, down>>, Alive' => Alive /\ sv'.tx = sv.tx
  PROVE  PollerOK'
BY DEF PollerOK, Polling

\* The child ends.
LEMMA ChildEnds ==
  ASSUME SessionInv, sv.pc # "none", sv' = Exited, UNCHANGED <<cl, down>>
  PROVE  SessionInv'
<1>1. ~Alive' /\ sv'.pc = "exited"
  BY DEF Alive, AliveStates, Exited
<1>2. ChildOK' /\ UpOK' /\ BytesOK'
  BY <1>1 DEF ChildOK, UpOK, BytesOK
<1>3. PollerOK'
  BY <1>1, PollerSame DEF SessionInv
<1>4. StartOK'
  <2>1. ASSUME cl.pc = "key" PROVE down = <<>> \/ \E k : down = <<[key |-> k]>>
    BY <2>1 DEF SessionInv, StartOK, Alive, AliveStates
  <2> QED
    BY <1>1, <2>1 DEF SessionInv, StartOK, Polling
<1> QED
  BY <1>2, <1>3, <1>4 DEF SessionInv

\* The poller ends.
LEMMA PollerEnds ==
  ASSUME SessionInv, cl.pc # "none", cl'.pc \in Ends, UNCHANGED <<sv, up>>,
         sv.pc = "hello" => down' = down
  PROVE  SessionInv'
<1>1. ~Polling' /\ cl'.pc \notin {"key", "none"}
  BY DEF Polling, PollingStates, Ends
<1>2. ChildOK' /\ UpOK' /\ PollerOK'
  BY <1>1, ChildSame, UpSame DEF SessionInv, PollerOK
<1>3. BytesOK'
  <2>1. \A l \in BOOLEAN : May(l) => May(l)'
    BY <1>1 DEF May
  <2> QED
    BY <2>1, BytesSame DEF SessionInv
<1>4. StartOK'
  BY <1>1 DEF SessionInv, StartOK
<1> QED
  BY <1>2, <1>3, <1>4 DEF SessionInv

LEMMA InitSession == InitMambo => SessionInv
<1> SUFFICES ASSUME InitMambo PROVE SessionInv
  OBVIOUS
<1>1. sv.pc = "none" /\ cl.pc = "none" /\ up = <<>> /\ down = <<>>
  BY DEF InitMambo, NoChild, NoPoller
<1>2. ~Alive /\ ~Polling
  BY <1>1 DEF Alive, AliveStates, Polling, PollingStates
<1> QED
  BY <1>1, <1>2 DEF SessionInv, ChildOK, UpOK, BytesOK, StartOK, PollerOK

LEMMA LinkSame == ASSUME SessionInv, UNCHANGED linkVars PROVE SessionInv'
<1> USE DEF SessionInv, linkVars
<1>1. ChildOK' /\ UpOK' /\ PollerOK'
  BY ChildSame, UpSame, PollerSame DEF Polling, Alive
<1>2. BytesOK'
  <2>1. \A l \in BOOLEAN : May(l) => May(l)'
    BY DEF May, Polling
  <2> QED
    BY <2>1, BytesSame
<1>3. StartOK'
  BY DEF StartOK, Alive, Polling
<1> QED
  BY <1>1, <1>2, <1>3

LEMMA ConnectOK == ASSUME SessionInv, NEW poll \in Polls, Connect(poll) PROVE SessionInv'
<1>1. /\ sv.pc = "none" /\ cl' = [pc |-> "key", poll |-> poll] /\ sv' = NewChild
      /\ up' = <<>> /\ down' = <<>>
  BY DEF Connect, NoChild, SessionInv, StartOK
<1>2. cl'.pc = "key" /\ cl'.poll = poll /\ ~Polling'
  BY <1>1 DEF Polling, PollingStates
<1>3. /\ sv'.pc = "hello" /\ sv'.key = key /\ sv'.rx = 0 /\ sv'.tx = 0 /\ sv'.got = <<>>
      /\ Alive'
  BY <1>1 DEF NewChild, Alive, AliveStates
<1>4. StartMachine \in Machine
  <2>1. FAKE_HEAP_SIZE \div 2 \in Int
    BY Sizes
  <2> QED
    BY <2>1 DEF StartMachine, Machine
<1>5. ChildOK'
  <2>1. NewChild \in Children(key)
    BY <1>4 DEF NewChild, Children, AliveStates
  <2> QED
    BY <1>1, <1>3, <2>1 DEF ChildOK
<1>6. UpOK'
  <2>1. Rest' = 0 /\ sv'.rx + Len(sv'.got) = 0 /\ 0 \in Nat
    BY <1>3 DEF Rest
  <2>2. Framed(<<>>, 0) /\ Numbered(<<>>, key, "up", 0, 0) /\ <<>> \in Seq(Items(key, "up"))
    BY <2>1, NothingSent
  <2> QED
    BY <1>1, <1>2, <1>3, <2>1, <2>2 DEF UpOK
<1>7. BytesOK'
  BY <1>1, <1>3 DEF BytesOK
<1>8. StartOK'
  BY <1>1, <1>2, <1>3 DEF StartOK, AliveStates
<1>9. PollerOK'
  BY <1>2 DEF PollerOK
<1> QED
  BY <1>5, <1>6, <1>7, <1>8, <1>9 DEF SessionInv

LEMMA SendKeyOK == ASSUME SessionInv, SendKey PROVE SessionInv'
<1>1. /\ sv.pc = "hello" /\ sv' = [sv EXCEPT !.pc = "header"] /\ UNCHANGED <<up, cl>>
      /\ down' = Append(down, [key |-> sv.key])
  BY DEF SendKey
<1>2. Alive /\ Alive' /\ sv \in Children(sv.key) /\ sv.got = <<>> /\ down = <<>> /\ ~Polling
  BY <1>1 DEF SessionInv, ChildOK, StartOK, Alive, AliveStates, Children
<1>3. /\ sv'.pc = "header" /\ sv'.key = sv.key /\ sv'.got = <<>>
      /\ sv'.rx = sv.rx /\ sv'.tx = sv.tx /\ sv' \in Children(sv.key)
  BY <1>1, <1>2 DEF Children, AliveStates
<1>4. down' = <<[key |-> sv.key]>> /\ ~Polling'
  BY <1>1, <1>2 DEF Polling
<1>5. ChildOK'
  BY <1>3 DEF ChildOK
<1>6. UpOK'
  <2>1. Rest' = 0 /\ Rest = 0
    BY <1>1, <1>3 DEF Rest
  <2> QED
    BY <1>1, <1>2, <1>3, <1>4, <2>1 DEF UpOK, SessionInv
<1>7. BytesOK'
  <2>1. ASSUME NEW i \in 1 .. Len(up), ~Coded(up[i])
        PROVE  Sound(Body(up, i), May(i + up[i].len = Len(up))')
    <3>1. Sound(Body(up, i), May(i + up[i].len = Len(up)))
      BY <1>2, <2>1 DEF SessionInv, BytesOK
    <3>2. (i + up[i].len = Len(up)) \in BOOLEAN /\ May(i + up[i].len = Len(up))'
      BY <1>4 DEF May
    <3> QED
      BY <3>1, <3>2, MayIs, SoundMono
  <2> QED
    BY <1>1, <1>3, <2>1 DEF BytesOK
<1>8. StartOK'
  <2>1. cl' = cl /\ up' = up /\ Alive
    BY <1>1, <1>2
  <2>2. sv'.pc \in AliveStates
    BY <1>3 DEF AliveStates
  <2> QED
    BY <1>1, <1>3, <1>4, <2>1, <2>2 DEF SessionInv, StartOK
<1>9. PollerOK'
  BY <1>4 DEF PollerOK
<1> QED
  BY <1>5, <1>6, <1>7, <1>8, <1>9 DEF SessionInv

LEMMA LengthCutOK == ASSUME SessionInv, LengthCut PROVE SessionInv'
BY ChildEnds DEF LengthCut

LEMMA GoAwayOK == ASSUME SessionInv, GoAway PROVE SessionInv'
BY ChildEnds DEF GoAway

LEMMA PollerGoneOK == ASSUME SessionInv, PollerGone PROVE SessionInv'
BY ChildEnds DEF PollerGone

LEMMA TimeOutOK == ASSUME SessionInv, TimeOut PROVE SessionInv'
BY PollerEnds DEF TimeOut, Waiting, Ends

LEMMA ChildGoneOK == ASSUME SessionInv, ChildGone PROVE SessionInv'
BY PollerEnds DEF ChildGone, Waiting, Ends

LEMMA ClosedOK == ASSUME SessionInv, Closed PROVE SessionInv'
<1>1. sv'.pc = "none" /\ cl'.pc = "none" /\ up' = <<>> /\ down' = <<>>
  BY DEF Closed, NoChild, NoPoller
<1>2. ~Alive' /\ ~Polling'
  BY <1>1 DEF Alive, AliveStates, Polling, PollingStates
<1> QED
  BY <1>1, <1>2 DEF SessionInv, ChildOK, UpOK, BytesOK, StartOK, PollerOK

\* The child reads on; the poller and what is on its way to it stay.
LEMMA PollerStays ==
  ASSUME SessionInv, UNCHANGED <<cl, down>>, Alive, Alive', sv.pc # "hello", sv'.pc # "hello",
         cl.pc # "key", sv'.tx = sv.tx
  PROVE  StartOK' /\ PollerOK'
<1>1. PollerOK'
  BY PollerSame DEF SessionInv
<1>2. sv.pc # "none" /\ sv'.pc # "none"
  BY DEF Alive, AliveStates
<1> QED
  BY <1>1, <1>2 DEF SessionInv, StartOK, Alive

LEMMA ReadLengthOK == ASSUME SessionInv, ReadLength PROVE SessionInv'
<1> USE DEF SessionInv
<1> DEFINE n == Head(up).len
<1>1. /\ sv.pc = "header" /\ up # <<>> /\ up' = Tail(up) /\ UNCHANGED <<cl, down>>
      /\ sv' = IF n > BUF_LENGTH \/ n = 0 THEN Exited
               ELSE [sv EXCEPT !.pc = "payload", !.want = n]
  BY DEF ReadLength
<1>2. CASE sv' = Exited
  BY <1>1, <1>2, ChildEnds
<1>3. CASE n # 0 /\ sv' = [sv EXCEPT !.pc = "payload", !.want = n]
  <2>1. Alive /\ sv \in Children(sv.key) /\ sv.got = <<>> /\ Rest = 0
    BY <1>1 DEF ChildOK, Alive, AliveStates, Rest
  <2>2. /\ up \in Seq(Items(sv.key, "up")) /\ Framed(up, 0)
        /\ up' \in Seq(Items(sv.key, "up")) /\ Dropped(up', up, 1)
        /\ Len(up) \in Nat \ {0} /\ Head(up) = up[1]
    BY <1>1, <2>1, TailDrops DEF UpOK
  <2>3. ~Coded(up[1]) /\ n \in Nat /\ Framed(up', n)
    BY <2>2, FramedHead
  <2>4. /\ sv'.pc = "payload" /\ sv'.want = n /\ sv'.key = sv.key /\ sv'.rx = sv.rx
        /\ sv'.tx = sv.tx /\ sv'.got = <<>> /\ sv' \in Children(sv.key)
        /\ sv.rx \in Nat
    BY <1>3, <2>1, <2>3 DEF Children, AliveStates
  <2>5. Alive' /\ Rest' = n /\ Len(sv'.got) = 0 /\ Len(sv.got) = 0 /\ sv.rx + 0 = sv.rx
    BY <2>1, <2>3, <2>4 DEF Alive, AliveStates, Rest
  <2>6. ChildOK'
    BY <1>3, <2>3, <2>4, <2>5 DEF ChildOK, Placed
  <2>7. UpOK'
    <3>1. PICK m \in Nat : /\ Numbered(up, sv.key, "up", sv.rx, m)
                           /\ Polling => cl.tx = m /\ cl.key = sv.key
      BY <2>1, <2>5 DEF UpOK
    <3>2. Numbered(up', sv.key, "up", sv.rx, m)
      BY <2>2, <2>3, <2>4, <3>1, NumberedHead
    <3>3. Polling' => cl'.tx = m /\ cl'.key = sv'.key
      BY <1>1, <2>4, <3>1 DEF Polling
    <3> QED
      BY <2>2, <2>3, <2>4, <2>5, <3>2, <3>3 DEF UpOK
  <2>8. BytesOK'
    <3>1. Len(up) = Len(up') + 1 /\ \A i \in 1 .. Len(up') : up'[i] = up[1 + i]
      BY <2>2 DEF Dropped
    <3>2. ASSUME NEW i \in 1 .. Len(up'), ~Coded(up'[i])
          PROVE  Sound(Body(up', i), May(i + up[i].len = Len(up))')
      <4>1. up'[i] = up[1 + i] /\ 1 + i \in 1 .. Len(up) /\ up[1 + i].len \in Nat
        BY <2>2, <3>1, <3>2, ItemIs
      <4>2. Sound(Body(up, 1 + i), May((1 + i) + up[1 + i].len = Len(up)))
        BY <2>1, <3>2, <4>1 DEF BytesOK
      <4>3. (1 + i) + up[1 + i].len = Len(up) => i + up'[i].len = Len(up')
        <5> DEFINE l == up[1 + i].len
                   all == Len(up')
        <5>1. l \in Nat /\ up'[i].len = l /\ Len(up) = all + 1 /\ all \in Nat
          BY <2>2, <3>1, <4>1
        <5> HIDE DEF l, all
        <5>2. (1 + i) + l = Len(up) => i + l = all
          BY <5>1
        <5> QED
          BY <5>1, <5>2 DEF l, all
      <4>4. (1 + i) + up[1 + i].len <= Len(up)
        BY <2>2, <3>2, <4>1 DEF Framed
      <4>5. Body(up, 1 + i) = Body(up', i)
        <5>1. \A j \in 1 .. up[1 + i].len : up[(1 + i) + j] = up'[i + j]
          BY <2>2, <3>1, <4>1, <4>4
        <5> QED
          BY <4>1, <5>1 DEF Body
      <4> DEFINE l == ((1 + i) + up[1 + i].len = Len(up))
                 r == (i + up'[i].len = Len(up'))
      <4>6. l \in BOOLEAN /\ r \in BOOLEAN /\ (l => r)
        BY <4>3
      <4>7. May(l) => May(i + up[i].len = Len(up))'
        BY <1>1, <4>6 DEF May, Polling
      <4>8. May(l) \in BOOLEAN /\ May(i + up[i].len = Len(up))' \in BOOLEAN
        BY DEF May
      <4> QED
        BY <4>2, <4>5, <4>7, <4>8, SoundMono
    <3>3. Sound(Begun(sv', up'), May(Len(up) = Rest)')
      <4>1. 1 \in 1 .. Len(up) /\ 1 + n <= Len(up)
        BY <2>2, <2>3 DEF Framed
      <4>2. Sound(Body(up, 1), May(1 + n = Len(up)))
        BY <2>1, <2>2, <2>3, <4>1 DEF BytesOK
      <4>3. 1 + n = Len(up) => Len(up') = Rest'
        BY <2>2, <2>3, <2>5, <3>1
      <4>4. May(1 + n = Len(up)) => May(Len(up) = Rest)'
        BY <1>1, <4>3 DEF May, Polling
      <4>5. May(1 + n = Len(up)) \in BOOLEAN /\ May(Len(up) = Rest)' \in BOOLEAN
        BY DEF May
      <4>6. Begun(sv', up') = Body(up, 1)
        <5>1. \A j \in 1 .. n : ~(j <= Len(sv'.got)) /\ up'[j - Len(sv'.got)] = up[1 + j]
          BY <2>2, <2>3, <2>5, <3>1, <4>1
        <5> QED
          BY <2>2, <2>4, <5>1 DEF Begun, Body
      <4> QED
        BY <4>2, <4>6, <4>4, <4>5, SoundMono
    <3> QED
      BY <2>4, <3>2, <3>3 DEF BytesOK
  <2>9. StartOK' /\ PollerOK'
    <3>1. cl.pc # "key"
      BY <1>1, <2>1 DEF StartOK
    <3> QED
      BY <1>1, <2>1, <2>4, <2>5, <3>1, PollerStays
  <2> QED
    BY <2>6, <2>7, <2>8, <2>9
<1> QED
  BY <1>1, <1>2, <1>3

LEMMA ChunkIs ==
  ASSUME NEW S, NEW s \in Seq(S), NEW most \in Nat, NEW c \in Chunks(s, most)
  PROVE  c \in 1 .. Len(s) /\ c <= most
<1>1. Len(s) \in Nat
  OBVIOUS
<1> QED
  BY <1>1 DEF Chunks

\* What was read, decrypted at its own places.
LEMMA ClearIs ==
  ASSUME NEW k, NEW dir, NEW s \in Seq(Items(k, dir)), NEW n \in Nat, Placed(s, k, dir, n, Len(s))
  PROVE  /\ Clear(s, k, dir, n) = [i \in 1 .. Len(s) |-> s[i].v]
         /\ Clear(s, k, dir, n) \in Seq(Nat) /\ Len(Clear(s, k, dir, n)) = Len(s)
<1>1. ASSUME NEW i \in 1 .. Len(s) PROVE s[i].k = Place(k, dir, n + i - 1) /\ s[i].v \in Nat
  <2>1. s[i] \in Items(k, dir)
    OBVIOUS
  <2> QED
    BY <2>1, ItemIs DEF Placed
<1>2. Clear(s, k, dir, n) = [i \in 1 .. Len(s) |-> s[i].v]
  BY <1>1 DEF Clear
<1>3. [i \in 1 .. Len(s) |-> s[i].v] \in Seq(Nat)
  BY <1>1
<1> QED
  BY <1>2, <1>3

LEMMA OverIs ==
  ASSUME NEW a \in Seq(Nat), NEW b \in Seq(Nat)
  PROVE  /\ Over(a, b) \in Seq(Nat) /\ Len(a) <= Len(Over(a, b))
         /\ SubSeq(Over(a, b), 1, Len(a)) = a
<1> DEFINE c == SubSeq(b, Len(a) + 1, Len(b))
<1>1. c \in Seq(Nat)
  OBVIOUS
<1>2. Over(a, b) = a \o c
  BY DEF Over
<1> HIDE DEF c
<1>3. /\ a \o c \in Seq(Nat) /\ Len(a \o c) = Len(a) + Len(c)
      /\ \A i \in 1 .. Len(a) : (a \o c)[i] = a[i]
  BY <1>1, CatIs
<1>4. Len(a) \in Nat /\ Len(c) \in Nat
  BY <1>1
<1>5. SubSeq(a \o c, 1, Len(a)) = a
  <2> DEFINE d == a \o c
  <2> HIDE DEF d
  <2>1. d \in Seq(Nat) /\ Len(d) >= Len(a) /\ \A i \in 1 .. Len(a) : d[i] = a[i]
    BY <1>3, <1>4 DEF d
  <2>2. SubSeq(d, 1, Len(a)) \in Seq(Nat) /\ Len(SubSeq(d, 1, Len(a))) = Len(a)
        /\ \A i \in 1 .. Len(a) : SubSeq(d, 1, Len(a))[i] = a[i]
    BY <1>4, <2>1
  <2>3. SubSeq(d, 1, Len(a)) = a
    BY <2>2
  <2> QED
    BY <2>3 DEF d
<1> QED
  BY <1>2, <1>3, <1>4, <1>5

\* What the child has after a read.
LEMMA GotIs ==
  ASSUME ChildOK, UpOK, sv.pc = "payload", NEW c \in Chunks(up, sv.want - Len(sv.got)),
         up' = SubSeq(up, c + 1, Len(up))
  PROVE  LET K   == sv.key
             had == Len(sv.got)
             got == sv.got \o SubSeq(up, 1, c)
         IN  /\ c \in 1 .. Len(up) /\ c <= Rest
             /\ up' \in Seq(Items(K, "up")) /\ Dropped(up', up, c) /\ Framed(up', Rest - c)
             /\ \A m \in Nat : Numbered(up, K, "up", sv.rx + had, m) =>
                                 Numbered(up', K, "up", sv.rx + had + c, m)
             /\ got \in Seq(Items(K, "up")) /\ Len(got) = had + c
             /\ \A i \in 1 .. had : got[i] = sv.got[i]
             /\ \A i \in 1 .. c : got[had + i] = up[i]
             /\ Placed(got, K, "up", sv.rx, had + c)
<1> DEFINE K == sv.key
           had == Len(sv.got)
<1>1. /\ Alive /\ sv \in Children(K) /\ had < sv.want /\ Placed(sv.got, K, "up", sv.rx, had)
      /\ sv.got \in Seq(Items(K, "up")) /\ sv.want \in Nat /\ sv.rx \in Nat /\ had \in Nat
      /\ sv.buf \in Seq(Nat) /\ Rest = sv.want - had /\ Rest \in Nat
      /\ sv.key = K /\ Len(sv.got) = had
  BY DEF ChildOK, Alive, AliveStates, Rest, Children
<1> HIDE DEF K, had
<1>2. up \in Seq(Items(K, "up")) /\ Framed(up, Rest) /\ Len(up) \in Nat
  BY <1>1 DEF UpOK
<1>3. c \in 1 .. Len(up) /\ c <= Rest /\ c \in 0 .. Rest /\ c \in 0 .. Len(up) /\ c \in Nat
  <2>1. c \in Chunks(up, Rest)
    BY <1>1
  <2>2. c \in 1 .. Len(up) /\ c <= Rest
    BY <1>1, <1>2, <2>1, ChunkIs
  <2> QED
    BY <1>1, <1>2, <2>2
<1>4. up' \in Seq(Items(K, "up")) /\ Dropped(up', up, c)
  BY <1>2, <1>3, SubSeqDrops
<1>5. Framed(up', Rest - c) /\ \A i \in 1 .. c : Coded(up[i])
  <2>1. Framed(up', Rest - c)
    BY <1>1, <1>2, <1>3, <1>4, FramedDrop
  <2>2. \A i \in 1 .. c : Coded(up[i])
    BY <1>1, <1>2, <1>3 DEF Framed
  <2> QED
    BY <2>1, <2>2
<1>6. ASSUME NEW m \in Nat, Numbered(up, K, "up", sv.rx + had, m)
      PROVE  Numbered(up', K, "up", sv.rx + had + c, m) /\ Placed(up, K, "up", sv.rx + had, c)
  <2>1. sv.rx + had \in Nat
    BY <1>1
  <2> QED
    BY <1>2, <1>3, <1>4, <1>5, <1>6, <2>1, NumberedDrop
<1>7. Placed(up, K, "up", sv.rx + had, c)
  BY <1>1, <1>6 DEF UpOK
<1> DEFINE first == SubSeq(up, 1, c)
           got == sv.got \o first
<1>8. /\ got \in Seq(Items(K, "up")) /\ Len(got) = had + c
      /\ \A i \in 1 .. had : got[i] = sv.got[i]
      /\ \A i \in 1 .. c : got[had + i] = up[i]
  <2>1. first \in Seq(Items(K, "up")) /\ Len(first) = c /\ \A i \in 1 .. c : first[i] = up[i]
    BY <1>2, <1>3
  <2> DEFINE before == sv.got
             items  == Items(K, "up")
  <2>2. before \in Seq(items) /\ Len(before) = had /\ first \in Seq(items)
    BY <1>1, <2>1
  <2>3. got = before \o first
    OBVIOUS
  <2> HIDE DEF first, before, items, got
  <2>4. /\ before \o first \in Seq(items)
        /\ Len(before \o first) = Len(before) + Len(first)
        /\ \A i \in 1 .. Len(before) : (before \o first)[i] = before[i]
        /\ \A i \in 1 .. Len(first) : (before \o first)[Len(before) + i] = first[i]
    BY <2>2
  <2>5. /\ got \in Seq(items) /\ Len(got) = had + c
        /\ \A i \in 1 .. had : got[i] = before[i]
        /\ \A i \in 1 .. c : got[had + i] = up[i]
    BY <2>1, <2>2, <2>3, <2>4
  <2> QED
    BY <2>5 DEF before, items
<1> HIDE DEF first, got
<1>9. ASSUME NEW j \in had + 1 .. had + c
      PROVE  j - had \in 1 .. c /\ got[j] = up[j - had]
  <2>1. j - had \in 1 .. c /\ had + (j - had) = j
    BY <1>1, <1>3
  <2> QED
    BY <1>8, <2>1
<1>10. Placed(got, K, "up", sv.rx, had + c)
  <2> SUFFICES ASSUME NEW i \in 1 .. had + c
               PROVE  Coded(got[i]) /\ got[i].k = Place(K, "up", sv.rx + i - 1)
    BY DEF Placed
  <2>1. CASE i \in 1 .. had
    BY <1>1, <1>8, <2>1 DEF Placed
  <2>2. CASE i \in had + 1 .. had + c
    <3> DEFINE e == i - had
    <3>1. e \in 1 .. c /\ got[i] = up[e]
      BY <1>9, <2>2
    <3>2. Coded(up[e]) /\ up[e].k = Place(K, "up", sv.rx + had + e - 1)
      BY <1>7, <3>1 DEF Placed
    <3>3. sv.rx + had + e - 1 = sv.rx + i - 1
      BY <1>1, <1>3
    <3> QED
      BY <3>1, <3>2, <3>3
  <2> QED
    BY <1>1, <1>3, <2>1, <2>2
<1> QED
  BY <1>3, <1>4, <1>5, <1>6, <1>8, <1>10 DEF K, had, got, first

LEMMA ReadPayloadOK == ASSUME SessionInv, ReadPayload PROVE SessionInv'
<1> USE DEF SessionInv
<1>1. sv.pc = "payload" /\ UNCHANGED <<cl, down>>
  BY DEF ReadPayload
<1> DEFINE K == sv.key
           had == Len(sv.got)
<1>2. /\ Alive /\ sv \in Children(K) /\ had < sv.want /\ Placed(sv.got, K, "up", sv.rx, had)
      /\ sv.got \in Seq(Items(K, "up")) /\ sv.want \in Nat /\ sv.rx \in Nat /\ had \in Nat
      /\ sv.buf \in Seq(Nat) /\ Rest = sv.want - had /\ Rest \in Nat
      /\ sv.key = K /\ Len(sv.got) = had
  BY <1>1 DEF ChildOK, Alive, AliveStates, Rest, Children
<1>3. PICK c \in Chunks(up, sv.want - Len(sv.got)) :
        /\ up' = SubSeq(up, c + 1, Len(up))
        /\ sv' = LET got == sv.got \o SubSeq(up, 1, c)
                 IN  IF Len(got) = sv.want THEN Filled(sv, got) ELSE [sv EXCEPT !.got = got]
  BY DEF ReadPayload
<1> DEFINE first == SubSeq(up, 1, c)
           got == sv.got \o first
<1>4. /\ c \in 1 .. Len(up) /\ c <= Rest
      /\ up' \in Seq(Items(K, "up")) /\ Dropped(up', up, c) /\ Framed(up', Rest - c)
      /\ \A m \in Nat : Numbered(up, K, "up", sv.rx + had, m) =>
                          Numbered(up', K, "up", sv.rx + had + c, m)
      /\ got \in Seq(Items(K, "up")) /\ Len(got) = had + c
      /\ \A i \in 1 .. had : got[i] = sv.got[i]
      /\ \A i \in 1 .. c : got[had + i] = up[i]
      /\ Placed(got, K, "up", sv.rx, had + c)
  BY <1>1, <1>3, GotIs
<1> HIDE DEF K, had
<1>5. up \in Seq(Items(K, "up")) /\ Framed(up, Rest) /\ Len(up) \in Nat /\ c \in Nat /\ c \in 0 .. Rest
  BY <1>2, <1>4 DEF UpOK
<1>6. PICK m \in Nat : /\ Numbered(up, K, "up", sv.rx + had, m)
                       /\ Polling => cl.tx = m /\ cl.key = K
  BY <1>2 DEF UpOK
<1>7. Numbered(up', K, "up", sv.rx + had + c, m)
  BY <1>4, <1>6
<1>8. sv' = IF Len(got) = sv.want THEN Filled(sv, got) ELSE [sv EXCEPT !.got = got]
  BY <1>3
<1> HIDE DEF first, got
<1>9. ASSUME NEW j \in had + 1 .. had + c
      PROVE  j - had \in 1 .. c /\ got[j] = up[j - had]
  <2>1. j - had \in 1 .. c /\ had + (j - had) = j
    BY <1>2, <1>5
  <2> QED
    BY <1>4, <2>1
<1>10. /\ cl.pc # "key"
       /\ Sound(Begun(sv, up), May(Len(up) = Rest))
  BY <1>1, <1>2 DEF StartOK, BytesOK
<1>11. ASSUME NEW i \in 1 .. Len(up'), ~Coded(up'[i])
       PROVE  Sound(Body(up', i), May(i + up[i].len = Len(up))')
  <2>1. Len(up) = Len(up') + c /\ \A j \in 1 .. Len(up') : up'[j] = up[c + j]
    BY <1>4, <1>5 DEF Dropped
  <2> DEFINE l == up[c + i].len
  <2>2. /\ up'[i] = up[c + i] /\ c + i \in 1 .. Len(up) /\ up[c + i].len = l /\ l \in Nat
        /\ up'[i].len = l
    BY <1>4, <1>5, <1>11, <2>1, ItemIs
  <2> HIDE DEF l
  <2>3. Sound(Body(up, c + i), May((c + i) + up[c + i].len = Len(up)))
    BY <1>2, <1>11, <2>2 DEF BytesOK
  <2>4. (c + i) + l = Len(up) => i + l = Len(up')
    BY <1>4, <1>5, <2>1, <2>2
  <2>5. (c + i) + l <= Len(up)
    BY <1>5, <1>11, <2>2 DEF Framed
  <2>6. Body(up, c + i) = Body(up', i)
    <3>1. \A j \in 1 .. l : up[(c + i) + j] = up'[i + j]
      <4> TAKE j \in 1 .. l
      <4>1. i + j \in 1 .. Len(up') /\ c + (i + j) = (c + i) + j
        BY <1>4, <1>5, <2>1, <2>2, <2>5
      <4> QED
        BY <2>1, <4>1
    <3> QED
      BY <2>2, <3>1 DEF Body
  <2>7. May((c + i) + up[c + i].len = Len(up)) => May(i + up[i].len = Len(up))'
    BY <1>1, <2>2, <2>4 DEF May, Polling
  <2>8. May((c + i) + up[c + i].len = Len(up)) \in BOOLEAN /\ May(i + up[i].len = Len(up))' \in BOOLEAN
    BY DEF May
  <2> QED
    BY <2>3, <2>6, <2>7, <2>8, SoundMono
<1>12. CASE Len(got) = sv.want
  <2> DEFINE bytes == Clear(got, sv.key, "up", sv.rx)
  <2>1. /\ bytes = [i \in 1 .. sv.want |-> got[i].v]
        /\ bytes \in Seq(Nat) /\ Len(bytes) = sv.want
    <3>1. Placed(got, K, "up", sv.rx, Len(got)) /\ sv.rx \in Nat /\ got \in Seq(Items(K, "up"))
      BY <1>2, <1>4
    <3> DEFINE clear == Clear(got, K, "up", sv.rx)
    <3>2. /\ clear = [i \in 1 .. Len(got) |-> got[i].v]
          /\ clear \in Seq(Nat) /\ Len(clear) = Len(got)
      BY <3>1, ClearIs
    <3>3. bytes = clear
      BY <1>2
    <3> HIDE DEF clear, bytes
    <3> QED
      BY <1>12, <3>2, <3>3
  <2>2. bytes = Begun(sv, up)
    <3>1. ASSUME NEW j \in 1 .. sv.want
          PROVE  got[j].v = IF j <= Len(sv.got) THEN sv.got[j].v ELSE up[j - Len(sv.got)].v
      <4>1. CASE j \in 1 .. had
        <5>1. j <= Len(sv.got) /\ got[j] = sv.got[j]
          BY <1>2, <1>4, <4>1
        <5> QED
          BY <5>1
      <4>2. CASE j \in had + 1 .. had + c
        <5>1. ~(j <= Len(sv.got)) /\ got[j] = up[j - Len(sv.got)]
          BY <1>2, <1>9, <4>2
        <5> QED
          BY <5>1
      <4>3. j \in 1 .. had \/ j \in had + 1 .. had + c
        BY <1>2, <1>4, <1>5, <1>12
      <4> QED
        BY <4>1, <4>2, <4>3
    <3> HIDE DEF bytes
    <3> QED
      BY <2>1, <3>1 DEF Begun
  <2>3. sv' = [sv EXCEPT !.pc = "parse", !.rx = @ + Len(bytes), !.buf = Over(bytes, @),
                         !.got = <<>>, !.read = Len(bytes), !.off = 0]
    BY <1>8, <1>12, Zenon DEF Filled
  <2> HIDE DEF bytes
  <2>4. /\ Over(bytes, sv.buf) \in Seq(Nat) /\ Len(bytes) <= Len(Over(bytes, sv.buf))
        /\ SubSeq(Over(bytes, sv.buf), 1, Len(bytes)) = bytes
    BY <1>2, <2>1, OverIs
  <2>5. /\ sv'.pc = "parse" /\ sv'.rx = sv.rx + sv.want /\ sv'.buf = Over(bytes, sv.buf)
        /\ sv'.got = <<>> /\ sv'.read = sv.want /\ sv'.off = 0 /\ sv'.key = K
        /\ sv'.tx = sv.tx
    BY <1>2, <2>1, <2>3 DEF Children
  <2>6. sv' \in Children(K)
    <3>1. sv.rx + sv.want \in Nat /\ Len(bytes) \in Nat /\ <<>> \in Seq(Items(K, "up"))
      BY <1>2, <2>1
    <3> QED
      BY <1>2, <2>1, <2>3, <2>4, <3>1 DEF Children, AliveStates
  <2>7. Alive' /\ Rest' = 0 /\ Rest = c /\ sv'.rx + Len(sv'.got) = sv.rx + had + c
    <3>1. Alive' /\ Rest' = 0
      BY <2>5 DEF Alive, AliveStates, Rest
    <3>2. sv.want = had + c /\ Rest = c
      <4>1. sv.want = had + c
        BY <1>4, <1>12, Zenon
      <4>2. Rest = sv.want - had /\ had \in Nat /\ c \in Nat
        BY <1>2, <1>4, <1>5
      <4> QED
        BY <4>1, <4>2
    <3>3. Len(sv'.got) = 0
      BY <2>5
    <3>4. sv'.rx + Len(sv'.got) = sv.rx + had + c
      BY <1>2, <1>4, <1>5, <2>5, <3>2, <3>3
    <3> QED
      BY <3>1, <3>2, <3>4
  <2>8. ChildOK'
    BY <1>2, <2>1, <2>4, <2>5, <2>6 DEF ChildOK
  <2>9. UpOK'
    <3>1. Framed(up', 0) /\ Numbered(up', K, "up", sv'.rx + Len(sv'.got), m)
      BY <1>4, <1>5, <1>7, <2>7
    <3>2. Polling' => cl'.tx = m /\ cl'.key = sv'.key
      BY <1>1, <1>6, <2>5 DEF Polling
    <3> QED
      BY <1>4, <2>5, <2>7, <3>1, <3>2 DEF UpOK
  <2>10. BytesOK'
    <3>1. PICK starts : 0 \in starts /\ Program(bytes, starts, May(Len(up) = Rest))
      BY <1>10, <2>2 DEF Sound
    <3>2. Len(up) = Rest => up' = <<>>
      BY <1>4, <1>5, <2>7 DEF Dropped
    <3>3. May(Len(up) = Rest) => May(up = <<>>)'
      BY <1>1, <3>2 DEF May, Polling
    <3>4. May(Len(up) = Rest) \in BOOLEAN /\ May(up = <<>>)' \in BOOLEAN
      BY DEF May
    <3>5. Program(bytes, starts, May(up = <<>>)')
      BY <3>1, <3>3, <3>4, ProgramMono
    <3>6. SubSeq(sv'.buf, 1, sv'.read) = bytes
      BY <2>1, <2>4, <2>5
    <3> QED
      BY <1>11, <2>5, <3>1, <3>5, <3>6 DEF BytesOK
  <2>11. StartOK' /\ PollerOK'
    BY <1>1, <1>2, <1>10, <2>5, <2>7, PollerStays
  <2> QED
    BY <2>8, <2>9, <2>10, <2>11
<1>13. CASE Len(got) # sv.want
  <2>1. sv' = [sv EXCEPT !.got = got]
    BY <1>8, <1>13
  <2>2. /\ sv'.pc = "payload" /\ sv'.rx = sv.rx /\ sv'.got = got /\ sv'.key = K
        /\ sv'.tx = sv.tx /\ sv'.want = sv.want /\ sv' \in Children(K)
    BY <1>1, <1>2, <1>4, <2>1 DEF Children
  <2>3. Alive' /\ Rest' = Rest - c /\ sv'.rx + Len(sv'.got) = sv.rx + had + c
        /\ Len(sv'.got) < sv'.want
    <3>1. Alive' /\ Rest' = sv.want - Len(got)
      BY <2>2 DEF Alive, AliveStates, Rest
    <3>2. Len(got) = had + c /\ had + c # sv.want /\ Rest = sv.want - had /\ c <= Rest
      BY <1>2, <1>4, <1>5, <1>13
    <3>3. had + c < sv.want /\ sv.want - (had + c) = Rest - c /\ sv.rx + (had + c) = sv.rx + had + c
      <4> DEFINE want == sv.want
                 rx == sv.rx
                 rest == Rest
      <4>1. had \in Nat /\ c \in Nat /\ want \in Nat /\ rx \in Nat /\ rest \in Nat
        BY <1>2, <1>4, <1>5
      <4>2. had + c # want /\ rest = want - had /\ c <= rest
        BY <3>2
      <4> HIDE DEF want, rx, rest
      <4>3. had + c < want /\ want - (had + c) = rest - c /\ rx + (had + c) = rx + had + c
        BY <4>1, <4>2
      <4> QED
        BY <4>3 DEF want, rx, rest
    <3> QED
      BY <2>2, <3>1, <3>2, <3>3
  <2>4. ChildOK'
    BY <1>4, <2>2, <2>3 DEF ChildOK
  <2>5. UpOK'
    <3>1. Framed(up', Rest') /\ Numbered(up', K, "up", sv'.rx + Len(sv'.got), m)
      BY <1>4, <1>7, <2>3
    <3>2. Polling' => cl'.tx = m /\ cl'.key = sv'.key
      BY <1>1, <1>6, <2>2 DEF Polling
    <3> QED
      BY <1>4, <2>2, <2>3, <3>1, <3>2 DEF UpOK
  <2>6. BytesOK'
    <3>1. Begun(sv', up') = Begun(sv, up)
      <4>1. ASSUME NEW j \in 1 .. sv.want
            PROVE  (IF j <= Len(got) THEN got[j].v ELSE up'[j - Len(got)].v)
                     = IF j <= Len(sv.got) THEN sv.got[j].v ELSE up[j - Len(sv.got)].v
        <5>1. CASE j \in 1 .. had
          BY <1>2, <1>4, <1>5, <5>1
        <5>2. CASE j \in had + 1 .. had + c
          BY <1>2, <1>4, <1>9, <5>2
        <5>3. CASE j \in had + c + 1 .. sv.want
          <6> DEFINE e == j - (had + c)
          <6>1. e \in 1 .. Len(up') /\ c + e = j - had
            <7> DEFINE w == sv.want
                       l == Len(up)
            <7>1. w \in Nat /\ had \in Nat /\ c \in Nat /\ l \in Nat
              BY <1>2, <1>5
            <7>2. w - had <= l /\ Len(up') = l - c
              BY <1>2, <1>4, <1>5 DEF Dropped, Framed
            <7>3. j \in had + c + 1 .. w
              BY <5>3
            <7> HIDE DEF w, l, had
            <7>4. e \in 1 .. l - c
              BY <7>1, <7>2, <7>3
            <7>5. c + e = j - had
              BY <7>1, <7>3
            <7> QED
              BY <7>2, <7>4, <7>5
          <6>2. up'[e] = up[c + e]
            BY <1>4, <6>1 DEF Dropped
          <6> QED
            BY <1>2, <1>4, <1>5, <5>3, <6>1, <6>2
        <5> QED
          BY <1>2, <1>4, <1>5, <5>1, <5>2, <5>3
      <4> QED
        BY <2>2, <4>1 DEF Begun
    <3>2. Len(up) = Rest => Len(up') = Rest'
      BY <1>2, <1>4, <1>5, <2>3 DEF Dropped
    <3>3. May(Len(up) = Rest) => May(Len(up) = Rest)'
      BY <1>1, <3>2 DEF May, Polling
    <3>4. May(Len(up) = Rest) \in BOOLEAN /\ May(Len(up) = Rest)' \in BOOLEAN
      BY DEF May
    <3>5. Sound(Begun(sv', up'), May(Len(up) = Rest)')
      BY <1>10, <3>1, <3>3, <3>4, SoundMono
    <3> QED
      BY <1>11, <2>2, <3>5 DEF BytesOK
  <2>7. StartOK' /\ PollerOK'
    BY <1>1, <1>2, <1>10, <2>2, <2>3, PollerStays
  <2> QED
    BY <2>4, <2>5, <2>6, <2>7
<1> QED
  BY <1>12, <1>13

\* The processor reads the next bytes of the message.
LEMMA ReadsNext ==
  ASSUME NEW buf \in Seq(Nat), NEW read \in Nat, read <= Len(buf), NEW off \in Nat,
         NEW n \in {3, 4}, off + n <= read
  PROVE  LET x == SubSeq(SubSeq(buf, 1, read), off + 1, off + n)
             b == SubSeq(buf, off + 1, Len(buf)) \o <<0, 0, 0, 0>>
         IN  Len(SubSeq(buf, 1, read)) = read /\ Len(x) = n /\ Reads(b, x)
<1> DEFINE s == SubSeq(buf, 1, read)
           x == SubSeq(s, off + 1, off + n)
           t == SubSeq(buf, off + 1, Len(buf))
           z == <<0, 0, 0, 0>>
           b == t \o z
<1>1. s \in Seq(Nat) /\ Len(s) = read /\ \A i \in 1 .. read : s[i] = buf[i]
  OBVIOUS
<1>2. t \in Seq(Nat) /\ Len(t) = Len(buf) - off /\ \A i \in 1 .. Len(buf) - off : t[i] = buf[off + i]
  OBVIOUS
<1>3. Len(x) = n /\ \A i \in 1 .. n : x[i] = s[off + i]
  <2> HIDE DEF s
  <2> QED
    BY <1>1
<1>4. z \in Seq(Nat)
  OBVIOUS
<1>5. \A i \in 1 .. Len(t) : b[i] = t[i]
  <2> HIDE DEF t, z
  <2> QED
    BY <1>2, <1>4
<1> HIDE DEF s, x, t, z, b
<1>6. Reads(b, x)
  <2> SUFFICES ASSUME NEW i \in 1 .. n PROVE b[i] = x[i]
    BY <1>3 DEF Reads
  <2>1. off + i \in 1 .. read /\ i \in 1 .. Len(buf) - off
    OBVIOUS
  <2> QED
    BY <1>1, <1>2, <1>3, <1>5, <2>1
<1> QED
  BY <1>1, <1>3, <1>6 DEF s, x, t, z, b

\* What the child executes next.
LEMMA InstructionIs ==
  ASSUME ChildOK, BytesOK, sv.pc = "parse"
  PROVE  LET b   == SubSeq(sv.buf, sv.off + 1, Len(sv.buf)) \o <<0, 0, 0, 0>>
             s   == SubSeq(sv.buf, 1, sv.read)
             may == May(up = <<>>)
         IN  \E starts : /\ sv.off \in starts /\ Program(s, starts, may)
                         /\ \E n \in {3, 4} :
                              /\ sv.off + n \in starts /\ sv.off + n <= sv.read
                              /\ LET x == SubSeq(s, sv.off + 1, sv.off + n)
                                 IN  /\ x \in Seq(Nat) /\ Len(x) = n /\ Reads(b, x)
                                     /\ \A i \in 1 .. n : x[i] = sv.buf[sv.off + i]
                                     /\ Quiet(x) \/ (may /\ sv.off + n = sv.read /\ Asks(x))
<1> DEFINE b   == SubSeq(sv.buf, sv.off + 1, Len(sv.buf)) \o <<0, 0, 0, 0>>
           s   == SubSeq(sv.buf, 1, sv.read)
           may == May(up = <<>>)
<1>1. /\ Alive /\ sv.off < sv.read /\ sv.read <= Len(sv.buf)
      /\ sv.buf \in Seq(Nat) /\ sv.read \in Nat /\ sv.off \in Nat
  BY DEF ChildOK, Alive, AliveStates, Children
<1>2. PICK starts : sv.off \in starts /\ Program(s, starts, may)
  BY <1>1 DEF BytesOK
<1>3. s \in Seq(Nat) /\ Len(s) = sv.read /\ \A i \in 1 .. sv.read : s[i] = sv.buf[i]
  BY <1>1
<1>4. PICK n \in {3, 4} :
        /\ sv.off + n \in starts /\ sv.off + n <= sv.read
        /\ LET x == SubSeq(s, sv.off + 1, sv.off + n)
           IN  Quiet(x) \/ (may /\ sv.off + n = sv.read /\ Asks(x))
  <2> HIDE DEF s, may
  <2> DEFINE off == sv.off
             l   == Len(s)
  <2>1. off \in starts /\ off < l /\ l = sv.read /\ l \in Nat
    BY <1>1, <1>2, <1>3
  <2>2. starts \subseteq 0 .. l
    BY <1>2 DEF Program
  <2>3. \A at \in starts : at < l =>
          \E n \in {3, 4} :
            /\ at + n \in starts
            /\ LET x == SubSeq(s, at + 1, at + n)
               IN  Quiet(x) \/ (may /\ at + n = l /\ Asks(x))
    BY <1>2, Zenon DEF Program
  <2> HIDE DEF off, l
  <2>4. \E n \in {3, 4} :
          /\ off + n \in starts
          /\ LET x == SubSeq(s, off + 1, off + n)
             IN  Quiet(x) \/ (may /\ off + n = l /\ Asks(x))
    BY <2>1, <2>3, Zenon
  <2>5. \A n \in {3, 4} : off + n \in starts => off + n <= l
    BY <2>1, <2>2
  <2>6. \E n \in {3, 4} :
          /\ off + n \in starts /\ off + n <= l
          /\ LET x == SubSeq(s, off + 1, off + n)
             IN  Quiet(x) \/ (may /\ off + n = l /\ Asks(x))
    BY <2>4, <2>5, Zenon
  <2> QED
    BY <2>1, <2>6, Zenon DEF off
<1> DEFINE x == SubSeq(s, sv.off + 1, sv.off + n)
<1>5. Len(x) = n /\ Reads(b, x)
  BY <1>1, <1>4, ReadsNext
<1>6. x \in Seq(Nat) /\ \A i \in 1 .. n : x[i] = sv.buf[sv.off + i]
  <2> DEFINE off == sv.off
             read == sv.read
  <2>1. off \in Nat /\ off + n <= read /\ read \in Nat
    BY <1>1, <1>4
  <2> HIDE DEF s, off, read
  <2>2. SubSeq(s, off + 1, off + n) \in Seq(Nat) /\ \A i \in 1 .. n : SubSeq(s, off + 1, off + n)[i] = s[off + i]
    <3>1. Len(s) = read
      BY <1>3 DEF read
    <3> QED
      BY <1>3, <2>1, <3>1
  <2>3. \A i \in 1 .. n : s[off + i] = sv.buf[off + i]
    <3>1. \A i \in 1 .. n : off + i \in 1 .. read
      BY <2>1
    <3> QED
      BY <1>3, <3>1 DEF read
  <2> QED
    BY <2>2, <2>3 DEF off
<1> HIDE DEF x, b, s, may
<1>7. Quiet(x) \/ (may /\ sv.off + n = sv.read /\ Asks(x))
  BY <1>4 DEF x
<1> QED
  BY <1>2, <1>4, <1>5, <1>6, <1>7 DEF x, b, s, may

LEMMA ParseOK == ASSUME SessionInv, Parse PROVE SessionInv'
<1> USE DEF SessionInv
<1> DEFINE b   == SubSeq(sv.buf, sv.off + 1, Len(sv.buf)) \o <<0, 0, 0, 0>>
           did == parseInstruction(sv.m, b, sv.read - sv.off)
           s   == SubSeq(sv.buf, 1, sv.read)
           may == May(up = <<>>)
<1>1. /\ sv.pc = "parse" /\ UNCHANGED <<up, cl>>
      /\ sv' = IF did.exit # NULL \/ did.used <= 0 THEN Exited
               ELSE [sv EXCEPT !.m = did.m, !.off = sv.off + did.used, !.tx = @ + Written(did.out),
                               !.pc = IF sv.off + did.used >= sv.read THEN "header" ELSE "parse"]
      /\ down' = IF did.out = NoOutput THEN down
                 ELSE down \o Message(did.out, sv.key, "down", sv.tx)
  BY DEF Parse
<1>2. /\ Alive /\ sv \in Children(sv.key) /\ sv.got = <<>>
      /\ sv.off < sv.read /\ sv.read <= Len(sv.buf) /\ Rest = 0
      /\ sv.m \in Machine /\ sv.buf \in Seq(Nat) /\ sv.read \in Nat /\ sv.off \in Nat
      /\ sv.tx \in Nat /\ cl.pc # "key" /\ cl.pc # "none"
  BY <1>1 DEF ChildOK, StartOK, Alive, AliveStates, Children, Rest
<1>3. PICK starts : /\ sv.off \in starts /\ Program(s, starts, may)
                    /\ \E n \in {3, 4} :
                         /\ sv.off + n \in starts /\ sv.off + n <= sv.read
                         /\ LET x == SubSeq(s, sv.off + 1, sv.off + n)
                            IN  /\ Len(x) = n /\ Reads(b, x)
                                /\ Quiet(x) \/ (may /\ sv.off + n = sv.read /\ Asks(x))
  BY <1>1, InstructionIs
<1>4. PICK n \in {3, 4} :
        /\ sv.off + n \in starts /\ sv.off + n <= sv.read
        /\ LET x == SubSeq(s, sv.off + 1, sv.off + n)
           IN  /\ Len(x) = n /\ Reads(b, x)
               /\ Quiet(x) \/ (may /\ sv.off + n = sv.read /\ Asks(x))
  BY <1>3
<1> DEFINE x == SubSeq(s, sv.off + 1, sv.off + n)
<1>5. Len(x) = n /\ Reads(b, x) /\ sv.read - sv.off \in Nat \ {0} /\ sv.off + n \in Nat
  <2>1. Len(x) = n /\ Reads(b, x)
    BY <1>4
  <2> HIDE DEF x, b
  <2> QED
    BY <1>2, <2>1
<1>6. Quiet(x) \/ (may /\ sv.off + n = sv.read /\ Asks(x))
  BY <1>4
<1> HIDE DEF x, b, s
<1>7. /\ did.m \in Machine /\ did.used = n
      /\ \/ did.out = NoOutput
         \/ may /\ sv.off + n = sv.read /\ did.out \in Seq(Nat)
  <2> DEFINE left == sv.read - sv.off
  <2>1. left \in Nat \ {0}
    BY <1>5
  <2> HIDE DEF left
  <2>2. CASE Quiet(x)
    <3>1. LET d == parseInstruction(sv.m, b, left)
          IN  d.m \in Machine /\ d.out = NoOutput /\ d.used = Len(x)
      BY <1>2, <1>5, <2>1, <2>2, QuietDoes
    <3> QED
      BY <1>5, <3>1 DEF left
  <2>3. CASE may /\ sv.off + n = sv.read /\ Asks(x)
    <3>1. LET d == parseInstruction(sv.m, b, left)
          IN  d.m \in Machine /\ d.out \in Seq(Nat) /\ d.used = Len(x)
      BY <1>2, <1>5, <2>1, <2>3, AskDoes
    <3> QED
      BY <1>5, <2>3, <3>1 DEF left
  <2> QED
    BY <1>6, <2>2, <2>3
<1> DEFINE wrote == Written(did.out)
<1> HIDE DEF did
<1>8. wrote \in Nat
  BY <1>7 DEF Written
<1>9. /\ UNCHANGED <<up, cl>>
      /\ \/ sv' = Exited
         \/ sv' = [sv EXCEPT !.m = did.m, !.off = sv.off + n, !.tx = @ + wrote,
                             !.pc = IF sv.off + n >= sv.read THEN "header" ELSE "parse"]
  BY <1>1, <1>7
<1> HIDE DEF wrote
<1>10. Alive' => sv'.tx = sv.tx + wrote
  <2>1. CASE sv' = Exited
    BY <2>1 DEF Alive, AliveStates, Exited
  <2>2. CASE sv' # Exited
    BY <1>2, <1>9, <2>2 DEF Children
  <2> QED
    BY <2>1, <2>2
\* What the child answers, the poller waits for.
<1>11. Polling => /\ cl.key = sv.key
                  /\ sv.tx = IF cl.pc = "payload" THEN cl.rx + cl.want
                             ELSE IF down = <<>> THEN cl.rx ELSE cl.rx + Len(down) - 1
  BY <1>2 DEF UpOK, PollerOK
<1>12. PollerOK' /\ (down' # down /\ Polling => up = <<>>)
  <2>1. CASE did.out = NoOutput
    <3>1. down' = down /\ wrote = 0
      BY <1>1, <2>1 DEF wrote, Written
    <3>2. Alive' => sv'.tx = sv.tx
      BY <1>2, <1>10, <3>1
    <3> QED
      BY <1>2, <1>9, <3>1, <3>2, PollerSame
  <2>2. CASE did.out # NoOutput /\ Polling
    <3>1. /\ did.out \in Seq(Nat) /\ wrote = Len(did.out) /\ cl.pc = "length"
          /\ down = <<>> /\ up = <<>> /\ sv.tx = cl.rx /\ cl.key = sv.key
          /\ cl \in Pollers(cl)
      BY <1>7, <1>11, <2>2 DEF May, wrote, Written, PollerOK
    <3> DEFINE t == Message(did.out, sv.key, "down", sv.tx)
    <3>2. t \in Seq(Items(sv.key, "down")) /\ Len(t) = 1 + Len(did.out)
      <4>1. IsMessage(t, did.out, sv.key, "down", sv.tx)
        BY <1>2, <3>1, MessageIs
      <4> HIDE DEF t
      <4> QED
        BY <4>1 DEF IsMessage
    <3>3. down' = <<>> \o t
      BY <1>1, <2>2, <3>1
    <3> HIDE DEF t
    <3>4. down' = t /\ t # <<>> /\ Len(t) - 1 = wrote
      BY <3>1, <3>2, <3>3
    <3>5. down' = Message(did.out, cl'.key, "down", cl'.rx)
      BY <1>9, <3>1, <3>4 DEF t
    <3>6. cl' = cl /\ cl'.pc = "length" /\ cl' \in Pollers(cl')
      BY <1>9, <3>1
    <3>7. Alive' => sv'.tx = cl'.rx + wrote
      BY <1>10, <3>1, <3>6
    <3>8. cl'.rx \in Int /\ wrote \in Int
      BY <1>8, <3>1, <3>6 DEF Pollers
    <3>9. cl'.rx + Len(down') - 1 = cl'.rx + wrote
      BY <3>4, <3>8, <3>1, <3>2
    <3> QED
      BY <3>1, <3>4, <3>5, <3>6, <3>7, <3>9 DEF PollerOK
  <2>3. CASE ~Polling
    BY <1>9, <2>3 DEF PollerOK, Polling
  <2> QED
    BY <2>1, <2>2, <2>3
<1>13. CASE sv' = Exited
  <2>1. ~Alive' /\ sv'.pc = "exited"
    BY <1>13 DEF Alive, AliveStates, Exited
  <2>2. ChildOK' /\ UpOK' /\ BytesOK'
    BY <2>1 DEF ChildOK, UpOK, BytesOK
  <2>3. StartOK'
    BY <1>2, <1>9, <2>1 DEF StartOK
  <2> QED
    BY <1>12, <2>2, <2>3
<1>14. CASE sv' = [sv EXCEPT !.m = did.m, !.off = sv.off + n, !.tx = @ + wrote,
                             !.pc = IF sv.off + n >= sv.read THEN "header" ELSE "parse"]
  <2>1. /\ sv'.pc = IF sv.off + n >= sv.read THEN "header" ELSE "parse"
        /\ sv'.key = sv.key /\ sv'.rx = sv.rx /\ sv'.got = sv.got /\ sv'.off = sv.off + n
        /\ sv'.read = sv.read /\ sv'.buf = sv.buf
    BY <1>2, <1>14 DEF Children
  <2>2. sv' \in Children(sv.key)
    <3>1. sv.tx + wrote \in Nat
      BY <1>2, <1>8
    <3> QED
      BY <1>2, <1>5, <1>7, <1>14, <3>1 DEF Children, AliveStates
  <2>3. sv'.pc \in {"header", "parse"} /\ Alive' /\ Rest' = 0
    BY <2>1 DEF Alive, AliveStates, Rest
  <2>4. ChildOK'
    <3>1. sv'.pc = "parse" => sv'.off < sv'.read /\ sv'.read <= Len(sv'.buf)
      BY <1>2, <1>4, <1>5, <2>1
    <3> QED
      BY <1>2, <2>1, <2>2, <2>3, <3>1 DEF ChildOK
  <2>5. UpOK'
    BY <1>2, <1>9, <2>1, <2>3 DEF UpOK, Polling
  <2>6. \A l \in BOOLEAN : up # <<>> \/ down' = down => (May(l) => May(l)')
    BY <1>9, <1>12 DEF May, Polling
  <2>7. BytesOK'
    <3>1. ASSUME NEW i \in 1 .. Len(up), ~Coded(up[i])
          PROVE  Sound(Body(up, i), May(i + up[i].len = Len(up))')
      <4>1. (i + up[i].len = Len(up)) \in BOOLEAN /\ up # <<>>
        OBVIOUS
      <4>2. Sound(Body(up, i), May(i + up[i].len = Len(up)))
        BY <1>2, <3>1 DEF BytesOK
      <4>3. May(i + up[i].len = Len(up)) => May(i + up[i].len = Len(up))'
        BY <1>9, <2>6, <4>1
      <4>4. May(i + up[i].len = Len(up)) \in BOOLEAN /\ May(i + up[i].len = Len(up))' \in BOOLEAN
        BY DEF May
      <4> QED
        BY <4>2, <4>3, <4>4, SoundMono
    <3>2. ASSUME sv'.pc = "parse"
          PROVE  /\ sv'.off \in starts
                 /\ Program(SubSeq(sv'.buf, 1, sv'.read), starts, May(up = <<>>)')
      <4>1. ~(sv.off + n >= sv.read)
        BY <2>1, <3>2
      <4>2. did.out = NoOutput /\ down' = down
        BY <1>1, <1>2, <1>5, <1>7, <4>1
      <4>3. May(up = <<>>) => May(up = <<>>)'
        BY <1>9, <4>2 DEF May, Polling
      <4>4. May(up = <<>>) \in BOOLEAN /\ May(up = <<>>)' \in BOOLEAN
        BY DEF May
      <4>5. Program(s, starts, May(up = <<>>)')
        BY <1>3, <4>3, <4>4, ProgramMono
      <4> QED
        BY <1>4, <2>1, <4>5 DEF s
    <3> QED
      BY <1>9, <2>3, <3>1, <3>2 DEF BytesOK
  <2>8. StartOK'
    BY <1>2, <1>9, <2>3 DEF StartOK, AliveStates
  <2> QED
    BY <1>12, <2>4, <2>5, <2>7, <2>8
<1> QED
  BY <1>9, <1>13, <1>14

LEMMA GetKeyOK == ASSUME SessionInv, GetKey PROVE SessionInv'
<1> USE DEF SessionInv
<1>1. /\ cl.pc = "key" /\ down # <<>> /\ down' = Tail(down) /\ UNCHANGED <<up, sv>>
      /\ cl' = [pc |-> "batch", poll |-> cl.poll, key |-> Head(down).key, m |-> StartMachine,
                rx |-> 0, tx |-> 0, pass |-> 1, i |-> 0, room |-> 0, want |-> 0, count |-> 0,
                buf |-> <<>>, torn |-> FALSE]
  BY DEF GetKey
<1>2. /\ cl.poll \in Polls /\ sv.pc # "none" /\ down' = <<>>
      /\ Alive => /\ sv.pc = "header" /\ up = <<>> /\ sv.rx = 0 /\ sv.tx = 0
                  /\ Head(down).key = sv.key
  <2>1. CASE Alive
    <3>1. down = <<[key |-> sv.key]>>
      BY <1>1, <2>1 DEF StartOK
    <3>2. Head(down) = [key |-> sv.key] /\ Tail(down) = <<>>
      BY <3>1
    <3> QED
      BY <1>1, <2>1, <3>2 DEF StartOK
  <2>2. CASE ~Alive
    <3>1. PICK k : down = <<[key |-> k]>>
      BY <1>1, <2>2 DEF StartOK, Alive
    <3> QED
      BY <1>1, <2>2, <3>1 DEF StartOK
  <2> QED
    BY <2>1, <2>2
<1>3. /\ cl'.pc = "batch" /\ cl'.poll = cl.poll /\ cl'.key = Head(down).key /\ cl'.rx = 0
      /\ cl'.tx = 0 /\ cl'.i = 0 /\ cl' \in Pollers(cl')
  <2>1. 0 \in Nat
    OBVIOUS
  <2> QED
    BY <1>1, <1>2, <2>1 DEF Pollers, PollingStates
<1>4. ChildOK' /\ (Alive' => Alive)
  BY <1>1, ChildSame DEF Alive
<1>5. UpOK'
  <2> SUFFICES ASSUME Alive PROVE UpOK'
    BY <1>4 DEF UpOK
  <2>1. sv.got = <<>> /\ Rest' = 0
    BY <1>1, <1>2 DEF ChildOK, Rest
  <2>2. sv'.rx + Len(sv'.got) = 0
    BY <1>1, <1>2, <2>1
  <2>3. Framed(<<>>, 0) /\ Numbered(<<>>, sv.key, "up", 0, 0) /\ <<>> \in Seq(Items(sv.key, "up"))
    BY NothingSent
  <2> QED
    BY <1>1, <1>2, <1>3, <2>1, <2>2, <2>3 DEF UpOK
<1>6. BytesOK'
  <2> SUFFICES ASSUME Alive PROVE BytesOK'
    BY <1>4 DEF BytesOK
  <2> QED
    BY <1>1, <1>2 DEF BytesOK
<1>7. StartOK'
  BY <1>1, <1>2, <1>3 DEF StartOK, Alive, AliveStates, PollingStates, Polling
<1>8. PollerOK'
  BY <1>1, <1>2, <1>3, <1>4 DEF PollerOK
<1> QED
  BY <1>4, <1>5, <1>6, <1>7, <1>8

\* A poller that goes on leaves what is true of the ends.
LEMMA PollerMoves ==
  ASSUME SessionInv, Polling, sv' = sv, cl'.pc \in PollingStates \cup Ends
  PROVE  StartOK'
BY DEF SessionInv, StartOK, Polling, PollingStates, Ends

\* The poller reads, or runs: the child has nothing that asks.
LEMMA PollerTurns ==
  ASSUME SessionInv, Polling, UNCHANGED <<sv, up>>, cl.pc = "length" => down # <<>>,
         cl'.pc \in PollingStates, cl'.tx = cl.tx, cl'.key = cl.key, PollerOK'
  PROVE  SessionInv'
<1>1. ChildOK' /\ UpOK' /\ StartOK'
  BY ChildSame, UpSame, PollerMoves DEF SessionInv
<1>2. BytesOK'
  <2>1. \A l \in BOOLEAN : May(l) => May(l)'
    BY DEF May
  <2> QED
    BY <2>1, BytesSame DEF SessionInv
<1> QED
  BY <1>1, <1>2 DEF SessionInv

\* What executing leaves alone.
LEMMA RanIs ==
  ASSUME NEW c, c \in Pollers(c), NEW bytes, NEW next \in PollingStates
  PROVE  LET r == Ran(c, bytes, next)
         IN  \/ r.pc = "aborted"
             \/ /\ r \in Pollers(r) /\ r.pc = next /\ r.key = c.key /\ r.i = c.i
                /\ r.rx = c.rx /\ r.tx = c.tx
<1> DEFINE did == parseData(c.m, bytes)
<1>1. Ran(c, bytes, next) = IF did.m = NULL THEN [c EXCEPT !.pc = "aborted"]
                            ELSE [c EXCEPT !.m = did.m, !.pc = next]
  BY Zenon DEF Ran, Silent
<1> HIDE DEF did
<1>2. CASE did.m = NULL
  BY <1>1, <1>2 DEF Pollers
<1>3. CASE did.m # NULL
  <2> DEFINE r == [c EXCEPT !.m = did.m, !.pc = next]
  <2>1. r \in Pollers(r) /\ r.pc = next /\ r.key = c.key /\ r.i = c.i /\ r.rx = c.rx /\ r.tx = c.tx
    BY DEF Pollers
  <2> HIDE DEF r
  <2> QED
    BY <1>1, <1>3, <2>1 DEF r
<1> QED
  BY <1>2, <1>3

LEMMA RunIoOK == ASSUME SessionInv, RunIo PROVE SessionInv'
<1>1. cl.pc = "run" /\ cl' = Ran(cl, IoBytes, "memory") /\ UNCHANGED <<up, down, sv>>
  BY DEF RunIo
<1>2. Polling /\ cl \in Pollers(cl) /\ "memory" \in PollingStates /\ down = <<>>
  BY <1>1 DEF SessionInv, PollerOK, Polling, PollingStates
<1>3. CASE cl'.pc = "aborted"
  BY <1>1, <1>3, PollerEnds DEF Ends
<1>4. CASE /\ cl' \in Pollers(cl') /\ cl'.pc = "memory" /\ cl'.key = cl.key /\ cl'.i = cl.i
           /\ cl'.rx = cl.rx /\ cl'.tx = cl.tx
  <2>1. Alive' => Alive /\ sv'.tx = cl'.rx
    BY <1>1, <1>2, <1>4 DEF SessionInv, PollerOK, Alive
  <2>2. PollerOK'
    BY <1>1, <1>2, <1>4, <2>1 DEF PollerOK
  <2> QED
    BY <1>1, <1>2, <1>4, <2>2, PollerTurns
<1> QED
  BY <1>1, <1>2, <1>3, <1>4, RanIs

LEMMA BytesAreNat == \A bytes \in Seq(Byte) : bytes \in Seq(Nat) /\ Len(bytes) \in Nat
<1> SUFFICES ASSUME NEW bytes \in Seq(Byte) PROVE bytes \in Seq(Nat) /\ Len(bytes) \in Nat
  OBVIOUS
<1>1. \A i \in 1 .. Len(bytes) : bytes[i] \in Nat
  <2>1. \A i \in 1 .. Len(bytes) : bytes[i] \in Byte
    OBVIOUS
  <2>2. \A x \in Byte : x \in Nat
    BY DEF Byte
  <2> QED
    BY <2>1, <2>2
<1> QED
  BY <1>1

\* What the poller sends follows what is on its way.
LEMMA SendOK ==
  ASSUME SessionInv, Polling, cl.pc \notin {"length", "payload"}, UNCHANGED <<sv, down>>,
         NEW bytes, Send(bytes), NEW asking \in BOOLEAN, Sound(bytes, asking),
         asking => May(TRUE)',
         Polling' => cl'.tx = cl.tx + Len(bytes) /\ cl'.key = cl.key
  PROVE  ChildOK' /\ UpOK' /\ BytesOK'
<1> USE DEF SessionInv
<1>1. ChildOK'
  BY ChildSame
<1> SUFFICES ASSUME Alive' PROVE UpOK' /\ BytesOK'
  BY <1>1 DEF UpOK, BytesOK
<1>2. Alive /\ Rest' = Rest
  BY DEF Alive, Rest
<1>3. PICK m \in Nat : /\ Numbered(up, sv.key, "up", sv.rx + Len(sv.got), m)
                       /\ cl.tx = m /\ cl.key = sv.key
  BY <1>2 DEF UpOK
<1>4. /\ up \in Seq(Items(sv.key, "up")) /\ Framed(up, Rest) /\ Len(up) \in Nat
      /\ Rest \in Nat /\ sv.rx + Len(sv.got) \in Nat
  <2>1. up \in Seq(Items(sv.key, "up")) /\ Framed(up, Rest)
    BY <1>2 DEF UpOK
  <2>2. sv \in Children(sv.key) /\ (sv.pc = "payload" => Len(sv.got) < sv.want)
    BY <1>2 DEF ChildOK
  <2>3. sv.rx \in Nat /\ sv.want \in Nat /\ Len(sv.got) \in Nat
    BY <2>2 DEF Children
  <2>4. Rest \in Nat
    BY <2>2, <2>3 DEF Rest
  <2> QED
    BY <2>1, <2>3, <2>4
<1>5. bytes \in Seq(Byte) /\ bytes \in Seq(Nat) /\ Len(bytes) \in Nat
  <2>1. bytes \in Seq(Byte)
    BY DEF Sound
  <2>2. bytes \in Seq(Nat)
    BY <2>1, BytesAreNat
  <2> QED
    BY <2>1, <2>2
<1> DEFINE t == Message(bytes, sv.key, "up", m)
<1>6. /\ t \in Seq(Items(sv.key, "up")) /\ Len(t) = 1 + Len(bytes)
      /\ ~Coded(t[1]) /\ t[1].len = Len(bytes)
      /\ \A i \in 1 .. Len(bytes) : Coded(t[1 + i]) /\ t[1 + i].v = bytes[i]
  <2>1. bytes \in Seq(Nat)
    BY <1>5
  <2>2. IsMessage(t, bytes, sv.key, "up", m)
    BY <2>1, MessageIs
  <2> HIDE DEF t
  <2> QED
    BY <2>2 DEF IsMessage
<1>7. up' = up \o t
  BY <1>3 DEF Send
<1> HIDE DEF t
<1>8. /\ up' \in Seq(Items(sv.key, "up")) /\ Len(up') = Len(up) + Len(t)
      /\ \A i \in 1 .. Len(up) : up'[i] = up[i]
      /\ \A i \in 1 .. Len(t) : up'[Len(up) + i] = t[i]
  <2> DEFINE items == Items(sv.key, "up")
             after == up'
  <2>1. up \in Seq(items) /\ t \in Seq(items) /\ after = up \o t
    BY <1>4, <1>6, <1>7
  <2> HIDE DEF items, after
  <2>2. /\ after \in Seq(items) /\ Len(after) = Len(up) + Len(t)
        /\ \A i \in 1 .. Len(up) : after[i] = up[i]
        /\ \A i \in 1 .. Len(t) : after[Len(up) + i] = t[i]
    BY <2>1
  <2> QED
    BY <2>2 DEF items, after
<1>9. UpOK'
  <2>1. Sends(up', up, Message(bytes, sv.key, "up", m))
    BY <1>8 DEF Sends, t
  <2>2. Framed(up', Rest)
    BY <1>4, <1>5, <2>1, FramedCat
  <2>3. Numbered(up', sv.key, "up", sv.rx + Len(sv.got), m + Len(bytes))
    BY <1>3, <1>4, <1>5, <2>1, NumberedCat
  <2>4. m + Len(bytes) \in Nat
    BY <1>5
  <2>5. Polling' => cl'.tx = m + Len(bytes) /\ cl'.key = sv'.key
    BY <1>3
  <2> QED
    BY <1>2, <1>8, <2>2, <2>3, <2>4, <2>5 DEF UpOK
\* Nothing that was on its way asks.
<1>10. \A l \in BOOLEAN : May(l) = FALSE
  BY DEF May
<1>11. ASSUME NEW i \in 1 .. Len(up'), ~Coded(up'[i])
       PROVE  Sound(Body(up', i), May(i + up[i].len = Len(up))')
  <2> DEFINE new == May(i + up[i].len = Len(up))'
  <2>1. new \in BOOLEAN
    BY DEF May
  <2>2. CASE i \in 1 .. Len(up)
    <3> DEFINE l == up[i].len
    <3>1. up'[i] = up[i] /\ ~Coded(up[i]) /\ l \in Nat /\ i + l <= Len(up)
      BY <1>4, <1>8, <1>11, <2>2, ItemIs DEF Framed
    <3>2. \A j \in 1 .. l : up'[i + j] = up[i + j]
      <4> HIDE DEF l
      <4> QED
        BY <1>4, <1>8, <2>2, <3>1
    <3>3. Body(up', i) = Body(up, i)
      BY <3>1, <3>2 DEF Body
    <3>4. Sound(Body(up, i), FALSE)
      <4>1. Sound(Body(up, i), May(i + up[i].len = Len(up)))
        BY <1>2, <2>2, <3>1 DEF BytesOK
      <4>2. (i + up[i].len = Len(up)) \in BOOLEAN
        OBVIOUS
      <4>3. May(i + up[i].len = Len(up)) = FALSE
        BY <1>10, <4>2
      <4> QED
        BY <4>1, <4>3
    <3> HIDE DEF new
    <3>5. Sound(Body(up', i), new)
      BY <2>1, <3>3, <3>4, SoundMono
    <3> QED
      BY <3>5 DEF new
  <2>3. CASE i = Len(up) + 1
    <3>1. up'[i] = t[1] /\ i + Len(bytes) = Len(up') /\ up'[i].len = Len(bytes)
      <4>1. 1 \in 1 .. Len(t)
        BY <1>5, <1>6
      <4> QED
        BY <1>4, <1>5, <1>6, <1>8, <2>3, <4>1
    <3>2. \A j \in 1 .. Len(bytes) : up'[i + j].v = bytes[j]
      <4> TAKE j \in 1 .. Len(bytes)
      <4>1. 1 + j \in 1 .. Len(t) /\ i + j = Len(up) + (1 + j)
        BY <1>4, <1>5, <1>6, <2>3
      <4>2. up'[i + j] = t[1 + j]
        BY <1>8, <4>1
      <4> QED
        BY <1>6, <4>2
    <3>3. Body(up', i) = bytes
      <4>1. Body(up', i) = [j \in 1 .. Len(bytes) |-> bytes[j]]
        BY <3>1, <3>2 DEF Body
      <4> QED
        BY <1>5, <4>1
    <3>4. asking => new
      BY <3>1 DEF May
    <3> HIDE DEF new
    <3>5. Sound(Body(up', i), new)
      BY <2>1, <3>3, <3>4, SoundMono
    <3> QED
      BY <3>5 DEF new
  <2>4. CASE i \in Len(up) + 2 .. Len(up')
    <3> DEFINE j == i - Len(up) - 1
    <3>1. j \in 1 .. Len(bytes) /\ 1 + j \in 1 .. Len(t) /\ i = Len(up) + (1 + j)
      BY <1>4, <1>5, <1>6, <1>8, <2>4
    <3> HIDE DEF j
    <3>2. up'[i] = t[1 + j]
      BY <1>8, <3>1
    <3> QED
      BY <1>6, <1>11, <3>1, <3>2
  <2> QED
    BY <1>4, <1>8, <2>2, <2>3, <2>4
<1>12. ASSUME sv'.pc = "payload"
       PROVE  Sound(Begun(sv', up'), May(Len(up) = Rest)')
  <2>1. sv.pc = "payload" /\ Rest = sv.want - Len(sv.got) /\ Rest <= Len(up)
        /\ sv.want \in Nat /\ Len(sv.got) \in Nat
    BY <1>2, <1>4, <1>12 DEF Rest, Framed, ChildOK, Children
  <2>2. \A j \in 1 .. sv.want : ~(j <= Len(sv.got)) => up'[j - Len(sv.got)] = up[j - Len(sv.got)]
    <3> TAKE j \in 1 .. sv.want
    <3>1. ~(j <= Len(sv.got)) => j - Len(sv.got) \in 1 .. Len(up)
      BY <1>4, <2>1
    <3> QED
      BY <1>8, <3>1
  <2>3. Begun(sv', up') = Begun(sv, up)
    BY <2>2 DEF Begun
  <2>4. Sound(Begun(sv, up), FALSE)
    <3>1. Sound(Begun(sv, up), May(Len(up) = Rest))
      BY <1>2, <2>1 DEF BytesOK
    <3>2. (Len(up) = Rest) \in BOOLEAN
      OBVIOUS
    <3>3. May(Len(up) = Rest) = FALSE
      BY <1>10, <3>2
    <3> QED
      BY <3>1, <3>3
  <2> DEFINE new == May(Len(up) = Rest)'
  <2>5. new \in BOOLEAN
    BY DEF May
  <2> HIDE DEF new
  <2>6. Sound(Begun(sv', up'), new)
    BY <2>3, <2>4, <2>5, SoundMono
  <2> QED
    BY <2>6 DEF new
<1>13. ASSUME sv'.pc = "parse"
       PROVE  \E starts : /\ sv'.off \in starts
                          /\ Program(SubSeq(sv'.buf, 1, sv'.read), starts, May(up = <<>>)')
  <2>1. PICK starts : /\ sv.off \in starts
                      /\ Program(SubSeq(sv.buf, 1, sv.read), starts, May(up = <<>>))
    BY <1>2, <1>13 DEF BytesOK
  <2>2. (up = <<>>) \in BOOLEAN
    OBVIOUS
  <2>3. May(up = <<>>) = FALSE
    BY <1>10, <2>2
  <2> DEFINE new == May(up = <<>>)'
  <2>4. new \in BOOLEAN
    BY DEF May
  <2> HIDE DEF new
  <2>5. Program(SubSeq(sv.buf, 1, sv.read), starts, new)
    BY <2>1, <2>3, <2>4, ProgramMono
  <2> QED
    BY <2>1, <2>5 DEF new
<1>14. BytesOK'
  BY <1>11, <1>12, <1>13 DEF BytesOK
<1> QED
  BY <1>9, <1>14

\* What the pollers send is drawn.
LEMMA DrawnIsSound ==
  ASSUME NEW bytes, NEW asking \in BOOLEAN, Draws(bytes, asking)
  PROVE  Sound(bytes, asking)
BY DEF Draws, Sound

\* A poller that has written, and has nothing to read.
LEMMA SentIs ==
  ASSUME NEW c, c \in Pollers(c), NEW bytes, Len(bytes) \in Nat
  PROVE  LET s == Sent(c, bytes)
         IN  /\ s \in Pollers(s) /\ s.tx = c.tx + Len(bytes) /\ s.key = c.key /\ s.i = c.i
             /\ s.rx = c.rx /\ s.poll = c.poll /\ s.pc = c.pc
<1> DEFINE s == [c EXCEPT !.tx = @ + Len(bytes)]
<1>1. s = [c EXCEPT !.tx = c.tx + Len(bytes)] /\ c.tx + Len(bytes) \in Nat
  BY DEF Pollers
<1>2. Sent(c, bytes) = s
  BY DEF Sent
<1> HIDE DEF s
<1>3. s \in Pollers(s) /\ s.tx = c.tx + Len(bytes) /\ s.key = c.key /\ s.i = c.i
      /\ s.rx = c.rx /\ s.poll = c.poll /\ s.pc = c.pc
  BY <1>1 DEF Pollers
<1> QED
  BY <1>2, <1>3

\* A poller that sends what asks for nothing, and executes it.
LEMMA SentAndRan ==
  ASSUME SessionInv, Polling, cl.pc \notin {"length", "payload"}, UNCHANGED <<sv, down>>,
         NEW bytes, Send(bytes), Sound(bytes, FALSE),
         NEW c, c \in Pollers(c), c.i \in Register, c.tx = cl.tx + Len(bytes),
         c.key = cl.key, c.rx = cl.rx, cl' = Ran(c, bytes, "ask")
  PROVE  SessionInv'
<1>1. cl \in Pollers(cl) /\ down = <<>> /\ "ask" \in PollingStates
  BY DEF SessionInv, PollerOK, PollingStates
<1>2. \/ cl'.pc = "aborted"
      \/ /\ cl' \in Pollers(cl') /\ cl'.pc = "ask" /\ cl'.key = c.key /\ cl'.i = c.i
         /\ cl'.rx = c.rx /\ cl'.tx = c.tx
  BY <1>1, RanIs
<1>3. Polling' => cl'.tx = cl.tx + Len(bytes) /\ cl'.key = cl.key
  BY <1>2 DEF Polling, PollingStates
<1>4. ChildOK' /\ UpOK' /\ BytesOK'
  BY <1>3, SendOK
<1>5. StartOK'
  BY <1>2, PollerMoves DEF PollingStates, Ends
<1>6. PollerOK'
  <2>1. CASE cl'.pc = "aborted"
    BY <2>1 DEF PollerOK, Polling, PollingStates
  <2>2. CASE /\ cl' \in Pollers(cl') /\ cl'.pc = "ask" /\ cl'.key = c.key /\ cl'.i = c.i
             /\ cl'.rx = c.rx /\ cl'.tx = c.tx
    <3>1. Alive' => Alive /\ sv'.tx = cl'.rx
      BY <1>1, <2>2 DEF SessionInv, PollerOK, Alive
    <3> QED
      BY <1>1, <2>2, <3>1 DEF PollerOK
  <2> QED
    BY <1>2, <2>1, <2>2
<1> QED
  BY <1>4, <1>5, <1>6 DEF SessionInv

LEMMA SendBatchOK == ASSUME SessionInv, SendBatch PROVE SessionInv'
<1>1. /\ cl.pc = "batch" /\ Send(cl.poll.batch) /\ UNCHANGED <<down, sv>>
      /\ cl' = Ran(Sent(cl, cl.poll.batch), cl.poll.batch, "ask")
  BY DEF SendBatch
<1>2. Polling /\ cl \in Pollers(cl) /\ cl.i = 0 /\ cl.poll \in Polls
  BY <1>1 DEF SessionInv, PollerOK, Polling, PollingStates, Pollers
<1> DEFINE bytes == cl.poll.batch
           c == Sent(cl, bytes)
<1>3. Sound(bytes, FALSE) /\ Len(bytes) \in Nat
  BY <1>2, PollsAssumption, DrawnIsSound, BytesAreNat DEF Draws
<1>4. /\ c \in Pollers(c) /\ c.tx = cl.tx + Len(bytes) /\ c.key = cl.key /\ c.i = cl.i
      /\ c.rx = cl.rx
  BY <1>2, <1>3, SentIs
<1>5. c.i \in Register
  BY <1>2, <1>4, Sizes
<1> HIDE DEF c
<1>6. cl' = Ran(c, bytes, "ask")
  BY <1>1 DEF c
<1> QED
  BY <1>1, <1>2, <1>3, <1>4, <1>5, <1>6, SentAndRan

LEMMA SendMemoryOK == ASSUME SessionInv, SendMemory PROVE SessionInv'
<1>1. /\ cl.pc = "memory" /\ Send(cl.poll.memory) /\ UNCHANGED <<down, sv>>
      /\ cl' = Ran([Sent(cl, cl.poll.memory) EXCEPT !.i = 0, !.pass = 2], cl.poll.memory, "ask")
  BY DEF SendMemory
<1>2. Polling /\ cl \in Pollers(cl) /\ cl.poll \in Polls
  BY <1>1 DEF SessionInv, PollerOK, Polling, PollingStates, Pollers
<1> DEFINE bytes == cl.poll.memory
           s == Sent(cl, bytes)
           c == [s EXCEPT !.i = 0, !.pass = 2]
<1>3. Sound(bytes, FALSE) /\ Len(bytes) \in Nat
  BY <1>2, PollsAssumption, DrawnIsSound, BytesAreNat DEF Draws
<1>4. /\ s \in Pollers(s) /\ s.tx = cl.tx + Len(bytes) /\ s.key = cl.key
      /\ s.rx = cl.rx
  BY <1>2, <1>3, SentIs
<1>5. cl' = Ran(c, bytes, "ask")
  BY <1>1
<1> HIDE DEF s
<1>6. /\ c \in Pollers(c) /\ c.tx = cl.tx + Len(bytes) /\ c.key = cl.key
      /\ c.rx = cl.rx /\ c.i = 0
  BY <1>4 DEF Pollers
<1>7. c.i \in Register
  BY <1>6, Sizes
<1> HIDE DEF c
<1> QED
  BY <1>1, <1>2, <1>3, <1>5, <1>6, <1>7, SentAndRan

\* A poller that asks.
LEMMA SentAndAsked ==
  ASSUME SessionInv, Polling, cl.pc \notin {"length", "payload"}, UNCHANGED <<sv, down>>,
         NEW bytes, Send(bytes), Sound(bytes, TRUE), NEW room \in Nat,
         cl' = [Sent(cl, bytes) EXCEPT !.pc = "length", !.room = room, !.buf = <<>>]
  PROVE  SessionInv'
<1>1. cl \in Pollers(cl) /\ down = <<>> /\ Len(bytes) \in Nat
  BY BytesAreNat DEF SessionInv, PollerOK, Sound
<1> DEFINE s == Sent(cl, bytes)
<1>2. s \in Pollers(s) /\ s.tx = cl.tx + Len(bytes) /\ s.key = cl.key /\ s.rx = cl.rx
  BY <1>1, SentIs
<1>3. cl' = [s EXCEPT !.pc = "length", !.room = room, !.buf = <<>>]
  OBVIOUS
<1> HIDE DEF s
<1>4. /\ cl' \in Pollers(cl') /\ cl'.pc = "length" /\ cl'.tx = cl.tx + Len(bytes)
      /\ cl'.key = cl.key /\ cl'.rx = cl.rx
  BY <1>2, <1>3 DEF Pollers, PollingStates
<1>5. May(TRUE)'
  BY <1>1, <1>4 DEF May
<1>6. ChildOK' /\ UpOK' /\ BytesOK'
  <2>1. TRUE \in BOOLEAN
    OBVIOUS
  <2> QED
    BY <1>4, <1>5, <2>1, SendOK
<1>7. StartOK'
  BY <1>4, PollerMoves DEF PollingStates
<1>8. PollerOK'
  <2>1. Alive' => Alive /\ sv'.tx = cl'.rx
    BY <1>1, <1>4 DEF SessionInv, PollerOK, Alive
  <2> QED
    BY <1>1, <1>4, <2>1 DEF PollerOK
<1> QED
  BY <1>6, <1>7, <1>8 DEF SessionInv

LEMMA AskIsSound == \A r \in Register : Sound(Encoded(WR_REG, r, 0, 0, 1), TRUE)
<1> SUFFICES ASSUME NEW r \in Register PROVE Sound(Encoded(WR_REG, r, 0, 0, 1), TRUE)
  OBVIOUS
<1> DEFINE bytes == Encoded(WR_REG, r, 0, 0, 1)
<1>1. Asks(bytes)
  BY Zenon DEF Asks
<1>2. bytes = <<208, r, 0, 0>>
  BY DEF Encoded, WR_REG
<1>3. r \in Byte /\ 208 \in Byte /\ 0 \in Byte
  <2>1. r \in 0 .. 31
    BY Sizes
  <2> QED
    BY <2>1 DEF Byte
<1> HIDE DEF bytes
<1>4. bytes \in Seq(Byte) /\ Len(bytes) = 4
  BY <1>2, <1>3
<1>5. SubSeq(bytes, 1, 4) = bytes
  BY <1>4
<1>6. Program(bytes, {0, 4}, TRUE)
  <2>1. {0, 4} \subseteq 0 .. Len(bytes)
    BY <1>4
  <2>2. ASSUME NEW at \in {0, 4}, at < Len(bytes)
        PROVE  \E n \in {3, 4} :
                 /\ at + n \in {0, 4}
                 /\ LET x == SubSeq(bytes, at + 1, at + n)
                    IN  Quiet(x) \/ (TRUE /\ at + n = Len(bytes) /\ Asks(x))
    <3>1. at = 0
      BY <1>4, <2>2
    <3>2. at + 4 = 4 /\ at + 1 = 1 /\ 4 \in {3, 4}
      BY <3>1
    <3> QED
      BY <1>1, <1>4, <1>5, <3>2
  <2> QED
    BY <2>1, <2>2, Zenon DEF Program
<1>7. Sound(bytes, TRUE)
  BY <1>4, <1>6 DEF Sound
<1> QED
  BY <1>7 DEF bytes

LEMMA AskOK == ASSUME SessionInv, Ask PROVE SessionInv'
<1> DEFINE bytes == Encoded(WR_REG, cl.i, 0, 0, 1)
<1>1. /\ cl.pc = "ask" /\ Send(bytes) /\ UNCHANGED <<down, sv>>
      /\ cl' = [Sent(cl, bytes) EXCEPT !.pc = "length", !.room = WORD, !.buf = <<>>]
  BY Zenon DEF Ask
<1>2. Polling /\ cl.i \in Register /\ WORD \in Nat
  BY <1>1, Sizes DEF SessionInv, PollerOK, Polling, PollingStates
<1>3. Sound(bytes, TRUE)
  BY <1>2, AskIsSound
<1> HIDE DEF bytes
<1> QED
  BY <1>1, <1>2, <1>3, SentAndAsked

LEMMA SendIoOK == ASSUME SessionInv, SendIo PROVE SessionInv'
<1>1. /\ cl.pc = "io" /\ Send(IoBytes) /\ UNCHANGED <<down, sv>>
      /\ cl' = [Sent(cl, IoBytes) EXCEPT !.pc = "length", !.room = cl.poll.wanted, !.buf = <<>>]
  BY DEF SendIo
<1>2. Polling /\ cl.poll \in Polls
  BY <1>1 DEF SessionInv, PollerOK, Polling, PollingStates, Pollers
<1>3. cl.poll.wanted \in Nat /\ Sound(IoBytes, TRUE)
  BY <1>2, PollsAssumption, DrawnIsSound DEF IoBytes
<1> QED
  BY <1>1, <1>2, <1>3, SentAndAsked

\* After an answer the poller ends, or goes on without waiting.
LEMMA AnsweredIs ==
  ASSUME NEW c, c \in Pollers(c), NEW bytes
  PROVE  LET a == Answered(c, bytes)
         IN  \/ a.pc \in {"failed", "passed"}
             \/ /\ a \in Pollers(a) /\ a.pc \in {"run", "ask", "memory", "io"}
                /\ a.key = c.key /\ a.rx = c.rx /\ a.tx = c.tx
                /\ a.pc = "ask" => a.i \in Register
<1> DEFINE a == Answered(c, bytes)
           next == CASE c.i + 1 < NUM_BASE_REG -> "ask"
                     [] c.i + 1 = NUM_BASE_REG /\ c.pass = 2 -> "passed"
                     [] OTHER -> IF c.poll.io = <<>> THEN "memory" ELSE "io"
<1>1. \/ a = [c EXCEPT !.pc = "run"]
      \/ a = [c EXCEPT !.pc = "failed"]
      \/ a = [c EXCEPT !.i = @ + 1, !.pc = next]
  BY Zenon DEF Answered
<1>2. c.i \in Nat /\ c.i + 1 \in Nat
  BY DEF Pollers
<1>3. next \in {"ask", "passed", "memory", "io"} /\ (next = "ask" => c.i + 1 \in Register)
  BY <1>2, Sizes DEF Register
<1> HIDE DEF a, next
<1>4. CASE a = [c EXCEPT !.pc = "run"]
  BY <1>4 DEF a, Pollers, PollingStates
<1>5. CASE a = [c EXCEPT !.pc = "failed"]
  BY <1>5 DEF a, Pollers
<1>6. CASE a = [c EXCEPT !.i = @ + 1, !.pc = next]
  <2>1. CASE next = "passed"
    BY <1>6, <2>1 DEF a, Pollers
  <2>2. CASE next # "passed"
    <3>1. a.pc = next /\ a.i = c.i + 1 /\ a.key = c.key /\ a.rx = c.rx /\ a.tx = c.tx
      BY <1>6 DEF Pollers
    <3>2. a \in Pollers(a)
      BY <1>2, <1>3, <1>6, <2>2 DEF Pollers, PollingStates
    <3> QED
      BY <1>3, <2>2, <3>1, <3>2 DEF a
  <2> QED
    BY <2>1, <2>2
<1> QED
  BY <1>1, <1>4, <1>5, <1>6

\* The poller has its answer.
LEMMA AnswerEnds ==
  ASSUME SessionInv, Polling, UNCHANGED <<sv, up>>, cl.pc = "length" => down # <<>>,
         down' = <<>>, NEW c, c \in Pollers(c), c.tx = cl.tx, c.key = cl.key,
         Alive => sv.tx = c.rx, NEW bytes, cl' = Answered(c, bytes)
  PROVE  SessionInv'
<1>1. \/ cl'.pc \in {"failed", "passed"}
      \/ /\ cl' \in Pollers(cl') /\ cl'.pc \in {"run", "ask", "memory", "io"}
         /\ cl'.key = c.key /\ cl'.rx = c.rx /\ cl'.tx = c.tx
         /\ cl'.pc = "ask" => cl'.i \in Register
  BY AnsweredIs
<1>2. CASE cl'.pc \in {"failed", "passed"}
  <2>1. sv.pc # "hello" /\ cl.pc # "none"
    BY DEF SessionInv, StartOK, Polling, PollingStates
  <2> QED
    BY <1>2, <2>1, PollerEnds DEF Ends
<1>3. CASE /\ cl' \in Pollers(cl') /\ cl'.pc \in {"run", "ask", "memory", "io"}
           /\ cl'.key = c.key /\ cl'.rx = c.rx /\ cl'.tx = c.tx
           /\ cl'.pc = "ask" => cl'.i \in Register
  <2>1. Alive' => Alive /\ sv'.tx = cl'.rx
    BY <1>3 DEF Alive
  <2>2. PollerOK'
    BY <1>3, <2>1 DEF PollerOK
  <2>3. cl'.pc \in PollingStates /\ cl'.tx = cl.tx /\ cl'.key = cl.key
    BY <1>3 DEF PollingStates
  <2> QED
    BY <2>2, <2>3, PollerTurns
<1> QED
  BY <1>1, <1>2, <1>3

LEMMA GetLengthOK == ASSUME SessionInv, GetLength PROVE SessionInv'
<1> DEFINE n == Head(down).len
           c == [cl EXCEPT !.want = n, !.count = 0]
<1>1. /\ cl.pc = "length" /\ down # <<>> /\ down' = Tail(down) /\ UNCHANGED <<up, sv>>
      /\ cl' = CASE n > cl.room -> [c EXCEPT !.pc = "failed"]
                 [] n = 0 -> Answered(c, <<>>)
                 [] OTHER -> [c EXCEPT !.pc = "payload"]
  BY Zenon DEF GetLength
<1>2. Polling /\ cl \in Pollers(cl) /\ cl.room \in Nat /\ cl.rx \in Nat
  BY <1>1 DEF SessionInv, PollerOK, Polling, PollingStates, Pollers
<1>3. PICK bytes \in Seq(Nat) : down = Message(bytes, cl.key, "down", cl.rx)
  BY <1>1, <1>2 DEF SessionInv, PollerOK
<1> DEFINE items == Items(cl.key, "down")
<1>4. /\ down \in Seq(items) /\ Len(down) = 1 + Len(bytes)
      /\ down[1].len = Len(bytes)
      /\ \A i \in 1 .. Len(bytes) : /\ Coded(down[1 + i])
                                    /\ down[1 + i].k = Place(cl.key, "down", cl.rx + i - 1)
  <2> DEFINE t == Message(bytes, cl.key, "down", cl.rx)
  <2>1. /\ t \in Seq(items) /\ Len(t) = 1 + Len(bytes) /\ t[1].len = Len(bytes)
        /\ \A i \in 1 .. Len(bytes) : /\ Coded(t[1 + i])
                                      /\ t[1 + i].k = Place(cl.key, "down", cl.rx + i - 1)
    <3>1. IsMessage(t, bytes, cl.key, "down", cl.rx)
      BY <1>2, MessageIs
    <3> HIDE DEF t
    <3> QED
      BY <3>1 DEF IsMessage
  <2>2. down = t
    BY <1>3
  <2> HIDE DEF t, items
  <2> QED
    BY <2>1, <2>2
<1>5. /\ Len(bytes) \in Nat /\ n = Len(bytes) /\ down' \in Seq(items) /\ Len(down') = n
      /\ \A i \in 1 .. n : down'[i] = down[1 + i]
  <2>1. down' \in Seq(items) /\ Dropped(down', down, 1) /\ Head(down) = down[1]
    BY <1>1, <1>4, TailDrops
  <2>2. Len(bytes) \in Nat /\ n = Len(bytes)
    BY <1>4, <2>1
  <2>3. Len(down') = Len(bytes)
    BY <1>4, <2>1, <2>2 DEF Dropped
  <2> QED
    BY <2>1, <2>2, <2>3 DEF Dropped
<1>6. Alive => sv.tx = cl.rx + n
  <2>1. Alive => sv.tx = cl.rx + Len(down) - 1
    BY <1>1, <1>2 DEF SessionInv, PollerOK
  <2> QED
    BY <1>2, <1>4, <1>5, <2>1
<1>7. /\ c \in Pollers(c) /\ c.want = n /\ c.count = 0 /\ c.rx = cl.rx /\ c.tx = cl.tx
      /\ c.key = cl.key /\ c.room = cl.room
  BY <1>2, <1>5 DEF Pollers
<1>8. sv.pc # "hello" /\ cl.pc # "none"
  BY <1>1, <1>2 DEF SessionInv, StartOK
<1> HIDE DEF n, c, items
<1>9. CASE n > cl.room
  <2>1. cl'.pc = "failed"
    BY <1>1, <1>7, <1>9 DEF Pollers
  <2> QED
    BY <1>1, <1>8, <2>1, PollerEnds DEF Ends
<1>10. CASE ~(n > cl.room) /\ n = 0
  <2>1. cl' = Answered(c, <<>>)
    BY <1>1, <1>10
  <2>2. down' = <<>>
    BY <1>5, <1>10
  <2>3. Alive => sv.tx = c.rx
    BY <1>2, <1>6, <1>7, <1>10
  <2> QED
    BY <1>1, <1>2, <1>7, <2>1, <2>2, <2>3, AnswerEnds
<1>11. CASE ~(n > cl.room) /\ n # 0
  <2>1. cl' = [c EXCEPT !.pc = "payload"]
    BY <1>1, <1>11
  <2>2. /\ cl'.pc = "payload" /\ cl' \in Pollers(cl') /\ cl'.want = n /\ cl'.count = 0
        /\ cl'.rx = cl.rx /\ cl'.tx = cl.tx /\ cl'.key = cl.key /\ cl'.room = cl.room
    BY <1>7, <2>1 DEF Pollers, PollingStates
  <2>3. Placed(down', cl.key, "down", cl.rx + 0, n)
    <3>1. cl.rx + 0 = cl.rx
      BY <1>2
    <3>2. ASSUME NEW i \in 1 .. n
          PROVE  Coded(down'[i]) /\ down'[i].k = Place(cl.key, "down", cl.rx + i - 1)
      BY <1>4, <1>5
    <3> QED
      BY <3>1, <3>2 DEF Placed
  <2>4. 0 < n /\ n <= cl.room /\ n - 0 = n
    BY <1>2, <1>5, <1>11
  <2>5. Alive' => Alive /\ sv'.tx = cl'.rx + cl'.want
    BY <1>1, <1>6, <2>2 DEF Alive
  <2>6. PollerOK'
    BY <1>5, <2>2, <2>3, <2>4, <2>5 DEF PollerOK, items
  <2> QED
    BY <1>1, <1>2, <2>2, <2>6, PollerTurns DEF PollingStates
<1> QED
  BY <1>9, <1>10, <1>11

LEMMA GetPayloadOK == ASSUME SessionInv, GetPayload PROVE SessionInv'
<1>1. PICK k \in Chunks(down, cl.room) :
        LET buf   == Over(SubSeq(down, 1, k), cl.buf)
            count == cl.count + k
            c     == [cl EXCEPT !.buf = buf, !.count = count, !.torn = @ \/ (cl.count > 0)]
        IN  /\ down' = SubSeq(down, k + 1, Len(down))
            /\ cl' = IF count < cl.want THEN c
                     ELSE Answered([c EXCEPT !.rx = @ + cl.want],
                                   Clear(buf, cl.key, "down", cl.rx))
  BY DEF GetPayload
<1> DEFINE buf   == Over(SubSeq(down, 1, k), cl.buf)
           count == cl.count + k
           torn  == cl.torn \/ (cl.count > 0)
           c     == [cl EXCEPT !.buf = buf, !.count = count, !.torn = torn]
           done  == [c EXCEPT !.rx = cl.rx + cl.want]
           bytes == Clear(buf, cl.key, "down", cl.rx)
<1>2. cl.pc = "payload" /\ UNCHANGED <<up, sv>>
  BY DEF GetPayload
<1>3. /\ Polling /\ cl \in Pollers(cl) /\ cl.room \in Nat /\ cl.rx \in Nat /\ cl.count \in Nat
      /\ cl.want \in Nat /\ cl.count < cl.want
      /\ down \in Seq(Items(cl.key, "down")) /\ Len(down) = cl.want - cl.count
      /\ Placed(down, cl.key, "down", cl.rx + cl.count, Len(down))
      /\ Alive => sv.tx = cl.rx + cl.want
  BY <1>2 DEF SessionInv, PollerOK, Polling, PollingStates, Pollers
<1>4. /\ down' = SubSeq(down, k + 1, Len(down))
      /\ cl' = IF count < cl.want THEN c ELSE Answered(done, bytes)
  BY <1>1, <1>3 DEF Pollers
<1>5. k \in 1 .. Len(down) /\ k \in Nat /\ k \in 0 .. Len(down) /\ Len(down) \in Nat
  <2>1. k \in 1 .. Len(down)
    BY <1>3, ChunkIs
  <2> QED
    BY <1>3, <2>1
<1>6. down' \in Seq(Items(cl.key, "down")) /\ Dropped(down', down, k)
  BY <1>3, <1>4, <1>5, SubSeqDrops
<1>7. count \in Nat /\ count <= cl.want /\ Len(down') = cl.want - count
  BY <1>3, <1>5, <1>6 DEF Dropped
<1> HIDE DEF buf, count, torn, bytes
<1>8. /\ c \in Pollers(c) /\ c.pc = "payload" /\ c.want = cl.want /\ c.count = count
      /\ c.rx = cl.rx /\ c.tx = cl.tx /\ c.key = cl.key /\ c.room = cl.room
  BY <1>2, <1>3, <1>7 DEF Pollers
<1>9. CASE count < cl.want
  <2>1. cl' = c
    BY <1>4, <1>9
  <2> HIDE DEF c
  <2>2. Placed(down', cl.key, "down", cl.rx + count, Len(down'))
    <3> SUFFICES ASSUME NEW i \in 1 .. Len(down')
                 PROVE  /\ Coded(down'[i])
                        /\ down'[i].k = Place(cl.key, "down", cl.rx + count + i - 1)
      BY DEF Placed
    <3>1. down'[i] = down[k + i] /\ k + i \in 1 .. Len(down)
      BY <1>5, <1>6 DEF Dropped
    <3>2. cl.rx + count + i - 1 = cl.rx + cl.count + (k + i) - 1
      BY <1>3, <1>5 DEF count
    <3>3. Coded(down[k + i]) /\ down[k + i].k = Place(cl.key, "down", cl.rx + cl.count + (k + i) - 1)
      BY <1>3, <3>1 DEF Placed
    <3> QED
      BY <3>1, <3>2, <3>3
  <2>3. Alive' => Alive /\ sv'.tx = cl'.rx + cl'.want
    BY <1>2, <1>3, <1>8, <2>1 DEF Alive
  <2>4. cl.want <= cl.room
    BY <1>2, <1>3 DEF SessionInv, PollerOK
  <2>5. PollerOK'
    BY <1>6, <1>7, <1>8, <1>9, <2>1, <2>2, <2>3, <2>4 DEF PollerOK
  <2> QED
    BY <1>2, <1>3, <1>8, <2>1, <2>5, PollerTurns DEF PollingStates
<1>10. CASE ~(count < cl.want)
  <2>1. cl' = Answered(done, bytes)
    BY <1>4, <1>10
  <2>2. Len(down') = 0
    BY <1>3, <1>7, <1>10
  <2>3. down' = <<>>
    BY <1>6, <2>2
  <2>4. cl.rx + cl.want \in Nat
    BY <1>3
  <2> HIDE DEF c
  <2>5. done \in Pollers(done) /\ done.tx = cl.tx /\ done.key = cl.key /\ done.rx = cl.rx + cl.want
    BY <1>8, <2>4 DEF Pollers
  <2> HIDE DEF done
  <2> QED
    BY <1>2, <1>3, <2>1, <2>3, <2>5, AnswerEnds
<1> QED
  BY <1>9, <1>10

\* Every step keeps the session.
LEMMA NextSession == ASSUME SessionInv, [NextMambo]_mamboVars PROVE SessionInv'
<1>1. CASE UNCHANGED mamboVars
  BY <1>1, LinkSame DEF mamboVars
<1>2. CASE ServiceStep
  BY <1>2, SendKeyOK, ReadLengthOK, ReadPayloadOK, ParseOK, PollerGoneOK DEF ServiceStep
<1>3. CASE PollerStep
  BY <1>3, GetKeyOK, SendBatchOK, AskOK, SendIoOK, RunIoOK, SendMemoryOK, GetLengthOK,
     GetPayloadOK, ChildGoneOK DEF PollerStep
<1>4. CASE LengthCut \/ GoAway \/ TimeOut \/ Closed
  BY <1>4, LengthCutOK, GoAwayOK, TimeOutOK, ClosedOK
<1>5. CASE ConnectElsewhere
  BY <1>5, LinkSame DEF ConnectElsewhere
<1>6. CASE \E poll \in Polls : Connect(poll)
  BY <1>6, ConnectOK
<1>7. CASE /\ doRekey \/ NoFlagFile \/ KeepKey \/ ForkFails \/ setRekey \/ NewFlag
           /\ UNCHANGED linkVars
  BY <1>7, LinkSame
<1> QED
  BY <1>1, <1>2, <1>3, <1>4, <1>5, <1>6, <1>7 DEF NextMambo

\* Each byte in flight will be decrypted at its place.
LEMMA SessionInTurn == ASSUME SessionInv PROVE KeysInStep
<1> USE DEF SessionInv
<1>1. ASSUME sv.pc \notin {"none", "exited"}
      PROVE  InTurn(up, sv.key, "up", sv.rx + Len(sv.got))
  <2>1. Alive
    BY <1>1 DEF StartOK, Alive
  <2>2. PICK m \in Nat : Numbered(up, sv.key, "up", sv.rx + Len(sv.got), m)
    BY <2>1 DEF UpOK
  <2>3. up \in Seq(Items(sv.key, "up")) /\ sv.rx + Len(sv.got) \in Nat
    <3>1. sv.rx \in Nat /\ Len(sv.got) \in Nat
      BY <2>1 DEF ChildOK, Children
    <3> QED
      BY <2>1, <3>1 DEF UpOK
  <2> QED
    BY <2>2, <2>3, NumberedInTurn
<1>2. ASSUME cl.pc = "length" PROVE InTurn(down, cl.key, "down", cl.rx)
  <2>1. cl.rx \in Nat /\ Polling
    BY <1>2 DEF PollerOK, Polling, PollingStates, Pollers
  <2>2. CASE down = <<>>
    BY <2>2 DEF InTurn
  <2>3. CASE \E bytes \in Seq(Nat) : down = Message(bytes, cl.key, "down", cl.rx)
    BY <2>1, <2>3, MessageInTurn
  <2> QED
    BY <1>2, <2>1, <2>2, <2>3 DEF PollerOK
<1>3. ASSUME cl.pc = "payload" PROVE InTurn(down, cl.key, "down", cl.rx + cl.count)
  <2>1. Polling /\ cl \in Pollers(cl)
    BY <1>3 DEF PollerOK, Polling, PollingStates
  <2>2. cl.rx + cl.count \in Nat
    BY <2>1 DEF Pollers
  <2>3. down \in Seq(Items(cl.key, "down")) /\ Placed(down, cl.key, "down", cl.rx + cl.count, Len(down))
    BY <1>3, <2>1 DEF PollerOK
  <2> QED
    BY <2>2, <2>3, PlacedInTurn
<1> QED
  BY <1>1, <1>2, <1>3 DEF KeysInStep

\* Every byte on its way between the service and a poller stands at the place of the
\* key stream at which the other end will decrypt it: the positions that readBuffer
\* and writeBuffer count (mambo.c, mamboclient.c) stay together whatever is drawn,
\* sent twice, executed silently or cut into reads.
THEOREM KeysStayInStep == SpecMambo => []KeysInStep
<1>1. InitMambo => SessionInv
  BY InitSession
<1>2. SessionInv /\ [NextMambo]_mamboVars => SessionInv'
  BY NextSession
<1>3. SessionInv => KeysInStep
  BY SessionInTurn
<1> QED
  BY <1>1, <1>2, <1>3, PTL DEF SpecMambo
-----------------------------------------------------------------------------
(* What both ends execute.                                                 *)

\* The bytes of an instruction that the two switches look at.
LEMMA SameFirst ==
  ASSUME NEW y, NEW b, NEW c, NEW op, op # RD_BUF,
         Operands(b, 0) = Operands(c, 0), Operands(b, y.len) = Operands(c, y.len),
         Decodes(b, 0) = Decodes(c, 0), Decodes(b, y.len) = Decodes(c, y.len)
  PROVE  FirstSwitch(y, b, op) = FirstSwitch(y, c, op)
<1>1. CASE op \in {RD_REG, WR_REG, WR_BUF, RD_BUF} /\ ~Decodes(b, y.len)
  BY <1>1, Zenon DEF FirstSwitch
<1> DEFINE bad == op \in {RD_REG, WR_REG, WR_BUF, RD_BUF} /\ ~Decodes(b, y.len)
<1>2. CASE ~bad /\ op = 0
  BY <1>2, SMT DEF FirstSwitch
<1>3. CASE ~bad /\ op # 0 /\ op \in ADD_CMD .. ROR_CMD
  BY <1>3, SMT DEF FirstSwitch
<1>4. CASE ~bad /\ op # 0 /\ op \notin ADD_CMD .. ROR_CMD
  BY <1>4, SMT DEF FirstSwitch
<1> QED
  BY <1>1, <1>2, <1>3, <1>4

\* The second switch, likewise.
LEMMA SameSecond ==
  ASSUME NEW y, NEW b, NEW c, NEW op,
         op # 0 => /\ Operands(b, 1) = Operands(c, 1) /\ Operands(b, y.len) = Operands(c, y.len)
                   /\ Decodes(b, y.len) = Decodes(c, y.len)
  PROVE  SecondSwitch(y, b, op) = SecondSwitch(y, c, op)
BY Zenon DEF SecondSwitch

\* How many bytes drawn instructions have, and the first one.
LEMMA DrawnLooks ==
  ASSUME NEW x, Quiet(x) \/ Asks(x)
  PROVE  \/ Len(x) = 4 /\ x[1] \in {224, 208, 216, 129, 130, 131, 132, 133, 134}
         \/ Len(x) = 3 /\ x[1] \in {8, 16, 24, 32, 40, 48, 56}
<1>1. CASE Quiet(x)
  <2>1. CASE Len(x) = 4 /\ \E r \in Register : x = Encoded(RD_REG, r, x[3], x[4], 1)
    BY <2>1 DEF Encoded, RD_REG
  <2>2. CASE \E r1, r2 \in Register :
               \E op \in {ADD_CMD, SUB_CMD, MUL_CMD, DIV_CMD, XOR_CMD, ROL_CMD, ROR_CMD} :
                 x = Encoded(op, r1, r2, 0, 0)
    BY <2>2 DEF Encoded, ADD_CMD, SUB_CMD, MUL_CMD, DIV_CMD, XOR_CMD, ROL_CMD, ROR_CMD
  <2>3. CASE \E r1, r2 \in Register :
               \E op \in {LD4_CMD, LD8_CMD, ST4_CMD, ST8_CMD, PUSH_CMD, POP_CMD} :
                 x = Encoded(op, r1, r2, 0, 1)
    BY <2>3 DEF Encoded, LD4_CMD, LD8_CMD, ST4_CMD, ST8_CMD, PUSH_CMD, POP_CMD
  <2> QED
    BY <1>1, <2>1, <2>2, <2>3, Zenon DEF Quiet
<1>2. CASE Asks(x)
  BY <1>2 DEF Asks, Encoded, WR_REG, WR_BUF
<1> QED
  BY <1>1, <1>2

\* What follows an instruction does not matter to it.
LEMMA SameDoes ==
  ASSUME NEW m, NEW x, Quiet(x) \/ Asks(x), NEW b, Reads(b, x), NEW c, Reads(c, x),
         NEW n, NEW l
  PROVE  LET d == parseInstruction(m, b, n)
             e == parseInstruction(m, c, l)
         IN  d.m = e.m /\ d.out = e.out
<1> DEFINE start(a) == [m |-> m, out |-> NoOutput, len |-> a[1] \div 128, exit |-> NULL]
           one(a) == FirstSwitch(start(a), a, First(a))
           two(a) == SecondSwitch(one(a), a, Second(a))
<1>1. \A a, k : LET did == parseInstruction(m, a, k)
                IN  did.m = Put(two(a).m, 0, 0) /\ did.out = two(a).out
  <2> SUFFICES ASSUME NEW a, NEW k
               PROVE  LET did == parseInstruction(m, a, k)
                      IN  did.m = Put(two(a).m, 0, 0) /\ did.out = two(a).out
    OBVIOUS
  <2>1. parseInstruction(m, a, k) =
          [m |-> Put(two(a).m, 0, 0), out |-> two(a).out, exit |-> two(a).exit,
           used |-> IF k = 0 THEN -1 ELSE Consumed(two(a).len)]
    BY Zenon DEF parseInstruction
  <2> HIDE DEF two
  <2> QED
    BY <2>1
<1>2. two(b) = two(c)
  <2>1. CASE Len(x) = 4 /\ x[1] \in {224, 208, 216, 129, 130, 131, 132, 133, 134}
    <3>1. b[1] = x[1] /\ c[1] = x[1] /\ b[2] = c[2] /\ b[3] = c[3] /\ b[4] = c[4]
      <4>1. 1 \in 1 .. Len(x) /\ 2 \in 1 .. Len(x) /\ 3 \in 1 .. Len(x) /\ 4 \in 1 .. Len(x)
        BY <2>1
      <4> QED
        BY <4>1 DEF Reads
    <3>2. start(b) = start(c) /\ First(b) = First(c) /\ Second(b) = Second(c) /\ First(b) # RD_BUF
      BY <2>1, <3>1 DEF First, Second, Type, RD_BUF
    <3>3. \A l1 : Operands(b, l1) = Operands(c, l1) /\ Decodes(b, l1) = Decodes(c, l1)
      BY <3>1 DEF Operands, Decodes
    <3> DEFINE s == start(b)
    <3>4. FirstSwitch(s, b, First(b)) = FirstSwitch(s, c, First(b))
      <4> HIDE DEF s
      <4> QED
        BY <3>2, <3>3, SameFirst DEF s
    <3>5. one(b) = one(c)
      BY <3>2, <3>4
    <3>6. SecondSwitch(one(b), b, Second(b)) = SecondSwitch(one(b), c, Second(b))
      <4> DEFINE y == one(b)
      <4> HIDE DEF y
      <4>1. SecondSwitch(y, b, Second(b)) = SecondSwitch(y, c, Second(b))
        BY <3>3, SameSecond
      <4> QED
        BY <4>1 DEF y
    <3> QED
      BY <3>2, <3>5, <3>6
  <2>2. CASE Len(x) = 3 /\ x[1] \in {8, 16, 24, 32, 40, 48, 56}
    <3>1. b[1] = x[1] /\ c[1] = x[1] /\ b[2] = c[2] /\ b[3] = c[3]
      <4>1. 1 \in 1 .. Len(x) /\ 2 \in 1 .. Len(x) /\ 3 \in 1 .. Len(x)
        BY <2>2
      <4> QED
        BY <4>1 DEF Reads
    <3>2. start(b) = start(c) /\ First(b) = First(c) /\ Second(b) = 0 /\ Second(c) = 0
          /\ First(b) # RD_BUF /\ start(b).len = 0
      BY <2>2, <3>1 DEF First, Second, Type, RD_BUF
    <3>3. Operands(b, 0) = Operands(c, 0) /\ Decodes(b, 0) = Decodes(c, 0)
      BY <3>1 DEF Operands, Decodes
    <3> DEFINE s == start(b)
    <3>4. FirstSwitch(s, b, First(b)) = FirstSwitch(s, c, First(b))
      <4> HIDE DEF s
      <4> QED
        BY <3>2, <3>3, SameFirst DEF s
    <3>5. one(b) = one(c)
      BY <3>2, <3>4
    <3> DEFINE y == one(b)
    <3>6. SecondSwitch(y, b, 0) = SecondSwitch(y, c, 0)
      <4> HIDE DEF y
      <4> QED
        BY SameSecond
    <3> QED
      BY <3>2, <3>5, <3>6
  <2> QED
    BY <2>1, <2>2, DrawnLooks
<1> HIDE DEF two
<1> QED
  BY <1>1, <1>2

\* Machines between two instructions.
Zeroed == {m \in Machine : m.base[0] = 0}

\* The machine after an instruction, and what it writes.
Step(m, x) == parseInstruction(m, x \o <<0, 0, 0, 0>>, 1)

\* It depends on its own bytes alone, wherever they are read from.
LEMMA StepIs ==
  ASSUME NEW m \in Machine, NEW x \in Seq(Nat), Quiet(x) \/ Asks(x), NEW b, Reads(b, x),
         NEW n \in Nat \ {0}
  PROVE  LET did == parseInstruction(m, b, n)
         IN  /\ did.m = Step(m, x).m /\ did.out = Step(m, x).out /\ did.m \in Zeroed
             /\ did.used = Len(x) /\ Step(m, x).m \in Zeroed
             /\ Quiet(x) => did.out = NoOutput
             /\ did.out = NoOutput \/ did.out \in Seq(Nat)
<1> DEFINE z == <<0, 0, 0, 0>>
           c == x \o z
           d == parseInstruction(m, b, n)
           e == parseInstruction(m, c, 1)
<1>1. Reads(c, x)
  <2>1. z \in Seq(Nat)
    OBVIOUS
  <2> HIDE DEF z
  <2> QED
    BY <2>1, CatIs DEF Reads
<1>2. Step(m, x) = e
  BY DEF Step
<1>3. d.m = e.m /\ d.out = e.out
  <2> HIDE DEF c
  <2> QED
    BY <1>1, SameDoes
<1>4. /\ d.m \in Machine /\ d.m.base[0] = 0 /\ d.used = Len(x) /\ (Quiet(x) => d.out = NoOutput)
      /\ d.out = NoOutput \/ d.out \in Seq(Nat)
  <2>1. CASE Quiet(x)
    <3>1. d.m \in Machine /\ d.m.base[0] = 0 /\ d.out = NoOutput /\ d.used = Len(x)
      BY <2>1, QuietDoes
    <3> QED
      BY <3>1
  <2>2. CASE Asks(x)
    <3>1. d.m \in Machine /\ d.m.base[0] = 0 /\ d.out \in Seq(Nat) /\ d.used = Len(x)
      BY <2>2, AskDoes
    <3>2. CASE Quiet(x)
      BY <3>1, <3>2, QuietDoes
    <3> QED
      BY <3>1, <3>2
  <2> QED
    BY <2>1, <2>2
<1> HIDE DEF d, e, c
<1> QED
  BY <1>2, <1>3, <1>4 DEF d, Zeroed

\* g gives the machine at each place of starts, between which are instructions that
\* write nothing or one of outs.
Traced(bytes, starts, g, outs) ==
  \A at \in starts : at < Len(bytes) =>
    \E n \in {3, 4} :
      /\ at + n \in starts /\ at + n <= Len(bytes)
      /\ LET x == SubSeq(bytes, at + 1, at + n)
         IN  /\ Quiet(x) \/ (Asks(x) /\ Step(g[at], x).out \in outs)
             /\ g[at + n] = Step(g[at], x).m

\* Whoever executes bytes with m has last at the end, and wrote nothing but outs.
Does(m, bytes, last, outs) ==
  \E starts \in SUBSET (0 .. Len(bytes)) : \E g \in [0 .. Len(bytes) -> Zeroed] :
    /\ 0 \in starts /\ Len(bytes) \in starts /\ g[0] = m /\ g[Len(bytes)] = last
    /\ Traced(bytes, starts, g, outs)

\* Where bytes are instructions in whatever states are reached, there is a trace.
LEMMA TraceExists ==
  ASSUME NEW bytes \in Seq(Nat), NEW m \in Zeroed, NEW outs,
         NEW K \in SUBSET ((0 .. Len(bytes)) \X Zeroed), <<0, m>> \in K,
         \A at \in 0 .. Len(bytes) - 1, mm \in Zeroed : <<at, mm>> \in K =>
           \E n \in {3, 4} :
             /\ at + n <= Len(bytes)
             /\ LET x == SubSeq(bytes, at + 1, at + n)
                IN  /\ Quiet(x) \/ (Asks(x) /\ Step(mm, x).out \in outs)
                    /\ <<at + n, Step(mm, x).m>> \in K
  PROVE  \E last \in Zeroed : <<Len(bytes), last>> \in K /\ Does(m, bytes, last, outs)
<1> DEFINE N == Len(bytes)
           To(at, starts, g) ==
             /\ starts \subseteq 0 .. at /\ 0 \in starts /\ at \in starts /\ g[0] = m /\ <<at, g[at]>> \in K
             /\ \A s \in starts : s < at =>
                  \E n \in {3, 4} :
                    /\ s + n \in starts /\ s + n <= N
                    /\ LET x == SubSeq(bytes, s + 1, s + n)
                       IN  /\ Quiet(x) \/ (Asks(x) /\ Step(g[s], x).out \in outs)
                           /\ g[s + n] = Step(g[s], x).m
           A == {k \in 0 .. N : \E at \in 0 .. N : \E starts \in SUBSET (0 .. N) :
                   \E g \in [0 .. N -> Zeroed] : at >= k /\ To(at, starts, g)}
<1>1. N \in Nat
  OBVIOUS
<1>2. 0 \in A
  <2> DEFINE g == [a \in 0 .. N |-> m]
  <2>1. g \in [0 .. N -> Zeroed] /\ g[0] = m
    BY <1>1
  <2> HIDE DEF g
  <2>2. To(0, {0}, g)
    BY <2>1
  <2>3. 0 \in 0 .. N /\ {0} \in SUBSET (0 .. N) /\ 0 >= 0
    BY <1>1
  <2> HIDE DEF To
  <2> QED
    BY <2>1, <2>2, <2>3
<1>3. ASSUME NEW k \in 0 .. N - 1, k \in A PROVE k + 1 \in A
  <2>1. PICK at \in 0 .. N, starts \in SUBSET (0 .. N), g \in [0 .. N -> Zeroed] :
          at >= k /\ To(at, starts, g)
    <3> HIDE DEF To
    <3> QED
      BY <1>3
  <2>2. k + 1 \in 0 .. N
    BY <1>1
  <2>3. CASE at >= k + 1
    <3> HIDE DEF To
    <3> QED
      BY <2>1, <2>2, <2>3
  <2>4. CASE at = k
    <3>1. at \in 0 .. N - 1 /\ g[at] \in Zeroed /\ <<at, g[at]>> \in K
      BY <2>1, <2>4
    <3>2. PICK n \in {3, 4} :
            /\ at + n <= N
            /\ LET x == SubSeq(bytes, at + 1, at + n)
               IN  /\ Quiet(x) \/ (Asks(x) /\ Step(g[at], x).out \in outs)
                   /\ <<at + n, Step(g[at], x).m>> \in K
      BY <3>1
    <3> DEFINE x == SubSeq(bytes, at + 1, at + n)
               after == Step(g[at], x).m
               to == at + n
               h == [g EXCEPT ![to] = after]
               places == starts \cup {to}
    <3>3. /\ to \in 0 .. N /\ to > at /\ to >= k + 1 /\ <<to, after>> \in K
          /\ Quiet(x) \/ (Asks(x) /\ Step(g[at], x).out \in outs)
      BY <1>1, <2>4, <3>2
    <3>4. after \in Zeroed
      BY <3>3
    <3> HIDE DEF x, after
    <3>5. h \in [0 .. N -> Zeroed] /\ h[to] = after /\ \A s \in 0 .. at : h[s] = g[s]
      BY <1>1, <3>3, <3>4
    <3>6. places \subseteq 0 .. to /\ places \in SUBSET (0 .. N) /\ 0 \in places /\ to \in places
      BY <2>1, <3>3
    <3> HIDE DEF h
    <3>7. ASSUME NEW s \in places, s < to
          PROVE  \E c \in {3, 4} :
                   /\ s + c \in places /\ s + c <= N
                   /\ LET y == SubSeq(bytes, s + 1, s + c)
                      IN  /\ Quiet(y) \/ (Asks(y) /\ Step(h[s], y).out \in outs)
                          /\ h[s + c] = Step(h[s], y).m
      <4>1. s \in starts /\ s \in 0 .. at
        <5>1. s # to
          BY <3>3, <3>7
        <5> QED
          BY <2>1, <3>7, <5>1
      <4>2. CASE s = at
        <5>1. h[s] = g[at] /\ s + n = to
          BY <3>5, <4>1, <4>2
        <5>2. /\ Quiet(x) \/ (Asks(x) /\ Step(h[s], x).out \in outs)
              /\ h[s + n] = Step(h[s], x).m /\ x = SubSeq(bytes, s + 1, s + n)
          BY <3>3, <3>5, <4>2, <5>1, Zenon DEF x, after
        <5>3. s + n \in places /\ s + n <= N
          BY <1>1, <3>3, <3>6, <5>1
        <5> QED
          BY <5>2, <5>3
      <4>3. CASE s < at
        <5>1. PICK c \in {3, 4} :
                /\ s + c \in starts /\ s + c <= N
                /\ LET y == SubSeq(bytes, s + 1, s + c)
                   IN  /\ Quiet(y) \/ (Asks(y) /\ Step(g[s], y).out \in outs)
                       /\ g[s + c] = Step(g[s], y).m
          BY <2>1, <4>1, <4>3
        <5>2. h[s] = g[s] /\ h[s + c] = g[s + c] /\ s + c \in places
          <6>1. s + c \in 0 .. at
            BY <2>1, <5>1
          <6> QED
            BY <3>5, <4>1, <5>1, <6>1
        <5> QED
          BY <5>1, <5>2
      <4> QED
        BY <4>1, <4>2, <4>3
    <3> HIDE DEF places
    <3>8. To(to, places, h)
      <4>1. h[0] = m /\ <<to, h[to]>> \in K
        BY <2>1, <3>3, <3>5
      <4> HIDE DEF to
      <4> QED
        BY <3>6, <3>7, <4>1
    <3> HIDE DEF To, to
    <3> QED
      BY <2>2, <3>3, <3>5, <3>6, <3>8
  <2>5. at >= k + 1 \/ at = k
    <3> HIDE DEF To
    <3> QED
      BY <1>1, <2>1
  <2> HIDE DEF A
  <2> QED
    BY <2>3, <2>4, <2>5
<1>4. N \in A
  <2> HIDE DEF A, N
  <2> QED
    BY <1>1, <1>2, <1>3, UpTo
<1>5. PICK at \in 0 .. N, starts \in SUBSET (0 .. N), g \in [0 .. N -> Zeroed] :
        at >= N /\ To(at, starts, g)
  BY <1>4
<1>6. at = N
  BY <1>1, <1>5
<1>7. Traced(bytes, starts, g, outs) /\ 0 \in starts /\ N \in starts /\ g[0] = m /\ <<N, g[N]>> \in K
  BY <1>5, <1>6 DEF Traced
<1>8. g[N] \in Zeroed /\ starts \in SUBSET (0 .. N)
  BY <1>1, <1>6
<1> HIDE DEF To, A
<1> QED
  BY <1>7, <1>8 DEF Does

\* What is read at a place of a program is the instruction there.
LEMMA ReadsFrom ==
  ASSUME NEW bytes \in Seq(Nat), NEW at \in Nat, NEW n \in {3, 4}, at + n <= Len(bytes)
  PROVE  LET x == SubSeq(bytes, at + 1, at + n)
         IN  x \in Seq(Nat) /\ Len(x) = n /\ Reads(From(bytes, at), x)
<1>1. Len(bytes) \in Nat /\ SubSeq(bytes, 1, Len(bytes)) = bytes
  OBVIOUS
<1> DEFINE x == SubSeq(SubSeq(bytes, 1, Len(bytes)), at + 1, at + n)
           b == SubSeq(bytes, at + 1, Len(bytes)) \o <<0, 0, 0, 0>>
<1>2. Len(x) = n /\ Reads(b, x)
  <2> DEFINE read == Len(bytes)
  <2>1. read \in Nat /\ read <= Len(bytes) /\ at + n <= read
    BY <1>1
  <2>2. x = SubSeq(SubSeq(bytes, 1, read), at + 1, at + n)
    OBVIOUS
  <2> HIDE DEF read, b, x
  <2> QED
    BY <2>1, <2>2, ReadsNext DEF b
<1>3. b = From(bytes, at)
  BY DEF From
<1>4. SubSeq(bytes, at + 1, at + n) \in Seq(Nat)
  BY <1>1
<1> HIDE DEF b
<1> QED
  BY <1>1, <1>2, <1>3, <1>4

\* The poller follows a trace, unless it aborts.
LEMMA RunFollows ==
  ASSUME NEW bytes \in Seq(Nat), NEW m \in Zeroed, NEW last, NEW outs,
         Does(m, bytes, last, outs)
  PROVE  parseData(m, bytes).m \in {NULL, last}
<1> DEFINE n == Len(bytes)
           Did(x) == parseInstruction(x.m, From(bytes, x.at), n - x.at)
           Gone == [m |-> NULL, at |-> 0, wrote |-> 0]
           Turn(k, x) ==
             IF x.m = NULL \/ (x.at >= n /\ k > 1) THEN x
             ELSE IF Did(x).used <= 0 \/ Did(x).exit # NULL THEN Gone
             ELSE [m |-> Did(x).m, at |-> x.at + Did(x).used, wrote |-> x.wrote + Written(Did(x).out)]
           R == [m |-> m, at |-> 0, wrote |-> 0]
           F(f) == f = [k \in 0 .. n + 1 |-> IF k = 0 THEN R ELSE Turn(k, f[k - 1])]
<1>1. n \in Nat /\ n + 1 \in Nat
  OBVIOUS
<1>2. PICK starts \in SUBSET (0 .. n), g \in [0 .. n -> Zeroed] :
        0 \in starts /\ g[0] = m /\ g[n] = last /\ Traced(bytes, starts, g, outs)
  BY DEF Does
<1> DEFINE S == {z \in [m : Zeroed \cup {NULL}, at : 0 .. n, wrote : Nat] :
                   z.m = NULL \/ (z.at \in starts /\ z.m = g[z.at])}
\* One turn leads on along the trace.
<1>3. ASSUME NEW k \in 1 .. n + 1, NEW x \in S
      PROVE  /\ Turn(k, x) \in S /\ (Turn(k, x).m = NULL \/ Turn(k, x).at > x.at \/ x.at >= n)
             /\ x.at >= n => Turn(k, x).m = NULL \/ Turn(k, x).at >= n
  <2>1. CASE x.m = NULL \/ (x.at >= n /\ k > 1)
    BY <2>1
  <2>2. CASE x.m # NULL /\ x.at >= n /\ ~(k > 1)
    <3>1. n - x.at = 0
      BY <1>1, <2>2
    <3>2. Did(x).used = -1
      <4>1. \A a, b : parseInstruction(a, b, 0).used = -1
        BY DEF parseInstruction
      <4> QED
        BY <3>1, <4>1
    <3> HIDE DEF Did
    <3>3. Turn(k, x) = Gone /\ Gone \in S
      BY <1>1, <2>2, <3>2
    <3> QED
      BY <3>3
  <2>3. CASE x.m # NULL /\ x.at < n
    <3>1. x.at \in starts /\ x.m = g[x.at] /\ x.at \in 0 .. n /\ x.wrote \in Nat /\ x.m \in Zeroed
      BY <2>3
    <3>2. PICK c \in {3, 4} :
            /\ x.at + c \in starts /\ x.at + c <= n
            /\ LET y == SubSeq(bytes, x.at + 1, x.at + c)
               IN  /\ Quiet(y) \/ (Asks(y) /\ Step(g[x.at], y).out \in outs)
                   /\ g[x.at + c] = Step(g[x.at], y).m
      BY <1>2, <2>3, <3>1 DEF Traced
    <3> DEFINE y == SubSeq(bytes, x.at + 1, x.at + c)
               at == x.at
               b == From(bytes, at)
               left == n - at
               did == parseInstruction(x.m, b, left)
    <3>3. y \in Seq(Nat) /\ Len(y) = c /\ Reads(b, y) /\ left \in Nat \ {0}
      <4>1. at \in Nat /\ at + c <= Len(bytes)
        BY <3>1, <3>2
      <4> HIDE DEF at, b, y
      <4>2. y = SubSeq(bytes, at + 1, at + c) /\ b = From(bytes, at)
        BY DEF at, b, y
      <4> QED
        BY <1>1, <2>3, <4>1, <4>2, ReadsFrom DEF left
    <3>4. Quiet(y) \/ Asks(y)
      BY <3>2
    <3>5. g[at + c] = Step(x.m, y).m /\ at + c \in starts /\ at + c <= n
      BY <3>1, <3>2
    <3> HIDE DEF y, b, left
    <3>6. /\ did.m = g[at + c] /\ did.m \in Zeroed /\ did.used = c
          /\ did.out = NoOutput \/ did.out \in Seq(Nat)
      <4>1. x.m \in Machine
        BY <3>1 DEF Zeroed
      <4> QED
        BY <3>1, <3>3, <3>4, <3>5, <4>1, StepIs
    <3>7. Did(x) = did
      BY DEF b, left
    <3> HIDE DEF did, Did
    <3>8. Written(did.out) \in Nat
      BY <3>6 DEF Written
    <3> DEFINE next == [m |-> did.m, at |-> x.at + did.used, wrote |-> x.wrote + Written(did.out)]
    <3>9. next \in S /\ next.at > x.at
      <4>1. x.at + did.used \in 0 .. n /\ x.wrote + Written(did.out) \in Nat /\ x.at + did.used > x.at
            /\ x.at + did.used = at + c
        BY <1>1, <3>1, <3>5, <3>6, <3>8
      <4> QED
        BY <3>5, <3>6, <4>1
    <3>10. Gone \in S
      BY <1>1
    <3>11. Turn(k, x) = IF did.used <= 0 \/ did.exit # NULL THEN Gone ELSE next
      BY <2>3, <3>1, <3>7
    <3>12. ~(x.at >= n)
      BY <1>1, <2>3, <3>1
    <3> HIDE DEF next, S, Turn
    <3> QED
      BY <3>9, <3>10, <3>11, <3>12
  <2> QED
    BY <1>1, <2>1, <2>2, <2>3
<1>4. R \in S
  BY <1>1, <1>2
<1> DEFINE step == [k \in 1 .. n + 1 |-> [x \in S |-> Turn(k, x)]]
<1> HIDE DEF Turn, S, R
<1>5. step \in [1 .. n + 1 -> [S -> S]]
  BY <1>3
<1>6. PICK h : IsIteration(h, n + 1, S, R, step)
  <2> HIDE DEF step
  <2> QED
    BY <1>1, <1>4, <1>5, Recursion, Zenon
<1>7. \A k \in 1 .. n + 1 : h[k - 1] \in S /\ h[k] = Turn(k, h[k - 1])
  <2> TAKE k \in 1 .. n + 1
  <2>1. h[k - 1] \in S
    BY <1>1, <1>6 DEF IsIteration
  <2>2. step[k][h[k - 1]] = Turn(k, h[k - 1])
    BY <2>1
  <2> HIDE DEF step
  <2> QED
    BY <1>6, <2>1, <2>2 DEF IsIteration
<1>8. F(h)
  BY <1>1, <1>6, <1>7 DEF IsIteration
<1>9. F(CHOOSE f : F(f))
  <2> HIDE DEF F
  <2> QED
    BY <1>8
<1> DEFINE run == CHOOSE f : F(f)
<1>10. parseData(m, bytes) = run[n + 1]
  BY DEF parseData, Turn, R
<1> HIDE DEF run
<1>11. run = [k \in 0 .. n + 1 |-> IF k = 0 THEN R ELSE Turn(k, run[k - 1])]
  BY <1>9 DEF run
<1>12. run[0] = R /\ \A k \in 1 .. n + 1 : run[k] = Turn(k, run[k - 1])
  <2> HIDE DEF F
  <2> QED
    BY <1>1, <1>11
<1> DEFINE A == {k \in 0 .. n + 1 : run[k] \in S /\ (run[k].m = NULL \/ run[k].at >= k \/ run[k].at >= n)}
<1>13. 0 \in A
  BY <1>1, <1>4, <1>12 DEF R
<1>14. ASSUME NEW k \in 0 .. (n + 1) - 1, k \in A PROVE k + 1 \in A
  <2> DEFINE x == run[k]
             y == run[k + 1]
  <2>1. k + 1 \in 1 .. n + 1 /\ (k + 1) - 1 = k
    BY <1>1
  <2>2. y = Turn(k + 1, x) /\ x \in S
    BY <1>12, <1>14, <2>1
  <2>3. y \in S /\ (y.m = NULL \/ y.at > x.at \/ x.at >= n)
    BY <1>3, <2>1, <2>2
  <2>4. x.m = NULL => y = x
    BY <2>2 DEF Turn
  <2>5. x.at >= n => y.m = NULL \/ y.at >= n
    BY <1>3, <2>1, <2>2
  <2>6. x.at \in Nat /\ y.at \in Nat
    BY <2>2, <2>3 DEF S
  <2> HIDE DEF x, y
  <2>7. x.m = NULL \/ x.at >= k \/ x.at >= n
    BY <1>14 DEF x
  <2>8. y.m = NULL \/ y.at >= k + 1 \/ y.at >= n
    BY <1>1, <2>3, <2>4, <2>5, <2>6, <2>7
  <2> QED
    BY <1>1, <2>3, <2>8 DEF y
<1>15. n + 1 \in A
  <2> HIDE DEF A
  <2> QED
    BY <1>1, <1>13, <1>14, UpTo
<1>16. run[n + 1].m = NULL \/ run[n + 1].at = n
  BY <1>1, <1>15 DEF S
<1>17. run[n + 1].m = NULL \/ run[n + 1].m = g[n]
  BY <1>15, <1>16 DEF S
<1> QED
  BY <1>2, <1>10, <1>17

\* Parts of sequences, and of two that are put together.
LEMMA SubIs ==
  ASSUME NEW S, NEW a \in Seq(S), NEW k \in Nat, NEW n \in Nat, k + n <= Len(a)
  PROVE  LET u == SubSeq(a, k + 1, k + n)
         IN  u \in Seq(S) /\ Len(u) = n /\ \A i \in 1 .. n : u[i] = a[k + i]
OBVIOUS

LEMMA SameSub ==
  ASSUME NEW S, NEW s \in Seq(S), NEW t \in Seq(S), NEW n \in Nat, n <= Len(s), n <= Len(t),
         \A i \in 1 .. n : s[i] = t[i], NEW at \in Nat, NEW k \in Nat, at + k <= n
  PROVE  SubSeq(s, at + 1, at + k) = SubSeq(t, at + 1, at + k)
<1> DEFINE u == SubSeq(s, at + 1, at + k)
           v == SubSeq(t, at + 1, at + k)
<1>1. u \in Seq(S) /\ Len(u) = k /\ \A i \in 1 .. k : u[i] = s[at + i]
  OBVIOUS
<1>2. v \in Seq(S) /\ Len(v) = k /\ \A i \in 1 .. k : v[i] = t[at + i]
  OBVIOUS
<1>3. \A i \in 1 .. k : at + i \in 1 .. n
  OBVIOUS
<1> HIDE DEF u, v
<1>4. \A i \in 1 .. k : u[i] = v[i]
  BY <1>1, <1>2, <1>3
<1> QED
  BY <1>1, <1>2, <1>4, SeqEqual

LEMMA CatFront ==
  ASSUME NEW S, NEW a \in Seq(S), NEW c \in Seq(S), NEW e \in 0 .. Len(c)
  PROVE  LET pre == a \o SubSeq(c, 1, e)
         IN  /\ pre \in Seq(S) /\ Len(pre) = Len(a) + e /\ Len(pre) <= Len(a \o c)
             /\ \A i \in 1 .. Len(pre) : pre[i] = (a \o c)[i]
<1> DEFINE f == SubSeq(c, 1, e)
           pre == a \o f
           all == a \o c
<1>1. f \in Seq(S) /\ Len(f) = e /\ \A i \in 1 .. e : f[i] = c[i]
  OBVIOUS
<1> HIDE DEF f
<1>2. /\ pre \in Seq(S) /\ Len(pre) = Len(a) + e
      /\ \A i \in 1 .. Len(a) : pre[i] = a[i]
      /\ \A i \in 1 .. e : pre[Len(a) + i] = f[i]
  <2>1. /\ pre \in Seq(S) /\ Len(pre) = Len(a) + Len(f)
        /\ \A i \in 1 .. Len(a) : pre[i] = a[i]
        /\ \A i \in 1 .. Len(f) : pre[Len(a) + i] = f[i]
    <3>1. f \in Seq(S)
      BY <1>1
    <3> QED
      BY <3>1, CatIs
  <2> HIDE DEF pre
  <2> QED
    BY <1>1, <2>1
<1>3. /\ Len(all) = Len(a) + Len(c) /\ Len(a) \in Nat
      /\ \A i \in 1 .. Len(a) : all[i] = a[i]
      /\ \A i \in 1 .. Len(c) : all[Len(a) + i] = c[i]
  BY CatIs
<1> HIDE DEF pre, all
<1>4. ASSUME NEW i \in 1 .. Len(pre) PROVE pre[i] = all[i]
  <2>1. CASE i <= Len(a)
    BY <1>2, <1>3, <2>1
  <2>2. CASE i > Len(a)
    <3> DEFINE j == i - Len(a)
    <3>1. j \in 1 .. e /\ j \in 1 .. Len(c) /\ i = Len(a) + j
      BY <1>2, <1>3, <2>2
    <3> HIDE DEF j
    <3> QED
      BY <1>1, <1>2, <1>3, <3>1
  <2> QED
    BY <1>2, <1>3, <2>1, <2>2
<1> QED
  BY <1>2, <1>3, <1>4 DEF pre, all, f

LEMMA CatBack ==
  ASSUME NEW S, NEW a \in Seq(S), NEW c \in Seq(S), NEW at \in Nat, NEW k \in Nat,
         at + k <= Len(c)
  PROVE  LET n == Len(a) + at
         IN  SubSeq(a \o c, n + 1, n + k) = SubSeq(c, at + 1, at + k)
<1> DEFINE n == Len(a) + at
           all == a \o c
           u == SubSeq(all, n + 1, n + k)
           v == SubSeq(c, at + 1, at + k)
<1>1. /\ all \in Seq(S) /\ Len(all) = Len(a) + Len(c) /\ Len(a) \in Nat
      /\ \A i \in 1 .. Len(c) : all[Len(a) + i] = c[i]
  BY CatIs
<1>2. v \in Seq(S) /\ Len(v) = k /\ \A i \in 1 .. k : v[i] = c[at + i]
  OBVIOUS
<1> HIDE DEF all
<1>3. n \in Nat /\ n + k <= Len(all)
  BY <1>1
<1>4. u \in Seq(S) /\ Len(u) = k /\ \A i \in 1 .. k : u[i] = all[n + i]
  <2> HIDE DEF n
  <2> QED
    BY <1>1, <1>3
<1> HIDE DEF v, u
<1>5. ASSUME NEW i \in 1 .. k PROVE u[i] = v[i]
  <2>1. at + i \in 1 .. Len(c) /\ n + i = Len(a) + (at + i)
    BY <1>1
  <2> QED
    BY <1>1, <1>2, <1>4, <2>1
<1>6. u = v
  BY <1>2, <1>4, <1>5, SeqEqual
<1> QED
  BY <1>6 DEF u, v, all

\* Register 0 of such a machine is cleared already.
LEMMA ZeroedMachine ==
  ASSUME NEW m \in Zeroed
  PROVE  m \in Machine /\ m.base[0] = 0 /\ Put(m, 0, 0) = m
<1>1. 0 \in Register /\ m \in Machine /\ m.base[0] = 0
  BY Sizes DEF Zeroed
<1> QED
  BY <1>1 DEF Put, Machine

LEMMA ValueAtMost == ASSUME NEW n \in Nat PROVE Value(n) <= n
<1> DEFINE p == Power(256, WORD)
<1>1. p \in Nat \ {0}
  BY Sizes, PowerPositive
<1> HIDE DEF p
<1>2. n % p <= n
  BY <1>1
<1> QED
  BY <1>2 DEF Value, p

\* A register that is set.
LEMMA SetRegisterDoes ==
  ASSUME NEW m \in Zeroed, NEW r \in Register, NEW low \in Byte, NEW high \in Byte
  PROVE  Step(m, Encoded(RD_REG, r, low, high, 1)).m.base[r] <= low + 256 * high
<1> DEFINE x == Encoded(RD_REG, r, low, high, 1)
           b == x \o <<0, 0, 0, 0>>
           v == Value(low + 256 * high)
           start == [m |-> m, out |-> NoOutput, len |-> b[1] \div 128, exit |-> NULL]
           one == FirstSwitch(start, b, First(b))
           two == SecondSwitch(one, b, Second(b))
<1>1. b[1] = 224 /\ b[2] = r /\ b[3] = low /\ b[4] = high
  BY DEF Encoded, RD_REG
<1>2. m \in Machine
  BY ZeroedMachine
<1> HIDE DEF x, b
<1>3. First(b) = 96 /\ Second(b) = 0 /\ b[1] \div 128 = 1
  BY <1>1 DEF First, Second, Type
<1>4. low + 256 * high \in Nat /\ v \in Nat /\ v <= low + 256 * high
  <2>1. low + 256 * high \in Nat
    BY DEF Byte
  <2> QED
    BY <2>1, ValueNat, ValueAtMost
<1>5. one = [start EXCEPT !.m = Put(m, r, v)]
  <2>1. start.len = 1 /\ start.m = m
    BY <1>3
  <2>2. Operands(b, 1) = <<r, low, high>> /\ Decodes(b, 1)
    BY <1>1 DEF Operands, Decodes
  <2> HIDE DEF start
  <2> QED
    BY <1>3, <2>1, <2>2 DEF FirstSwitch, RD_REG, WR_REG, WR_BUF, RD_BUF, ADD_CMD, ROR_CMD, BYE_CMD
<1>6. two = one
  BY <1>3 DEF SecondSwitch
<1>7. Step(m, x).m = Put(two.m, 0, 0)
  <2>1. Step(m, x) = parseInstruction(m, b, 1)
    BY DEF Step, b
  <2>2. parseInstruction(m, b, 1) =
          [m |-> Put(two.m, 0, 0), out |-> two.out, exit |-> two.exit,
           used |-> IF 1 = 0 THEN -1 ELSE Consumed(two.len)]
    BY Zenon DEF parseInstruction
  <2> HIDE DEF two
  <2> QED
    BY <2>1, <2>2
<1>8. Step(m, x).m = Put(Put(m, r, v), 0, 0)
  BY <1>5, <1>6, <1>7
<1>9. Put(Put(m, r, v), 0, 0).base[r] \in {v, 0}
  <2> HIDE DEF v
  <2> QED
    BY <1>2, Sizes DEF Put, Machine
<1> HIDE DEF v
<1> QED
  BY <1>4, <1>8, <1>9, Zenon, SMT DEF x

\* What draws nothing that asks has a trace, and writes nothing.
LEMMA QuietTrace ==
  ASSUME NEW bytes \in Seq(Nat), NEW starts, 0 \in starts, Program(bytes, starts, FALSE),
         NEW m \in Zeroed
  PROVE  \E last \in Zeroed : Does(m, bytes, last, {})
<1> DEFINE N == Len(bytes)
           K == starts \X Zeroed
<1>1. N \in Nat /\ starts \subseteq 0 .. N
  BY DEF Program
<1>2. K \in SUBSET ((0 .. N) \X Zeroed) /\ <<0, m>> \in K
  BY <1>1
<1>3. ASSUME NEW at \in 0 .. N - 1, NEW mm \in Zeroed, <<at, mm>> \in K
      PROVE  \E n \in {3, 4} :
               /\ at + n <= N
               /\ LET x == SubSeq(bytes, at + 1, at + n)
                  IN  /\ Quiet(x) \/ (Asks(x) /\ Step(mm, x).out \in {})
                      /\ <<at + n, Step(mm, x).m>> \in K
  <2>1. at \in starts /\ at < N
    BY <1>1, <1>3
  <2>2. PICK n \in {3, 4} : at + n \in starts /\ Quiet(SubSeq(bytes, at + 1, at + n))
    BY <2>1 DEF Program
  <2> DEFINE x == SubSeq(bytes, at + 1, at + n)
  <2>3. at + n <= N /\ at \in Nat
    BY <1>1, <2>2
  <2>4. x \in Seq(Nat) /\ Reads(From(bytes, at), x)
    BY <2>3, ReadsFrom
  <2>5. Step(mm, x).m \in Zeroed
    <3> HIDE DEF x
    <3>1. 1 \in Nat \ {0} /\ Quiet(x)
      BY <2>2 DEF x
    <3> QED
      BY <2>4, <3>1, StepIs, ZeroedMachine
  <2>6. <<at + n, Step(mm, x).m>> \in K
    BY <2>2, <2>5
  <2> QED
    BY <2>2, <2>3, <2>6
<1> HIDE DEF K
<1> QED
  BY <1>2, <1>3, TraceExists

\* What asks for a register writes it, and changes nothing.
LEMMA AskTrace ==
  ASSUME NEW r \in Register, NEW m \in Zeroed
  PROVE  /\ Encoded(WR_REG, r, 0, 0, 1) \in Seq(Nat) /\ Len(Encoded(WR_REG, r, 0, 0, 1)) = 4
         /\ Does(m, Encoded(WR_REG, r, 0, 0, 1), m, {BytesOf(m.base[r])})
<1> DEFINE bytes == Encoded(WR_REG, r, 0, 0, 1)
           outs == {BytesOf(m.base[r])}
           K == {<<0, m>>, <<4, m>>}
<1>1. bytes = <<208, r, 0, 0>> /\ r \in Nat
  BY Sizes DEF Encoded, WR_REG
<1>2. bytes \in Seq(Nat) /\ Len(bytes) = 4 /\ SubSeq(bytes, 1, 4) = bytes
  <2> HIDE DEF bytes
  <2>1. bytes \in Seq(Nat) /\ Len(bytes) = 4
    BY <1>1
  <2>2. SubSeq(bytes, 1, Len(bytes)) = bytes
    BY <2>1
  <2> QED
    BY <2>1, <2>2
<1>3. Asks(bytes)
  BY DEF Asks
<1> HIDE DEF bytes
<1>4. Reads(From(bytes, 0), bytes)
  <2> DEFINE at == 0
  <2>1. at \in Nat /\ at + 4 <= Len(bytes) /\ at + 1 = 1 /\ at + 4 = 4
    BY <1>2
  <2> HIDE DEF at
  <2>2. Reads(From(bytes, at), SubSeq(bytes, at + 1, at + 4))
    BY <1>2, <2>1, ReadsFrom
  <2>3. Reads(From(bytes, at), bytes)
    BY <1>2, <2>1, <2>2
  <2> QED
    BY <2>3 DEF at
<1>5. Step(m, bytes).m = m /\ Step(m, bytes).out = BytesOf(m.base[r])
  <2> DEFINE b == From(bytes, 0)
             did == parseInstruction(m, b, 1)
  <2> HIDE DEF b
  <2>1. did.m = Put(m, 0, 0) /\ did.out = BytesOf(m.base[r])
    BY <1>4, AskRegisterDoes, ZeroedMachine DEF b, bytes
  <2>2. did.m = Step(m, bytes).m /\ did.out = Step(m, bytes).out
    BY <1>2, <1>3, <1>4, StepIs, ZeroedMachine DEF b
  <2> QED
    BY <2>1, <2>2, ZeroedMachine
<1>6. K \in SUBSET ((0 .. Len(bytes)) \X Zeroed) /\ <<0, m>> \in K
  BY <1>2
<1>7. ASSUME NEW at \in 0 .. Len(bytes) - 1, NEW mm \in Zeroed, <<at, mm>> \in K
      PROVE  \E n \in {3, 4} :
               /\ at + n <= Len(bytes)
               /\ LET x == SubSeq(bytes, at + 1, at + n)
                  IN  /\ Quiet(x) \/ (Asks(x) /\ Step(mm, x).out \in outs)
                      /\ <<at + n, Step(mm, x).m>> \in K
  <2>1. at = 0 /\ mm = m
    BY <1>2, <1>7
  <2>2. SubSeq(bytes, at + 1, at + 4) = bytes /\ at + 4 = 4 /\ at + 4 <= Len(bytes)
    BY <1>2, <2>1
  <2> QED
    BY <1>3, <1>5, <2>1, <2>2
<1>8. PICK last \in Zeroed : <<Len(bytes), last>> \in K /\ Does(m, bytes, last, outs)
  <2> HIDE DEF K
  <2> QED
    BY <1>2, <1>6, <1>7, TraceExists
<1>9. last = m
  BY <1>2, <1>8
<1> QED
  BY <1>2, <1>8, <1>9 DEF bytes

\* Io puts at most wanted in a register, and writes as many bytes.
LEMMA IoTrace ==
  ASSUME NEW poll \in Polls, poll.io # <<>>, NEW m \in Zeroed
  PROVE  LET bytes == poll.batch \o poll.io
         IN  /\ bytes \in Seq(Nat)
             /\ \E last \in Zeroed : Does(m, bytes, last, {b \in Seq(Nat) : Len(b) <= poll.wanted})
<1> DEFINE a == poll.batch
           c == poll.io
           w == poll.wanted
           outs == {b \in Seq(Nat) : Len(b) <= w}
           l == Len(c)
           pre == a \o SubSeq(c, 1, l - 8)
           bytes == a \o c
           S == Starts(pre)
           N == Len(bytes)
<1>1. a \in Seq(Byte) /\ bytes \in Seq(Byte) /\ w \in Nat /\ AsksWanted(poll)
  BY PollsAssumption DEF Draws
<1>2. c \in Seq(Byte) /\ l >= 8 /\ Draws(pre, FALSE)
  BY <1>1 DEF AsksWanted
<1>3. PICK r1 \in Register, r2 \in Register, r3 \in Register :
        /\ SubSeq(c, l - 7, l - 4) = Encoded(RD_REG, r3, w % 256, w \div 256, 1)
        /\ SubSeq(c, l - 3, l) = Encoded(WR_BUF, r1, r2, r3, 1)
  BY <1>1 DEF AsksWanted
<1>4. 0 \in S /\ Program(pre, S, FALSE)
  BY <1>2 DEF Draws
<1> DEFINE set == Encoded(RD_REG, r3, w % 256, w \div 256, 1)
           ask == Encoded(WR_BUF, r1, r2, r3, 1)
<1> HIDE DEF a, c, w, S
<1>5. bytes \in Seq(Nat) /\ N \in Nat /\ N = Len(a) + l /\ Len(a) \in Nat /\ l \in Nat
  <2>1. bytes \in Seq(Nat) /\ Len(bytes) \in Nat
    <3> HIDE DEF bytes
    <3> QED
      BY <1>1, BytesAreNat
  <2>2. Len(bytes) = Len(a) + Len(c)
    BY <1>1, <1>2, CatIs
  <2> QED
    BY <1>1, <1>2, <2>1, <2>2
<1>6. /\ pre \in Seq(Byte) /\ Len(pre) = N - 8
      /\ \A at \in Nat, k \in Nat :
           at + k <= N - 8 => SubSeq(pre, at + 1, at + k) = SubSeq(bytes, at + 1, at + k)
  <2> DEFINE e == l - 8
  <2>1. e \in 0 .. Len(c)
    BY <1>2, <1>5
  <2>2. /\ pre \in Seq(Byte) /\ Len(pre) = Len(a) + e /\ Len(pre) <= Len(bytes)
        /\ \A i \in 1 .. Len(pre) : pre[i] = bytes[i]
    <3> HIDE DEF e
    <3>1. pre = a \o SubSeq(c, 1, e)
      BY DEF e
    <3> HIDE DEF pre
    <3> QED
      BY <1>1, <1>2, <2>1, <3>1, CatFront
  <2>3. Len(pre) = N - 8
    BY <1>5, <2>2
  <2> HIDE DEF pre, bytes
  <2>4. ASSUME NEW at \in Nat, NEW k \in Nat, at + k <= N - 8
        PROVE  SubSeq(pre, at + 1, at + k) = SubSeq(bytes, at + 1, at + k)
    <3> DEFINE n == Len(pre)
    <3>1. n \in Nat /\ n <= Len(pre) /\ n <= Len(bytes) /\ at + k <= n
      BY <2>2, <2>3, <2>4
    <3>2. \A i \in 1 .. n : pre[i] = bytes[i]
      BY <2>2
    <3> HIDE DEF n
    <3> QED
      BY <1>1, <2>2, <3>1, <3>2, SameSub
  <2> QED
    BY <2>2, <2>3, <2>4
<1>7. /\ SubSeq(bytes, (N - 8) + 1, (N - 8) + 4) = set
      /\ SubSeq(bytes, (N - 4) + 1, (N - 4) + 4) = ask
  <2>1. ASSUME NEW at \in Nat, at + 4 <= l
        PROVE  SubSeq(bytes, Len(a) + at + 1, Len(a) + at + 4) = SubSeq(c, at + 1, at + 4)
    BY <1>1, <1>2, <2>1, CatBack
  <2>2. l - 8 \in Nat /\ l - 4 \in Nat /\ (l - 8) + 4 <= l /\ (l - 4) + 4 <= l
    BY <1>2, <1>5
  <2> HIDE DEF bytes
  <2>3. /\ SubSeq(bytes, Len(a) + (l - 8) + 1, Len(a) + (l - 8) + 4) = SubSeq(c, (l - 8) + 1, (l - 8) + 4)
        /\ SubSeq(bytes, Len(a) + (l - 4) + 1, Len(a) + (l - 4) + 4) = SubSeq(c, (l - 4) + 1, (l - 4) + 4)
    BY <2>1, <2>2
  <2>4. /\ Len(a) + (l - 8) + 1 = (N - 8) + 1 /\ Len(a) + (l - 8) + 4 = (N - 8) + 4
        /\ Len(a) + (l - 4) + 1 = (N - 4) + 1 /\ Len(a) + (l - 4) + 4 = (N - 4) + 4
        /\ (l - 8) + 1 = l - 7 /\ (l - 8) + 4 = l - 4 /\ (l - 4) + 1 = l - 3 /\ (l - 4) + 4 = l
    BY <1>5
  <2> HIDE DEF N
  <2>5. SubSeq(c, (l - 8) + 1, (l - 8) + 4) = set /\ SubSeq(c, (l - 4) + 1, (l - 4) + 4) = ask
    BY <1>3, <2>4
  <2> QED
    BY <2>3, <2>4, <2>5
<1>8. w % 256 \in Byte /\ w \div 256 \in Byte /\ w = (w % 256) + 256 * (w \div 256)
  <2> DEFINE at == N - 8
             x == SubSeq(bytes, at + 1, at + 4)
  <2>1. at \in Nat /\ at + 4 <= N
    BY <1>2, <1>5
  <2>2. x \in Seq(Byte) /\ Len(x) = 4
    <3> HIDE DEF at
    <3> QED
      BY <1>1, <2>1
  <2>3. x = set
    BY <1>7
  <2> HIDE DEF x
  <2>4. x[4] \in Byte
    <3>1. 4 \in 1 .. Len(x)
      BY <2>2
    <3> QED
      BY <2>2, <3>1, ElementOfSeq, Zenon
  <2>5. w \div 256 \in Byte
    BY <2>3, <2>4 DEF Encoded
  <2>6. w \in Nat
    BY <1>1
  <2>7. \A n \in Nat : n % 256 \in Byte /\ n = (n % 256) + 256 * (n \div 256)
    <3> TAKE n \in Nat
    <3>1. n % 256 \in Byte
      BY DEF Byte
    <3>2. n = (n % 256) + 256 * (n \div 256)
      OBVIOUS
    <3> QED
      BY <3>1, <3>2
  <2> HIDE DEF w
  <2> QED
    BY <2>5, <2>6, <2>7
<1>9. Quiet(set) /\ Len(set) = 4 /\ Asks(ask) /\ Len(ask) = 4
  <2>1. set[3] = w % 256 /\ set[4] = w \div 256 /\ Len(set) = 4
    BY DEF Encoded
  <2>2. Quiet(set)
    <3> HIDE DEF set
    <3>1. set = Encoded(RD_REG, r3, set[3], set[4], 1)
      BY <2>1 DEF set
    <3> QED
      BY <1>8, <2>1, <3>1, Zenon DEF Quiet
  <2> QED
    BY <2>1, <2>2 DEF Asks, Encoded
<1>10. S \subseteq 0 .. N - 8
  BY <1>4, <1>6 DEF Program
<1> DEFINE K == {z \in (0 .. N) \X Zeroed :
                   z[1] \in S \/ (z[1] = N - 4 /\ z[2].base[r3] <= w) \/ z[1] = N}
<1> HIDE DEF set, ask, pre, bytes
<1>11. ASSUME NEW at \in 0 .. N - 1, NEW mm \in Zeroed, <<at, mm>> \in K
       PROVE  \E n \in {3, 4} :
                /\ at + n <= N
                /\ LET x == SubSeq(bytes, at + 1, at + n)
                   IN  /\ Quiet(x) \/ (Asks(x) /\ Step(mm, x).out \in outs)
                       /\ <<at + n, Step(mm, x).m>> \in K
  <2>1. ASSUME NEW n \in {3, 4}, at + n <= N
        PROVE  LET x == SubSeq(bytes, at + 1, at + n)
               IN  x \in Seq(Nat) /\ Len(x) = n /\ Reads(From(bytes, at), x)
    BY <1>5, <2>1, ReadsFrom
  <2>2. ASSUME NEW x \in Seq(Nat), Reads(From(bytes, at), x), Quiet(x) \/ Asks(x)
        PROVE  Step(mm, x).m \in Zeroed
    <3>1. 1 \in Nat \ {0}
      OBVIOUS
    <3> QED
      BY <2>2, <3>1, StepIs, ZeroedMachine
  <2>3. CASE at \in S /\ at < N - 8
    <3>1. PICK n \in {3, 4} : at + n \in S /\ Quiet(SubSeq(pre, at + 1, at + n))
      BY <1>4, <1>6, <2>3 DEF Program
    <3> DEFINE x == SubSeq(bytes, at + 1, at + n)
    <3>2. at + n <= N - 8 /\ at + n <= N /\ at + n \in 0 .. N
      BY <1>5, <1>10, <3>1
    <3>3. Quiet(x)
      <4>1. at \in Nat /\ n \in Nat /\ at + n <= N - 8
        BY <1>5, <3>2
      <4>2. SubSeq(pre, at + 1, at + n) = SubSeq(bytes, at + 1, at + n)
        BY <1>6, <4>1
      <4> QED
        BY <3>1, <4>2
    <3>4. Step(mm, x).m \in Zeroed
      BY <2>1, <2>2, <3>2, <3>3
    <3>5. <<at + n, Step(mm, x).m>> \in K
      <4> HIDE DEF x
      <4> QED
        BY <3>1, <3>2, <3>4
    <3> QED
      BY <3>2, <3>3, <3>5
  <2>4. CASE at = N - 8
    <3> DEFINE x == SubSeq(bytes, at + 1, at + 4)
    <3>1. x = set /\ at + 4 = N - 4 /\ at + 4 <= N /\ at + 4 \in 0 .. N
      BY <1>2, <1>5, <1>7, <2>4
    <3>2. Quiet(x)
      BY <1>9, <3>1
    <3>3. Step(mm, x).m \in Zeroed
      BY <2>1, <2>2, <3>1, <3>2
    <3>4. Step(mm, x).m.base[r3] <= w
      <4> DEFINE low == w % 256
                 high == w \div 256
      <4>1. low \in Byte /\ high \in Byte /\ w = low + 256 * high /\ x = Encoded(RD_REG, r3, low, high, 1)
        BY <1>8, <3>1 DEF set
      <4> HIDE DEF low, high, x
      <4> QED
        BY <4>1, SetRegisterDoes
    <3>5. <<at + 4, Step(mm, x).m>> \in K
      <4> HIDE DEF x
      <4> QED
        BY <3>1, <3>3, <3>4
    <3> QED
      BY <3>1, <3>2, <3>5
  <2>5. CASE at = N - 4 /\ mm.base[r3] <= w
    <3> DEFINE x == SubSeq(bytes, at + 1, at + 4)
    <3>1. x = ask /\ at + 4 = N /\ at + 4 <= N /\ at + 4 \in 0 .. N
      BY <1>2, <1>5, <1>7, <2>5
    <3>2. x \in Seq(Nat) /\ Reads(From(bytes, at), x) /\ Asks(x)
      BY <1>9, <2>1, <3>1
    <3>3. Step(mm, x).m \in Zeroed
      BY <2>2, <3>2
    <3>4. Step(mm, x).out \in outs
      <4> DEFINE b == From(bytes, at)
                 did == parseInstruction(mm, b, 1)
      <4> HIDE DEF b
      <4>1. Reads(b, x) /\ Reads(b, Encoded(WR_BUF, r1, r2, r3, 1)) /\ mm \in Machine /\ 1 \in Nat \ {0}
        <5>1. x = Encoded(WR_BUF, r1, r2, r3, 1) /\ mm \in Machine
          BY <3>1, ZeroedMachine DEF ask
        <5>2. Reads(b, x)
          BY <3>2 DEF b
        <5> HIDE DEF x
        <5> QED
          BY <5>1, <5>2
      <4>2. did.out \in Seq(Nat) /\ Len(did.out) = mm.base[r3]
        BY <4>1, AskBufferDoes
      <4>3. did.out = Step(mm, x).out
        <5> HIDE DEF x
        <5> QED
          BY <3>2, <4>1, StepIs
      <4> QED
        BY <2>5, <4>2, <4>3
    <3>5. <<at + 4, Step(mm, x).m>> \in K
      <4> HIDE DEF x
      <4> QED
        BY <3>1, <3>3
    <3> QED
      BY <3>1, <3>2, <3>4, <3>5
  <2>6. at \in S \/ (at = N - 4 /\ mm.base[r3] <= w)
    BY <1>5, <1>11
  <2>7. at \in S => at < N - 8 \/ at = N - 8
    BY <1>5, <1>10
  <2> QED
    BY <2>3, <2>4, <2>5, <2>6, <2>7
<1>12. K \in SUBSET ((0 .. N) \X Zeroed) /\ <<0, m>> \in K
  BY <1>4, <1>5
<1>13. \E last \in Zeroed : Does(m, bytes, last, outs)
  <2> HIDE DEF K, outs
  <2> QED
    BY <1>5, <1>11, <1>12, TraceExists
<1> QED
  BY <1>5, <1>13 DEF bytes, a, c, w

\* v gives the bytes that the poller sends, each at its place, and g the machine at
\* the places in starts, between which are instructions.
Along(v, starts, g, from, to, outs) ==
  \A at \in starts : from <= at /\ at < to =>
    \E n \in {3, 4} :
      /\ at + n \in starts /\ at + n <= to
      /\ \E x \in Seq(Nat) :
           /\ Len(x) = n /\ \A j \in 1 .. n : x[j] = v[at + j - 1]
           /\ Quiet(x) \/ (Asks(x) /\ Step(g[at], x).out \in outs)
           /\ g[at + n] = Step(g[at], x).m

\* The same up to to, and beyond it what bytes does.
Extends(v, starts, g, from, to, bytes, last, outs, w, places, h) ==
  /\ from \in places /\ to + Len(bytes) \in places
  /\ h[from] = g[from] /\ h[to + Len(bytes)] = last
  /\ \A p \in 0 .. to - 1 : w[p] = v[p]
  /\ \A i \in 1 .. Len(bytes) : w[to + i - 1] = bytes[i]
  /\ Along(w, places, h, from, to + Len(bytes), outs)

\* More bytes, which do something.
LEMMA Extend ==
  ASSUME NEW v \in [Nat -> Nat], NEW starts \in SUBSET Nat, NEW g \in [Nat -> Zeroed],
         NEW from \in Nat, NEW to \in Nat, from <= to, from \in starts, to \in starts,
         NEW outs, Along(v, starts, g, from, to, {}),
         NEW bytes \in Seq(Nat), NEW last, Does(g[to], bytes, last, outs)
  PROVE  \E w \in [Nat -> Nat], places \in SUBSET Nat, h \in [Nat -> Zeroed] :
           Extends(v, starts, g, from, to, bytes, last, outs, w, places, h)
<1> DEFINE N == Len(bytes)
<1>1. N \in Nat
  OBVIOUS
<1>2. PICK S \in SUBSET (0 .. N), f \in [0 .. N -> Zeroed] :
        0 \in S /\ N \in S /\ f[0] = g[to] /\ f[N] = last /\ Traced(bytes, S, f, outs)
  BY DEF Does
<1> DEFINE w == [p \in Nat |-> IF to <= p /\ p < to + N THEN bytes[p - to + 1] ELSE v[p]]
           h == [p \in Nat |-> IF to < p /\ p <= to + N THEN f[p - to] ELSE g[p]]
           places == {p \in Nat : (p <= to /\ p \in starts) \/ (p - to \in S)}
<1>3. /\ w \in [Nat -> Nat]
      /\ \A p \in 0 .. to - 1 : w[p] = v[p]
      /\ \A i \in 1 .. N : w[to + i - 1] = bytes[i]
  <2>1. \A p \in Nat : to <= p /\ p < to + N => p - to + 1 \in 1 .. N
    BY <1>1
  <2>2. w \in [Nat -> Nat] /\ \A p \in 0 .. to - 1 : w[p] = v[p]
    <3>1. \A i \in 1 .. N : bytes[i] \in Nat
      BY ElementOfSeq
    <3>2. \A p \in Nat : (IF to <= p /\ p < to + N THEN bytes[p - to + 1] ELSE v[p]) \in Nat
      BY <2>1, <3>1
    <3>3. w \in [Nat -> Nat]
      BY <3>2
    <3>4. ASSUME NEW p \in 0 .. to - 1 PROVE w[p] = v[p]
      <4>1. p \in Nat /\ ~(to <= p)
        OBVIOUS
      <4> QED
        BY <4>1
    <3> QED
      BY <3>3, <3>4
  <2>3. ASSUME NEW i \in 1 .. N PROVE w[to + i - 1] = bytes[i]
    <3> DEFINE p == to + i - 1
    <3>1. p \in Nat /\ to <= p /\ p < to + N /\ p - to + 1 = i
      BY <1>1
    <3> HIDE DEF p
    <3>2. w[p] = bytes[p - to + 1]
      BY <3>1
    <3> QED
      BY <3>1, <3>2 DEF p
  <2> HIDE DEF w
  <2> QED
    BY <2>2, <2>3
<1>4. /\ h \in [Nat -> Zeroed]
      /\ \A p \in 0 .. to : h[p] = g[p]
      /\ \A s \in 0 .. N : h[to + s] = f[s]
  <2>1. \A p \in Nat : to < p /\ p <= to + N => p - to \in 0 .. N
    BY <1>1
  <2>2. h \in [Nat -> Zeroed] /\ \A p \in 0 .. to : h[p] = g[p]
    <3>1. \A p \in Nat : (IF to < p /\ p <= to + N THEN f[p - to] ELSE g[p]) \in Zeroed
      BY <2>1
    <3>2. h \in [Nat -> Zeroed]
      BY <3>1
    <3>3. ASSUME NEW p \in 0 .. to PROVE h[p] = g[p]
      <4>1. p \in Nat /\ ~(to < p)
        OBVIOUS
      <4> QED
        BY <4>1
    <3> QED
      BY <3>2, <3>3
  <2>3. ASSUME NEW s \in 0 .. N PROVE h[to + s] = f[s]
    <3> DEFINE p == to + s
    <3>1. p \in Nat /\ p - to = s /\ (s = 0 => p = to) /\ (s # 0 => to < p /\ p <= to + N)
      BY <1>1
    <3> HIDE DEF p
    <3>2. h[p] = f[s]
      BY <1>2, <3>1
    <3> QED
      BY <3>2 DEF p
  <2> HIDE DEF h
  <2> QED
    BY <2>2, <2>3
<1>5. /\ places \in SUBSET Nat /\ from \in places /\ to + N \in places
      /\ \A p \in 0 .. to : p \in starts => p \in places
      /\ \A s \in S : to + s \in places
      /\ \A p \in places : (p < to /\ p \in starts) \/ (p >= to /\ p - to \in S)
  <2>1. \A s \in S : s \in Nat /\ to + s \in Nat /\ (to + s) - to = s
    BY <1>1
  <2>2. to - to = 0
    OBVIOUS
  <2>3. \A p \in Nat : p - to \in S => p >= to
    BY <1>1
  <2>4. places \in SUBSET Nat /\ from \in places
    OBVIOUS
  <2>5. \A s \in S : to + s \in places
    BY <2>1
  <2>6. to + N \in places
    BY <1>2, <2>5
  <2>7. \A p \in 0 .. to : p \in starts => p \in places
    OBVIOUS
  <2>8. ASSUME NEW p \in places PROVE (p < to /\ p \in starts) \/ (p >= to /\ p - to \in S)
    <3>1. p \in Nat /\ ((p <= to /\ p \in starts) \/ p - to \in S)
      BY <2>8
    <3>2. CASE p - to \in S
      BY <2>3, <3>1, <3>2
    <3>3. CASE p <= to /\ p \in starts
      <4>1. CASE p = to
        BY <1>2, <2>2, <3>1, <4>1
      <4>2. CASE p < to
        BY <3>3, <4>2
      <4> QED
        BY <3>1, <3>3, <4>1, <4>2
    <3> QED
      BY <3>1, <3>2, <3>3
  <2> HIDE DEF places
  <2> QED
    BY <2>4, <2>5, <2>6, <2>7, <2>8
<1> HIDE DEF w, h, places
<1>6. ASSUME NEW at \in places, from <= at, at < to + N
      PROVE  \E n \in {3, 4} :
               /\ at + n \in places /\ at + n <= to + N
               /\ \E x \in Seq(Nat) :
                    /\ Len(x) = n /\ \A j \in 1 .. n : x[j] = w[at + j - 1]
                    /\ Quiet(x) \/ (Asks(x) /\ Step(h[at], x).out \in outs)
                    /\ h[at + n] = Step(h[at], x).m
  <2>1. CASE at < to /\ at \in starts
    <3>1. PICK n \in {3, 4} :
            /\ at + n \in starts /\ at + n <= to
            /\ \E x \in Seq(Nat) :
                 /\ Len(x) = n /\ \A j \in 1 .. n : x[j] = v[at + j - 1]
                 /\ Quiet(x) \/ (Asks(x) /\ Step(g[at], x).out \in {})
                 /\ g[at + n] = Step(g[at], x).m
      BY <1>6, <2>1 DEF Along
    <3>2. PICK x \in Seq(Nat) :
            /\ Len(x) = n /\ \A j \in 1 .. n : x[j] = v[at + j - 1]
            /\ Quiet(x) /\ g[at + n] = Step(g[at], x).m
      BY <3>1
    <3>3. at \in 0 .. to /\ at + n \in 0 .. to /\ \A j \in 1 .. n : at + j - 1 \in 0 .. to - 1
      BY <2>1, <3>1
    <3>4. h[at] = g[at] /\ h[at + n] = g[at + n] /\ at + n \in places /\ at + n <= to + N
      BY <1>1, <1>4, <1>5, <3>1, <3>3
    <3>5. \A j \in 1 .. n : x[j] = w[at + j - 1]
      BY <1>3, <3>2, <3>3
    <3> QED
      BY <3>2, <3>4, <3>5
  <2>2. CASE at >= to /\ at - to \in S
    <3> DEFINE s == at - to
    <3>1. s \in S /\ s \in 0 .. N /\ s < N /\ at = to + s /\ s \in Nat
      <4>1. at \in Nat /\ at < to + N /\ s \in S /\ s \in 0 .. N
        BY <1>2, <1>5, <1>6, <2>2
      <4> QED
        BY <1>1, <4>1
    <3> HIDE DEF s
    <3>2. PICK n \in {3, 4} :
            /\ s + n \in S /\ s + n <= N
            /\ LET x == SubSeq(bytes, s + 1, s + n)
               IN  /\ Quiet(x) \/ (Asks(x) /\ Step(f[s], x).out \in outs)
                   /\ f[s + n] = Step(f[s], x).m
      BY <1>2, <3>1 DEF Traced
    <3> DEFINE x == SubSeq(bytes, s + 1, s + n)
    <3>3. x \in Seq(Nat) /\ Len(x) = n /\ \A j \in 1 .. n : x[j] = bytes[s + j]
      <4>1. s \in Nat /\ n \in Nat /\ s + n <= Len(bytes)
        BY <3>1, <3>2
      <4>2. SubSeq(bytes, s + 1, s + n) \in Seq(Nat)
        BY <4>1, SubIs
      <4>3. Len(SubSeq(bytes, s + 1, s + n)) = n
        BY <4>1, SubIs
      <4>4. \A j \in 1 .. n : SubSeq(bytes, s + 1, s + n)[j] = bytes[s + j]
        BY <4>1, SubIs
      <4> QED
        BY <4>2, <4>3, <4>4
    <3>4. /\ Quiet(x) \/ (Asks(x) /\ Step(f[s], x).out \in outs)
          /\ f[s + n] = Step(f[s], x).m
      BY <3>2
    <3> HIDE DEF x
    <3>5. at + n = to + (s + n) /\ at + n <= to + N /\ s + n \in 0 .. N
      BY <1>1, <3>1, <3>2
    <3>6. h[at] = f[s] /\ h[at + n] = f[s + n] /\ at + n \in places
      BY <1>4, <1>5, <3>1, <3>2, <3>5
    <3>7. ASSUME NEW j \in 1 .. n PROVE x[j] = w[at + j - 1]
      <4>1. s + j \in 1 .. N /\ to + (s + j) - 1 = at + j - 1
        BY <1>1, <3>1, <3>2
      <4>2. w[to + (s + j) - 1] = bytes[s + j]
        BY <1>3, <4>1
      <4> QED
        BY <3>3, <4>1, <4>2
    <3> QED
      BY <3>3, <3>4, <3>5, <3>6, <3>7
  <2> QED
    BY <1>5, <2>1, <2>2
<1>7. Along(w, places, h, from, to + N, outs)
  BY <1>6 DEF Along
<1>8. h[from] = g[from] /\ h[to + N] = last
  BY <1>1, <1>2, <1>4
<1> QED
  BY <1>3, <1>4, <1>5, <1>7, <1>8 DEF Extends
-----------------------------------------------------------------------------
(* The two machines.                                                       *)

\* What a poller that waits may be told, and what may be answered now.
Wanted(c) ==
  IF AsksRegister(c) THEN {BytesOf(c.m.base[c.i])} ELSE {b \in Seq(Nat) : Len(b) <= c.room}
Outs(c) == IF c.pc = "length" THEN Wanted(c) ELSE {}

\* Where the child is in what the poller sends.
Mark(s) == IF s.pc = "parse" THEN s.rx - s.read + s.off ELSE s.rx

\* m is the poller's machine; or, while it waits for the buffer, what it will be after
\* the poller has executed what it sent.
Goal(c, m) ==
  IF c.pc \in {"length", "payload", "run"} /\ ~AsksRegister(c)
  THEN \E outs : Does(c.m, c.poll.batch \o c.poll.io, m, outs)
  ELSE c.m = m

\* Bytes are what v says.
Carries(items, v, to) ==
  \A i \in 1 .. Len(items) : Coded(items[i]) =>
    items[i].k[3] \in 0 .. to - 1 /\ items[i].v = v[items[i].k[3]]

\* From the place the child has reached to the end of what was sent, the trace g leads
\* from the child's machine to the poller's.
Mirror(s, c, u, starts, g, v) ==
  /\ Mark(s) \in starts /\ Mark(s) <= c.tx /\ c.tx \in starts
  /\ g[Mark(s)] = s.m /\ Goal(c, g[c.tx])
  /\ Along(v, starts, g, Mark(s), c.tx, Outs(c))
  /\ Carries(u, v, c.tx) /\ Carries(s.got, v, c.tx)
  /\ s.pc = "parse" => /\ s.rx <= c.tx
                       /\ \A j \in s.off + 1 .. s.read : s.buf[j] = v[s.rx - s.read + j - 1]
Mirrored(s, c, u) ==
  \E starts \in SUBSET Nat, g \in [Nat -> Zeroed], v \in [Nat -> Nat] :
    Mirror(s, c, u, starts, g, v)
MirrorOK == Alive /\ Polling => Mirrored(sv, cl, up)

\* What a poller knows that waits, or has waited.
PollerKnows(c) ==
  /\ c.m \in Zeroed
  /\ c.pc \in {"length", "payload"} /\ AsksRegister(c) => c.i \in Register
  /\ c.pc = "length" /\ AsksRegister(c) => c.room = WORD
  /\ c.pc = "length" \/ (c.pc = "payload" /\ c.count = 0) => c.buf = <<>>
  /\ c.pc \in {"io", "run"} \/ (c.pc \in {"length", "payload"} /\ ~AsksRegister(c)) =>
       ~AsksRegister(c) /\ c.poll.io # <<>>
KnowsOK == Polling => PollerKnows(cl)

\* Answers are what the poller wants.
AnswerOK ==
  /\ cl.pc = "length" /\ down # <<>> =>
       \E bytes \in Wanted(cl) : down = Message(bytes, cl.key, "down", cl.rx)
  /\ cl.pc = "payload" /\ cl.count = 0 =>
       \E bytes \in Wanted(cl) : Len(bytes) = cl.want /\ \A i \in 1 .. cl.want : down[i].v = bytes[i]

\* Once it has answered the child has nothing left to do.
ChildDone ==
  Alive /\ ((cl.pc = "length" /\ down # <<>>) \/ cl.pc \in {"payload", "run", "passed"}) =>
    up = <<>> /\ sv.pc = "header"
\* A session begins with equal machines, and one that passed ends with them.
EndsOK ==
  /\ cl.pc = "key" /\ Alive => sv.m = StartMachine
  /\ cl.pc = "passed" /\ Alive => sv.m = cl.m
  /\ cl.pc = "failed" => cl.torn

\* The invariant of the two machines; it leans on SessionInv.
TwinOK == MirrorOK /\ KnowsOK /\ AnswerOK /\ ChildDone /\ EndsOK

LEMMA InitTwin == InitMambo => TwinOK
BY DEF InitMambo, NoChild, NoPoller, TwinOK, MirrorOK, KnowsOK, AnswerOK, ChildDone, EndsOK,
       Alive, AliveStates, Polling, PollingStates

LEMMA TwinSame == ASSUME TwinOK, UNCHANGED linkVars PROVE TwinOK'
<1>1. UNCHANGED <<up, down, sv, cl>>
  BY DEF linkVars
<1>2. MirrorOK'
  <2>1. MirrorOK
    BY DEF TwinOK
  <2> QED
    BY <1>1, <2>1 DEF MirrorOK, Alive, Polling
<1>3. KnowsOK'
  BY <1>1 DEF TwinOK, KnowsOK, Polling
<1>4. AnswerOK'
  BY <1>1 DEF TwinOK, AnswerOK
<1>5. ChildDone' /\ EndsOK'
  BY <1>1 DEF TwinOK, ChildDone, EndsOK, Alive
<1> QED
  BY <1>2, <1>3, <1>4, <1>5 DEF TwinOK

\* The child ends.
LEMMA ChildEndsTwin ==
  ASSUME TwinOK, ~Alive', UNCHANGED cl, AnswerOK'
  PROVE  TwinOK'
<1>1. MirrorOK' /\ ChildDone'
  BY DEF MirrorOK, ChildDone
<1>2. KnowsOK'
  BY DEF TwinOK, KnowsOK, Polling
<1>3. EndsOK'
  BY DEF TwinOK, EndsOK
<1> QED
  BY <1>1, <1>2, <1>3 DEF TwinOK

LEMMA AnswerSame == ASSUME AnswerOK, UNCHANGED <<cl, down>> PROVE AnswerOK'
BY DEF AnswerOK

LEMMA ExitedTwin ==
  ASSUME TwinOK, sv' = Exited, UNCHANGED <<cl, down>>
  PROVE  TwinOK'
<1>1. ~Alive'
  BY DEF Exited, Alive, AliveStates
<1>2. AnswerOK'
  BY AnswerSame DEF TwinOK
<1> QED
  BY <1>1, <1>2, ChildEndsTwin

\* The poller ends without a verdict.
LEMMA PollerEndsTwin ==
  ASSUME TwinOK, cl'.pc \in {"lost", "aborted", "none"}
  PROVE  TwinOK'
<1>1. MirrorOK' /\ KnowsOK' /\ AnswerOK' /\ ChildDone' /\ EndsOK'
  BY DEF MirrorOK, KnowsOK, AnswerOK, ChildDone, EndsOK, Polling, PollingStates
<1> QED
  BY <1>1 DEF TwinOK

\* The steps of the child, and those that begin a session or end it.
LEMMA ConnectTwin == ASSUME NEW poll, Connect(poll) PROVE TwinOK'
<1>1. cl' = [pc |-> "key", poll |-> poll] /\ sv' = NewChild
  BY DEF Connect
<1>2. cl'.pc = "key" /\ sv'.m = StartMachine
  BY <1>1 DEF NewChild
<1> QED
  BY <1>2 DEF TwinOK, MirrorOK, KnowsOK, AnswerOK, ChildDone, EndsOK, Polling, PollingStates

LEMMA SendKeyTwin == ASSUME SessionInv, TwinOK, SendKey PROVE TwinOK'
<1>1. sv.pc = "hello" /\ sv' = [sv EXCEPT !.pc = "header"] /\ UNCHANGED cl
  BY DEF SendKey
<1>2. Alive /\ ~Polling /\ sv \in Children(sv.key)
  BY <1>1 DEF SessionInv, StartOK, ChildOK, Alive, AliveStates
<1>3. sv'.m = sv.m /\ sv'.pc = "header" /\ ~Polling'
  BY <1>1, <1>2 DEF Children, Polling
<1>4. cl.pc # "passed"
  BY <1>1, <1>2 DEF TwinOK, ChildDone
<1>5. MirrorOK' /\ KnowsOK'
  BY <1>3 DEF MirrorOK, KnowsOK
<1>6. AnswerOK' /\ ChildDone'
  BY <1>1, <1>3, <1>4 DEF AnswerOK, ChildDone, Polling, PollingStates
<1>7. EndsOK'
  BY <1>1, <1>2, <1>3, <1>4 DEF TwinOK, EndsOK
<1> QED
  BY <1>5, <1>6, <1>7 DEF TwinOK
-----------------------------------------------------------------------------
\* A child that has something to do goes on.
LEMMA ChildGoesOn ==
  ASSUME SessionInv, TwinOK, Alive, sv.pc # "hello", ~(sv.pc = "header" /\ up = <<>>),
         UNCHANGED cl, AnswerOK',
         cl.pc = "length" /\ down' # <<>> => up' = <<>> /\ sv'.pc = "header",
         MirrorOK'
  PROVE  TwinOK'
<1>1. cl.pc \notin {"payload", "run", "passed", "key"}
  BY DEF TwinOK, ChildDone, SessionInv, StartOK
<1>2. KnowsOK'
  BY DEF TwinOK, KnowsOK, Polling
<1>3. ChildDone'
  BY <1>1 DEF ChildDone
<1>4. EndsOK'
  BY <1>1 DEF TwinOK, EndsOK
<1> QED
  BY <1>2, <1>3, <1>4 DEF TwinOK

\* What is left of carried bytes is carried.
LEMMA CarriesDrop ==
  ASSUME NEW s, Len(s) \in Nat, NEW v, NEW to, Carries(s, v, to), NEW c \in 0 .. Len(s), NEW t,
         Dropped(t, s, c)
  PROVE  Carries(t, v, to)
<1> SUFFICES ASSUME NEW i \in 1 .. Len(t), Coded(t[i])
             PROVE  t[i].k[3] \in 0 .. to - 1 /\ t[i].v = v[t[i].k[3]]
  BY DEF Carries
<1>1. c + i \in 1 .. Len(s) /\ t[i] = s[c + i]
  BY DEF Dropped
<1> QED
  BY <1>1 DEF Carries

LEMMA ReadLengthTwin == ASSUME SessionInv, TwinOK, ReadLength PROVE TwinOK'
<1> DEFINE n == Head(up).len
<1>1. /\ sv.pc = "header" /\ up # <<>> /\ up' = Tail(up) /\ UNCHANGED <<cl, down>>
      /\ sv' = IF n > BUF_LENGTH \/ n = 0 THEN Exited
               ELSE [sv EXCEPT !.pc = "payload", !.want = n]
  BY DEF ReadLength
<1>2. CASE sv' = Exited
  BY <1>1, <1>2, ExitedTwin
<1>3. CASE sv' = [sv EXCEPT !.pc = "payload", !.want = n]
  <2>1. Alive /\ sv \in Children(sv.key)
    BY <1>1 DEF SessionInv, ChildOK, Alive, AliveStates
  <2>2. /\ sv'.pc = "payload" /\ sv'.rx = sv.rx /\ sv'.m = sv.m /\ sv'.got = sv.got
        /\ Mark(sv') = sv.rx /\ Mark(sv) = sv.rx
    BY <1>1, <1>3, <2>1 DEF Children, Mark
  <2>3. Len(up) \in Nat /\ 1 \in 0 .. Len(up) /\ Dropped(up', up, 1)
    <3>1. up \in Seq(Items(sv.key, "up"))
      BY <2>1 DEF SessionInv, UpOK
    <3> QED
      BY <1>1, <3>1, TailDrops
  <2>4. ASSUME Polling PROVE Mirrored(sv', cl, up')
    <3>1. PICK starts \in SUBSET Nat, g \in [Nat -> Zeroed], v \in [Nat -> Nat] :
            Mirror(sv, cl, up, starts, g, v)
      BY <2>1, <2>4 DEF TwinOK, MirrorOK, Mirrored
    <3>2. Carries(up', v, cl.tx)
      BY <2>3, <3>1, CarriesDrop DEF Mirror
    <3>3. Mirror(sv', cl, up', starts, g, v)
      BY <2>2, <3>1, <3>2 DEF Mirror
    <3> QED
      BY <3>3 DEF Mirrored
  <2>5. MirrorOK'
    BY <1>1, <2>4 DEF MirrorOK, Polling
  <2>6. cl.pc = "length" => down' = <<>>
    BY <1>1, <2>1 DEF TwinOK, ChildDone
  <2>7. AnswerOK'
    BY <1>1, AnswerSame DEF TwinOK
  <2> QED
    BY <1>1, <2>1, <2>5, <2>6, <2>7, ChildGoesOn
<1> QED
  BY <1>1, <1>2, <1>3

LEMMA ReadPayloadTwin == ASSUME SessionInv, TwinOK, ReadPayload PROVE TwinOK'
<1> DEFINE K == sv.key
           had == Len(sv.got)
<1>1. sv.pc = "payload" /\ UNCHANGED <<cl, down>>
  BY DEF ReadPayload
<1>2. /\ Alive /\ sv \in Children(K) /\ sv.got \in Seq(Items(K, "up")) /\ sv.want \in Nat
      /\ sv.rx \in Nat /\ had \in Nat /\ sv.buf \in Seq(Nat) /\ had < sv.want
      /\ up \in Seq(Items(K, "up"))
  BY <1>1 DEF SessionInv, ChildOK, UpOK, Alive, AliveStates, Children
<1>3. PICK c \in Chunks(up, sv.want - Len(sv.got)) :
        /\ up' = SubSeq(up, c + 1, Len(up))
        /\ sv' = LET got == sv.got \o SubSeq(up, 1, c)
                 IN  IF Len(got) = sv.want THEN Filled(sv, got) ELSE [sv EXCEPT !.got = got]
  BY DEF ReadPayload
<1> DEFINE got == sv.got \o SubSeq(up, 1, c)
<1>4. /\ c \in 1 .. Len(up) /\ Dropped(up', up, c) 
      /\ got \in Seq(Items(K, "up")) /\ Len(got) = had + c
      /\ \A i \in 1 .. had : got[i] = sv.got[i]
      /\ \A i \in 1 .. c : got[had + i] = up[i]
      /\ Placed(got, K, "up", sv.rx, had + c)
  BY <1>1, <1>3, GotIs DEF SessionInv
<1>5. sv' = IF Len(got) = sv.want THEN Filled(sv, got) ELSE [sv EXCEPT !.got = got]
  BY <1>3
<1> HIDE DEF K, had, got
<1>6. Len(up) \in Nat /\ c \in 0 .. Len(up) /\ c \in Nat
  BY <1>2, <1>4
<1>7. ASSUME NEW v, NEW to, Carries(up, v, to), Carries(sv.got, v, to)
      PROVE  Carries(up', v, to) /\ Carries(got, v, to)
  <2>1. Carries(up', v, to)
    BY <1>4, <1>6, <1>7, CarriesDrop
  <2>2. ASSUME NEW i \in 1 .. Len(got), Coded(got[i])
        PROVE  got[i].k[3] \in 0 .. to - 1 /\ got[i].v = v[got[i].k[3]]
    <3>1. CASE i \in 1 .. had
      BY <1>4, <1>7, <2>2, <3>1 DEF Carries, had
    <3>2. CASE i \in had + 1 .. had + c
      <4> DEFINE j == i - had
      <4>1. j \in 1 .. c /\ j \in 1 .. Len(up) /\ had + j = i
        BY <1>2, <1>6, <3>2
      <4> HIDE DEF j
      <4>2. got[i] = up[j]
        BY <1>4, <4>1
      <4> QED
        BY <1>7, <2>2, <4>1, <4>2 DEF Carries
    <3> QED
      BY <1>2, <1>4, <1>6, <3>1, <3>2
  <2> QED
    BY <2>1, <2>2 DEF Carries
<1>8. ASSUME Polling PROVE Mirrored(sv', cl, up')
  <2>1. PICK starts \in SUBSET Nat, g \in [Nat -> Zeroed], v \in [Nat -> Nat] :
          Mirror(sv, cl, up, starts, g, v)
    BY <1>2, <1>8 DEF TwinOK, MirrorOK, Mirrored
  <2>2. Carries(up', v, cl.tx) /\ Carries(got, v, cl.tx) /\ Mark(sv) = sv.rx
    BY <1>1, <1>7, <2>1 DEF Mirror, Mark
  <2>3. CASE Len(got) # sv.want
    <3>1. sv' = [sv EXCEPT !.got = got]
      BY <1>5, <2>3
    <3>2. sv'.pc = "payload" /\ sv'.rx = sv.rx /\ sv'.m = sv.m /\ sv'.got = got /\ Mark(sv') = sv.rx
      BY <1>1, <1>2, <3>1 DEF Children, Mark
    <3>3. Mirror(sv', cl, up', starts, g, v)
      BY <2>1, <2>2, <3>2 DEF Mirror
    <3> QED
      BY <3>3 DEF Mirrored
  <2>4. CASE Len(got) = sv.want
    <3> DEFINE bytes == Clear(got, sv.key, "up", sv.rx)
               size == sv.want
    <3>1. /\ bytes = [i \in 1 .. size |-> got[i].v] /\ bytes \in Seq(Nat) /\ Len(bytes) = size
      <4>1. Placed(got, K, "up", sv.rx, Len(got)) /\ sv.rx \in Nat /\ got \in Seq(Items(K, "up"))
        BY <1>2, <1>4
      <4> DEFINE clear == Clear(got, K, "up", sv.rx)
      <4>2. /\ clear = [i \in 1 .. Len(got) |-> got[i].v]
            /\ clear \in Seq(Nat) /\ Len(clear) = Len(got)
        <5>1. clear = [i \in 1 .. Len(got) |-> got[i].v]
          <6>1. \A i \in 1 .. Len(got) : got[i].k = Place(K, "up", sv.rx + i - 1)
            BY <4>1 DEF Placed
          <6> QED
            BY <6>1, Zenon DEF Clear
        <5>2. clear \in Seq(Nat)
          BY <4>1, ClearIs
        <5>3. Len(clear) = Len(got)
          BY <4>1, ClearIs
        <5> QED
          BY <5>1, <5>2, <5>3
      <4>3. bytes = clear
        BY DEF K
      <4> HIDE DEF clear, bytes
      <4> QED
        BY <2>4, <4>2, <4>3
    <3>2. sv' = [sv EXCEPT !.pc = "parse", !.rx = @ + Len(bytes), !.buf = Over(bytes, @),
                           !.got = <<>>, !.read = Len(bytes), !.off = 0]
      BY <1>5, <2>4, Zenon DEF Filled
    <3> HIDE DEF bytes
    <3>3. /\ sv'.pc = "parse" /\ sv'.rx = sv.rx + size /\ sv'.buf = Over(bytes, sv.buf)
          /\ sv'.got = <<>> /\ sv'.read = size /\ sv'.off = 0 /\ sv'.m = sv.m
      BY <1>2, <3>1, <3>2 DEF Children
    <3>4. \A i \in 1 .. size : sv'.buf[i] = bytes[i]
      <4> DEFINE o == Over(bytes, sv.buf)
      <4>1. o \in Seq(Nat) /\ Len(bytes) <= Len(o) /\ SubSeq(o, 1, Len(bytes)) = bytes
        BY <1>2, <3>1, OverIs
      <4> HIDE DEF o
      <4> DEFINE l == Len(bytes)
      <4>2. l \in Nat /\ l = size
        <5>1. l = size
          BY <3>1
        <5>2. size \in Nat
          BY <1>2
        <5> QED
          BY <5>1, <5>2
      <4> HIDE DEF l
      <4>3. \A i \in 1 .. l : o[i] = SubSeq(o, 1, l)[i]
        BY <4>1, <4>2 DEF l
      <4> QED
        BY <3>3, <4>1, <4>2, <4>3 DEF o, l
    <3> HIDE DEF size
    <3>5. size = had + c /\ size \in Nat /\ size > 0 /\ size = Len(got)
      <4>1. size = Len(got) /\ had \in Nat
        BY <1>2, <2>4 DEF size
      <4> QED
        BY <1>4, <1>6, <4>1
    <3>6. ASSUME NEW i \in 1 .. size
          PROVE  sv.rx + i - 1 \in 0 .. cl.tx - 1 /\ bytes[i] = v[sv.rx + i - 1]
      <4>1. Coded(got[i]) /\ got[i].k = Place(K, "up", sv.rx + i - 1)
        BY <1>4, <3>5 DEF Placed
      <4>2. got[i].k[3] = sv.rx + i - 1
        BY <4>1 DEF Place
      <4>3. i \in 1 .. Len(got) /\ bytes[i] = got[i].v
        BY <3>1, <3>5
      <4> QED
        BY <2>2, <4>1, <4>2, <4>3 DEF Carries
    <3>7. Mark(sv') = sv.rx /\ sv'.rx <= cl.tx
      <4> DEFINE rx == sv.rx
                 tx == cl.tx
      <4>1. rx + size - 1 \in 0 .. tx - 1
        <5>1. size \in 1 .. size
          BY <3>5
        <5> QED
          BY <3>6, <5>1
      <4>2. rx \in Nat /\ tx \in Nat
        BY <1>2, <2>1 DEF Mirror
      <4>3. sv'.rx = rx + size /\ sv'.rx - sv'.read + sv'.off = (rx + size) - size + 0
        BY <3>3
      <4> HIDE DEF rx, tx
      <4>4. (rx + size) - size + 0 = rx /\ rx + size <= tx
        <5>1. size \in Nat
          BY <3>5
        <5>2. rx \in Nat
          BY <4>2
        <5>3. tx \in Nat
          BY <4>2
        <5>4. (rx + size) - size + 0 = rx
          BY <5>1, <5>2
        <5>5. rx + size - 1 <= tx - 1
          BY <4>1
        <5>6. rx + size <= tx
          BY <5>1, <5>2, <5>3, <5>5
        <5> QED
          BY <5>4, <5>6
      <4> QED
        BY <3>3, <4>3, <4>4 DEF Mark, rx, tx
    <3>8. Carries(<<>>, v, cl.tx)
      BY DEF Carries
    <3>9. ASSUME NEW j \in sv'.off + 1 .. sv'.read
          PROVE  sv'.buf[j] = v[sv'.rx - sv'.read + j - 1]
      <4>1. j \in 1 .. size /\ sv'.rx - sv'.read + j - 1 = sv.rx + j - 1
        <5> DEFINE rx == sv.rx
        <5>1. rx \in Nat /\ j \in 1 .. size
          BY <1>2, <3>3, <3>5
        <5>2. sv'.rx - sv'.read + j - 1 = (rx + size) - size + j - 1
          BY <3>3
        <5> HIDE DEF rx
        <5>3. (rx + size) - size + j - 1 = rx + j - 1
          BY <3>5, <5>1
        <5> QED
          BY <5>1, <5>2, <5>3 DEF rx
      <4> QED
        BY <3>4, <3>6, <4>1
    <3>10. Mirror(sv', cl, up', starts, g, v)
      BY <2>1, <2>2, <3>3, <3>7, <3>8, <3>9 DEF Mirror
    <3> QED
      BY <3>10 DEF Mirrored
  <2> QED
    BY <2>3, <2>4
<1>9. MirrorOK'
  BY <1>1, <1>8 DEF MirrorOK, Polling
<1>10. cl.pc = "length" => down' = <<>>
  BY <1>1, <1>2 DEF TwinOK, ChildDone
<1>11. AnswerOK'
  BY <1>1, AnswerSame DEF TwinOK
<1> QED
  BY <1>1, <1>2, <1>9, <1>10, <1>11, ChildGoesOn

\* Instructions that begin alike are equally long.
LEMMA SameLength ==
  ASSUME NEW x, NEW y, Quiet(x) \/ Asks(x), Quiet(y) \/ Asks(y), x[1] = y[1]
  PROVE  Len(x) = Len(y)
<1>1. \/ Len(x) = 4 /\ x[1] \in {224, 208, 216, 129, 130, 131, 132, 133, 134}
      \/ Len(x) = 3 /\ x[1] \in {8, 16, 24, 32, 40, 48, 56}
  BY DrawnLooks
<1>2. \/ Len(y) = 4 /\ y[1] \in {224, 208, 216, 129, 130, 131, 132, 133, 134}
      \/ Len(y) = 3 /\ y[1] \in {8, 16, 24, 32, 40, 48, 56}
  BY DrawnLooks
<1> QED
  BY <1>1, <1>2

LEMMA ParseTwin == ASSUME SessionInv, TwinOK, Parse PROVE TwinOK'
<1> DEFINE b   == SubSeq(sv.buf, sv.off + 1, Len(sv.buf)) \o <<0, 0, 0, 0>>
           did == parseInstruction(sv.m, b, sv.read - sv.off)
           s   == SubSeq(sv.buf, 1, sv.read)
           may == May(up = <<>>)
<1>1. /\ sv.pc = "parse" /\ UNCHANGED <<up, cl>>
      /\ sv' = IF did.exit # NULL \/ did.used <= 0 THEN Exited
               ELSE [sv EXCEPT !.m = did.m, !.off = sv.off + did.used, !.tx = @ + Written(did.out),
                               !.pc = IF sv.off + did.used >= sv.read THEN "header" ELSE "parse"]
      /\ down' = IF did.out = NoOutput THEN down
                 ELSE down \o Message(did.out, sv.key, "down", sv.tx)
  BY DEF Parse
<1>2. /\ Alive /\ sv \in Children(sv.key)
      /\ sv.off < sv.read /\ sv.m \in Machine /\ sv.read \in Nat /\ sv.off \in Nat
      /\ sv.rx \in Nat /\ sv.got = <<>>
  BY <1>1 DEF SessionInv, ChildOK, Alive, AliveStates, Children
<1>3. PICK n \in {3, 4} :
        /\ sv.off + n <= sv.read
        /\ LET x == SubSeq(s, sv.off + 1, sv.off + n)
           IN  /\ x \in Seq(Nat) /\ Len(x) = n /\ Reads(b, x)
               /\ \A i \in 1 .. n : x[i] = sv.buf[sv.off + i]
               /\ Quiet(x) \/ (may /\ sv.off + n = sv.read /\ Asks(x))
  BY <1>1, InstructionIs DEF SessionInv
<1> DEFINE x == SubSeq(s, sv.off + 1, sv.off + n)
           left == sv.read - sv.off
<1>4. /\ x \in Seq(Nat) /\ Len(x) = n /\ Reads(b, x)
      /\ \A i \in 1 .. n : x[i] = sv.buf[sv.off + i]
      /\ Quiet(x) \/ (may /\ sv.off + n = sv.read /\ Asks(x))
      /\ left \in Nat \ {0}
  <2>1. left \in Nat \ {0}
    BY <1>2
  <2> HIDE DEF s, may, b, left
  <2>2. x \in Seq(Nat) /\ Len(x) = n /\ Reads(b, x)
    BY <1>3
  <2>3. \A i \in 1 .. n : x[i] = sv.buf[sv.off + i]
    BY <1>3
  <2>4. Quiet(x) \/ (may /\ sv.off + n = sv.read /\ Asks(x))
    BY <1>3
  <2> QED
    BY <2>1, <2>2, <2>3, <2>4
<1> HIDE DEF x, b, s
<1>5. /\ did.m = Step(sv.m, x).m /\ did.out = Step(sv.m, x).out
      /\ did.used = n /\ (Quiet(x) => did.out = NoOutput)
      /\ did.out = NoOutput \/ did.out \in Seq(Nat)
  <2> HIDE DEF left, may
  <2>1. LET d == parseInstruction(sv.m, b, left)
        IN  /\ d.m = Step(sv.m, x).m /\ d.out = Step(sv.m, x).out
            /\ d.used = Len(x) /\ (Quiet(x) => d.out = NoOutput)
            /\ d.out = NoOutput \/ d.out \in Seq(Nat)
    BY <1>2, <1>4, StepIs
  <2> QED
    BY <1>4, <2>1 DEF left
<1> HIDE DEF did, left
<1> DEFINE next == [sv EXCEPT !.m = did.m, !.off = sv.off + n, !.tx = @ + Written(did.out),
                              !.pc = IF sv.off + n >= sv.read THEN "header" ELSE "parse"]
<1>6. sv' = Exited \/ sv' = next
  BY <1>1, <1>5
<1>7. /\ next.m = did.m /\ next.off = sv.off + n /\ next.rx = sv.rx /\ next.read = sv.read
      /\ next.buf = sv.buf /\ next.got = sv.got
      /\ next.pc = IF sv.off + n >= sv.read THEN "header" ELSE "parse"
  BY <1>2 DEF Children
<1> HIDE DEF next
<1>8. ASSUME Polling
      PROVE  /\ did.out # NoOutput => cl.pc = "length" /\ did.out \in Wanted(cl)
             /\ Mirrored(next, cl, up)
  <2>1. PICK starts \in SUBSET Nat, g \in [Nat -> Zeroed], v \in [Nat -> Nat] :
          Mirror(sv, cl, up, starts, g, v)
    BY <1>2, <1>8 DEF TwinOK, MirrorOK, Mirrored
  <2> DEFINE at == Mark(sv)
             tx == cl.tx
  <2>2. /\ at \in starts /\ at <= tx /\ tx \in starts /\ at \in Nat /\ tx \in Nat
        /\ g[at] = sv.m /\ Goal(cl, g[tx]) /\ Along(v, starts, g, at, tx, Outs(cl))
        /\ Carries(up, v, tx) /\ Carries(sv.got, v, tx) /\ sv.rx <= tx
        /\ \A j \in sv.off + 1 .. sv.read : sv.buf[j] = v[sv.rx - sv.read + j - 1]
    BY <1>1, <2>1 DEF Mirror
  <2>3. at = sv.rx - sv.read + sv.off /\ at < tx
    <3> DEFINE rx == sv.rx
               read == sv.read
               off == sv.off
    <3>1. at = rx - read + off
      BY <1>1 DEF Mark
    <3>2. rx \in Nat /\ read \in Nat /\ off \in Nat /\ off < read /\ rx <= tx
      BY <1>2, <2>2
    <3> HIDE DEF rx, read, off, at, tx
    <3>3. at < tx
      BY <2>2, <3>1, <3>2
    <3> QED
      BY <3>1, <3>3 DEF rx, read, off
  <2> HIDE DEF at, tx
  <2>4. PICK k \in {3, 4} :
          /\ at + k \in starts /\ at + k <= tx
          /\ \E y \in Seq(Nat) :
               /\ Len(y) = k /\ \A j \in 1 .. k : y[j] = v[at + j - 1]
               /\ Quiet(y) \/ (Asks(y) /\ Step(g[at], y).out \in Outs(cl))
               /\ g[at + k] = Step(g[at], y).m
    <3>1. at <= at
      BY <2>2
    <3> QED
      BY <2>2, <2>3, <3>1 DEF Along
  <2>5. PICK y \in Seq(Nat) :
          /\ Len(y) = k /\ \A j \in 1 .. k : y[j] = v[at + j - 1]
          /\ Quiet(y) \/ (Asks(y) /\ Step(g[at], y).out \in Outs(cl))
          /\ g[at + k] = Step(g[at], y).m
    BY <2>4
  <2>6. ASSUME NEW j \in 1 .. n PROVE x[j] = v[at + j - 1]
    <3> DEFINE rx == sv.rx
               read == sv.read
               off == sv.off
    <3>1. rx \in Nat /\ read \in Nat /\ off \in Nat /\ off + n <= read
      BY <1>2, <1>3
    <3>2. at = rx - read + off /\ x[j] = sv.buf[off + j]
      BY <1>4, <2>3
    <3>3. \A i \in off + 1 .. read : sv.buf[i] = v[rx - read + i - 1]
      BY <2>2
    <3> HIDE DEF rx, read, off
    <3>4. off + j \in off + 1 .. read /\ rx - read + (off + j) - 1 = at + j - 1
      BY <3>1, <3>2
    <3> QED
      BY <3>2, <3>3, <3>4
  <2>7. x = y /\ k = n
    <3>1. x[1] = y[1]
      <4>1. 1 \in 1 .. n /\ 1 \in 1 .. k
        OBVIOUS
      <4>2. x[1] = v[at + 1 - 1]
        BY <2>6, <4>1
      <4>3. \A j \in 1 .. k : y[j] = v[at + j - 1]
        BY <2>5
      <4>4. y[1] = v[at + 1 - 1]
        BY <4>1, <4>3
      <4> QED
        BY <4>2, <4>4
    <3>2. Quiet(x) \/ Asks(x)
      BY <1>4
    <3>3. Len(x) = Len(y)
      BY <2>5, <3>1, <3>2, SameLength
    <3>4. k = n
      BY <1>4, <2>5, <3>3
    <3>5. \A j \in 1 .. Len(x) : x[j] = y[j]
      BY <1>4, <2>5, <2>6, <3>4
    <3>6. x = y
      BY <1>4, <3>3, <3>5, SeqEqual
    <3> QED
      BY <3>4, <3>6
  <2>8. did.out # NoOutput => cl.pc = "length" /\ did.out \in Wanted(cl)
    <3> SUFFICES ASSUME did.out # NoOutput PROVE cl.pc = "length" /\ did.out \in Wanted(cl)
      OBVIOUS
    <3>1. Step(g[at], y).out \in Outs(cl)
      BY <1>5, <2>5, <2>7
    <3>2. did.out \in Outs(cl)
      BY <1>5, <2>2, <2>7, <3>1
    <3> QED
      BY <3>2 DEF Outs
  <2>9. Mark(next) = at + n
    <3> DEFINE rx == sv.rx
               read == sv.read
               off == sv.off
    <3>1. rx \in Nat /\ read \in Nat /\ off \in Nat /\ off + n <= read /\ at = rx - read + off
      BY <1>2, <1>3, <2>3
    <3>2. Mark(next) = IF off + n >= read THEN rx ELSE rx - read + (off + n)
      BY <1>7 DEF Mark
    <3> HIDE DEF rx, read, off
    <3> QED
      BY <3>1, <3>2
  <2>10. g[at + n] = next.m /\ at + n \in starts /\ at + n <= tx
    BY <1>5, <1>7, <2>2, <2>4, <2>5, <2>7
  <2>11. Along(v, starts, g, at + n, tx, Outs(cl))
    <3>1. \A p \in starts : at + n <= p => at <= p
      <4>1. at \in Nat /\ \A p \in starts : p \in Nat
        BY <2>2
      <4> QED
        BY <4>1
    <3> QED
      BY <2>2, <3>1 DEF Along
  <2>12. \A j \in next.off + 1 .. next.read : next.buf[j] = v[next.rx - next.read + j - 1]
    <3>1. \A j \in next.off + 1 .. next.read : j \in sv.off + 1 .. sv.read
      <4> DEFINE off == sv.off
                 read == sv.read
      <4>1. off \in Nat /\ read \in Nat /\ next.off = off + n /\ next.read = read
        BY <1>2, <1>7
      <4> HIDE DEF off, read
      <4>2. \A j \in off + n + 1 .. read : j \in off + 1 .. read
        BY <4>1
      <4> QED
        BY <4>1, <4>2 DEF off, read
    <3> QED
      BY <1>7, <2>2, <3>1
  <2>13. Mirror(next, cl, up, starts, g, v)
    BY <1>7, <2>2, <2>9, <2>10, <2>11, <2>12 DEF Mirror, tx
  <2> QED
    BY <2>8, <2>13 DEF Mirrored
<1>9. AnswerOK' /\ (cl.pc = "length" /\ down' # <<>> => up = <<>> /\ sv.off + n >= sv.read)
  <2>1. CASE did.out = NoOutput
    <3>1. down' = down
      BY <1>1, <2>1
    <3>2. cl.pc = "length" => down' = <<>>
      BY <1>1, <1>2, <3>1 DEF TwinOK, ChildDone
    <3>3. AnswerOK'
      BY <1>1, <3>1, AnswerSame DEF TwinOK
    <3> QED
      BY <3>2, <3>3
  <2>2. CASE ~Polling
    BY <1>1, <2>2 DEF AnswerOK, Polling, PollingStates
  <2>3. CASE did.out # NoOutput /\ Polling
    <3>1. cl.pc = "length" /\ did.out \in Wanted(cl) /\ did.out \in Seq(Nat)
      BY <1>5, <1>8, <2>3
    <3>2. may /\ sv.off + n = sv.read
      BY <1>4, <1>5, <2>3
    <3>3. down = <<>> /\ up = <<>> /\ cl.key = sv.key /\ sv.tx = cl.rx /\ sv.tx \in Nat
      BY <1>2, <2>3, <3>1, <3>2 DEF May, SessionInv, UpOK, PollerOK, Children
    <3> DEFINE t == Message(did.out, sv.key, "down", sv.tx)
    <3>4. t \in Seq(Items(sv.key, "down"))
      <4>1. IsMessage(t, did.out, sv.key, "down", sv.tx)
        BY <3>1, <3>3, MessageIs
      <4> HIDE DEF t
      <4> QED
        BY <4>1 DEF IsMessage
    <3>5. down' = <<>> \o t
      BY <1>1, <2>3, <3>3
    <3> HIDE DEF t
    <3>6. down' = t
      BY <3>4, <3>5
    <3>7. down' = Message(did.out, cl.key, "down", cl.rx)
      BY <3>3, <3>6 DEF t
    <3>8. AnswerOK'
      BY <1>1, <3>1, <3>7 DEF AnswerOK
    <3> QED
      BY <1>2, <3>2, <3>3, <3>8
  <2> QED
    BY <2>1, <2>2, <2>3
<1>10. CASE sv' = Exited
  <2>1. ~Alive'
    BY <1>10 DEF Exited, Alive, AliveStates
  <2> QED
    BY <1>1, <1>9, <2>1, ChildEndsTwin
<1>11. CASE sv' = next
  <2>1. MirrorOK'
    BY <1>1, <1>8, <1>11 DEF MirrorOK, Polling
  <2>2. cl.pc = "length" /\ down' # <<>> => up' = <<>> /\ sv'.pc = "header"
    BY <1>1, <1>7, <1>9, <1>11
  <2> QED
    BY <1>1, <1>2, <1>9, <2>1, <2>2, ChildGoesOn
<1> QED
  BY <1>6, <1>10, <1>11

LEMMA AlongMore ==
  ASSUME NEW v, NEW starts, NEW g, NEW from, NEW to, NEW few, NEW many, few \subseteq many,
         Along(v, starts, g, from, to, few)
  PROVE  Along(v, starts, g, from, to, many)
<1> SUFFICES ASSUME NEW at \in starts, from <= at /\ at < to
             PROVE  \E n \in {3, 4} :
                      /\ at + n \in starts /\ at + n <= to
                      /\ \E x \in Seq(Nat) :
                           /\ Len(x) = n /\ \A j \in 1 .. n : x[j] = v[at + j - 1]
                           /\ Quiet(x) \/ (Asks(x) /\ Step(g[at], x).out \in many)
                           /\ g[at + n] = Step(g[at], x).m
  BY DEF Along
<1>1. PICK n \in {3, 4} :
        /\ at + n \in starts /\ at + n <= to
        /\ \E x \in Seq(Nat) :
             /\ Len(x) = n /\ \A j \in 1 .. n : x[j] = v[at + j - 1]
             /\ Quiet(x) \/ (Asks(x) /\ Step(g[at], x).out \in few)
             /\ g[at + n] = Step(g[at], x).m
  BY DEF Along
<1>2. PICK x \in Seq(Nat) :
        /\ Len(x) = n /\ \A j \in 1 .. n : x[j] = v[at + j - 1]
        /\ Quiet(x) \/ (Asks(x) /\ Step(g[at], x).out \in few)
        /\ g[at + n] = Step(g[at], x).m
  BY <1>1
<1>3. Quiet(x) \/ (Asks(x) /\ Step(g[at], x).out \in many)
  BY <1>2
<1> QED
  BY <1>1, <1>2, <1>3

\* Items whose places are before to, when only what is beyond changes.
LEMMA CarriesStill ==
  ASSUME NEW items, NEW v, NEW w, NEW to \in Nat, NEW till \in Nat, to <= till,
         \A p \in 0 .. to - 1 : w[p] = v[p], Carries(items, v, to)
  PROVE  Carries(items, w, till)
<1> SUFFICES ASSUME NEW i \in 1 .. Len(items), Coded(items[i])
             PROVE  items[i].k[3] \in 0 .. till - 1 /\ items[i].v = w[items[i].k[3]]
  BY DEF Carries
<1> DEFINE p == items[i].k[3]
<1>1. p \in 0 .. to - 1 /\ items[i].v = v[p]
  BY DEF Carries
<1> HIDE DEF p
<1>2. p \in 0 .. till - 1 /\ w[p] = v[p]
  BY <1>1
<1> QED
  BY <1>1, <1>2 DEF p

\* The poller sends what it will have done.
LEMMA MirrorSend ==
  ASSUME SessionInv, TwinOK, Alive, Polling, cl.pc \notin {"length", "payload", "run"},
         NEW bytes \in Seq(Nat), Send(bytes), NEW c, c.tx = cl.tx + Len(bytes),
         NEW last, NEW outs, outs \subseteq Outs(c), Does(cl.m, bytes, last, outs), Goal(c, last)
  PROVE  Mirrored(sv, c, up')
<1>1. PICK starts \in SUBSET Nat, g \in [Nat -> Zeroed], v \in [Nat -> Nat] :
        Mirror(sv, cl, up, starts, g, v)
  BY DEF TwinOK, MirrorOK, Mirrored
<1> DEFINE mark == Mark(sv)
           tx == cl.tx
           N == Len(bytes)
<1>2. /\ mark \in starts /\ mark <= tx /\ tx \in starts /\ mark \in Nat /\ tx \in Nat
      /\ g[mark] = sv.m /\ Along(v, starts, g, mark, tx, {})
      /\ Carries(up, v, tx) /\ Carries(sv.got, v, tx)
      /\ sv.pc = "parse" => /\ sv.rx <= tx
                            /\ \A j \in sv.off + 1 .. sv.read : sv.buf[j] = v[sv.rx - sv.read + j - 1]
  BY <1>1 DEF Mirror, Outs
<1>3. Does(g[tx], bytes, last, outs)
  BY <1>1 DEF Mirror, Goal
<1>4. N \in Nat
  OBVIOUS
<1>5. c.tx = tx + N /\ tx + N \in Nat /\ tx <= tx + N
  <2>1. c.tx = tx + N
    OBVIOUS
  <2>2. tx \in Nat
    BY <1>2
  <2> HIDE DEF tx, N
  <2> QED
    BY <1>4, <2>1, <2>2
<1>6. up \in Seq(Items(cl.key, "up")) /\ up' = up \o Message(bytes, cl.key, "up", tx)
  BY DEF SessionInv, UpOK, Send
<1> HIDE DEF mark, tx, N
<1>7. PICK w \in [Nat -> Nat], places \in SUBSET Nat, h \in [Nat -> Zeroed] :
        Extends(v, starts, g, mark, tx, bytes, last, outs, w, places, h)
  BY <1>2, <1>3, Extend
<1>8. /\ mark \in places /\ tx + N \in places /\ h[mark] = g[mark] /\ h[tx + N] = last
      /\ \A p \in 0 .. tx - 1 : w[p] = v[p]
      /\ \A i \in 1 .. N : w[tx + i - 1] = bytes[i]
      /\ Along(w, places, h, mark, tx + N, outs)
  BY <1>7 DEF Extends, N
<1>9. Carries(sv.got, w, tx + N)
  BY <1>2, <1>5, <1>8, CarriesStill
<1>10. Carries(up', w, tx + N)
  <2> DEFINE t == Message(bytes, cl.key, "up", tx)
             u == up'
             l == Len(up)
  <2>1. IsMessage(t, bytes, cl.key, "up", tx)
    BY <1>2, MessageIs
  <2>2. u = up \o t
    BY <1>6
  <2> HIDE DEF t, u
  <2>3. /\ t \in Seq(Items(cl.key, "up")) /\ Len(t) = 1 + N /\ ~Coded(t[1])
        /\ \A i \in 1 .. N : t[1 + i].v = bytes[i] /\ t[1 + i].k = Place(cl.key, "up", tx + i - 1)
    BY <2>1 DEF IsMessage, N
  <2>4. /\ Len(u) = l + Len(t)
        /\ \A i \in 1 .. l : u[i] = up[i]
        /\ \A i \in 1 .. Len(t) : u[l + i] = t[i]
    <3> DEFINE S == Items(cl.key, "up")
    <3>1. up \in Seq(S) /\ t \in Seq(S)
      BY <1>6, <2>3
    <3> HIDE DEF S
    <3>2. /\ Len(up \o t) = Len(up) + Len(t)
          /\ \A i \in 1 .. Len(up) : (up \o t)[i] = up[i]
          /\ \A i \in 1 .. Len(t) : (up \o t)[Len(up) + i] = t[i]
      BY <3>1, CatIs
    <3> QED
      BY <2>2, <3>2
  <2>5. l \in Nat
    BY <1>6
  <2>6. Carries(up, w, tx + N)
    BY <1>2, <1>5, <1>8, CarriesStill
  <2>7. \A i \in 1 .. l : Coded(up[i]) =>
          up[i].k[3] \in 0 .. (tx + N) - 1 /\ up[i].v = w[up[i].k[3]]
    BY <2>6 DEF Carries, l
  <2> HIDE DEF l
  <2>8. ASSUME NEW i \in 1 .. Len(u), Coded(u[i])
        PROVE  u[i].k[3] \in 0 .. (tx + N) - 1 /\ u[i].v = w[u[i].k[3]]
    <3>1. CASE i \in 1 .. l
      BY <2>4, <2>7, <2>8, <3>1
    <3>2. CASE i = l + 1
      <4>1. 1 \in 1 .. Len(t)
        BY <1>4, <2>3
      <4>2. u[l + 1] = t[1]
        BY <2>4, <4>1
      <4> QED
        BY <2>3, <2>8, <3>2, <4>2
    <3>3. CASE i > l + 1
      <4> DEFINE j == i - l - 1
      <4>1. Len(u) = l + (1 + N) /\ Len(t) = 1 + N
        BY <2>3, <2>4
      <4>2. j \in 1 .. N /\ l + (1 + j) = i /\ 1 + j \in 1 .. Len(t)
        BY <1>4, <2>5, <3>3, <4>1
      <4> HIDE DEF j
      <4>3. u[i] = t[1 + j]
        BY <2>4, <4>2
      <4>4. u[i].v = bytes[j] /\ u[i].k = Place(cl.key, "up", tx + j - 1)
        BY <2>3, <4>2, <4>3
      <4>5. u[i].k[3] = tx + j - 1
        BY <4>4 DEF Place
      <4>6. tx + j - 1 \in 0 .. (tx + N) - 1 /\ w[tx + j - 1] = bytes[j]
        BY <1>2, <1>4, <1>8, <4>2
      <4> QED
        BY <4>4, <4>5, <4>6
    <3> QED
      BY <1>4, <2>3, <2>4, <2>5, <3>1, <3>2, <3>3
  <2>9. Carries(u, w, tx + N)
    BY <2>8 DEF Carries
  <2> QED
    BY <2>9 DEF u
<1>11. Along(w, places, h, mark, tx + N, Outs(c))
  BY <1>8, AlongMore
<1>12. ASSUME sv.pc = "parse"
       PROVE  /\ sv.rx <= tx + N
              /\ \A j \in sv.off + 1 .. sv.read : sv.buf[j] = w[sv.rx - sv.read + j - 1]
  <2> DEFINE rx == sv.rx
             read == sv.read
             off == sv.off
  <2>1. rx \in Nat /\ read \in Nat /\ off \in Nat
    BY DEF SessionInv, ChildOK, Children
  <2>2. mark = rx - read + off /\ rx <= tx
    BY <1>2, <1>12 DEF Mark, mark
  <2>3. \A j \in off + 1 .. read : sv.buf[j] = v[rx - read + j - 1]
    BY <1>2, <1>12
  <2> HIDE DEF rx, read, off
  <2>4. \A j \in off + 1 .. read : rx - read + j - 1 \in 0 .. tx - 1
    BY <1>2, <2>1, <2>2
  <2>5. rx <= tx + N
    BY <1>2, <1>4, <2>1, <2>2
  <2>6. \A j \in off + 1 .. read : sv.buf[j] = w[rx - read + j - 1]
    BY <1>8, <2>3, <2>4
  <2> QED
    BY <2>5, <2>6 DEF rx, read, off
<1>13. mark <= tx + N
  BY <1>2, <1>4
<1>14. Mirror(sv, c, up', places, h, w)
  BY <1>2, <1>5, <1>8, <1>9, <1>10, <1>11, <1>12, <1>13 DEF Mirror, mark
<1> QED
  BY <1>14 DEF Mirrored

\* Once the child has read all that was sent it is where the poller is.
LEMMA AtEnd ==
  ASSUME SessionInv, Alive, Polling, up = <<>>, sv.pc = "header"
  PROVE  Mark(sv) = cl.tx /\ sv.got = <<>> /\ cl.tx \in Nat
<1>1. sv.got = <<>> /\ sv.rx \in Nat
  BY DEF SessionInv, ChildOK, Children
<1>2. Numbered(up, sv.key, "up", sv.rx + Len(sv.got), cl.tx) /\ cl.tx \in Nat
  BY DEF SessionInv, UpOK
<1>3. Len(up) = 0 /\ sv.rx + Len(sv.got) = sv.rx
  BY <1>1
<1>4. cl.tx = sv.rx
  BY <1>2, <1>3 DEF Numbered, IsCount
<1> QED
  BY <1>1, <1>2, <1>4 DEF Mark

\* The poller goes on while the child waits.
LEMMA MirrorTurns ==
  ASSUME SessionInv, TwinOK, Alive, Polling, up = <<>>, sv.pc = "header",
         NEW c, c.tx = cl.tx, \A m : Goal(cl, m) => Goal(c, m)
  PROVE  Mirrored(sv, c, up)
<1>1. PICK starts \in SUBSET Nat, g \in [Nat -> Zeroed], v \in [Nat -> Nat] :
        Mirror(sv, cl, up, starts, g, v)
  BY DEF TwinOK, MirrorOK, Mirrored
<1>2. Mark(sv) = cl.tx /\ cl.tx \in Nat
  BY AtEnd
<1>3. Along(v, starts, g, Mark(sv), c.tx, Outs(c))
  <2>1. \A at \in starts : ~(cl.tx <= at /\ at < cl.tx)
    BY <1>2
  <2> QED
    BY <1>2, <2>1 DEF Along
<1>4. Goal(c, g[c.tx])
  BY <1>1 DEF Mirror
<1>5. Mirror(sv, c, up, starts, g, v)
  BY <1>1, <1>3, <1>4 DEF Mirror
<1> QED
  BY <1>5 DEF Mirrored

LEMMA StartZeroed == StartMachine \in Zeroed
BY Sizes DEF StartMachine, Zeroed, Machine

\* Before the first byte.
LEMMA GetKeyTwin == ASSUME SessionInv, TwinOK, GetKey PROVE TwinOK'
<1>1. /\ cl.pc = "key" /\ down # <<>> /\ down' = Tail(down) /\ UNCHANGED <<up, sv>>
      /\ cl' = [pc |-> "batch", poll |-> cl.poll, key |-> Head(down).key, m |-> StartMachine,
                rx |-> 0, tx |-> 0, pass |-> 1, i |-> 0, room |-> 0, want |-> 0, count |-> 0,
                buf |-> <<>>, torn |-> FALSE]
  BY DEF GetKey
<1>2. cl'.pc = "batch" /\ cl'.m = StartMachine /\ cl'.tx = 0
  BY <1>1
<1>3. ASSUME Alive PROVE Mirrored(sv, cl', up)
  <2>1. sv.pc = "header" /\ up = <<>> /\ sv.rx = 0 /\ sv.got = <<>> /\ sv.m = StartMachine
    BY <1>1, <1>3 DEF SessionInv, StartOK, ChildOK, TwinOK, EndsOK
  <2> DEFINE starts == {0}
             g == [n \in Nat |-> StartMachine]
             v == [n \in Nat |-> 0]
  <2>2. starts \in SUBSET Nat /\ g \in [Nat -> Zeroed] /\ v \in [Nat -> Nat] /\ g[0] = StartMachine
    BY StartZeroed
  <2> HIDE DEF g, v
  <2>3. Mark(sv) = 0
    BY <2>1 DEF Mark
  <2>4. Goal(cl', g[0])
    BY <1>2, <2>2 DEF Goal
  <2>5. Along(v, starts, g, 0, 0, Outs(cl'))
    BY DEF Along
  <2>6. Carries(<<>>, v, 0)
    BY DEF Carries
  <2>7. Mirror(sv, cl', up, starts, g, v)
    BY <1>2, <2>1, <2>2, <2>3, <2>4, <2>5, <2>6 DEF Mirror
  <2> QED
    BY <2>2, <2>7 DEF Mirrored
<1>4. MirrorOK'
  BY <1>1, <1>3 DEF MirrorOK, Alive
<1>5. KnowsOK'
  BY <1>2, StartZeroed DEF KnowsOK, PollerKnows
<1>6. AnswerOK' /\ ChildDone' /\ EndsOK'
  BY <1>2 DEF AnswerOK, ChildDone, EndsOK
<1> QED
  BY <1>4, <1>5, <1>6 DEF TwinOK
-----------------------------------------------------------------------------
\* A poller that has sent.
LEMMA SentTwin ==
  ASSUME SessionInv, Polling, cl.pc \notin {"length", "payload"}, UNCHANGED <<sv, down>>,
         cl'.pc \in {"ask", "length"}, PollerKnows(cl'), Alive => Mirrored(sv, cl', up')
  PROVE  TwinOK'
<1>1. down' = <<>>
  BY DEF SessionInv, PollerOK
<1>2. MirrorOK'
  BY DEF MirrorOK, Alive
<1>3. KnowsOK'
  BY DEF KnowsOK
<1>4. AnswerOK' /\ ChildDone' /\ EndsOK'
  BY <1>1 DEF AnswerOK, ChildDone, EndsOK
<1> QED
  BY <1>2, <1>3, <1>4 DEF TwinOK

LEMMA RanTwin ==
  ASSUME NEW c, c \in Pollers(c), NEW bytes, NEW next
  PROVE  LET r == Ran(c, bytes, next)
         IN  \/ r.pc = "aborted"
             \/ /\ r.pc = next /\ r.m = parseData(c.m, bytes).m /\ r.m # NULL
                /\ r.i = c.i /\ r.pass = c.pass /\ r.poll = c.poll /\ r.tx = c.tx
<1> DEFINE did == parseData(c.m, bytes)
<1>1. Ran(c, bytes, next) = IF did.m = NULL THEN [c EXCEPT !.pc = "aborted"]
                            ELSE [c EXCEPT !.m = did.m, !.pc = next]
  BY Zenon DEF Ran, Silent
<1> HIDE DEF did
<1>2. CASE did.m = NULL
  BY <1>1, <1>2 DEF Pollers
<1>3. CASE did.m # NULL
  <2> DEFINE r == [c EXCEPT !.m = did.m, !.pc = next]
  <2>1. /\ r.pc = next /\ r.m = did.m /\ r.i = c.i /\ r.pass = c.pass /\ r.poll = c.poll
        /\ r.tx = c.tx
    BY DEF Pollers
  <2> HIDE DEF r
  <2> QED
    BY <1>1, <1>3, <2>1 DEF r, did
<1> QED
  BY <1>2, <1>3

LEMMA SentAndRanTwin ==
  ASSUME SessionInv, TwinOK, Polling, cl.pc \notin {"length", "payload", "run"},
         UNCHANGED <<sv, down>>, NEW bytes, Send(bytes), Draws(bytes, FALSE),
         NEW c, c \in Pollers(c), c.m = cl.m, c.tx = cl.tx + Len(bytes), cl' = Ran(c, bytes, "ask")
  PROVE  TwinOK'
<1>1. bytes \in Seq(Nat) /\ 0 \in Starts(bytes) /\ Program(bytes, Starts(bytes), FALSE)
  BY BytesAreNat DEF Draws
<1>2. cl.m \in Zeroed
  BY DEF TwinOK, KnowsOK, PollerKnows
<1>3. PICK last \in Zeroed : Does(cl.m, bytes, last, {})
  BY <1>1, <1>2, QuietTrace
<1>4. parseData(cl.m, bytes).m \in {NULL, last}
  BY <1>1, <1>2, <1>3, RunFollows
<1>5. CASE cl'.pc = "aborted"
  BY <1>5, PollerEndsTwin
<1>6. CASE /\ cl'.pc = "ask" /\ cl'.m = parseData(c.m, bytes).m /\ cl'.m # NULL /\ cl'.tx = c.tx
  <2>1. cl'.m = last
    BY <1>4, <1>6
  <2>2. PollerKnows(cl')
    BY <1>6, <2>1 DEF PollerKnows
  <2>3. Goal(cl', last)
    BY <1>6, <2>1 DEF Goal
  <2>4. Alive => Mirrored(sv, cl', up')
    BY <1>1, <1>3, <1>6, <2>3, MirrorSend
  <2> QED
    BY <1>6, <2>2, <2>4, SentTwin
<1>7. \/ cl'.pc = "aborted"
      \/ cl'.pc = "ask" /\ cl'.m = parseData(c.m, bytes).m /\ cl'.m # NULL /\ cl'.tx = c.tx
  <2> DEFINE r == Ran(c, bytes, "ask")
  <2>1. \/ r.pc = "aborted"
        \/ r.pc = "ask" /\ r.m = parseData(c.m, bytes).m /\ r.m # NULL /\ r.tx = c.tx
    BY RanTwin
  <2> HIDE DEF r
  <2> QED
    BY <2>1 DEF r
<1> QED
  BY <1>5, <1>6, <1>7

LEMMA SendBatchTwin == ASSUME SessionInv, TwinOK, SendBatch PROVE TwinOK'
<1>1. /\ cl.pc = "batch" /\ Send(cl.poll.batch) /\ UNCHANGED <<down, sv>>
      /\ cl' = Ran(Sent(cl, cl.poll.batch), cl.poll.batch, "ask")
  BY DEF SendBatch
<1>2. Polling /\ cl \in Pollers(cl) /\ cl.poll \in Polls
  BY <1>1 DEF SessionInv, PollerOK, Polling, PollingStates, Pollers
<1> DEFINE bytes == cl.poll.batch
           c == Sent(cl, bytes)
<1>3. Draws(bytes, FALSE) /\ Len(bytes) \in Nat
  BY <1>2, PollsAssumption, BytesAreNat DEF Draws
<1>4. c \in Pollers(c) /\ c.tx = cl.tx + Len(bytes)
  BY <1>2, <1>3, SentIs
<1>5. c.m = cl.m
  BY <1>2 DEF Sent, Pollers
<1> HIDE DEF c
<1>6. cl' = Ran(c, bytes, "ask")
  BY <1>1 DEF c
<1> QED
  BY <1>1, <1>2, <1>3, <1>4, <1>5, <1>6, SentAndRanTwin

LEMMA SendMemoryTwin == ASSUME SessionInv, TwinOK, SendMemory PROVE TwinOK'
<1>1. /\ cl.pc = "memory" /\ Send(cl.poll.memory) /\ UNCHANGED <<down, sv>>
      /\ cl' = Ran([Sent(cl, cl.poll.memory) EXCEPT !.i = 0, !.pass = 2], cl.poll.memory, "ask")
  BY DEF SendMemory
<1>2. Polling /\ cl \in Pollers(cl) /\ cl.poll \in Polls
  BY <1>1 DEF SessionInv, PollerOK, Polling, PollingStates, Pollers
<1> DEFINE bytes == cl.poll.memory
           s == Sent(cl, bytes)
           c == [s EXCEPT !.i = 0, !.pass = 2]
<1>3. Draws(bytes, FALSE) /\ Len(bytes) \in Nat
  BY <1>2, PollsAssumption, BytesAreNat DEF Draws
<1>4. s \in Pollers(s) /\ s.tx = cl.tx + Len(bytes)
  BY <1>2, <1>3, SentIs
<1>5. s.m = cl.m
  BY <1>2 DEF Sent, Pollers
<1>6. cl' = Ran(c, bytes, "ask")
  BY <1>1
<1> HIDE DEF s
<1>7. c \in Pollers(c) /\ c.tx = cl.tx + Len(bytes) /\ c.m = cl.m
  BY <1>4, <1>5 DEF Pollers
<1> HIDE DEF c
<1> QED
  BY <1>1, <1>2, <1>3, <1>6, <1>7, SentAndRanTwin

\* A poller that asks: what it sent and remembers.
LEMMA AskedIs ==
  ASSUME NEW c, c \in Pollers(c), NEW bytes, Len(bytes) \in Nat, NEW room \in Nat
  PROVE  LET a == [Sent(c, bytes) EXCEPT !.pc = "length", !.room = room, !.buf = <<>>]
         IN  /\ a.pc = "length" /\ a.room = room /\ a.buf = <<>> /\ a.m = c.m /\ a.i = c.i
             /\ a.pass = c.pass /\ a.poll = c.poll /\ a.tx = c.tx + Len(bytes)
<1> DEFINE s == [c EXCEPT !.tx = @ + Len(bytes)]
<1>1. Sent(c, bytes) = s
  BY DEF Sent
<1>2. /\ s \in Pollers(s) /\ s.m = c.m /\ s.i = c.i /\ s.pass = c.pass /\ s.poll = c.poll
      /\ s.tx = c.tx + Len(bytes)
  BY DEF Pollers
<1> HIDE DEF s
<1> QED
  BY <1>1, <1>2 DEF Pollers

LEMMA AskTwin == ASSUME SessionInv, TwinOK, Ask PROVE TwinOK'
<1> DEFINE bytes == Encoded(WR_REG, cl.i, 0, 0, 1)
<1>1. /\ cl.pc = "ask" /\ Send(bytes) /\ UNCHANGED <<down, sv>>
      /\ cl' = [Sent(cl, bytes) EXCEPT !.pc = "length", !.room = WORD, !.buf = <<>>]
  BY Zenon DEF Ask
<1>2. Polling /\ cl \in Pollers(cl) /\ cl.i \in Register /\ WORD \in Nat /\ cl.m \in Zeroed
  BY <1>1, Sizes DEF SessionInv, PollerOK, TwinOK, KnowsOK, PollerKnows, Polling, PollingStates
<1>3. bytes \in Seq(Nat) /\ Len(bytes) \in Nat /\ Does(cl.m, bytes, cl.m, {BytesOf(cl.m.base[cl.i])})
  <2>1. /\ bytes \in Seq(Nat) /\ Len(bytes) = 4
        /\ Does(cl.m, bytes, cl.m, {BytesOf(cl.m.base[cl.i])})
    BY <1>2, AskTrace, Zenon
  <2> HIDE DEF bytes
  <2> QED
    BY <2>1
<1> HIDE DEF bytes
<1> DEFINE c == [Sent(cl, bytes) EXCEPT !.pc = "length", !.room = WORD, !.buf = <<>>]
<1>4. /\ c.pc = "length" /\ c.room = WORD /\ c.buf = <<>> /\ c.m = cl.m /\ c.i = cl.i
      /\ c.pass = cl.pass /\ c.poll = cl.poll /\ c.tx = cl.tx + Len(bytes)
  BY <1>2, <1>3, AskedIs
<1>5. cl' = c
  BY <1>1
<1> HIDE DEF c
<1>6. AsksRegister(c)
  BY <1>2, <1>4, Sizes DEF AsksRegister, Register
<1>7. PollerKnows(c)
  BY <1>2, <1>4, <1>6 DEF PollerKnows
<1>8. Goal(c, cl.m) /\ Outs(c) = {BytesOf(cl.m.base[cl.i])}
  BY <1>4, <1>6 DEF Goal, Outs, Wanted
<1>9. Alive => Mirrored(sv, c, up')
  <2> DEFINE outs == {BytesOf(cl.m.base[cl.i])}
  <2>1. outs \subseteq Outs(c) /\ Does(cl.m, bytes, cl.m, outs)
    BY <1>3, <1>8
  <2> HIDE DEF outs
  <2> QED
    BY <1>1, <1>2, <1>3, <1>4, <1>8, <2>1, MirrorSend
<1> QED
  BY <1>1, <1>2, <1>4, <1>5, <1>7, <1>9, SentTwin

LEMMA SendIoTwin == ASSUME SessionInv, TwinOK, SendIo PROVE TwinOK'
<1> DEFINE room == cl.poll.wanted
<1>1. /\ cl.pc = "io" /\ Send(IoBytes) /\ UNCHANGED <<down, sv>>
      /\ cl' = [Sent(cl, IoBytes) EXCEPT !.pc = "length", !.room = room, !.buf = <<>>]
  BY DEF SendIo
<1>2. Polling /\ cl \in Pollers(cl) /\ cl.poll \in Polls /\ cl.m \in Zeroed
  BY <1>1 DEF SessionInv, PollerOK, TwinOK, KnowsOK, PollerKnows, Polling, PollingStates, Pollers
<1>3. ~AsksRegister(cl) /\ cl.poll.io # <<>>
  BY <1>1, <1>2 DEF TwinOK, KnowsOK, PollerKnows
<1>4. room \in Nat
  BY <1>2, PollsAssumption
<1> DEFINE outs == {b \in Seq(Nat) : Len(b) <= room}
<1>5. IoBytes \in Seq(Nat) /\ \E last \in Zeroed : Does(cl.m, IoBytes, last, outs)
  BY <1>2, <1>3, IoTrace DEF IoBytes
<1>6. Len(IoBytes) \in Nat
  BY <1>5
<1> HIDE DEF outs
<1>7. PICK last \in Zeroed : Does(cl.m, IoBytes, last, outs)
  BY <1>5
<1> DEFINE c == [Sent(cl, IoBytes) EXCEPT !.pc = "length", !.room = room, !.buf = <<>>]
<1>8. /\ c.pc = "length" /\ c.room = room /\ c.buf = <<>> /\ c.m = cl.m /\ c.i = cl.i
      /\ c.pass = cl.pass /\ c.poll = cl.poll /\ c.tx = cl.tx + Len(IoBytes)
  <2> HIDE DEF room
  <2> QED
    BY <1>2, <1>4, <1>6, AskedIs
<1>9. cl' = c
  BY <1>1
<1> HIDE DEF c, room
<1>10. ~AsksRegister(c)
  BY <1>3, <1>8 DEF AsksRegister
<1>11. PollerKnows(c)
  BY <1>2, <1>3, <1>8, <1>10 DEF PollerKnows
<1>12. Outs(c) = outs
  BY <1>8, <1>10 DEF Outs, Wanted, outs
<1>13. Goal(c, last)
  <2>1. Does(c.m, c.poll.batch \o c.poll.io, last, outs)
    BY <1>7, <1>8 DEF IoBytes
  <2> QED
    BY <1>8, <1>10, <2>1 DEF Goal
<1>14. Alive => Mirrored(sv, c, up')
  <2>1. outs \subseteq Outs(c)
    BY <1>12
  <2> QED
    BY <1>1, <1>2, <1>5, <1>7, <1>8, <1>13, <2>1, MirrorSend
<1> QED
  BY <1>1, <1>2, <1>8, <1>9, <1>11, <1>14, SentTwin

\* The poller executes what the child has answered to.
LEMMA RunIoTwin == ASSUME SessionInv, TwinOK, RunIo PROVE TwinOK'
<1>1. cl.pc = "run" /\ cl' = Ran(cl, IoBytes, "memory") /\ UNCHANGED <<up, down, sv>>
  BY DEF RunIo
<1>2. Polling /\ cl \in Pollers(cl) /\ cl.poll \in Polls /\ cl.m \in Zeroed
  BY <1>1 DEF SessionInv, PollerOK, TwinOK, KnowsOK, PollerKnows, Polling, PollingStates, Pollers
<1>3. ~AsksRegister(cl) /\ cl.poll.io # <<>>
  BY <1>1, <1>2 DEF TwinOK, KnowsOK, PollerKnows
<1>4. IoBytes \in Seq(Nat) /\ \E last \in Zeroed : \E outs : Does(cl.m, IoBytes, last, outs)
  BY <1>2, <1>3, IoTrace DEF IoBytes
<1>5. CASE cl'.pc = "aborted"
  BY <1>5, PollerEndsTwin
<1>6. CASE /\ cl'.pc = "memory" /\ cl'.m = parseData(cl.m, IoBytes).m /\ cl'.m # NULL
           /\ cl'.tx = cl.tx
  <2>1. cl'.m \in Zeroed
    <3>1. PICK last \in Zeroed : \E outs : Does(cl.m, IoBytes, last, outs)
      BY <1>4
    <3>2. PICK outs : Does(cl.m, IoBytes, last, outs)
      BY <3>1
    <3>3. parseData(cl.m, IoBytes).m \in {NULL, last}
      BY <1>2, <1>4, <3>2, RunFollows
    <3> QED
      BY <1>6, <3>1, <3>3
  <2>2. ASSUME NEW m, Goal(cl, m) PROVE Goal(cl', m)
    <3>1. PICK outs : Does(cl.m, IoBytes, m, outs)
      BY <1>1, <1>3, <2>2 DEF Goal, IoBytes
    <3>2. parseData(cl.m, IoBytes).m \in {NULL, m}
      BY <1>2, <1>4, <3>1, RunFollows
    <3> QED
      BY <1>6, <3>2 DEF Goal
  <2>3. Alive => up = <<>> /\ sv.pc = "header"
    BY <1>1 DEF TwinOK, ChildDone
  <2>4. MirrorOK'
    <3>1. Alive => Mirrored(sv, cl', up)
      BY <1>2, <1>6, <2>2, <2>3, MirrorTurns
    <3> QED
      BY <1>1, <3>1 DEF MirrorOK, Alive
  <2>5. KnowsOK'
    BY <1>6, <2>1 DEF KnowsOK, PollerKnows
  <2>6. AnswerOK' /\ ChildDone' /\ EndsOK'
    BY <1>6 DEF AnswerOK, ChildDone, EndsOK
  <2> QED
    BY <2>4, <2>5, <2>6 DEF TwinOK
<1>7. \/ cl'.pc = "aborted"
      \/ /\ cl'.pc = "memory" /\ cl'.m = parseData(cl.m, IoBytes).m /\ cl'.m # NULL
         /\ cl'.tx = cl.tx
  <2> DEFINE r == Ran(cl, IoBytes, "memory")
  <2>1. \/ r.pc = "aborted"
        \/ r.pc = "memory" /\ r.m = parseData(cl.m, IoBytes).m /\ r.m # NULL /\ r.tx = cl.tx
    BY <1>2, RanTwin
  <2> HIDE DEF r
  <2>2. cl' = r
    BY <1>1 DEF r
  <2> QED
    BY <2>1, <2>2
<1> QED
  BY <1>5, <1>6, <1>7

\* The poller has its answer, and goes on or gives its verdict.
LEMMA AnsweredTwin ==
  ASSUME SessionInv, TwinOK, cl.pc \in {"length", "payload"}, UNCHANGED <<sv, up>>,
         Alive => up = <<>> /\ sv.pc = "header",
         NEW c, c \in Pollers(c), c.m = cl.m, c.i = cl.i, c.pass = cl.pass, c.poll = cl.poll,
         c.tx = cl.tx, NEW bytes,
         AsksRegister(cl) /\ bytes # BytesOf(cl.m.base[cl.i]) => c.torn,
         cl' = Answered(c, bytes)
  PROVE  TwinOK'
<1>1. Polling /\ cl.m \in Zeroed /\ PollerKnows(cl)
  BY DEF Polling, PollingStates, TwinOK, KnowsOK, PollerKnows
<1>2. AsksRegister(c) <=> AsksRegister(cl)
  BY DEF AsksRegister
<1>3. c.i \in Nat /\ c.pass \in {1, 2}
  BY DEF Pollers
<1>4. ASSUME cl'.pc \in {"run", "ask", "memory", "io"}, cl'.tx = cl.tx, PollerKnows(cl'),
             \A m : Goal(cl, m) => Goal(cl', m)
      PROVE  TwinOK'
  <2>1. Alive => Mirrored(sv, cl', up)
    BY <1>1, <1>4, MirrorTurns
  <2>2. MirrorOK'
    BY <2>1 DEF MirrorOK, Alive
  <2>3. KnowsOK' /\ AnswerOK' /\ ChildDone' /\ EndsOK'
    BY <1>4 DEF KnowsOK, AnswerOK, ChildDone, EndsOK, Alive
  <2> QED
    BY <2>2, <2>3 DEF TwinOK
<1>5. CASE ~AsksRegister(cl)
  <2>1. cl' = [c EXCEPT !.pc = "run"]
    BY <1>2, <1>5 DEF Answered
  <2>2. /\ cl'.pc = "run" /\ cl'.m = cl.m /\ cl'.i = cl.i /\ cl'.pass = cl.pass
        /\ cl'.poll = cl.poll /\ cl'.tx = cl.tx
    BY <2>1 DEF Pollers
  <2>3. ~AsksRegister(cl')
    BY <1>5, <2>2 DEF AsksRegister
  <2>4. PollerKnows(cl')
    BY <1>1, <1>5, <2>2, <2>3 DEF PollerKnows
  <2>5. \A m : Goal(cl, m) => Goal(cl', m)
    BY <1>5, <2>2, <2>3 DEF Goal
  <2> QED
    BY <1>4, <2>2, <2>4, <2>5
<1>6. CASE AsksRegister(cl) /\ bytes # BytesOf(cl.m.base[cl.i])
  <2>1. cl' = [c EXCEPT !.pc = "failed"]
    BY <1>2, <1>6 DEF Answered
  <2>2. cl'.pc = "failed" /\ cl'.torn
    BY <1>6, <2>1 DEF Pollers
  <2> QED
    BY <2>2 DEF TwinOK, MirrorOK, KnowsOK, AnswerOK, ChildDone, EndsOK, Polling, PollingStates
<1>7. CASE AsksRegister(cl) /\ bytes = BytesOf(cl.m.base[cl.i])
  <2> DEFINE next == CASE c.i + 1 < NUM_BASE_REG -> "ask"
                       [] c.i + 1 = NUM_BASE_REG /\ c.pass = 2 -> "passed"
                       [] OTHER -> IF c.poll.io = <<>> THEN "memory" ELSE "io"
             a == [c EXCEPT !.i = @ + 1, !.pc = next]
  <2>1. cl' = a
    BY <1>2, <1>7 DEF Answered
  <2>2. c.i \in Register
    BY <1>1, <1>7 DEF PollerKnows
  <2>3. NUM_BASE_REG \in Nat /\ c.i + 1 <= NUM_BASE_REG
    BY <2>2, Sizes DEF Register
  <2>4. \/ next \in {"ask", "passed", "memory"}
        \/ next = "io" /\ c.pass # 2 /\ ~(c.i + 1 < NUM_BASE_REG) /\ c.poll.io # <<>>
    BY <1>3, <2>3
  <2> HIDE DEF next
  <2>5. /\ a.pc = next /\ a.m = c.m /\ a.i = c.i + 1 /\ a.pass = c.pass
        /\ a.poll = c.poll /\ a.tx = c.tx
    BY DEF Pollers
  <2> HIDE DEF a
  <2>6. \A m : Goal(cl, m) => cl.m = m
    BY <1>7 DEF Goal
  <2>7. CASE next = "passed"
    <3>1. cl'.pc = "passed" /\ cl'.m = cl.m
      BY <2>1, <2>5, <2>7
    <3>2. ASSUME Alive PROVE sv.m = cl.m
      <4>1. PICK starts \in SUBSET Nat, g \in [Nat -> Zeroed], v \in [Nat -> Nat] :
              Mirror(sv, cl, up, starts, g, v)
        BY <1>1, <3>2 DEF TwinOK, MirrorOK, Mirrored
      <4>2. Mark(sv) = cl.tx
        BY <1>1, <3>2, AtEnd
      <4> QED
        BY <2>6, <4>1, <4>2 DEF Mirror
    <3> QED
      BY <3>1, <3>2
         DEF TwinOK, MirrorOK, KnowsOK, AnswerOK, ChildDone, EndsOK, Polling, PollingStates, Alive
  <2>8. CASE next # "passed"
    <3>1. cl'.pc \in {"ask", "memory", "io"} /\ cl'.m = cl.m /\ cl'.tx = cl.tx
      BY <2>1, <2>4, <2>5, <2>8
    <3>2. cl'.pc = "io" => ~AsksRegister(cl') /\ cl'.poll.io # <<>>
      BY <2>1, <2>4, <2>5 DEF AsksRegister
    <3>3. PollerKnows(cl')
      BY <1>1, <3>1, <3>2 DEF PollerKnows
    <3>4. \A m : Goal(cl, m) => Goal(cl', m)
      BY <2>6, <3>1 DEF Goal
    <3> QED
      BY <1>4, <3>1, <3>3, <3>4
  <2> QED
    BY <2>7, <2>8
<1> QED
  BY <1>5, <1>6, <1>7

\* What a poller may be told.
LEMMA WantedIs ==
  ASSUME NEW c, c \in Pollers(c), PollerKnows(c), c.pc = "length", NEW bytes \in Wanted(c)
  PROVE  bytes \in Seq(Nat) /\ Len(bytes) <= c.room /\ (AsksRegister(c) => Len(bytes) > 0)
<1>1. CASE AsksRegister(c)
  <2>1. c.i \in Register /\ c.room = WORD /\ c.m \in Machine /\ bytes = BytesOf(c.m.base[c.i])
    BY <1>1 DEF PollerKnows, Wanted, Zeroed
  <2>2. c.m.base[c.i] \in Nat
    BY <2>1 DEF Machine
  <2>3. bytes \in Seq(Nat) /\ Len(bytes) = WORD
    BY <2>1, <2>2, BytesOfNat
  <2> QED
    BY <2>1, <2>3, Sizes
<1>2. CASE ~AsksRegister(c)
  BY <1>2 DEF Wanted
<1> QED
  BY <1>1, <1>2

LEMMA GetLengthTwin == ASSUME SessionInv, TwinOK, GetLength PROVE TwinOK'
<1> DEFINE n == Head(down).len
           c == [cl EXCEPT !.want = n, !.count = 0]
<1>1. /\ cl.pc = "length" /\ down # <<>> /\ down' = Tail(down) /\ UNCHANGED <<up, sv>>
      /\ cl' = CASE n > cl.room -> [c EXCEPT !.pc = "failed"]
                 [] n = 0 -> Answered(c, <<>>)
                 [] OTHER -> [c EXCEPT !.pc = "payload"]
  BY Zenon DEF GetLength
<1>2. /\ Polling /\ cl \in Pollers(cl) /\ cl.room \in Nat /\ cl.rx \in Nat /\ PollerKnows(cl)
      /\ Alive => up = <<>> /\ sv.pc = "header"
  BY <1>1 DEF SessionInv, PollerOK, Polling, PollingStates, Pollers, TwinOK, KnowsOK, ChildDone
<1>3. PICK bytes \in Wanted(cl) : down = Message(bytes, cl.key, "down", cl.rx)
  BY <1>1 DEF TwinOK, AnswerOK
<1>4. bytes \in Seq(Nat) /\ Len(bytes) <= cl.room /\ (AsksRegister(cl) => Len(bytes) > 0)
  BY <1>1, <1>2, WantedIs
<1>5. IsMessage(down, bytes, cl.key, "down", cl.rx)
  <2>1. IsMessage(Message(bytes, cl.key, "down", cl.rx), bytes, cl.key, "down", cl.rx)
    BY <1>2, <1>4, MessageIs
  <2> QED
    BY <1>3, <2>1
<1>6. n = Len(bytes) /\ n \in Nat /\ \A i \in 1 .. n : down'[i].v = bytes[i]
  <2> DEFINE items == Items(cl.key, "down")
  <2>1. /\ down \in Seq(items) /\ Len(down) = 1 + Len(bytes) /\ down[1].len = Len(bytes)
        /\ \A i \in 1 .. Len(bytes) : down[1 + i].v = bytes[i]
    BY <1>5 DEF IsMessage
  <2> HIDE DEF items
  <2>2. Dropped(down', down, 1) /\ Head(down) = down[1]
    BY <1>1, <2>1, TailDrops
  <2>3. Len(bytes) \in Nat /\ Len(down') = Len(bytes)
    BY <1>4, <2>1, <2>2 DEF Dropped
  <2>4. n = Len(bytes)
    BY <2>1, <2>2
  <2>5. \A i \in 1 .. Len(down') : down'[i] = down[1 + i]
    BY <2>2 DEF Dropped
  <2> HIDE DEF n
  <2>6. \A i \in 1 .. n : down'[i].v = bytes[i]
    BY <2>1, <2>3, <2>4, <2>5
  <2> QED
    BY <2>3, <2>4, <2>6
<1> HIDE DEF n
<1>7. /\ c \in Pollers(c) /\ c.want = n /\ c.count = 0 /\ c.tx = cl.tx /\ c.m = cl.m
      /\ c.i = cl.i /\ c.pass = cl.pass /\ c.poll = cl.poll /\ c.room = cl.room /\ c.buf = cl.buf
  BY <1>2, <1>6 DEF Pollers
<1> HIDE DEF c
<1>8. ~(n > cl.room)
  BY <1>2, <1>4, <1>6
<1>9. CASE n = 0
  <2>1. cl' = Answered(c, <<>>)
    BY <1>1, <1>8, <1>9
  <2>2. ~AsksRegister(cl)
    BY <1>4, <1>6, <1>9
  <2> QED
    BY <1>1, <1>2, <1>7, <2>1, <2>2, AnsweredTwin
<1>10. CASE n # 0
  <2>1. cl' = [c EXCEPT !.pc = "payload"]
    BY <1>1, <1>8, <1>10
  <2>2. /\ cl'.pc = "payload" /\ cl'.want = n /\ cl'.count = 0 /\ cl'.tx = cl.tx
        /\ cl'.m = cl.m /\ cl'.i = cl.i /\ cl'.pass = cl.pass /\ cl'.poll = cl.poll
        /\ cl'.room = cl.room /\ cl'.buf = cl.buf
    BY <1>7, <2>1 DEF Pollers
  <2>3. AsksRegister(cl') <=> AsksRegister(cl)
    BY <2>2 DEF AsksRegister
  <2>4. \A m : Goal(cl, m) => Goal(cl', m)
    BY <1>1, <2>2, <2>3 DEF Goal
  <2>5. Alive => Mirrored(sv, cl', up)
    BY <1>2, <2>2, <2>4, MirrorTurns
  <2>6. MirrorOK'
    BY <1>1, <2>5 DEF MirrorOK, Alive
  <2>7. PollerKnows(cl')
    BY <1>1, <1>2, <2>2, <2>3 DEF PollerKnows
  <2>8. KnowsOK'
    BY <2>7 DEF KnowsOK
  <2>9. Wanted(cl') = Wanted(cl)
    BY <2>2, <2>3 DEF Wanted
  <2>10. AnswerOK'
    <3>1. bytes \in Wanted(cl') /\ Len(bytes) = cl'.want /\ \A i \in 1 .. cl'.want : down'[i].v = bytes[i]
      BY <1>6, <2>2, <2>9
    <3>2. cl'.pc # "length"
      BY <2>2
    <3> QED
      BY <3>1, <3>2 DEF AnswerOK
  <2>11. ChildDone' /\ EndsOK'
    BY <1>1, <1>2, <2>2 DEF ChildDone, EndsOK, Alive
  <2> QED
    BY <2>6, <2>8, <2>10, <2>11 DEF TwinOK
<1> QED
  BY <1>9, <1>10

\* An answer that came in one part is what the child said.
LEMMA WholeAnswer ==
  ASSUME NEW k, NEW dir, NEW s \in Seq(Items(k, dir)), NEW n \in Nat, Placed(s, k, dir, n, Len(s)),
         NEW bytes \in Seq(Nat), Len(bytes) = Len(s), \A i \in 1 .. Len(s) : s[i].v = bytes[i]
  PROVE  Clear(Over(SubSeq(s, 1, Len(s)), <<>>), k, dir, n) = bytes
<1> DEFINE S == Items(k, dir)
<1>1. Over(SubSeq(s, 1, Len(s)), <<>>) = s
  <2>1. s \in Seq(S)
    OBVIOUS
  <2> HIDE DEF S
  <2>2. SubSeq(s, 1, Len(s)) = s /\ Len(s) \in Nat
    BY <2>1
  <2>3. SubSeq(<<>>, Len(s) + 1, Len(<<>>)) = <<>>
    BY <2>2
  <2>4. s \o <<>> = s
    BY <2>1
  <2> QED
    BY <2>2, <2>3, <2>4 DEF Over
<1> DEFINE clear == Clear(s, k, dir, n)
<1>2. /\ clear = [i \in 1 .. Len(s) |-> s[i].v] /\ clear \in Seq(Nat) /\ Len(clear) = Len(s)
  BY ClearIs
<1> HIDE DEF clear
<1>3. \A i \in 1 .. Len(clear) : clear[i] = bytes[i]
  BY <1>2
<1>4. clear = bytes
  BY <1>2, <1>3, SeqEqual
<1> QED
  BY <1>1, <1>4 DEF clear

LEMMA GetPayloadTwin == ASSUME SessionInv, TwinOK, GetPayload PROVE TwinOK'
<1>1. PICK k \in Chunks(down, cl.room) :
        LET buf   == Over(SubSeq(down, 1, k), cl.buf)
            count == cl.count + k
            c     == [cl EXCEPT !.buf = buf, !.count = count, !.torn = @ \/ (cl.count > 0)]
        IN  /\ down' = SubSeq(down, k + 1, Len(down))
            /\ cl' = IF count < cl.want THEN c
                     ELSE Answered([c EXCEPT !.rx = @ + cl.want],
                                   Clear(buf, cl.key, "down", cl.rx))
  BY DEF GetPayload
<1> DEFINE buf   == Over(SubSeq(down, 1, k), cl.buf)
           count == cl.count + k
           torn  == cl.torn \/ (cl.count > 0)
           c     == [cl EXCEPT !.buf = buf, !.count = count, !.torn = torn]
           done  == [c EXCEPT !.rx = cl.rx + cl.want]
           bytes == Clear(buf, cl.key, "down", cl.rx)
<1>2. cl.pc = "payload" /\ UNCHANGED <<up, sv>>
  BY DEF GetPayload
<1>3. /\ Polling /\ cl \in Pollers(cl) /\ cl.room \in Nat /\ cl.rx \in Nat /\ cl.count \in Nat
      /\ cl.want \in Nat /\ cl.count < cl.want
      /\ down \in Seq(Items(cl.key, "down")) /\ Len(down) = cl.want - cl.count
      /\ Placed(down, cl.key, "down", cl.rx + cl.count, Len(down))
  BY <1>2 DEF SessionInv, PollerOK, Polling, PollingStates, Pollers
<1>4. PollerKnows(cl) /\ (Alive => up = <<>> /\ sv.pc = "header")
  BY <1>2, <1>3 DEF TwinOK, KnowsOK, ChildDone
<1>5. cl' = IF count < cl.want THEN c ELSE Answered(done, bytes)
  BY <1>1, <1>3 DEF Pollers
<1>6. k \in 1 .. Len(down) /\ k \in Nat /\ k > 0 /\ count \in Nat
  <2>1. k \in 1 .. Len(down) /\ Len(down) \in Nat
    BY <1>3, ChunkIs
  <2> QED
    BY <1>3, <2>1
<1>7. AsksRegister(cl) /\ bytes # BytesOf(cl.m.base[cl.i]) /\ ~(count < cl.want) => torn
  <2> SUFFICES ASSUME AsksRegister(cl), ~(count < cl.want), ~torn
               PROVE  bytes = BytesOf(cl.m.base[cl.i])
    OBVIOUS
  <2>1. cl.count = 0
    BY <1>3
  <2>2. cl.buf = <<>> /\ \E b \in Wanted(cl) : Len(b) = cl.want /\ \A i \in 1 .. cl.want : down[i].v = b[i]
    BY <1>2, <1>4, <2>1 DEF PollerKnows, TwinOK, AnswerOK
  <2> DEFINE b == BytesOf(cl.m.base[cl.i])
  <2>3. b \in Seq(Nat)
    <3>1. cl.m \in Machine /\ cl.i \in Register
      BY <1>2, <1>4 DEF PollerKnows, Zeroed
    <3>2. cl.m.base[cl.i] \in Nat
      BY <3>1 DEF Machine
    <3> QED
      BY <3>2, BytesOfNat
  <2>4. Len(b) = cl.want /\ \A i \in 1 .. cl.want : down[i].v = b[i]
    BY <2>2 DEF Wanted
  <2>5. k = Len(down) /\ Len(down) = cl.want
    BY <1>3, <1>6, <2>1
  <2>6. Placed(down, cl.key, "down", cl.rx, Len(down))
    <3>1. cl.rx + cl.count = cl.rx
      BY <1>3, <2>1
    <3> QED
      BY <1>3, <3>1
  <2> HIDE DEF b
  <2>7. Clear(Over(SubSeq(down, 1, Len(down)), <<>>), cl.key, "down", cl.rx) = b
    BY <1>3, <2>3, <2>4, <2>5, <2>6, WholeAnswer
  <2> QED
    BY <2>2, <2>5, <2>7 DEF b
<1> HIDE DEF buf, torn, bytes
<1>8. /\ c \in Pollers(c) /\ c.pc = "payload" /\ c.want = cl.want /\ c.count = count
      /\ c.tx = cl.tx /\ c.m = cl.m /\ c.i = cl.i /\ c.pass = cl.pass /\ c.poll = cl.poll
      /\ c.torn = torn
  BY <1>2, <1>3, <1>6 DEF Pollers
<1>9. CASE count < cl.want
  <2>1. cl' = c
    BY <1>5, <1>9
  <2>2. c.count > 0
    BY <1>3, <1>6, <1>8
  <2> HIDE DEF c
  <2>3. AsksRegister(c) <=> AsksRegister(cl)
    BY <1>8 DEF AsksRegister
  <2>4. \A m : Goal(cl, m) => Goal(c, m)
    BY <1>2, <1>8, <2>3 DEF Goal
  <2>5. Alive => Mirrored(sv, c, up)
    BY <1>3, <1>4, <1>8, <2>4, MirrorTurns
  <2>6. MirrorOK'
    BY <1>2, <2>1, <2>5 DEF MirrorOK, Alive
  <2>7. PollerKnows(c)
    BY <1>2, <1>4, <1>8, <2>2, <2>3 DEF PollerKnows
  <2>8. KnowsOK' /\ AnswerOK'
    BY <1>8, <2>1, <2>2, <2>7 DEF KnowsOK, AnswerOK
  <2>9. ChildDone' /\ EndsOK'
    BY <1>2, <1>4, <1>8, <2>1 DEF ChildDone, EndsOK, Alive
  <2> QED
    BY <2>6, <2>8, <2>9 DEF TwinOK
<1>10. CASE ~(count < cl.want)
  <2>1. cl' = Answered(done, bytes)
    BY <1>5, <1>10
  <2>2. cl.rx + cl.want \in Nat
    BY <1>3
  <2> HIDE DEF c
  <2>3. /\ done \in Pollers(done) /\ done.tx = cl.tx /\ done.m = cl.m /\ done.i = cl.i
        /\ done.pass = cl.pass /\ done.poll = cl.poll /\ done.torn = torn
    BY <1>8, <2>2 DEF Pollers
  <2> HIDE DEF done
  <2>4. AsksRegister(cl) /\ bytes # BytesOf(cl.m.base[cl.i]) => done.torn
    BY <1>7, <1>10, <2>3
  <2> QED
    BY <1>2, <1>4, <2>1, <2>3, <2>4, AnsweredTwin
<1> QED
  BY <1>9, <1>10

\* The ends that give no verdict, and those of the child.
LEMMA EndsTwin ==
  ASSUME TwinOK, TimeOut \/ ChildGone \/ Closed \/ LengthCut \/ GoAway \/ PollerGone
  PROVE  TwinOK'
<1>1. CASE TimeOut \/ ChildGone \/ Closed
  <2>1. cl'.pc \in {"lost", "aborted", "none"}
    BY <1>1 DEF TimeOut, ChildGone, Closed, NoPoller
  <2> QED
    BY <2>1, PollerEndsTwin
<1>2. CASE LengthCut \/ GoAway \/ PollerGone
  <2>1. sv' = Exited /\ UNCHANGED <<cl, down>>
    BY <1>2 DEF LengthCut, GoAway, PollerGone
  <2> QED
    BY <2>1, ExitedTwin
<1> QED
  BY <1>1, <1>2

LEMMA NextTwin == ASSUME SessionInv, TwinOK, [NextMambo]_mamboVars PROVE TwinOK'
<1>1. CASE UNCHANGED mamboVars
  BY <1>1, TwinSame DEF mamboVars
<1>2. CASE ServiceStep
  BY <1>2, SendKeyTwin, ReadLengthTwin, ReadPayloadTwin, ParseTwin, EndsTwin DEF ServiceStep
<1>3. CASE PollerStep
  BY <1>3, GetKeyTwin, SendBatchTwin, AskTwin, SendIoTwin, RunIoTwin, SendMemoryTwin,
     GetLengthTwin, GetPayloadTwin, EndsTwin DEF PollerStep
<1>4. CASE LengthCut \/ GoAway \/ TimeOut \/ Closed
  BY <1>4, EndsTwin
<1>5. CASE ConnectElsewhere
  BY <1>5, TwinSame DEF ConnectElsewhere
<1>6. CASE \E poll \in Polls : Connect(poll)
  BY <1>6, ConnectTwin
<1>7. CASE /\ doRekey \/ NoFlagFile \/ KeepKey \/ ForkFails \/ setRekey \/ NewFlag
           /\ UNCHANGED linkVars
  BY <1>7, TwinSame
<1> QED
  BY <1>1, <1>2, <1>3, <1>4, <1>5, <1>6, <1>7 DEF NextMambo

LEMMA TwinAgrees == ASSUME SessionInv, TwinOK PROVE MirrorsAgree
<1> SUFFICES ASSUME sv.pc = "header", up = <<>>, cl.pc \in {"ask", "io", "memory", "passed"}
             PROVE  sv.m = cl.m
  BY DEF MirrorsAgree
<1>1. Alive
  BY DEF Alive, AliveStates
<1>2. CASE cl.pc = "passed"
  BY <1>1, <1>2 DEF TwinOK, EndsOK
<1>3. CASE cl.pc # "passed"
  <2>1. Polling
    BY <1>3 DEF Polling, PollingStates
  <2>2. PICK starts \in SUBSET Nat, g \in [Nat -> Zeroed], v \in [Nat -> Nat] :
          Mirror(sv, cl, up, starts, g, v)
    BY <1>1, <2>1 DEF TwinOK, MirrorOK, Mirrored
  <2>3. Mark(sv) = cl.tx
    BY <1>1, <2>1, AtEnd
  <2> QED
    BY <2>2, <2>3 DEF Mirror, Goal
<1> QED
  BY <1>2, <1>3

\* When the poller is about to ask and the child has done all it was sent, both have
\* the same machine: the batches of mamboclient.c do the same in doChallenge, which
\* executes each message as it comes, as in parseData, which the poller runs over them
\* before or after it hears an answer.
THEOREM MirrorsStayEqual == SpecMambo => []MirrorsAgree
<1>1. InitMambo => SessionInv /\ TwinOK
  BY InitSession, InitTwin
<1>2. SessionInv /\ TwinOK /\ [NextMambo]_mamboVars => (SessionInv /\ TwinOK)'
  BY NextSession, NextTwin
<1>3. SessionInv /\ TwinOK => MirrorsAgree
  BY TwinAgrees
<1> QED
  BY <1>1, <1>2, <1>3, PTL DEF SpecMambo

\* The poller calls a register wrong (getData, mamboclient.c) only after a read that
\* came in two parts, of which the second one overwrote the first.
THEOREM VerdictsAreTrue == SpecMambo => []VerdictTrue
<1>1. InitMambo => SessionInv /\ TwinOK
  BY InitSession, InitTwin
<1>2. SessionInv /\ TwinOK /\ [NextMambo]_mamboVars => (SessionInv /\ TwinOK)'
  BY NextSession, NextTwin
<1>3. SessionInv /\ TwinOK => VerdictTrue
  BY DEF TwinOK, EndsOK, VerdictTrue
<1> QED
  BY <1>1, <1>2, <1>3, PTL DEF SpecMambo
=============================================================================
