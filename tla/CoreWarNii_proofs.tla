-------------------------- MODULE CoreWarNii_proofs -------------------------
(***************************************************************************)
(* corewar-nii: the arena holds bytes and the registers and stacks double  *)
(* words, whatever is executed; with that, every instruction of the        *)
(* arithmetic families leaves flags that jcc and setcc read rightly, for   *)
(* every width and all operands; what an earlier instruction left in the   *)
(* InstrData matters only to the instructions that are known to read it;   *)
(* and what run_game announces is right, for every number of players,      *)
(* every program and every arena.                                          *)
(***************************************************************************)
EXTENDS CoreWarNii, WellFoundedInduction, FiniteSetTheorems, TLAPS

\* The rest of a sum or a difference of two values by the width.
LEMMA Rest ==
  ASSUME NEW H \in Nat \ {0}, NEW v \in -(2 * H) .. 4 * H - 1
  PROVE  InWidth(v, H) = IF v < 0 THEN v + 2 * H
                         ELSE IF v < 2 * H THEN v ELSE v - 2 * H
<1>1. CASE v \in 0 .. 2 * H - 1
  BY <1>1 DEF InWidth
<1>2. CASE v \in -(2 * H) .. -1
  BY <1>2 DEF InWidth
<1>3. CASE v \in 2 * H .. 4 * H - 1
  BY <1>3 DEF InWidth
<1> QED
  BY <1>1, <1>2, <1>3

\* Which flags update_eflags_sub leaves on.
LEMMA SubFlagsOn ==
  ASSUME NEW H \in Nat \ {0}, NEW a \in 0 .. 2 * H - 1, NEW b \in 0 .. 2 * H - 1, NEW f
  PROVE  /\ CF \in SubFlags(f, a, b, H) <=> a < b
         /\ ZF \in SubFlags(f, a, b, H) <=> a = b
         /\ SF \in SubFlags(f, a, b, H) <=> Sign(a - b, H)
         /\ OF \in SubFlags(f, a, b, H) <=>
              Sign(a, H) # Sign(b, H) /\ Sign(a, H) # Sign(a - b, H)
<1>1. InWidth(b, H) = b
  BY Rest
<1>2. a - b < 0 <=> a < b
  OBVIOUS
<1>3. a - b = 0 <=> a = b
  OBVIOUS
<1> QED
  BY <1>1, <1>2, <1>3 DEF SubFlags, Told, On, Status, CF, PF, ZF, SF, OF

\* jb, jz, jbe, jl and jle after a cmp or sub of two values of a width say how they
\* compare, without and with their signs.
THEOREM SubtractionTells ==
  ASSUME NEW H \in Nat \ {0}, NEW a \in 0 .. 2 * H - 1, NEW b \in 0 .. 2 * H - 1, NEW f
  PROVE  LET g == SubFlags(f, a, b, H)
         IN  /\ Holds(2, g)  <=> a < b
             /\ Holds(4, g)  <=> a = b
             /\ Holds(6, g)  <=> a <= b
             /\ Holds(12, g) <=> WithSign(a, H) < WithSign(b, H)
             /\ Holds(14, g) <=> WithSign(a, H) <= WithSign(b, H)
<1> DEFINE g == SubFlags(f, a, b, H)
<1>1. /\ Holds(2, g)  <=> CF \in g
      /\ Holds(4, g)  <=> ZF \in g
      /\ Holds(6, g)  <=> CF \in g \/ ZF \in g
      /\ Holds(12, g) <=> (SF \in g) # (OF \in g)
      /\ Holds(14, g) <=> ZF \in g \/ (SF \in g) # (OF \in g)
  BY DEF Holds
<1>2. /\ InWidth(a, H) = a
      /\ InWidth(b, H) = b
      /\ InWidth(a - b, H) = IF a < b THEN a - b + 2 * H ELSE a - b
  BY Rest
<1>3. (SF \in g) # (OF \in g) <=> WithSign(a, H) < WithSign(b, H)
  BY <1>2, SubFlagsOn DEF Sign, WithSign
<1>4. WithSign(a, H) = WithSign(b, H) <=> a = b
  BY <1>2 DEF WithSign
<1>5. WithSign(a, H) \in Int /\ WithSign(b, H) \in Int
  BY <1>2 DEF WithSign
<1> QED
  BY <1>1, <1>3, <1>4, <1>5, SubFlagsOn

\* Which flags update_eflags_add leaves on.
LEMMA AddFlagsOn ==
  ASSUME NEW H \in Nat \ {0}, NEW a \in 0 .. 2 * H - 1, NEW b \in 0 .. 2 * H - 1, NEW f
  PROVE  /\ CF \in AddFlags(f, a, b, H) <=> a + b >= 2 * H
         /\ ZF \in AddFlags(f, a, b, H) <=> a + b = 0
         /\ OF \in AddFlags(f, a, b, H) <=>
              Sign(a, H) = Sign(b, H) /\ Sign(a, H) # Sign(a + b, H)
<1>1. InWidth(b, H) = b
  BY Rest
<1> QED
  BY <1>1 DEF AddFlags, Told, On, Status, CF, PF, ZF, SF, OF

\* jb and jo after an add say whether the sum and the signed sum left the width; jz
\* is taken only for 0 + 0.
THEOREM AdditionTells ==
  ASSUME NEW H \in Nat \ {0}, NEW a \in 0 .. 2 * H - 1, NEW b \in 0 .. 2 * H - 1, NEW f
  PROVE  LET g == AddFlags(f, a, b, H)
         IN  /\ Holds(2, g) <=> a + b >= 2 * H
             /\ Holds(0, g) <=> WithSign(a, H) + WithSign(b, H) \notin -H .. H - 1
             /\ Holds(4, g) <=> a = 0 /\ b = 0
<1> DEFINE g == AddFlags(f, a, b, H)
<1>1. /\ Holds(2, g) <=> CF \in g
      /\ Holds(0, g) <=> OF \in g
      /\ Holds(4, g) <=> ZF \in g
  BY DEF Holds
<1>2. /\ InWidth(a, H) = a
      /\ InWidth(b, H) = b
      /\ InWidth(a + b, H) = IF a + b < 2 * H THEN a + b ELSE a + b - 2 * H
  BY Rest
<1>3. OF \in g <=> WithSign(a, H) + WithSign(b, H) \notin -H .. H - 1
  BY <1>2, AddFlagsOn DEF Sign, WithSign
<1>4. a + b = 0 <=> a = 0 /\ b = 0
  OBVIOUS
<1> QED
  BY <1>1, <1>3, <1>4, AddFlagsOn
-----------------------------------------------------------------------------
(* Functions that are defined step by step.                                *)

\* Induction over an interval, for a set of numbers.
LEMMA UpTo ==
  ASSUME NEW n \in Nat, NEW A, 0 \in A, \A k \in 0 .. n - 1 : k \in A => k + 1 \in A
  PROVE  n \in A
<1> DEFINE B == (0 .. n) \ A
<1> SUFFICES ASSUME n \notin A PROVE FALSE
  OBVIOUS
<1>1. B \subseteq Nat /\ B # {}
  OBVIOUS
<1>2. PICK m \in B : \A i \in B : ~(<<i, m>> \in OpToRel(<, Nat))
  <2> HIDE DEF B
  <2> QED
    BY <1>1, NatLessThanWellFounded, WFMin, Zenon
<1>3. m \in 1 .. n /\ m - 1 \in 0 .. n - 1
  OBVIOUS
<1>4. m - 1 \in A
  <2> SUFFICES ASSUME m - 1 \notin A PROVE FALSE
    OBVIOUS
  <2>1. m - 1 \in B /\ m - 1 \in Nat /\ m \in Nat /\ m - 1 < m
    BY <1>3
  <2> HIDE DEF B
  <2>2. <<m - 1, m>> \in OpToRel(<, Nat)
    BY <2>1 DEF OpToRel
  <2> QED
    BY <1>2, <2>1, <2>2
<1>5. (m - 1) + 1 \in A
  BY <1>3, <1>4
<1> QED
  BY <1>3, <1>5

\* g is what n steps from R on give.
IsIteration(g, n, S, R, step) ==
  g \in [0 .. n -> S] /\ g[0] = R /\ \A k \in 1 .. n : g[k] = step[k][g[k - 1]]

\* A step that depends on how often it was made can be made n times.
LEMMA Recursion ==
  ASSUME NEW n \in Nat, NEW S, NEW R \in S, NEW step \in [1 .. n -> [S -> S]]
  PROVE  \E g : IsIteration(g, n, S, R, step)
<1> USE DEF IsIteration
<1> DEFINE A == {m \in 0 .. n : \E g \in [0 .. m -> S] :
                   g[0] = R /\ \A k \in 1 .. m : g[k] = step[k][g[k - 1]]}
<1>1. 0 \in A
  <2> DEFINE g == [k \in 0 .. 0 |-> R]
  <2>1. g \in [0 .. 0 -> S] /\ g[0] = R /\ 1 .. 0 = {} /\ 0 \in 0 .. n
    OBVIOUS
  <2> HIDE DEF g
  <2> QED
    BY <2>1
<1>2. ASSUME NEW m \in 0 .. n - 1, m \in A
      PROVE  m + 1 \in A
  <2>1. PICK g \in [0 .. m -> S] : g[0] = R /\ \A k \in 1 .. m : g[k] = step[k][g[k - 1]]
    BY <1>2
  <2> DEFINE last == step[m + 1][g[m]]
             h == [k \in 0 .. m + 1 |-> IF k = m + 1 THEN last ELSE g[k]]
  <2>2. last \in S
    <3>1. m + 1 \in 1 .. n /\ g[m] \in S
      BY <2>1
    <3> QED
      BY <3>1
  <2> HIDE DEF last
  <2>3. h \in [0 .. m + 1 -> S] /\ h[0] = R
    BY <2>1, <2>2
  <2>4. \A k \in 1 .. m : h[k] = g[k] /\ h[k - 1] = g[k - 1]
    OBVIOUS
  <2>5. h[m + 1] = last /\ h[m] = g[m] /\ (m + 1) - 1 = m /\ m + 1 \in 0 .. n
    OBVIOUS
  <2>6. \A k \in 1 .. m + 1 : k = m + 1 \/ k \in 1 .. m
    OBVIOUS
  <2> HIDE DEF h
  <2>7. \A k \in 1 .. m + 1 : h[k] = step[k][h[k - 1]]
    BY <2>1, <2>4, <2>5, <2>6 DEF last
  <2> QED
    BY <2>3, <2>5, <2>7
<1>3. n \in A
  <2> HIDE DEF A
  <2> QED
    BY <1>1, <1>2, UpTo
<1> QED
  BY <1>3

\* What is defined from n - 1 for n is defined.
LEMMA PowerIs ==
  ASSUME NEW b \in Nat \ {0}, NEW n \in Nat
  PROVE  \E f \in [0 .. n -> Nat \ {0}] :
           /\ Power(b, n) = f[n] /\ f[0] = 1
           /\ \A k \in 1 .. n : f[k] = b * f[k - 1]
<1> DEFINE P == Nat \ {0}
           step == [k \in 1 .. n |-> [x \in P |-> b * x]]
           F(f) == f = [k \in 0 .. n |-> IF k = 0 THEN 1 ELSE b * f[k - 1]]
<1>1. step \in [1 .. n -> [P -> P]]
  <2>1. \A x \in P : b * x \in P
    OBVIOUS
  <2> QED
    BY <2>1
<1>2. PICK g : IsIteration(g, n, P, 1, step)
  <2>1. 1 \in P
    OBVIOUS
  <2> HIDE DEF step, P
  <2> QED
    BY <1>1, <2>1, Recursion, Zenon
<1>3. \A k \in 1 .. n : g[k] = b * g[k - 1]
  <2> TAKE k \in 1 .. n
  <2>1. g[k - 1] \in P
    BY <1>2 DEF IsIteration
  <2>2. step[k][g[k - 1]] = b * g[k - 1]
    BY <2>1
  <2> HIDE DEF step
  <2> QED
    BY <1>2, <2>2 DEF IsIteration
<1>4. F(g)
  BY <1>2, <1>3 DEF IsIteration
<1>5. F(CHOOSE f : F(f))
  <2> HIDE DEF F
  <2> QED
    BY <1>4
<1> DEFINE f == CHOOSE f : F(f)
<1>6. Power(b, n) = f[n]
  BY DEF Power
<1> HIDE DEF f
<1>7. f = [k \in 0 .. n |-> IF k = 0 THEN 1 ELSE b * f[k - 1]]
  BY <1>5 DEF f
<1> DEFINE A == {k \in 0 .. n : f[k] \in P}
<1>8. f[0] = 1 /\ \A k \in 1 .. n : f[k] = b * f[k - 1]
  <2> HIDE DEF F
  <2> QED
    BY <1>7
<1>9. ASSUME NEW m \in 0 .. n PROVE f[m] \in P
  <2>1. 0 \in A
    BY <1>8
  <2>2. \A k \in 0 .. m - 1 : k \in A => k + 1 \in A
    <3> SUFFICES ASSUME NEW k \in 0 .. m - 1, k \in A PROVE k + 1 \in A
      OBVIOUS
    <3>1. k + 1 \in 1 .. n /\ (k + 1) - 1 = k /\ f[k] \in P
      OBVIOUS
    <3>2. f[k + 1] = b * f[k]
      BY <1>8, <3>1
    <3>3. b * f[k] \in P
      BY <3>1
    <3> QED
      BY <3>1, <3>2, <3>3
  <2>3. m \in A
    <3> HIDE DEF A
    <3> QED
      BY <2>1, <2>2, UpTo
  <2> QED
    BY <2>3
<1>10. f \in [0 .. n -> P]
  <2>1. f = [k \in 0 .. n |-> f[k]]
    <3> HIDE DEF F
    <3> QED
      BY <1>7
  <2> QED
    BY <1>9, <2>1
<1> QED
  BY <1>6, <1>8, <1>10

\* The powers of b are positive, and each is b times the one before.
LEMMA Powers ==
  ASSUME NEW b \in Nat \ {0}, NEW n \in Nat
  PROVE  /\ Power(b, n) \in Nat \ {0} /\ Power(b, 0) = 1
         /\ Power(b, n + 1) = b * Power(b, n)
<1>1. PICK f \in [0 .. n -> Nat \ {0}] :
        Power(b, n) = f[n] /\ f[0] = 1 /\ \A k \in 1 .. n : f[k] = b * f[k - 1]
  BY PowerIs
<1>2. PICK g \in [0 .. n + 1 -> Nat \ {0}] :
        Power(b, n + 1) = g[n + 1] /\ g[0] = 1 /\ \A k \in 1 .. n + 1 : g[k] = b * g[k - 1]
  <2>1. n + 1 \in Nat
    OBVIOUS
  <2> QED
    BY <2>1, PowerIs
<1>3. Power(b, 0) = 1
  <2>1. \E h \in [0 .. 0 -> Nat \ {0}] : Power(b, 0) = h[0] /\ h[0] = 1
    BY PowerIs
  <2> QED
    BY <2>1
<1> DEFINE A == {k \in 0 .. n : f[k] = g[k]}
<1>4. 0 \in A
  BY <1>1, <1>2
<1>5. \A k \in 0 .. n - 1 : k \in A => k + 1 \in A
  <2> SUFFICES ASSUME NEW k \in 0 .. n - 1, k \in A PROVE k + 1 \in A
    OBVIOUS
  <2>1. k + 1 \in 1 .. n /\ k + 1 \in 1 .. n + 1 /\ (k + 1) - 1 = k /\ f[k] = g[k]
    OBVIOUS
  <2>2. f[k + 1] = b * f[k] /\ g[k + 1] = b * g[k]
    BY <1>1, <1>2, <2>1
  <2> QED
    BY <2>1, <2>2
<1>6. n \in A
  <2> HIDE DEF A
  <2> QED
    BY <1>4, <1>5, UpTo
<1>7. g[n + 1] = b * g[n] /\ f[n] \in Nat \ {0}
  BY <1>2
<1> QED
  BY <1>1, <1>2, <1>3, <1>6, <1>7
-----------------------------------------------------------------------------
(* Widths.                                                                 *)

\* 256 ^ n is 2 ^ (8 * n).
LEMMA Octets == ASSUME NEW n \in Nat PROVE Power(256, n) = Power(2, 8 * n)
<1>0. ASSUME NEW j \in Nat PROVE Power(2, j) \in Nat /\ Power(2, j + 1) = 2 * Power(2, j)
  BY Powers
<1> DEFINE A == {k \in 0 .. n : Power(256, k) = Power(2, 8 * k)}
<1>1. 0 \in A
  <2>1. Power(256, 0) = 1 /\ Power(2, 0) = 1
    BY Powers
  <2> QED
    BY <2>1
<1>2. \A k \in 0 .. n - 1 : k \in A => k + 1 \in A
  <2> SUFFICES ASSUME NEW k \in 0 .. n - 1, k \in A PROVE k + 1 \in A
    OBVIOUS
  <2> DEFINE p(j) == Power(2, j)
             e == 8 * k
  <2>1. Power(256, k + 1) = 256 * Power(256, k)
    BY Powers
  <2>2. e \in Nat /\ Power(256, k) = p(e)
    OBVIOUS
  <2> HIDE DEF e
  <2>3. \A j \in Nat : p(j) \in Nat /\ p(j + 1) = 2 * p(j)
    BY <1>0
  <2> HIDE DEF p
  <2>4. p(e + 2) = 4 * p(e)
    <3>1. e + 1 \in Nat /\ (e + 1) + 1 = e + 2
      BY <2>2
    <3> QED
      BY <2>2, <2>3, <3>1
  <2>5. p(e + 4) = 16 * p(e)
    <3>1. e + 2 \in Nat /\ e + 3 \in Nat /\ (e + 2) + 1 = e + 3 /\ (e + 3) + 1 = e + 4
      BY <2>2
    <3> QED
      BY <2>2, <2>3, <2>4, <3>1
  <2>6. p(e + 6) = 64 * p(e)
    <3>1. e + 4 \in Nat /\ e + 5 \in Nat /\ (e + 4) + 1 = e + 5 /\ (e + 5) + 1 = e + 6
      BY <2>2
    <3> QED
      BY <2>2, <2>3, <2>5, <3>1
  <2>7. p(e + 8) = 256 * p(e)
    <3>1. e + 6 \in Nat /\ e + 7 \in Nat /\ (e + 6) + 1 = e + 7 /\ (e + 7) + 1 = e + 8
      BY <2>2
    <3> QED
      BY <2>2, <2>3, <2>6, <3>1
  <2>8. 8 * (k + 1) = e + 8
    BY DEF e
  <2>9. Power(256, k + 1) = Power(2, 8 * (k + 1))
    BY <2>1, <2>2, <2>7, <2>8 DEF p
  <2> QED
    BY <2>9
<1>3. n \in A
  <2> HIDE DEF A
  <2> QED
    BY <1>1, <1>2, UpTo
<1> QED
  BY <1>3

\* Half of the range of w bytes, and all of it.
LEMMA Halves ==
  ASSUME NEW w \in Nat \ {0}
  PROVE  HalfOf(w) \in Nat \ {0} /\ Power(256, w) = 2 * HalfOf(w)
<1>1. 8 * w - 1 \in Nat /\ (8 * w - 1) + 1 = 8 * w
  OBVIOUS
<1>2. Power(2, 8 * w) = 2 * Power(2, 8 * w - 1)
  BY <1>1, Powers
<1> QED
  BY <1>1, <1>2, Octets, Powers DEF HalfOf

\* What fits into w bytes.
Fits(w) == 0 .. Power(256, w) - 1
Widths  == {1, 2, NB}

LEMMA WidthFacts ==
  /\ \A w \in Widths : w \in Nat \ {0} /\ w <= NB
  /\ Power(256, 1) = 256 /\ Power(256, 2) = 65536
  /\ HalfOf(1) = 128 /\ HalfOf(2) = 32768
  /\ DHalf = HalfOf(NB) /\ DHalf \in Nat \ {0}
  /\ Power(256, NB) = 2 * DHalf
  /\ \E q \in Nat \ {0} : 2 * DHalf = 65536 * q
  /\ DBits \in Nat \ {0}
<1>1. NB \in Nat /\ NB >= 2 /\ NB - 2 \in Nat
  BY DecodeAssumption
<1>2. Power(256, 1) = 256 /\ Power(256, 2) = 65536
  <2>1. Power(256, 0) = 1
    BY Powers
  <2>2. Power(256, 0 + 1) = 256 * Power(256, 0)
    BY Powers
  <2>3. Power(256, 1 + 1) = 256 * Power(256, 1)
    BY Powers
  <2> QED
    BY <2>1, <2>2, <2>3
<1>3. Power(256, 1) = 2 * HalfOf(1) /\ Power(256, 2) = 2 * HalfOf(2) /\ HalfOf(1) \in Nat /\ HalfOf(2) \in Nat
  BY Halves
<1>4. DHalf = HalfOf(NB)
  BY DEF DHalf, HalfOf
<1>5. Power(256, NB) = 2 * HalfOf(NB) /\ HalfOf(NB) \in Nat \ {0}
  BY <1>1, Halves
<1>6. \E q \in Nat \ {0} : Power(256, NB) = 65536 * q
  <2> DEFINE q == Power(256, NB - 2)
  <2>1. q \in Nat \ {0} /\ Power(256, (NB - 2) + 1) = 256 * q
    BY <1>1, Powers
  <2>2. NB - 1 \in Nat /\ (NB - 2) + 1 = NB - 1 /\ (NB - 1) + 1 = NB
    BY <1>1
  <2>3. Power(256, (NB - 1) + 1) = 256 * Power(256, NB - 1)
    BY <2>2, Powers
  <2> HIDE DEF q
  <2>4. Power(256, NB) = 256 * (256 * q)
    BY <2>1, <2>2, <2>3
  <2>5. 256 * (256 * q) = 65536 * q
    BY <2>1
  <2> QED
    BY <2>1, <2>4, <2>5
<1>7. DBits \in Nat \ {0}
  BY <1>1 DEF DBits
<1>8. \A w \in Widths : w \in Nat \ {0} /\ w <= NB
  BY <1>1 DEF Widths
<1> QED
  BY <1>2, <1>3, <1>4, <1>5, <1>6, <1>7, <1>8

\* A register with its low, its second lowest or its lowest two bytes replaced.
LEMMA PutLow ==
  ASSUME NEW q \in Nat \ {0}, NEW r \in 0 .. 65536 * q - 1, NEW v \in Int
  PROVE  /\ r - (r % 256) + (v % 256) \in 0 .. 65536 * q - 1
         /\ r - 256 * ((r \div 256) % 256) + 256 * (v % 256) \in 0 .. 65536 * q - 1
         /\ r - (r % 65536) + (v % 65536) \in 0 .. 65536 * q - 1
<1> DEFINE a == r \div 65536
           b == r % 65536
<1>1. a \in Nat /\ b \in Nat /\ b < 65536 /\ r = 65536 * a + b /\ a <= q - 1
  BY Z3
<1>2. v % 256 \in 0 .. 255 /\ v % 65536 \in Nat /\ v % 65536 < 65536
  BY Z3
<1> DEFINE h == b \div 256
           l == b % 256
<1>3. h \in 0 .. 255 /\ l \in 0 .. 255 /\ b = 256 * h + l
  <2> HIDE DEF b
  <2> QED
    BY <1>1, Z3
<1> HIDE DEF a, b, h, l
<1>4. r % 256 = l /\ (r \div 256) % 256 = h
  <2>1. r = 256 * (256 * a + h) + l /\ 256 * a + h \in Nat
    BY <1>1, <1>3
  <2>2. r % 256 = l /\ r \div 256 = 256 * a + h
    BY <1>3, <2>1, Z3
  <2>3. (256 * a + h) % 256 = h
    BY <1>1, <1>3, Z3
  <2> QED
    BY <2>2, <2>3
<1>5. r % 65536 = b
  BY <1>1 DEF b
<1>6. \A x \in 0 .. 255 : r - l + x \in 0 .. 65536 * q - 1
                         /\ r - 256 * h + 256 * x \in 0 .. 65536 * q - 1
  BY <1>1, <1>3, Z3
<1>7. r - b = 65536 * a
  BY <1>1
<1>8. \A y \in Nat : y < 65536 => 65536 * a + y \in 0 .. 65536 * q - 1
  BY <1>1
<1>9. r - (r % 256) + (v % 256) \in 0 .. 65536 * q - 1
  BY <1>2, <1>4, <1>6
<1>10. r - 256 * ((r \div 256) % 256) + 256 * (v % 256) \in 0 .. 65536 * q - 1
  BY <1>2, <1>4, <1>6
<1>11. r - (r % 65536) + (v % 65536) \in 0 .. 65536 * q - 1
  <2>1. r - (r % 65536) = 65536 * a
    BY <1>5, <1>7
  <2> QED
    BY <1>2, <1>8, <2>1
<1> QED
  BY <1>9, <1>10, <1>11
-----------------------------------------------------------------------------
(* What is read.                                                           *)

Word  == 0 .. 2 * DHalf - 1
Arena == [0 .. CORE_SIZE - 1 -> Byte]
Machines == [reg : [Registers -> Word], eip : Nat, eflags : SUBSET Nat, stack : Seq(Word),
             halted : BOOLEAN, arena : Arena, fate : {"runs", "crashed", "hung"}]
Parsed == [opcode : Nat, modrm : Byte, sib : Byte, repeat : 0 .. 3, disp : Int, imm : Int,
           moffs : Nat, next : Word]

LEMMA WithinWidth ==
  ASSUME NEW H \in Nat \ {0}, NEW v \in Int
  PROVE  /\ InWidth(v, H) \in 0 .. 2 * H - 1 /\ WithSign(v, H) \in Int
         /\ InWidth(InWidth(v, H), H) = InWidth(v, H)
<1>1. InWidth(v, H) \in 0 .. 2 * H - 1
  <2> DEFINE W == 2 * H
  <2>1. W \in Nat \ {0}
    OBVIOUS
  <2> HIDE DEF W
  <2>2. v % W \in 0 .. W - 1
    BY <2>1
  <2> QED
    BY <2>2 DEF W, InWidth
<1>2. InWidth(InWidth(v, H), H) = InWidth(v, H)
  <2> DEFINE u == InWidth(v, H)
  <2>1. u \in -(2 * H) .. 4 * H - 1 /\ u >= 0 /\ u < 2 * H
    BY <1>1
  <2> HIDE DEF u
  <2> QED
    BY <2>1, Rest DEF u
<1>3. WithSign(v, H) \in Int
  BY <1>1 DEF WithSign
<1> QED
  BY <1>1, <1>2, <1>3

LEMMA AddrIs ==
  ASSUME NEW v \in Int
  PROVE  Addr(v) \in Word /\ Addr(v) \in Nat /\ Addr(v) % CORE_SIZE \in 0 .. CORE_SIZE - 1
<1>1. Addr(v) \in 0 .. 2 * DHalf - 1
  <2>1. DHalf \in Nat \ {0}
    BY WidthFacts
  <2> QED
    BY <2>1, WithinWidth DEF Addr
<1>2. Addr(v) \in Nat /\ CORE_SIZE \in Nat \ {0}
  BY <1>1, WidthFacts, DecodeAssumption
<1>3. \A x \in Nat : x % CORE_SIZE \in 0 .. CORE_SIZE - 1
  BY <1>2
<1> QED
  BY <1>1, <1>2, <1>3 DEF Word

LEMMA Get8Is ==
  ASSUME NEW arr \in Arena, NEW a \in Int
  PROVE  Get8(arr, a) \in Byte /\ Get8(arr, a) \in 0 .. 255
BY AddrIs DEF Get8, Arena, Byte

\* So many bytes of the arena fit into so many bytes.
LEMMA GetDataFits ==
  ASSUME NEW arr \in Arena, NEW a \in Int, NEW w \in Nat
  PROVE  GetData(arr, a, w) \in Fits(w) /\ GetData(arr, a, w) \in Nat
<1> DEFINE add(k) == Get8(arr, a + k - 1) * Power(256, k - 1)
           step == [k \in 1 .. w |-> [x \in Nat |-> x + add(k)]]
           F(f) == f = [k \in 0 .. w |-> IF k = 0 THEN 0 ELSE f[k - 1] + add(k)]
<1>1. ASSUME NEW k \in 1 .. w
      PROVE  /\ add(k) \in Nat /\ add(k) <= Power(256, k) - Power(256, k - 1)
             /\ Power(256, k) \in Nat /\ Power(256, k - 1) \in Nat
  <2> DEFINE p == Power(256, k - 1)
             g == Get8(arr, a + k - 1)
  <2>1. k - 1 \in Nat /\ (k - 1) + 1 = k /\ a + k - 1 \in Int
    OBVIOUS
  <2>2. p \in Nat \ {0} /\ Power(256, (k - 1) + 1) = 256 * p
    BY <2>1, Powers
  <2>3. g \in Nat /\ g <= 255
    <3>1. g \in 0 .. 255
      BY <2>1, Get8Is
    <3> QED
      BY <3>1
  <2> HIDE DEF p, g
  <2>4. g * p \in Nat /\ g * p <= 255 * p
    BY <2>2, <2>3, Z3
  <2>5. Power(256, k) = 256 * p /\ 256 * p - p = 255 * p
    BY <2>1, <2>2
  <2> QED
    BY <2>2, <2>4, <2>5 DEF p, g
<1> HIDE DEF add
<1>2. step \in [1 .. w -> [Nat -> Nat]]
  BY <1>1
<1>3. PICK g : IsIteration(g, w, Nat, 0, step)
  <2>1. 0 \in Nat
    OBVIOUS
  <2> HIDE DEF step
  <2> QED
    BY <1>2, <2>1, Recursion, Zenon
<1>4. \A k \in 1 .. w : g[k] = g[k - 1] + add(k)
  <2> TAKE k \in 1 .. w
  <2>1. g[k - 1] \in Nat
    BY <1>3 DEF IsIteration
  <2>2. step[k][g[k - 1]] = g[k - 1] + add(k)
    BY <2>1
  <2> HIDE DEF step
  <2> QED
    BY <1>3, <2>2 DEF IsIteration
<1>5. F(g)
  BY <1>3, <1>4 DEF IsIteration
<1>6. F(CHOOSE f : F(f))
  <2> HIDE DEF F
  <2> QED
    BY <1>5
<1> DEFINE f == CHOOSE f : F(f)
<1>7. GetData(arr, a, w) = f[w]
  BY DEF GetData, add
<1> HIDE DEF f
<1>8. f[0] = 0 /\ \A k \in 1 .. w : f[k] = f[k - 1] + add(k)
  <2>1. f = [k \in 0 .. w |-> IF k = 0 THEN 0 ELSE f[k - 1] + add(k)]
    BY <1>6 DEF f
  <2> HIDE DEF F
  <2> QED
    BY <2>1
<1> DEFINE A == {k \in 0 .. w : f[k] \in Nat /\ f[k] <= Power(256, k) - 1}
<1>9. 0 \in A
  <2>1. Power(256, 0) = 1
    BY Powers
  <2> QED
    BY <1>8, <2>1
<1>10. \A k \in 0 .. w - 1 : k \in A => k + 1 \in A
  <2> SUFFICES ASSUME NEW k \in 0 .. w - 1, k \in A PROVE k + 1 \in A
    OBVIOUS
  <2>1. k + 1 \in 1 .. w /\ (k + 1) - 1 = k /\ f[k] \in Nat /\ f[k] <= Power(256, k) - 1
    OBVIOUS
  <2>2. f[k + 1] = f[k] + add(k + 1)
    BY <1>8, <2>1
  <2>3. /\ add(k + 1) \in Nat /\ add(k + 1) <= Power(256, k + 1) - Power(256, k)
        /\ Power(256, k + 1) \in Nat /\ Power(256, k) \in Nat
    BY <1>1, <2>1
  <2> QED
    BY <2>1, <2>2, <2>3
<1>11. w \in A
  <2> HIDE DEF A
  <2> QED
    BY <1>9, <1>10, UpTo
<1>12. Power(256, w) \in Nat
  BY Powers
<1> QED
  BY <1>7, <1>11, <1>12 DEF Fits

LEMMA GetRegFits ==
  ASSUME NEW m \in Machines, NEW n \in Registers, NEW w \in Widths
  PROVE  GetReg(m, n, w) \in Fits(w)
<1> DEFINE W == Power(256, w)
<1>1. W \in Nat \ {0}
  BY WidthFacts, Powers
<1>2. \A k \in Registers : m.reg[k] \in Nat
  BY WidthFacts DEF Machines, Word
<1>3. CASE w = 1 /\ n >= 4
  <2>1. n - 4 \in Registers
    BY <1>3 DEF Registers
  <2>2. m.reg[n - 4] \in Nat
    BY <1>2, <2>1
  <2>3. \A x \in Nat : (x \div 256) % 256 \in 0 .. 255
    OBVIOUS
  <2> QED
    BY <1>3, <2>2, <2>3, WidthFacts DEF GetReg, Fits
<1>4. CASE ~(w = 1 /\ n >= 4)
  <2>1. GetReg(m, n, w) = m.reg[n] % W
    BY <1>4 DEF GetReg
  <2>2. m.reg[n] \in Nat
    BY <1>2
  <2> HIDE DEF W
  <2>3. \A x \in Nat : x % W \in 0 .. W - 1
    BY <1>1
  <2> QED
    BY <2>1, <2>2, <2>3 DEF W, Fits
<1> QED
  BY <1>3, <1>4

LEMMA FieldsOf ==
  ASSUME NEW b \in Byte
  PROVE  /\ Mod(b) \in 0 .. 3 /\ Reg(b) \in Registers /\ RmOf(b) \in Registers
         /\ b % 8 \in Registers /\ (b \div 8) % 8 \in Registers /\ b \div 64 \in 0 .. 3
BY DEF Byte, Mod, Reg, RmOf, Registers

LEMMA CalcIs ==
  ASSUME NEW m \in Machines, NEW i \in Parsed
  PROVE  CalcSib(m, i) \in Nat /\ CalcModRm(m, i) \in Word /\ CalcModRm(m, i) \in Nat
<1>1. \A k \in Registers : m.reg[k] \in Int
  BY WidthFacts DEF Machines, Word
<1>2. i.modrm \in Byte /\ i.sib \in Byte /\ i.disp \in Int
  BY DEF Parsed
<1>3. CalcSib(m, i) \in Nat
  <2> DEFINE base  == i.sib % 8
             scale == i.sib \div 64
             from  == IF base = 5 /\ Mod(i.modrm) = 0 THEN i.disp
                      ELSE IF base = 4 THEN 0 ELSE m.reg[base]
             index == m.reg[(i.sib \div 8) % 8]
  <2>1. base \in Registers /\ scale \in Nat /\ index \in Int
    BY <1>1, <1>2, FieldsOf
  <2>2. from \in Int
    BY <1>1, <1>2, <2>1
  <2>3. Power(2, scale) \in Int
    BY <2>1, Powers
  <2>4. CalcSib(m, i) = IF base = 4 /\ scale # 0 THEN Addr(-1) ELSE Addr(from + index * Power(2, scale))
    BY DEF CalcSib
  <2> HIDE DEF base, scale, from, index
  <2>5. from + index * Power(2, scale) \in Int /\ -1 \in Int
    BY <2>1, <2>2, <2>3
  <2> QED
    BY <2>4, <2>5, AddrIs
<1>4. CalcModRm(m, i) \in Word /\ CalcModRm(m, i) \in Nat
  <2> DEFINE rm   == RmOf(i.modrm)
             disp == IF Mod(i.modrm) \in {1, 2} THEN i.disp ELSE 0
             at == CASE rm = 4 -> disp + CalcSib(m, i)
                     [] rm = 5 /\ Mod(i.modrm) = 0 -> i.disp
                     [] OTHER -> disp + m.reg[rm]
  <2>1. rm \in Registers /\ disp \in Int
    BY <1>2, FieldsOf
  <2>2. at \in Int
    <3>1. disp + CalcSib(m, i) \in Int /\ i.disp \in Int /\ disp + m.reg[rm] \in Int
      BY <1>1, <1>2, <1>3, <2>1
    <3> HIDE DEF disp
    <3> QED
      BY <3>1
  <2>3. CalcModRm(m, i) = Addr(at)
    BY DEF CalcModRm
  <2> HIDE DEF at
  <2> QED
    BY <2>2, <2>3, AddrIs
<1> QED
  BY <1>3, <1>4

LEMMA GetRmFits ==
  ASSUME NEW m \in Machines, NEW i \in Parsed, NEW w \in Widths
  PROVE  GetRm(m, i, w) \in Fits(w)
<1>1. i.modrm \in Byte /\ m.arena \in Arena
  BY DEF Parsed, Machines
<1>2. RmOf(i.modrm) \in Registers /\ CalcModRm(m, i) \in Int /\ w \in Nat
  BY <1>1, FieldsOf, CalcIs, WidthFacts
<1>3. GetReg(m, RmOf(i.modrm), w) \in Fits(w) /\ GetData(m.arena, CalcModRm(m, i), w) \in Fits(w)
  BY <1>1, <1>2, GetRegFits, GetDataFits
<1> QED
  BY <1>3 DEF GetRm

LEMMA FitsInt ==
  ASSUME NEW w \in Widths
  PROVE  Fits(w) \subseteq Nat /\ Fits(w) \subseteq Int /\ HalfOf(w) \in Nat \ {0}
         /\ Fits(w) = 0 .. 2 * HalfOf(w) - 1 /\ Fits(NB) = Word
<1>1. HalfOf(w) \in Nat \ {0} /\ Power(256, w) = 2 * HalfOf(w) /\ Power(256, NB) = 2 * DHalf
  BY WidthFacts, Halves
<1> QED
  BY <1>1 DEF Fits, Word

\* The operands of the arithmetic.
LEMMA GetFits ==
  ASSUME NEW m \in Machines, NEW i \in Parsed, NEW w \in Widths
  PROVE  /\ \A o \in {"rm", "r", "acc"} : Get(m, i, o, w) \in Fits(w)
         /\ Get(m, i, "imm", w) = i.imm /\ i.imm \in Int
<1>1. i.modrm \in Byte /\ i.imm \in Int
  BY DEF Parsed
<1>2. Reg(i.modrm) \in Registers /\ EAX \in Registers
  BY <1>1, FieldsOf DEF EAX, Registers
<1>3. /\ GetRm(m, i, w) \in Fits(w) /\ GetReg(m, Reg(i.modrm), w) \in Fits(w)
      /\ GetReg(m, EAX, w) \in Fits(w)
  BY <1>2, GetRmFits, GetRegFits
<1> QED
  BY <1>1, <1>3 DEF Get

LEMMA ParsedIs ==
  ASSUME NEW arr \in Arena, NEW eip \in Nat,
         NEW old \in [modrm : Byte, sib : Byte, repeat : 0 .. 3]
  PROVE  Parse(arr, eip, old) \in Parsed
<1> DEFINE opcode == Opcode(arr, eip)
           a      == eip + (IF opcode >= 3840 THEN 2 ELSE 1)
           rm     == HasModRm(opcode)
           modrm  == IF rm THEN Get8(arr, a) ELSE old.modrm
           hasSib == rm /\ HasSib(modrm)
           sib    == IF hasSib THEN Get8(arr, a + 1) ELSE old.sib
           b      == a + (IF rm THEN 1 ELSE 0) + (IF hasSib THEN 1 ELSE 0)
           dn     == IF rm THEN DispBytes(modrm, sib) ELSE 0
           c      == b + dn
           immn   == IF opcode \in Imm32Opcodes THEN NB ELSE IF opcode \in Imm8Opcodes THEN 1 ELSE 0
           d      == c + immn
           disp   == IF dn = 0 THEN 0 ELSE WithSign(GetData(arr, b, dn), Power(2, 8 * dn - 1))
           imm    == IF immn = 0 THEN 0 ELSE WithSign(GetData(arr, c, immn), Power(2, 8 * immn - 1))
           moffs  == IF HasMoffs(opcode) THEN GetData(arr, d, NB) ELSE 0
           next   == Addr(d + (IF HasMoffs(opcode) THEN NB ELSE 0))
<1>12. Parse(arr, eip, old) =
         [opcode |-> opcode, modrm |-> modrm, sib |-> sib, repeat |-> old.repeat,
          disp |-> disp, imm |-> imm, moffs |-> moffs, next |-> next]
  BY DEF Parse
<1>0. NB \in Nat \ {0}
  BY DecodeAssumption
<1>1. opcode \in Nat
  <2>1. Get8(arr, eip) \in Nat /\ Get8(arr, eip + 1) \in Nat
    BY Get8Is
  <2> QED
    BY <2>1 DEF Opcode, Two
<1>2. a \in Nat /\ a + 1 \in Nat
  BY <1>1
<1>3. modrm \in Byte
  BY <1>2, Get8Is
<1>4. sib \in Byte
  BY <1>2, Get8Is
<1> HIDE DEF opcode, rm, modrm, sib, a
<1>5. b \in Nat
  BY <1>2
<1>6. dn \in Nat /\ c \in Nat
  <2>1. dn \in {0, 1, NB}
    BY DEF DispBytes
  <2> HIDE DEF dn, b
  <2> QED
    BY <1>0, <1>5, <2>1
<1>7. immn \in Nat /\ d \in Nat
  <2> HIDE DEF c
  <2> QED
    BY <1>0, <1>6
<1> HIDE DEF b, dn, c, immn, d
<1>8. \A n \in Nat \ {0} : \A at \in Nat : WithSign(GetData(arr, at, n), Power(2, 8 * n - 1)) \in Int
  <2> TAKE n \in Nat \ {0}
  <2> TAKE at \in Nat
  <2>1. GetData(arr, at, n) \in Int
    BY GetDataFits
  <2>2. 8 * n - 1 \in Nat
    OBVIOUS
  <2>3. Power(2, 8 * n - 1) \in Nat \ {0}
    BY <2>2, Powers
  <2> QED
    BY <2>1, <2>3, WithinWidth
<1>9. disp \in Int /\ imm \in Int
  BY <1>5, <1>6, <1>7, <1>8
<1>10. moffs \in Nat
  BY <1>0, <1>7, GetDataFits
<1>11. next \in Word
  BY <1>0, <1>7, AddrIs
<1> HIDE DEF disp, imm, moffs, next
<1> QED
  BY <1>1, <1>3, <1>4, <1>9, <1>10, <1>11, <1>12 DEF Parsed
-----------------------------------------------------------------------------
(* What is written.                                                        *)

LEMMA SetRegOK ==
  ASSUME NEW m \in Machines, NEW n \in Registers, NEW w \in Widths, NEW v \in Int
  PROVE  SetReg(m, n, w, v) \in Machines /\ SetReg(m, n, w, v).eflags = m.eflags
<1>1. PICK q \in Nat \ {0} : 2 * DHalf = 65536 * q
  BY WidthFacts
<1>2. Word = 0 .. 65536 * q - 1
  BY <1>1 DEF Word
<1>3. m.reg \in [Registers -> Word]
  BY DEF Machines
<1>4. ASSUME NEW k \in Registers, NEW r \in Word
      PROVE  [m EXCEPT !.reg[k] = r] \in Machines /\ [m EXCEPT !.reg[k] = r].eflags = m.eflags
  BY DEF Machines
<1>5. CASE w = 1 /\ n >= 4
  <2> DEFINE r == m.reg[n - 4]
             x == r - 256 * ((r \div 256) % 256) + 256 * (v % 256)
  <2>1. n - 4 \in Registers
    BY <1>5 DEF Registers
  <2>2. r \in Word
    BY <1>3, <2>1
  <2>3. SetReg(m, n, w, v) = [m EXCEPT !.reg[n - 4] = x]
    BY <1>5 DEF SetReg, Machines
  <2> HIDE DEF r
  <2>4. x \in Word
    BY <1>2, <2>2, PutLow
  <2> HIDE DEF x
  <2> QED
    BY <1>4, <2>1, <2>3, <2>4
<1>6. CASE ~(w = 1 /\ n >= 4)
  <2> DEFINE r == m.reg[n]
             x == r - (r % Power(256, w)) + (v % Power(256, w))
  <2>1. r \in Word
    BY <1>3
  <2>2. SetReg(m, n, w, v) = [m EXCEPT !.reg[n] = x]
    BY <1>6 DEF SetReg, Machines
  <2> HIDE DEF r
  <2>3. CASE w = 1
    <3>1. x = r - (r % 256) + (v % 256)
      BY <2>3, WidthFacts
    <3>2. x \in Word
      BY <1>2, <2>1, <3>1, PutLow
    <3> HIDE DEF x
    <3> QED
      BY <1>4, <2>2, <3>2
  <2>4. CASE w = 2
    <3>1. x = r - (r % 65536) + (v % 65536)
      BY <2>4, WidthFacts
    <3>2. x \in Word
      BY <1>2, <2>1, <3>1, PutLow
    <3> HIDE DEF x
    <3> QED
      BY <1>4, <2>2, <3>2
  <2>5. CASE w = NB
    <3> DEFINE W == 2 * DHalf
    <3>1. x = r - (r % W) + (v % W) /\ W \in Nat \ {0}
      BY <2>5, WidthFacts
    <3>2. r \in 0 .. W - 1
      BY <2>1 DEF Word
    <3> HIDE DEF W
    <3>3. r % W = r /\ v % W \in 0 .. W - 1
      BY <3>1, <3>2
    <3>4. x = v % W
      BY <3>1, <3>2, <3>3
    <3>5. x \in Word
      BY <3>3, <3>4 DEF W, Word
    <3> HIDE DEF x
    <3> QED
      BY <1>4, <2>2, <3>5
  <2> QED
    BY <2>3, <2>4, <2>5 DEF Widths
<1> QED
  BY <1>5, <1>6

LEMMA PutDataOK ==
  ASSUME NEW m \in Machines, NEW a \in Int, NEW w \in Widths, NEW v \in Int
  PROVE  PutData(m, a, w, v) \in Machines /\ PutData(m, a, w, v).eflags = m.eflags
<1> DEFINE put(k, x) == [x EXCEPT ![Addr(a + k - 1) % CORE_SIZE] = (v \div Power(256, k - 1)) % 256]
           step == [k \in 1 .. w |-> [x \in Arena |-> put(k, x)]]
           F(f) == f = [k \in 0 .. w |-> IF k = 0 THEN m.arena ELSE put(k, f[k - 1])]
<1>1. w \in Nat
  BY WidthFacts
<1>2. ASSUME NEW k \in 1 .. w, NEW x \in Arena PROVE put(k, x) \in Arena
  <2>1. (v \div Power(256, k - 1)) % 256 \in Byte
    <3>1. k - 1 \in Nat
      BY <1>1
    <3>2. Power(256, k - 1) \in Nat \ {0}
      BY <3>1, Powers
    <3>3. v \div Power(256, k - 1) \in Int
      BY <3>2
    <3> QED
      BY <3>3 DEF Byte
  <2> DEFINE b == (v \div Power(256, k - 1)) % 256
             at == Addr(a + k - 1) % CORE_SIZE
  <2> HIDE DEF b, at
  <2>2. [x EXCEPT ![at] = b] \in Arena
    BY <2>1 DEF Arena, b
  <2> QED
    BY <2>2 DEF at, b
<1> HIDE DEF put
<1>3. step \in [1 .. w -> [Arena -> Arena]]
  BY <1>2
<1>4. m.arena \in Arena
  BY DEF Machines
<1>5. PICK g : IsIteration(g, w, Arena, m.arena, step)
  <2> HIDE DEF step
  <2> QED
    BY <1>1, <1>3, <1>4, Recursion, Zenon
<1>6. \A k \in 1 .. w : g[k] = put(k, g[k - 1])
  <2> TAKE k \in 1 .. w
  <2>1. g[k - 1] \in Arena
    BY <1>1, <1>5 DEF IsIteration
  <2>2. step[k][g[k - 1]] = put(k, g[k - 1])
    BY <2>1
  <2> HIDE DEF step
  <2> QED
    BY <1>5, <2>2 DEF IsIteration
<1>7. F(g)
  BY <1>1, <1>5, <1>6 DEF IsIteration
<1>8. F(CHOOSE f : F(f))
  <2> HIDE DEF F
  <2> QED
    BY <1>7
<1> DEFINE f == CHOOSE f : F(f)
<1>9. PutData(m, a, w, v) = [m EXCEPT !.arena = f[w]]
  BY DEF PutData, put
<1> HIDE DEF f
<1>10. f[0] = m.arena /\ \A k \in 1 .. w : f[k] = put(k, f[k - 1])
  <2>1. f = [k \in 0 .. w |-> IF k = 0 THEN m.arena ELSE put(k, f[k - 1])]
    BY <1>8 DEF f
  <2> HIDE DEF F
  <2> QED
    BY <1>1, <2>1
<1> DEFINE A == {k \in 0 .. w : f[k] \in Arena}
<1>11. 0 \in A
  BY <1>1, <1>4, <1>10
<1>12. \A k \in 0 .. w - 1 : k \in A => k + 1 \in A
  <2> SUFFICES ASSUME NEW k \in 0 .. w - 1, k \in A PROVE k + 1 \in A
    OBVIOUS
  <2>1. k + 1 \in 1 .. w /\ (k + 1) - 1 = k /\ f[k] \in Arena
    BY <1>1
  <2>2. f[k + 1] = put(k + 1, f[k])
    BY <1>10, <2>1
  <2>3. f[k + 1] \in Arena
    BY <1>2, <2>1, <2>2
  <2> QED
    BY <1>1, <2>1, <2>3
<1>13. w \in A
  <2> HIDE DEF A
  <2> QED
    BY <1>1, <1>11, <1>12, UpTo
<1>14. f[w] \in Arena
  BY <1>13
<1> QED
  BY <1>9, <1>14 DEF Machines

LEMMA SetRmOK ==
  ASSUME NEW m \in Machines, NEW i \in Parsed, NEW w \in Widths, NEW v \in Int
  PROVE  SetRm(m, i, w, v) \in Machines /\ SetRm(m, i, w, v).eflags = m.eflags
<1>1. RmOf(i.modrm) \in Registers /\ CalcModRm(m, i) \in Int
  BY FieldsOf, CalcIs DEF Parsed
<1> QED
  BY <1>1, SetRegOK, PutDataOK DEF SetRm

LEMMA PutOK ==
  ASSUME NEW m \in Machines, NEW i \in Parsed, NEW w \in Widths, NEW v \in Int,
         NEW o \in {"rm", "r", "acc"}
  PROVE  Put(m, i, o, w, v) \in Machines /\ Put(m, i, o, w, v).eflags = m.eflags
<1>1. Reg(i.modrm) \in Registers /\ EAX \in Registers
  BY FieldsOf DEF Parsed, EAX, Registers
<1>2. o = "rm" \/ o = "r" \/ o = "acc"
  OBVIOUS
<1>3. CASE o = "rm"
  BY <1>3, SetRmOK DEF Put
<1>4. CASE o = "r"
  BY <1>1, <1>4, SetRegOK DEF Put
<1>5. CASE o = "acc"
  BY <1>1, <1>5, SetRegOK DEF Put
<1> QED
  BY <1>2, <1>3, <1>4, <1>5

\* The flags that arithmetic leaves.
LEMMA FlagsOK ==
  ASSUME NEW f \in SUBSET Nat, NEW a, NEW b, NEW H, NEW k, NEW D
  PROVE  /\ AddFlags(f, a, b, H) \in SUBSET Nat /\ SubFlags(f, a, b, H) \in SUBSET Nat
         /\ LogicFlags(f, a, H) \in SUBSET Nat
         /\ MulFlags(f, a, b, H) \in SUBSET Nat /\ ImulFlags(f, a, b, H) \in SUBSET Nat
         /\ ShlFlags(f, a, b, k, D) \in SUBSET Nat /\ ShrFlags(f, a, b, k, D) \in SUBSET Nat
<1>1. CF \in Nat /\ PF \in Nat /\ ZF \in Nat /\ SF \in Nat /\ OF \in Nat
  BY DEF CF, PF, ZF, SF, OF
<1>2. \A x, set : x \in Nat => On(x, set) \in SUBSET Nat
  BY DEF On
<1>3. /\ \A set : On(CF, set) \in SUBSET Nat /\ On(OF, set) \in SUBSET Nat
      /\ \A r, h : Told(r, h) \in SUBSET Nat
  BY <1>1, <1>2 DEF Told
<1>4. AddFlags(f, a, b, H) \in SUBSET Nat
  BY <1>3, Zenon DEF AddFlags
<1>5. SubFlags(f, a, b, H) \in SUBSET Nat
  BY <1>3, Zenon DEF SubFlags
<1>6. LogicFlags(f, a, H) \in SUBSET Nat
  BY <1>3, Zenon DEF LogicFlags
<1>7. MulFlags(f, a, b, H) \in SUBSET Nat
  BY <1>3, Zenon DEF MulFlags
<1>8. ImulFlags(f, a, b, H) \in SUBSET Nat
  BY <1>3, Zenon DEF ImulFlags
<1>9. ShlFlags(f, a, b, k, D) \in SUBSET Nat
  BY <1>3, Zenon DEF ShlFlags
<1>10. ShrFlags(f, a, b, k, D) \in SUBSET Nat
  BY <1>3, Zenon DEF ShrFlags
<1> QED
  BY <1>4, <1>5, <1>6, <1>7, <1>8, <1>9, <1>10

\* Nothing but flags, or EIP, or the stack changes.
LEMMA PartsOK ==
  ASSUME NEW m \in Machines
  PROVE  /\ \A f \in SUBSET Nat : [m EXCEPT !.eflags = f] \in Machines
         /\ \A e \in Nat : [m EXCEPT !.eip = e] \in Machines
         /\ \A s \in Seq(Word) : [m EXCEPT !.stack = s] \in Machines
         /\ \A f \in {"runs", "crashed", "hung"} : [m EXCEPT !.fate = f] \in Machines
         /\ Halt(m) \in Machines
         /\ m.eip \in Nat /\ m.stack \in Seq(Word) /\ m.eflags \in SUBSET Nat
         /\ m.arena \in Arena /\ \A n \in Registers : m.reg[n] \in Word /\ m.reg[n] \in Nat
<1>1. Word \subseteq Nat
  BY WidthFacts DEF Word
<1> QED
  BY <1>1 DEF Machines, Halt

LEMMA StackOK ==
  ASSUME NEW m \in Machines
  PROVE  /\ \A v \in Int : Push(m, v) \in Machines
         /\ Drop(m) \in Machines /\ Top(m) \in Word /\ Top(m) \in Nat
         /\ \A n \in Registers : PopTo(m, n) \in Machines
<1>1. m.stack \in Seq(Word)
  BY PartsOK
<1>2. Word \subseteq Nat /\ 0 \in Word /\ NB \in Widths
  BY WidthFacts DEF Word, Widths
<1>3. ASSUME NEW v \in Int PROVE Push(m, v) \in Machines
  <2>1. Addr(v) \in Word
    BY AddrIs
  <2>2. Append(m.stack, Addr(v)) \in Seq(Word)
    BY <1>1, <2>1
  <2>3. Push(m, v) = [m EXCEPT !.stack = Append(m.stack, Addr(v))]
    BY DEF Push, Machines
  <2> QED
    BY <2>2, <2>3, PartsOK
<1>4. Drop(m) \in Machines
  <2> DEFINE s == IF m.stack = <<>> THEN m.stack ELSE SubSeq(m.stack, 1, Len(m.stack) - 1)
  <2>1. s \in Seq(Word)
    <3>1. CASE m.stack = <<>>
      BY <1>1, <3>1
    <3>2. CASE m.stack # <<>>
      <4>1. SubSeq(m.stack, 1, Len(m.stack) - 1) \in Seq(Word)
        BY <1>1
      <4> QED
        BY <3>2, <4>1
    <3> QED
      BY <3>1, <3>2
  <2>2. Drop(m) = [m EXCEPT !.stack = s]
    BY DEF Drop, Machines
  <2> QED
    BY <2>1, <2>2, PartsOK
<1>5. Top(m) \in Word /\ Top(m) \in Nat
  <2>1. CASE m.stack = <<>>
    BY <1>2, <2>1 DEF Top
  <2>2. CASE m.stack # <<>>
    <3>1. Len(m.stack) \in 1 .. Len(m.stack)
      BY <1>1, <2>2
    <3>2. m.stack[Len(m.stack)] \in Word
      BY <1>1, <3>1
    <3> QED
      BY <1>2, <2>2, <3>2 DEF Top
  <2> QED
    BY <2>1, <2>2
<1>6. ASSUME NEW n \in Registers PROVE PopTo(m, n) \in Machines
  BY <1>2, <1>4, <1>5, SetRegOK DEF PopTo
<1> QED
  BY <1>3, <1>4, <1>5, <1>6

LEMMA JumpOK == ASSUME NEW m \in Machines, NEW by \in Int PROVE Jump(m, by) \in Machines
<1>1. m.eip \in Nat /\ m.eip + by \in Int
  BY DEF Machines
<1>2. Addr(m.eip + by) \in Nat
  BY <1>1, AddrIs
<1>3. Jump(m, by) = [m EXCEPT !.eip = Addr(m.eip + by)]
  BY DEF Jump, Machines
<1> QED
  BY <1>2, <1>3, PartsOK
-----------------------------------------------------------------------------
(* What an instruction does to the machine.                                *)

\* A sum of powers of two.
LEMMA BitSum ==
  ASSUME NEW n \in Nat, NEW T
  PROVE  LET f == CHOOSE f : f = [k \in 0 .. n |-> IF k = 0 THEN 0
                                  ELSE f[k - 1] + (IF k - 1 \in T THEN Power(2, k - 1) ELSE 0)]
         IN  f[n] \in Nat
<1> DEFINE add(k) == IF k - 1 \in T THEN Power(2, k - 1) ELSE 0
           step == [k \in 1 .. n |-> [x \in Nat |-> x + add(k)]]
           F(f) == f = [k \in 0 .. n |-> IF k = 0 THEN 0 ELSE f[k - 1] + add(k)]
<1>1. ASSUME NEW k \in 1 .. n PROVE add(k) \in Nat
  <2>1. k - 1 \in Nat
    OBVIOUS
  <2> QED
    BY <2>1, Powers
<1> HIDE DEF add
<1>2. step \in [1 .. n -> [Nat -> Nat]]
  BY <1>1
<1>3. PICK g : IsIteration(g, n, Nat, 0, step)
  <2>1. 0 \in Nat
    OBVIOUS
  <2> HIDE DEF step
  <2> QED
    BY <1>2, <2>1, Recursion, Zenon
<1>4. \A k \in 1 .. n : g[k] = g[k - 1] + add(k)
  <2> TAKE k \in 1 .. n
  <2>1. g[k - 1] \in Nat
    BY <1>3 DEF IsIteration
  <2>2. step[k][g[k - 1]] = g[k - 1] + add(k)
    BY <2>1
  <2> HIDE DEF step
  <2> QED
    BY <1>3, <2>2 DEF IsIteration
<1>5. F(g)
  BY <1>3, <1>4 DEF IsIteration
<1>6. F(CHOOSE f : F(f))
  <2> HIDE DEF F
  <2> QED
    BY <1>5
<1> DEFINE f == CHOOSE f : F(f)
<1> HIDE DEF f
<1>7. f[0] = 0 /\ \A k \in 1 .. n : f[k] = f[k - 1] + add(k)
  <2>1. f = [k \in 0 .. n |-> IF k = 0 THEN 0 ELSE f[k - 1] + add(k)]
    BY <1>6 DEF f
  <2> HIDE DEF F
  <2> QED
    BY <2>1
<1> DEFINE A == {k \in 0 .. n : f[k] \in Nat}
<1>8. 0 \in A
  BY <1>7
<1>9. \A k \in 0 .. n - 1 : k \in A => k + 1 \in A
  <2> SUFFICES ASSUME NEW k \in 0 .. n - 1, k \in A PROVE k + 1 \in A
    OBVIOUS
  <2>1. k + 1 \in 1 .. n /\ (k + 1) - 1 = k /\ f[k] \in Nat
    OBVIOUS
  <2>2. f[k + 1] = f[k] + add(k + 1) /\ add(k + 1) \in Nat
    BY <1>1, <1>7, <2>1
  <2> QED
    BY <2>1, <2>2
<1>10. n \in A
  <2> HIDE DEF A
  <2> QED
    BY <1>8, <1>9, UpTo
<1>11. f[n] \in Nat
  BY <1>10
<1> QED
  BY <1>11 DEF f, add

LEMMA BitwiseNat == ASSUME NEW op, NEW x, NEW y PROVE Bitwise(op, x, y) \in Nat
<1> DEFINE bit(k) == CASE op = 1 -> Bit(x, k) \/ Bit(y, k)
                       [] op \in {4, 8} -> Bit(x, k) /\ Bit(y, k)
                       [] op = 6 -> Bit(x, k) # Bit(y, k)
           T == {k \in 0 .. DBits : bit(k)}
           F(f) == f = [k \in 0 .. DBits |-> IF k = 0 THEN 0
                          ELSE f[k - 1] + (IF bit(k - 1) THEN Power(2, k - 1) ELSE 0)]
           G(f) == f = [k \in 0 .. DBits |-> IF k = 0 THEN 0
                          ELSE f[k - 1] + (IF k - 1 \in T THEN Power(2, k - 1) ELSE 0)]
<1>1. Bitwise(op, x, y) = (CHOOSE f : F(f))[DBits]
  BY DEF Bitwise
<1>2. DBits \in Nat
  BY WidthFacts
<1> HIDE DEF bit
<1>3. \A k \in 1 .. DBits : bit(k - 1) <=> k - 1 \in T
  BY <1>2
<1>4. \A f : F(f) <=> G(f)
  <2> TAKE f
  <2> HIDE DEF T
  <2>1. \A k \in 0 .. DBits :
          (IF k = 0 THEN 0 ELSE f[k - 1] + (IF bit(k - 1) THEN Power(2, k - 1) ELSE 0))
          = (IF k = 0 THEN 0 ELSE f[k - 1] + (IF k - 1 \in T THEN Power(2, k - 1) ELSE 0))
    BY <1>2, <1>3
  <2>2. [k \in 0 .. DBits |-> IF k = 0 THEN 0
                          ELSE f[k - 1] + (IF bit(k - 1) THEN Power(2, k - 1) ELSE 0)]
        = [k \in 0 .. DBits |-> IF k = 0 THEN 0
                          ELSE f[k - 1] + (IF k - 1 \in T THEN Power(2, k - 1) ELSE 0)]
    BY <2>1
  <2> QED
    BY <2>2
<1>5. (CHOOSE f : F(f)) = (CHOOSE f : G(f))
  <2> HIDE DEF F, G
  <2> QED
    BY <1>4
<1>6. (CHOOSE f : G(f))[DBits] \in Nat
  <2> HIDE DEF T
  <2> QED
    BY <1>2, BitSum
<1> HIDE DEF F, G
<1> QED
  BY <1>1, <1>5, <1>6

LEMMA FlagWordNat == ASSUME NEW f PROVE FlagWord(f) \in Nat
<1>1. DBits \in Nat
  BY WidthFacts
<1> QED
  BY <1>1, BitSum DEF FlagWord

\* The flags an operation leaves, from the operands it finds.
FlagsDue(m, i, op, w, dst, src) ==
  AluFlags(op, m.eflags, Get(m, i, dst, w), Get(m, i, src, w),
           IF CF \in m.eflags THEN 1 ELSE 0, HalfOf(w))

LEMMA AluOK ==
  ASSUME NEW m \in Machines, NEW i \in Parsed, NEW op \in Nat, NEW w \in Widths,
         NEW dst \in {"rm", "r", "acc"}, NEW src \in {"rm", "r", "acc", "imm"}
  PROVE  /\ Alu(m, i, op, w, dst, src) \in Machines
         /\ Alu(m, i, op, w, dst, src).eflags = FlagsDue(m, i, op, w, dst, src)
<1> DEFINE a == Get(m, i, dst, w)
           b == Get(m, i, src, w)
           c == IF CF \in m.eflags THEN 1 ELSE 0
           n == IF op \in {7, 8} THEN m ELSE Put(m, i, dst, w, Result(op, a, b, c))
           flags == AluFlags(op, m.eflags, a, b, c, HalfOf(w))
<1>1. a \in Int /\ b \in Int /\ c \in Int
  <2>1. a \in Fits(w) /\ (src # "imm" => b \in Fits(w)) /\ (src = "imm" => b \in Int)
    BY GetFits
  <2>2. Fits(w) \subseteq Int
    BY FitsInt
  <2> QED
    BY <2>1, <2>2
<1>2. m.eflags \in SUBSET Nat
  BY PartsOK
<1>3. Alu(m, i, op, w, dst, src) = [n EXCEPT !.eflags = AluFlags(op, n.eflags, a, b, c, HalfOf(w))]
  BY DEF Alu
<1> HIDE DEF a, b, c
<1>4. Result(op, a, b, c) \in Int
  <2>1. Bitwise(op, a, Addr(b)) \in Int
    BY BitwiseNat
  <2> QED
    BY <1>1, <2>1 DEF Result
<1>5. n \in Machines /\ n.eflags = m.eflags
  BY <1>4, PutOK
<1>6. flags \in SUBSET Nat
  BY <1>2, FlagsOK DEF AluFlags
<1> HIDE DEF n, flags
<1>7. [n EXCEPT !.eflags = flags] \in Machines /\ [n EXCEPT !.eflags = flags].eflags = flags
  BY <1>5, <1>6 DEF Machines
<1>8. Alu(m, i, op, w, dst, src) = [n EXCEPT !.eflags = flags]
  BY <1>3, <1>5 DEF flags
<1>9. flags = FlagsDue(m, i, op, w, dst, src)
  BY DEF flags, a, b, c, FlagsDue
<1> QED
  BY <1>7, <1>8, <1>9

\* A machine with one part replaced, and what is known of it.
LEMMA SetEax == EAX \in Registers /\ ECX \in Registers /\ EDX \in Registers /\ EBX \in Registers
                /\ ESP \in Registers /\ EBP \in Registers /\ ESI \in Registers /\ EDI \in Registers
                /\ 4 \in Registers /\ 1 \in Widths /\ 2 \in Widths /\ NB \in Widths
BY DEF EAX, ECX, EDX, EBX, ESP, EBP, ESI, EDI, Registers, Widths

LEMMA FieldsOK ==
  ASSUME NEW i \in Parsed
  PROVE  /\ Reg(i.modrm) \in Registers /\ RmOf(i.modrm) \in Registers
         /\ i.imm \in Int /\ i.disp \in Int /\ i.opcode \in Nat /\ i.moffs \in Nat
BY FieldsOf DEF Parsed

\* Flags set on what else was done.
LEMMA WithFlags ==
  ASSUME NEW n \in Machines, NEW f \in SUBSET Nat
  PROVE  [n EXCEPT !.eflags = f] \in Machines
BY DEF Machines

LEMMA BumpOK ==
  ASSUME NEW m \in Machines, NEW i \in Parsed, NEW n \in Registers, NEW by \in {1, -1}
  PROVE  BumpReg(m, n, by) \in Machines /\ BumpRm(m, i, by) \in Machines
<1>1. m.reg[n] + by \in Int
  <2>1. m.reg[n] \in Nat
    BY PartsOK
  <2> QED
    BY <2>1
<1>2. GetRm(m, i, NB) + by \in Int
  <2>1. GetRm(m, i, NB) \in Int
    BY SetEax, GetRmFits, FitsInt
  <2> QED
    BY <2>1
<1>3. \A x : BumpFlags(m.eflags, x, by) \in SUBSET Nat
  BY PartsOK, FlagsOK DEF BumpFlags
<1> DEFINE s == SetReg(m, n, NB, m.reg[n] + by)
           t == SetRm(m, i, NB, GetRm(m, i, NB) + by)
<1>4. s \in Machines /\ s.eflags = m.eflags
  BY <1>1, SetEax, SetRegOK
<1>7. t \in Machines /\ t.eflags = m.eflags
  BY <1>2, SetEax, SetRmOK
<1>5. BumpReg(m, n, by) = [s EXCEPT !.eflags = BumpFlags(s.eflags, m.reg[n], by)]
  BY DEF BumpReg
<1>6. BumpRm(m, i, by) = [t EXCEPT !.eflags = BumpFlags(t.eflags, GetRm(m, i, NB), by)]
  BY DEF BumpRm
<1> HIDE DEF s, t
<1> QED
  BY <1>3, <1>4, <1>5, <1>6, <1>7, WithFlags

LEMMA ShiftOK ==
  ASSUME NEW m \in Machines, NEW i \in Parsed, NEW w \in Widths, NEW c \in Nat
  PROVE  Shift(m, i, w, c) \in Machines
<1> DEFINE v == GetRm(m, i, w)
           n == 8 * w
           d == c % DBits
           left  == Shifted(v, d, n)
           right == v \div Power(2, d)
           sar   == WithSign(v, HalfOf(w)) \div Power(2, d)
<1>1. v \in Int /\ HalfOf(w) \in Nat \ {0} /\ n \in Nat
  BY GetRmFits, FitsInt, WidthFacts
<1>2. d \in Nat
  BY WidthFacts
<1>3. Power(2, d) \in Nat \ {0}
  BY <1>2, Powers
<1>4. WithSign(v, HalfOf(w)) \in Int
  BY <1>1, WithinWidth
<1> HIDE DEF v, n, d
<1>5. right \in Int /\ sar \in Int
  BY <1>1, <1>3, <1>4
<1>6. left \in Int
  <2>1. CASE d >= n
    BY <2>1 DEF Shifted
  <2>2. CASE ~(d >= n)
    <3>1. n - d \in Nat
      BY <1>1, <1>2, <2>2
    <3>2. Power(2, n - d) \in Nat \ {0}
      BY <3>1, Powers
    <3> DEFINE r == v % Power(2, n - d)
    <3>3. r \in Int
      BY <1>1, <3>2
    <3>4. left = r * Power(2, d)
      BY <2>2 DEF Shifted
    <3> HIDE DEF r, left
    <3> QED
      BY <1>3, <3>3, <3>4
  <2> QED
    BY <2>1, <2>2
<1> DEFINE sl == SetRm(m, i, w, left)
           sr == SetRm(m, i, w, right)
           fl == ShlFlags(sl.eflags, v, c, n, DBits)
           fr == ShrFlags(sr.eflags, v, c, n, DBits)
<1> HIDE DEF left, right, sar
<1>7. /\ sl \in Machines /\ sr \in Machines /\ SetRm(m, i, w, sar) \in Machines
      /\ sl.eflags \in SUBSET Nat /\ sr.eflags \in SUBSET Nat
  <2>1. /\ sl \in Machines /\ sr \in Machines /\ SetRm(m, i, w, sar) \in Machines
    BY <1>5, <1>6, SetRmOK
  <2> HIDE DEF sl, sr
  <2> QED
    BY <2>1, PartsOK
<1> HIDE DEF sl, sr
<1>8. fl \in SUBSET Nat /\ fr \in SUBSET Nat
  BY <1>7, FlagsOK
<1> HIDE DEF fl, fr
<1>9. [sl EXCEPT !.eflags = fl] \in Machines /\ [sr EXCEPT !.eflags = fr] \in Machines
  BY <1>7, <1>8, WithFlags
<1>10. Shift(m, i, w, c) \in {[sl EXCEPT !.eflags = fl], [sr EXCEPT !.eflags = fr], sl,
                              SetRm(m, i, w, sar), m}
  <2>1. Shift(m, i, w, c) =
          CASE Reg(i.modrm) = 4 -> [sl EXCEPT !.eflags = fl]
            [] Reg(i.modrm) = 5 -> [sr EXCEPT !.eflags = fr]
            [] Reg(i.modrm) = 6 -> sl
            [] Reg(i.modrm) = 7 -> SetRm(m, i, w, sar)
            [] OTHER -> m
    BY DEF Shift, sl, sr, fl, fr, left, right, sar, v, n, d
  <2> QED
    BY <2>1
<1> QED
  BY <1>7, <1>9, <1>10

LEMMA SetPairOK ==
  ASSUME NEW m \in Machines, NEW h \in Int, NEW l \in Int
  PROVE  SetPair(m, h, l) \in Machines /\ SetPair(m, h, l).eflags = m.eflags
<1> DEFINE n == SetReg(m, EAX, NB, l)
<1>1. n \in Machines /\ n.eflags = m.eflags
  BY SetEax, SetRegOK
<1>2. SetPair(m, h, l) = SetReg(n, EDX, NB, h)
  BY DEF SetPair
<1> HIDE DEF n
<1>3. EDX \in Registers /\ NB \in Widths
  BY SetEax
<1>4. SetReg(n, EDX, NB, h) \in Machines /\ SetReg(n, EDX, NB, h).eflags = n.eflags
  BY <1>1, <1>3, SetRegOK
<1> QED
  BY <1>1, <1>2, <1>4

LEMMA QuotientInt ==
  ASSUME NEW n \in Int, NEW d \in Int \ {0}
  PROVE  Quotient(n, d) \in Int /\ Remainder(n, d) \in Int
<1>1. Magnitude(n) \in Nat /\ Magnitude(d) \in Nat \ {0}
  BY DEF Magnitude
<1>2. Magnitude(n) \div Magnitude(d) \in Int
  BY <1>1
<1>3. Quotient(n, d) \in Int
  BY <1>2 DEF Quotient
<1>4. d * Quotient(n, d) \in Int
  BY <1>3
<1> QED
  BY <1>3, <1>4 DEF Remainder

LEMMA CrashOK == ASSUME NEW m \in Machines PROVE Crash(m) \in Machines
BY DEF Crash, Machines

\* The operands of products and quotients.
LEMMA Factors ==
  ASSUME NEW m \in Machines, NEW i \in Parsed
  PROVE  /\ \A w \in Widths : /\ GetRm(m, i, w) \in Nat
                              /\ \A v \in Widths : WithSign(GetRm(m, i, w), HalfOf(v)) \in Int
         /\ \A n \in Registers, w \in Widths :
              /\ GetReg(m, n, w) \in Nat
              /\ \A v \in Widths : WithSign(GetReg(m, n, w), HalfOf(v)) \in Int
         /\ \A n \in Registers : /\ m.reg[n] \in Nat /\ WithSign(m.reg[n], DHalf) \in Int
         /\ HalfOf(NB) = DHalf /\ DHalf \in Nat \ {0}
<1>1. \A v \in Widths : HalfOf(v) \in Nat \ {0}
  BY FitsInt
<1>2. DHalf = HalfOf(NB) /\ DHalf \in Nat \ {0}
  BY WidthFacts
<1>3. ASSUME NEW w \in Widths PROVE GetRm(m, i, w) \in Nat /\ \A n \in Registers : GetReg(m, n, w) \in Nat
  BY GetRmFits, GetRegFits, FitsInt
<1>4. \A n \in Registers : m.reg[n] \in Nat
  BY PartsOK
<1>5. \A x \in Nat, v \in Widths : WithSign(x, HalfOf(v)) \in Int
  BY <1>1, WithinWidth
<1>6. \A x \in Nat : WithSign(x, DHalf) \in Int
  BY <1>2, WithinWidth
<1> QED
  BY <1>2, <1>3, <1>4, <1>5, <1>6

\* A register set to a value, and flags.
LEMMA SetRegFlags ==
  ASSUME NEW m \in Machines, NEW n \in Registers, NEW w \in Widths, NEW v \in Int,
         NEW f, f \in SUBSET Nat
  PROVE  [SetReg(m, n, w, v) EXCEPT !.eflags = f] \in Machines
BY SetRegOK, WithFlags

LEMMA MulOK ==
  ASSUME NEW m \in Machines, NEW i \in Parsed
  PROVE  Mul8(m, i) \in Machines /\ Imul8(m, i) \in Machines /\ Mul32(m, i) \in Machines
         /\ Imul32(m, i) \in Machines
<1> USE SetEax
<1>0. \A a, b, H : MulFlags(m.eflags, a, b, H) \in SUBSET Nat /\ ImulFlags(m.eflags, a, b, H) \in SUBSET Nat
  BY PartsOK, FlagsOK
<1>1. Mul8(m, i) \in Machines
  <2> DEFINE a == GetReg(m, EAX, 1)
             b == GetRm(m, i, 1)
             n == SetReg(m, EAX, 2, a * b)
  <2>1. a \in Int /\ b \in Int
    BY Factors
  <2>2. Mul8(m, i) = [n EXCEPT !.eflags = MulFlags(n.eflags, a, b, HalfOf(1))]
    BY DEF Mul8
  <2> HIDE DEF a, b
  <2>3. a * b \in Int
    BY <2>1
  <2>4. n \in Machines /\ n.eflags = m.eflags
    BY <2>3, SetRegOK
  <2> HIDE DEF n
  <2> QED
    BY <1>0, <2>2, <2>4, WithFlags
<1>2. Imul8(m, i) \in Machines
  <2> DEFINE a == WithSign(GetReg(m, EAX, 1), HalfOf(1))
             b == WithSign(GetRm(m, i, 1), HalfOf(1))
             n == SetReg(m, EAX, 2, a * b)
  <2>1. a \in Int /\ b \in Int
    BY Factors
  <2>2. Imul8(m, i) = [n EXCEPT !.eflags = ImulFlags(n.eflags, a, b, HalfOf(1))]
    BY DEF Imul8
  <2> HIDE DEF a, b
  <2>3. a * b \in Int
    BY <2>1
  <2>4. n \in Machines /\ n.eflags = m.eflags
    BY <2>3, SetRegOK
  <2> HIDE DEF n
  <2> QED
    BY <1>0, <2>2, <2>4, WithFlags
<1>3. Mul32(m, i) \in Machines
  <2> DEFINE a == m.reg[EAX]
             b == GetRm(m, i, NB)
             n == SetPair(m, 0, a * b)
  <2>1. a \in Int /\ b \in Int
    BY Factors
  <2>2. Mul32(m, i) = [n EXCEPT !.eflags = MulFlags(n.eflags, a, b, DHalf)]
    BY DEF Mul32
  <2> HIDE DEF a, b
  <2>3. a * b \in Int /\ 0 \in Int
    BY <2>1
  <2>4. n \in Machines /\ n.eflags = m.eflags
    BY <2>3, SetPairOK
  <2> HIDE DEF n
  <2> QED
    BY <1>0, <2>2, <2>4, WithFlags
<1>4. Imul32(m, i) \in Machines
  <2> DEFINE a == WithSign(m.reg[EAX], DHalf)
             b == WithSign(GetRm(m, i, NB), DHalf)
             h == IF Sign(a * b, DHalf) THEN -1 ELSE 0
             n == SetPair(m, h, a * b)
  <2>1. a \in Int /\ b \in Int
    BY Factors
  <2>2. Imul32(m, i) = [n EXCEPT !.eflags = ImulFlags(n.eflags, a, b, DHalf)]
    BY DEF Imul32
  <2> HIDE DEF a, b
  <2>3. a * b \in Int /\ h \in Int
    BY <2>1
  <2> HIDE DEF h
  <2>4. n \in Machines /\ n.eflags = m.eflags
    BY <2>3, SetPairOK
  <2> HIDE DEF n
  <2> QED
    BY <1>0, <2>2, <2>4, WithFlags
<1> QED
  BY <1>1, <1>2, <1>3, <1>4

LEMMA DivOK ==
  ASSUME NEW m \in Machines, NEW i \in Parsed
  PROVE  Div8(m, i) \in Machines /\ Idiv8(m, i) \in Machines /\ Div32(m, i) \in Machines
         /\ Idiv32(m, i) \in Machines
<1> USE SetEax
<1>0. \A x, y \in Int : SetReg(SetReg(m, EAX, 1, x), 4, 1, y) \in Machines /\ SetPair(m, y, x) \in Machines
  BY SetRegOK, SetPairOK
<1>1. Div8(m, i) \in Machines
  <2> DEFINE d == GetRm(m, i, 1)
             ax == GetReg(m, EAX, 2)
  <2>1. d \in Nat /\ ax \in Nat
    BY Factors
  <2>2. Div8(m, i) = IF d = 0 THEN Crash(m) ELSE SetReg(SetReg(m, EAX, 1, ax \div d), 4, 1, ax % d)
    BY DEF Div8
  <2> HIDE DEF d, ax
  <2>3. d # 0 => ax \div d \in Int /\ ax % d \in Int
    BY <2>1
  <2> QED
    BY <1>0, <2>2, <2>3, CrashOK
<1>2. Idiv8(m, i) \in Machines
  <2> DEFINE d == WithSign(GetRm(m, i, 1), HalfOf(1))
             ax == WithSign(GetReg(m, EAX, 2), HalfOf(2))
  <2>1. d \in Int /\ ax \in Int
    BY Factors
  <2>2. Idiv8(m, i) = IF d = 0 THEN Crash(m)
                      ELSE SetReg(SetReg(m, EAX, 1, Quotient(ax, d)), 4, 1, Remainder(ax, d))
    BY DEF Idiv8
  <2> HIDE DEF d, ax
  <2>3. d # 0 => Quotient(ax, d) \in Int /\ Remainder(ax, d) \in Int
    BY <2>1, QuotientInt
  <2> QED
    BY <1>0, <2>2, <2>3, CrashOK
<1>3. Div32(m, i) \in Machines
  <2> DEFINE d == GetRm(m, i, NB)
             n == m.reg[EDX] * (2 * DHalf) + m.reg[EAX]
  <2>1. d \in Nat /\ m.reg[EDX] \in Nat /\ m.reg[EAX] \in Nat /\ DHalf \in Nat
    BY Factors
  <2>2. Div32(m, i) = IF d = 0 THEN m ELSE SetPair(m, n % d, n \div d)
    BY DEF Div32
  <2> HIDE DEF d
  <2>3. n \in Int
    BY <2>1
  <2> HIDE DEF n
  <2>4. d # 0 => n \div d \in Int /\ n % d \in Int
    BY <2>1, <2>3
  <2> QED
    BY <1>0, <2>2, <2>4
<1>4. Idiv32(m, i) \in Machines
  <2> DEFINE d == WithSign(GetRm(m, i, NB), DHalf)
             h == WithSign(m.reg[EDX], DHalf)
             n == h * (2 * DHalf) + m.reg[EAX]
  <2>1. d \in Int /\ h \in Int /\ m.reg[EAX] \in Nat /\ DHalf \in Nat
    BY Factors
  <2>2. Idiv32(m, i) = CASE d = 0 -> m
                         [] d = -1 /\ m.reg[EDX] = DHalf /\ m.reg[EAX] = 0 -> Crash(m)
                         [] OTHER -> SetPair(m, Remainder(n, d), Quotient(n, d))
    BY DEF Idiv32
  <2> HIDE DEF d, h
  <2>3. n \in Int
    BY <2>1
  <2> HIDE DEF n
  <2>4. d # 0 => Quotient(n, d) \in Int /\ Remainder(n, d) \in Int
    BY <2>1, <2>3, QuotientInt
  <2>5. d # 0 => SetPair(m, Remainder(n, d), Quotient(n, d)) \in Machines
    BY <1>0, <2>4
  <2> QED
    BY <2>2, <2>5, CrashOK
<1> QED
  BY <1>1, <1>2, <1>3, <1>4

LEMMA ImulOK ==
  ASSUME NEW m \in Machines, NEW i \in Parsed
  PROVE  ImulImm(m, i) \in Machines /\ ImulReg(m, i) \in Machines
<1> USE SetEax
<1>0. \A a, b, H : ImulFlags(m.eflags, a, b, H) \in SUBSET Nat
  BY PartsOK, FlagsOK
<1>1. Reg(i.modrm) \in Registers /\ i.imm \in Int
  BY FieldsOK
<1>2. ImulImm(m, i) \in Machines
  <2> DEFINE v == WithSign(GetRm(m, i, NB), DHalf)
             n == SetReg(m, Reg(i.modrm), NB, v * i.imm)
  <2>1. v \in Int
    BY Factors
  <2>2. ImulImm(m, i) = [n EXCEPT !.eflags = ImulFlags(n.eflags, v, i.imm, DHalf)]
    BY DEF ImulImm
  <2> HIDE DEF v
  <2>3. v * i.imm \in Int
    BY <1>1, <2>1
  <2>4. n \in Machines /\ n.eflags = m.eflags
    BY <1>1, <2>3, SetRegOK
  <2> HIDE DEF n
  <2> QED
    BY <1>0, <2>2, <2>4, WithFlags
<1>3. ImulReg(m, i) \in Machines
  <2> DEFINE a == WithSign(GetReg(m, Reg(i.modrm), NB), HalfOf(2))
             b == WithSign(GetRm(m, i, NB), HalfOf(2))
             n == SetReg(m, Reg(i.modrm), NB, a * b)
  <2>1. a \in Int /\ b \in Int
    BY <1>1, Factors
  <2>2. ImulReg(m, i) = [n EXCEPT !.eflags = ImulFlags(n.eflags, a, b, HalfOf(2))]
    BY DEF ImulReg
  <2> HIDE DEF a, b
  <2>3. a * b \in Int
    BY <2>1
  <2>4. n \in Machines /\ n.eflags = m.eflags
    BY <1>1, <2>3, SetRegOK
  <2> HIDE DEF n
  <2> QED
    BY <1>0, <2>2, <2>4, WithFlags
<1> QED
  BY <1>2, <1>3

LEMMA UnaryOK ==
  ASSUME NEW m \in Machines, NEW i \in Parsed, NEW w \in Widths
  PROVE  TestImm(m, i, w) \in Machines /\ Not(m, i, w) \in Machines /\ Neg(m, i, w) \in Machines
<1>1. GetRm(m, i, w) \in Nat /\ w \in Int
  BY Factors, WidthFacts
<1>2. TestImm(m, i, w) \in Machines
  <2> DEFINE r == Bitwise(8, GetRm(m, i, w), GetData(m.arena, m.eip, w))
             n == Jump(m, w)
             f == LogicFlags(n.eflags, r, HalfOf(w))
  <2>1. TestImm(m, i, w) = [n EXCEPT !.eflags = f]
    BY DEF TestImm
  <2>2. n \in Machines
    BY <1>1, JumpOK
  <2> HIDE DEF n
  <2>3. f \in SUBSET Nat
    BY <2>2, PartsOK, FlagsOK
  <2> HIDE DEF f
  <2> QED
    BY <2>1, <2>2, <2>3, WithFlags
<1>3. Not(m, i, w) \in Machines
  <2>1. -1 - GetRm(m, i, w) \in Int
    BY <1>1
  <2> QED
    BY <2>1, SetRmOK DEF Not
<1>4. Neg(m, i, w) \in Machines
  <2> DEFINE v == GetRm(m, i, w)
             n == SetRm(m, i, w, -v)
             f == SubFlags(n.eflags, 0, v, HalfOf(w))
  <2>1. Neg(m, i, w) = [n EXCEPT !.eflags = f]
    BY DEF Neg
  <2>2. -v \in Int
    BY <1>1
  <2> HIDE DEF v
  <2>3. n \in Machines
    BY <2>2, SetRmOK
  <2> HIDE DEF n
  <2>4. f \in SUBSET Nat
    BY <2>3, PartsOK, FlagsOK
  <2> HIDE DEF f
  <2> QED
    BY <2>1, <2>3, <2>4, WithFlags
<1> QED
  BY <1>2, <1>3, <1>4

LEMMA CodeF6OK ==
  ASSUME NEW m \in Machines, NEW i \in Parsed
  PROVE  CodeF6(m, i) \in Machines /\ CodeF7(m, i) \in Machines
<1>1. Reg(i.modrm) \in 0 .. 7
  BY FieldsOK DEF Registers
<1>2. \A w \in {1, NB} : /\ TestImm(m, i, w) \in Machines /\ Not(m, i, w) \in Machines
                         /\ Neg(m, i, w) \in Machines
  BY SetEax, UnaryOK
<1>3. /\ Mul8(m, i) \in Machines /\ Imul8(m, i) \in Machines /\ Mul32(m, i) \in Machines
      /\ Imul32(m, i) \in Machines
      /\ Div8(m, i) \in Machines /\ Idiv8(m, i) \in Machines /\ Div32(m, i) \in Machines
      /\ Idiv32(m, i) \in Machines
  BY MulOK, DivOK
<1>4. CodeF6(m, i) \in Machines
  BY <1>1, <1>2, <1>3 DEF CodeF6
<1>5. CodeF7(m, i) \in Machines
  BY <1>1, <1>2, <1>3 DEF CodeF7
<1> QED
  BY <1>4, <1>5

LEMMA XchgOK ==
  ASSUME NEW m \in Machines, NEW i \in Parsed
  PROVE  XchgEax(m, i) \in Machines /\ \A w \in Widths : Xchg(m, i, w) \in Machines
<1> DEFINE r == Reg(i.modrm)
<1>1. r \in Registers /\ EAX \in Registers /\ NB \in Widths
  BY FieldsOK, SetEax
<1>2. ASSUME NEW w \in Widths PROVE Xchg(m, i, w) \in Machines
  <2> DEFINE n == SetReg(m, r, w, GetRm(m, i, w))
  <2>1. GetRm(m, i, w) \in Int /\ GetReg(m, r, w) \in Int
    BY <1>1, Factors
  <2>2. Xchg(m, i, w) = SetRm(n, i, w, GetReg(m, r, w))
    BY DEF Xchg
  <2> HIDE DEF r
  <2>3. n \in Machines
    BY <1>1, <2>1, SetRegOK
  <2> HIDE DEF n
  <2> QED
    BY <2>1, <2>2, <2>3, SetRmOK
<1>3. XchgEax(m, i) \in Machines
  <2> DEFINE n == SetReg(m, r, NB, m.reg[EAX])
  <2>1. m.reg[EAX] \in Int /\ m.reg[r] \in Int
    BY <1>1, Factors
  <2>2. XchgEax(m, i) = SetReg(n, EAX, NB, m.reg[r])
    BY DEF XchgEax
  <2> HIDE DEF r
  <2>3. n \in Machines
    BY <1>1, <2>1, SetRegOK
  <2> HIDE DEF n
  <2> QED
    BY <1>1, <2>1, <2>2, <2>3, SetRegOK
<1> QED
  BY <1>2, <1>3

LEMMA MovOK ==
  ASSUME NEW m \in Machines, NEW i \in Parsed, NEW w \in Widths
  PROVE  i.opcode \in (136 .. 139) \cup (160 .. 163) \cup {198, 199} => MovFamily(m, i, w) \in Machines
<1>1. Reg(i.modrm) \in Registers /\ EAX \in Registers /\ i.imm \in Int /\ i.moffs \in Int
  BY FieldsOK, SetEax
<1>2. GetRm(m, i, w) \in Int /\ GetReg(m, Reg(i.modrm), w) \in Int /\ GetReg(m, EAX, w) \in Int
  BY <1>1, Factors
<1>3. GetData(m.arena, i.moffs, w) \in Int
  <2>1. m.arena \in Arena /\ w \in Nat
    BY WidthFacts DEF Machines
  <2>2. GetData(m.arena, i.moffs, w) \in Nat
    BY <1>1, <2>1, GetDataFits
  <2> QED
    BY <2>2
<1>4. /\ SetRm(m, i, w, GetReg(m, Reg(i.modrm), w)) \in Machines
      /\ SetReg(m, Reg(i.modrm), w, GetRm(m, i, w)) \in Machines
      /\ SetRm(m, i, w, i.imm) \in Machines
      /\ SetReg(m, EAX, w, GetData(m.arena, i.moffs, w)) \in Machines
      /\ PutData(m, i.moffs, w, GetReg(m, EAX, w)) \in Machines
  BY <1>1, <1>2, <1>3, SetRmOK, SetRegOK, PutDataOK
<1> QED
  BY <1>4 DEF MovFamily

LEMMA MovesOK ==
  ASSUME NEW m \in Machines, NEW i \in Parsed
  PROVE  /\ Lea(m, i) \in Machines /\ Cwde(m) \in Machines /\ Cdq(m) \in Machines
         /\ Extend(m, i) \in Machines /\ SetCc(m, i) \in Machines /\ Jcc(m, i) \in Machines
         /\ Interrupt(m, i) \in Machines
<1>1. /\ Reg(i.modrm) \in Registers /\ RmOf(i.modrm) \in Registers /\ EAX \in Registers
      /\ EDX \in Registers /\ NB \in Widths /\ 2 \in Widths /\ 1 \in Widths
      /\ i.imm \in Int /\ CalcModRm(m, i) \in Int
  BY FieldsOK, SetEax, CalcIs
<1>2. Lea(m, i) \in Machines
  BY <1>1, SetRegOK DEF Lea
<1>3. Cwde(m) \in Machines
  <2>1. WithSign(GetReg(m, EAX, 2), HalfOf(2)) \in Int
    BY <1>1, Factors
  <2> QED
    BY <1>1, <2>1, SetRegOK DEF Cwde
<1>4. Cdq(m) \in Machines
  <2>1. -1 \in Int /\ 0 \in Int
    OBVIOUS
  <2>2. SetReg(m, EDX, NB, -1) \in Machines /\ SetReg(m, EDX, NB, 0) \in Machines
    BY <1>1, <2>1, SetRegOK
  <2> QED
    BY <2>2 DEF Cdq
<1>5. Extend(m, i) \in Machines
  <2> DEFINE w == IF i.opcode \in {Two(182), Two(190)} THEN 1 ELSE 2
             v == GetRm(m, i, w)
             x == IF i.opcode < Two(190) THEN v ELSE WithSign(v, HalfOf(w))
  <2>1. w \in Widths
    BY <1>1
  <2>2. Extend(m, i) = SetReg(m, Reg(i.modrm), NB, x)
    BY DEF Extend
  <2> HIDE DEF w
  <2>3. v \in Int /\ WithSign(v, HalfOf(w)) \in Int
    BY <2>1, Factors
  <2>4. x \in Int
    BY <2>3
  <2> HIDE DEF x
  <2> QED
    BY <1>1, <2>2, <2>4, SetRegOK
<1>6. SetCc(m, i) \in Machines
  <2>1. SetReg(m, RmOf(i.modrm), NB, 1) \in Machines /\ SetReg(m, RmOf(i.modrm), NB, 0) \in Machines
    BY <1>1, SetRegOK
  <2> QED
    BY <2>1 DEF SetCc
<1>7. Jcc(m, i) \in Machines
  BY <1>1, JumpOK DEF Jcc
<1>8. Interrupt(m, i) \in Machines
  BY PartsOK DEF Interrupt
<1> QED
  BY <1>2, <1>3, <1>4, <1>5, <1>6, <1>7, <1>8

LEMMA PushAllOK == ASSUME NEW m \in Machines PROVE PushAll(m) \in Machines
<1> DEFINE r == m.reg
           t == <<r[EAX], r[ECX], r[EDX], r[EBX], r[ESP], r[EBP], r[ESI], r[EDI]>>
<1>1. /\ r[EAX] \in Word /\ r[ECX] \in Word /\ r[EDX] \in Word /\ r[EBX] \in Word
      /\ r[ESP] \in Word /\ r[EBP] \in Word /\ r[ESI] \in Word /\ r[EDI] \in Word
  BY PartsOK, SetEax
<1>2. t \in Seq(Word)
  BY <1>1
<1>3. m.stack \in Seq(Word)
  BY PartsOK
<1>4. PushAll(m) = [m EXCEPT !.stack = m.stack \o t]
  BY DEF PushAll, Machines
<1> HIDE DEF t
<1>5. m.stack \o t \in Seq(Word)
  BY <1>2, <1>3
<1> QED
  BY <1>4, <1>5, PartsOK

LEMMA PopAllOK == ASSUME NEW m \in Machines PROVE PopAll(m) \in Machines
<1> DEFINE a    == PopTo(m, EDI)
           b    == PopTo(a, ESI)
           low  == PopTo(b, EBP)
           c    == PopTo(Drop(low), EBX)
           d    == PopTo(c, EDX)
           e    == PopTo(d, ECX)
           high == PopTo(e, EAX)
<1>1. PopAll(m) = SetReg(high, ESP, NB, Top(low))
  BY DEF PopAll
<1>2. a \in Machines
  BY SetEax, StackOK
<1> HIDE DEF a
<1>3. b \in Machines
  BY <1>2, SetEax, StackOK
<1> HIDE DEF b
<1>4. low \in Machines
  BY <1>3, SetEax, StackOK
<1> HIDE DEF low
<1>5. Drop(low) \in Machines /\ Top(low) \in Int
  BY <1>4, StackOK
<1>6. c \in Machines
  BY <1>5, SetEax, StackOK
<1> HIDE DEF c
<1>7. d \in Machines
  BY <1>6, SetEax, StackOK
<1> HIDE DEF d
<1>8. e \in Machines
  BY <1>7, SetEax, StackOK
<1> HIDE DEF e
<1>9. high \in Machines
  BY <1>8, SetEax, StackOK
<1> HIDE DEF high
<1> QED
  BY <1>1, <1>5, <1>9, SetEax, SetRegOK

LEMMA StacksOK ==
  ASSUME NEW m \in Machines
  PROVE  /\ PushFlags(m) \in Machines /\ PopFlags(m) \in Machines
         /\ Leave(m) \in Machines /\ Ret(m) \in Machines
         /\ \A to \in Int : Call(m, to) \in Machines
<1>1. PushFlags(m) \in Machines
  <2>1. FlagWord(m.eflags) \in Int
    BY FlagWordNat
  <2> QED
    BY <2>1, StackOK DEF PushFlags
<1>2. Drop(m) \in Machines /\ Top(m) \in Nat
  BY StackOK
<1>3. PopFlags(m) \in Machines
  <2> DEFINE f == {k \in 0 .. DBits - 1 : Bit(Top(m), k)}
  <2>1. f \in SUBSET Nat
    BY WidthFacts
  <2>2. PopFlags(m) = [Drop(m) EXCEPT !.eflags = f]
    BY DEF PopFlags
  <2> HIDE DEF f
  <2> QED
    BY <1>2, <2>1, <2>2, WithFlags
<1>4. Ret(m) \in Machines
  <2> DEFINE n == Drop(m)
  <2>1. Ret(m) = [n EXCEPT !.eip = Top(m)]
    BY DEF Ret
  <2>2. n \in Machines
    BY <1>2
  <2> HIDE DEF n
  <2> QED
    BY <1>2, <2>1, <2>2, PartsOK
<1>5. Leave(m) \in Machines
  <2> DEFINE n == SetReg(m, ESP, NB, m.reg[EBP])
  <2>1. m.reg[EBP] \in Int
    <3>1. EBP \in Registers
      BY SetEax
    <3>2. m.reg[EBP] \in Nat
      BY <3>1, PartsOK
    <3> QED
      BY <3>2
  <2>2. n \in Machines
    BY <2>1, SetEax, SetRegOK
  <2>3. Leave(m) = PopTo(n, EBP)
    BY DEF Leave
  <2> HIDE DEF n
  <2> QED
    BY <2>2, <2>3, SetEax, StackOK
<1>6. ASSUME NEW to \in Int PROVE Call(m, to) \in Machines
  <2> DEFINE n == Push(m, m.eip)
  <2>1. n \in Machines
    <3>1. m.eip \in Int
      BY DEF Machines
    <3> QED
      BY <3>1, StackOK
  <2>2. Call(m, to) = [n EXCEPT !.eip = Addr(to)]
    BY DEF Call
  <2> HIDE DEF n
  <2>3. Addr(to) \in Nat
    BY AddrIs
  <2> QED
    BY <2>1, <2>2, <2>3, PartsOK
<1> QED
  BY <1>1, <1>3, <1>4, <1>5, <1>6

LEMMA CompareOK ==
  ASSUME NEW m \in Machines, NEW i \in Parsed, NEW w \in Widths
  PROVE  Compare(m, i, w) \in Machines
<1>1. ASSUME NEW x \in Machines PROVE CompareOnce(x, w) \in Machines
  <2> DEFINE f == SubFlags(x.eflags, GetData(x.arena, x.reg[ESI], w),
                           GetData(x.arena, x.reg[EDI], w), HalfOf(w))
             by == IF DF \in f THEN -1 ELSE 1
             n == SetReg(x, ESI, NB, by)
             k == SetReg(n, EDI, NB, by)
  <2>1. CompareOnce(x, w) = [k EXCEPT !.eflags = f]
    BY DEF CompareOnce
  <2>2. f \in SUBSET Nat /\ by \in Int
    <3>1. x.eflags \in SUBSET Nat
      BY DEF Machines
    <3>2. f \in SUBSET Nat
      BY <3>1, FlagsOK
    <3> HIDE DEF f
    <3> QED
      BY <3>2
  <2> HIDE DEF f, by
  <2>3. n \in Machines
    BY <2>2, SetEax, SetRegOK
  <2> HIDE DEF n
  <2>4. k \in Machines
    BY <2>2, <2>3, SetEax, SetRegOK
  <2> HIDE DEF k
  <2> QED
    BY <2>1, <2>2, <2>4, WithFlags
<1> DEFINE once == CompareOnce(m, w)
           counted == SetReg(once, ECX, NB, -1)
<1>2. once \in Machines
  BY <1>1
<1>3. Compare(m, i, w) =
        CASE i.repeat = 0 -> once
          [] i.repeat = 1 /\ ZF \in once.eflags -> [once EXCEPT !.fate = "hung"]
          [] i.repeat = 2 /\ ZF \notin once.eflags -> CompareOnce(counted, w)
          [] OTHER -> counted
  BY DEF Compare
<1> HIDE DEF once
<1>4. counted \in Machines
  <2>1. -1 \in Int
    OBVIOUS
  <2> QED
    BY <1>2, <2>1, SetEax, SetRegOK
<1> HIDE DEF counted
<1>5. CompareOnce(counted, w) \in Machines /\ [once EXCEPT !.fate = "hung"] \in Machines
  BY <1>1, <1>2, <1>4, PartsOK
<1> QED
  BY <1>2, <1>3, <1>4, <1>5

LEMMA CodeFfOK ==
  ASSUME NEW m \in Machines, NEW i \in Parsed
  PROVE  CodeFf(m, i) \in Machines
<1>1. GetRm(m, i, NB) \in Nat
  BY SetEax, Factors
<1>2. BumpRm(m, i, 1) \in Machines /\ BumpRm(m, i, -1) \in Machines
  BY SetEax, BumpOK
<1>3. CallRm(m, i) \in Machines /\ JmpRm(m, i) \in Machines /\ PushRm(m, i) \in Machines
  <2>1. CallRm(m, i) \in Machines
    BY <1>1, StacksOK DEF CallRm
  <2>2. JmpRm(m, i) \in Machines
    BY <1>1, PartsOK DEF JmpRm
  <2>3. PushRm(m, i) \in Machines
    BY <1>1, StackOK DEF PushRm
  <2> QED
    BY <2>1, <2>2, <2>3
<1> QED
  BY <1>2, <1>3 DEF CodeFf

LEMMA ByteForms ==
  ASSUME NEW m \in Machines, NEW i \in Parsed
  PROVE  /\ i.opcode % 8 \in {0, 2, 4} => Family8(m, i) \in Machines
         /\ i.opcode % 8 \in {1, 3, 5} => Family32(m, i) \in Machines
         /\ Code80(m, i) \in Machines /\ Code81(m, i) \in Machines /\ Code83(m, i) \in Machines
<1>1. i.opcode \div 8 \in Nat /\ Reg(i.modrm) \in Nat
  BY FieldsOK DEF Registers
<1>2. ASSUME NEW op \in Nat, NEW w \in {1, NB}
      PROVE  /\ Alu(m, i, op, w, "rm", "r") \in Machines /\ Alu(m, i, op, w, "r", "rm") \in Machines
             /\ Alu(m, i, op, w, "acc", "imm") \in Machines /\ Alu(m, i, op, w, "rm", "imm") \in Machines
  BY SetEax, AluOK
<1>3. i.opcode % 8 \in {0, 2, 4} => Family8(m, i) \in Machines
  BY <1>1, <1>2 DEF Family8
<1>4. i.opcode % 8 \in {1, 3, 5} => Family32(m, i) \in Machines
  BY <1>1, <1>2 DEF Family32
<1>5. Code80(m, i) \in Machines /\ Code81(m, i) \in Machines /\ Code83(m, i) \in Machines
  BY <1>1, <1>2 DEF Code80, Code81, Code83
<1> QED
  BY <1>3, <1>4, <1>5

LEMMA ExecLowOK ==
  ASSUME NEW m \in Machines, NEW i \in Parsed
  PROVE  ExecLow(m, i, i.opcode) \in Machines
<1> DEFINE op == i.opcode
<1>1. op \in Nat /\ op % 8 \in Registers /\ i.imm \in Int
  BY FieldsOK DEF Registers
<1>2. /\ BumpReg(m, op % 8, 1) \in Machines /\ BumpReg(m, op % 8, -1) \in Machines
  BY <1>1, BumpOK
<1>3. /\ Push(m, m.reg[op % 8]) \in Machines /\ PopTo(m, op % 8) \in Machines /\ Push(m, i.imm) \in Machines
  <2>1. m.reg[op % 8] \in Int
    BY <1>1, Factors
  <2> QED
    BY <1>1, <2>1, StackOK
<1>4. PushAll(m) \in Machines /\ PopAll(m) \in Machines /\ ImulImm(m, i) \in Machines
  BY PushAllOK, PopAllOK, ImulOK
<1>5. /\ op % 8 \in {0, 2, 4} => Family8(m, i) \in Machines
      /\ op % 8 \in {1, 3, 5} => Family32(m, i) \in Machines
  BY ByteForms
<1> HIDE DEF op
<1>6. ExecLow(m, i, op) \in Machines
  BY <1>2, <1>3, <1>4, <1>5, Zenon DEF ExecLow
<1> QED
  BY <1>6 DEF op

LEMMA ExecMiddleOK ==
  ASSUME NEW m \in Machines, NEW i \in Parsed
  PROVE  ExecMiddle(m, i, i.opcode) \in Machines
<1> DEFINE op == i.opcode
           w  == WidthOf(op)
<1>1. w \in Widths
  BY SetEax DEF WidthOf
<1>2. Jcc(m, i) \in Machines /\ Lea(m, i) \in Machines /\ Cwde(m) \in Machines /\ Cdq(m) \in Machines
  BY MovesOK
<1>3. Code80(m, i) \in Machines /\ Code81(m, i) \in Machines /\ Code83(m, i) \in Machines
  BY ByteForms
<1>4. Alu(m, i, 8, w, "rm", "r") \in Machines
  BY <1>1, AluOK
<1>5. Xchg(m, i, w) \in Machines /\ XchgEax(m, i) \in Machines
  BY <1>1, XchgOK
<1>6. op \in 136 .. 139 => MovFamily(m, i, w) \in Machines
  BY <1>1, MovOK
<1>7. PushFlags(m) \in Machines /\ PopFlags(m) \in Machines
  BY StacksOK
<1> HIDE DEF op
<1>8. ExecMiddle(m, i, op) \in Machines
  BY <1>2, <1>3, <1>4, <1>5, <1>6, <1>7, Zenon DEF ExecMiddle
<1> QED
  BY <1>8 DEF op

LEMMA ExecHighOK ==
  ASSUME NEW m \in Machines, NEW i \in Parsed
  PROVE  ExecHigh(m, i, i.opcode) \in Machines
<1> DEFINE op == i.opcode
           w  == WidthOf(op)
<1>1. w \in Widths /\ op % 8 \in Registers /\ i.imm \in Int
  BY SetEax, FieldsOK DEF WidthOf, Registers
<1>2. op \in (160 .. 163) \cup {198, 199} => MovFamily(m, i, w) \in Machines
  BY <1>1, MovOK
<1>3. Compare(m, i, w) \in Machines /\ Alu(m, i, 8, w, "acc", "imm") \in Machines
  BY <1>1, CompareOK, AluOK
<1>4. SetReg(m, op % 8, 1, i.imm) \in Machines /\ SetReg(m, op % 8, NB, i.imm) \in Machines
  BY <1>1, SetEax, SetRegOK
<1>5. Shift(m, i, w, i.imm % 256) \in Machines /\ Shift(m, i, NB, GetReg(m, ECX, 1)) \in Machines
  <2>1. i.imm % 256 \in Nat /\ GetReg(m, ECX, 1) \in Nat
    BY <1>1, SetEax, Factors
  <2> QED
    BY <1>1, <2>1, SetEax, ShiftOK
<1>6. Ret(m) \in Machines /\ Leave(m) \in Machines /\ Halt(m) \in Machines /\ Interrupt(m, i) \in Machines
  BY StacksOK, PartsOK, MovesOK
<1>7. Call(m, m.eip + i.imm) \in Machines /\ Jump(m, i.imm) \in Machines
  <2>1. m.eip + i.imm \in Int
    <3>1. m.eip \in Nat
      BY DEF Machines
    <3> QED
      BY <1>1, <3>1
  <2> QED
    BY <1>1, <2>1, StacksOK, JumpOK
<1>8. CodeF6(m, i) \in Machines /\ CodeF7(m, i) \in Machines /\ CodeFf(m, i) \in Machines
  BY CodeF6OK, CodeFfOK
<1> HIDE DEF op
<1>9. ExecHigh(m, i, op) \in Machines
  BY <1>2, <1>3, <1>4, <1>5, <1>6, <1>7, <1>8, Zenon DEF ExecHigh
<1> QED
  BY <1>9 DEF op

\* Whatever instruction it is, the registers, the stack and the arena hold double words
\* and bytes afterwards.
LEMMA ExecOK == ASSUME NEW m \in Machines, NEW i \in Parsed PROVE Exec(m, i) \in Machines
<1>1. \A op : ExecTwo(m, i, op) \in Machines
  <2>1. Jcc(m, i) \in Machines /\ SetCc(m, i) \in Machines /\ Extend(m, i) \in Machines
        /\ ImulReg(m, i) \in Machines
    BY MovesOK, ImulOK
  <2> QED
    BY <2>1, Zenon DEF ExecTwo
<1> QED
  BY <1>1, ExecLowOK, ExecMiddleOK, ExecHighOK, Zenon DEF Exec

LEMMA StepOK ==
  ASSUME NEW m \in Machines, NEW old \in [modrm : Byte, sib : Byte, repeat : 0 .. 3]
  PROVE  Step(m, old) \in Machines
<1> DEFINE i == Parse(m.arena, m.eip, old)
           n == [m EXCEPT !.eip = i.next]
<1>1. i \in Parsed
  BY ParsedIs DEF Machines
<1>2. n \in Machines
  <2>1. i.next \in Nat
    BY <1>1, WidthFacts DEF Parsed, Word
  <2> HIDE DEF i
  <2> QED
    BY <2>1, PartsOK
<1>3. Step(m, old) = Exec(n, i)
  BY DEF Step
<1> HIDE DEF i, n
<1> QED
  BY <1>1, <1>2, <1>3, ExecOK

\* An operand does not depend on EIP.
LEMMA SameOperands ==
  ASSUME NEW m \in Machines, NEW n, n.reg = m.reg, n.arena = m.arena, NEW i, NEW o, NEW w
  PROVE  Get(n, i, o, w) = Get(m, i, o, w)
<1>1. \A r : GetReg(n, r, w) = GetReg(m, r, w)
  BY DEF GetReg
<1>2. CalcSib(n, i) = CalcSib(m, i)
  BY DEF CalcSib
<1>3. CalcModRm(n, i) = CalcModRm(m, i)
  BY <1>2 DEF CalcModRm
<1>4. GetRm(n, i, w) = GetRm(m, i, w)
  BY <1>1, <1>3 DEF GetRm
<1> QED
  BY <1>1, <1>4 DEF Get

Targets == {"rm", "r", "acc"}
Operands == {"rm", "r", "acc", "imm"}

LEMMA AluFlagsAre ==
  \A m \in Machines, i \in Parsed, op \in Nat, w \in Widths,
     dst \in Targets, src \in Operands :
       Alu(m, i, op, w, dst, src).eflags = FlagsDue(m, i, op, w, dst, src)
<1> TAKE m \in Machines, i \in Parsed, op \in Nat, w \in Widths,
         dst \in Targets, src \in Operands
<1> QED
  BY AluOK DEF Targets, Operands

\* Which operation an opcode of the arithmetic families is, and on what.
LEMMA AluStep ==
  ASSUME NEW m \in Machines, NEW old \in [modrm : Byte, sib : Byte, repeat : 0 .. 3],
         NEW d, d = Parse(m.arena, m.eip, old), IsAlu(d)
  PROVE  /\ d \in Parsed /\ Operation(d) \in Nat /\ WidthDue(d) \in Widths
         /\ Left(d) \in {"rm", "r", "acc"} /\ Right(d) \in {"rm", "r", "imm"}
         /\ Step(m, old).eflags =
              AluFlags(Operation(d), m.eflags, Get(m, d, Left(d), WidthDue(d)),
                       Get(m, d, Right(d), WidthDue(d)),
                       IF CF \in m.eflags THEN 1 ELSE 0, HalfOf(WidthDue(d)))
<1> DEFINE n == [m EXCEPT !.eip = d.next]
           op == Operation(d)
           w == WidthDue(d)
<1>1. d \in Parsed
  BY ParsedIs DEF Machines
<1>2. n \in Machines /\ n.reg = m.reg /\ n.arena = m.arena /\ n.eflags = m.eflags
  <2>1. d.next \in Nat
    BY <1>1, WidthFacts DEF Parsed, Word
  <2>2. n.reg = m.reg /\ n.arena = m.arena /\ n.eflags = m.eflags
    BY DEF Machines
  <2> QED
    BY <2>1, <2>2, PartsOK
<1>3. Step(m, old) = Exec(n, d)
  BY DEF Step
<1>4. op \in Nat /\ w \in Widths /\ Left(d) \in {"rm", "r", "acc"} /\ Right(d) \in {"rm", "r", "imm"}
  BY <1>1, SetEax, FieldsOK DEF Operation, WidthDue, Left, Right, Registers
<1> HIDE DEF n
<1>5. Exec(n, d) = Alu(n, d, op, w, Left(d), Right(d))
  <2>1. CASE Grouped(d.opcode)
    <3>1. d.opcode \in 128 .. 131 /\ Left(d) = "rm" /\ Right(d) = "imm"
      BY <2>1 DEF Grouped, Left, Right
    <3>2. op = Reg(d.modrm)
      BY <3>1 DEF Operation
    <3>3. Exec(n, d) = ExecMiddle(n, d, d.opcode)
      BY <3>1 DEF Exec
    <3>4. w = IF d.opcode \in {128, 130} THEN 1 ELSE NB
      BY <3>1 DEF WidthDue
    <3>5. ExecMiddle(n, d, d.opcode) = Alu(n, d, Reg(d.modrm), w, "rm", "imm")
      <4>1. CASE d.opcode \in {128, 130}
        BY <3>4, <4>1 DEF ExecMiddle, Code80
      <4>2. CASE d.opcode = 129
        BY <3>4, <4>2 DEF ExecMiddle, Code81
      <4>3. CASE d.opcode = 131
        BY <3>4, <4>3 DEF ExecMiddle, Code83
      <4> QED
        BY <3>1, <4>1, <4>2, <4>3
    <3> QED
      BY <3>1, <3>2, <3>3, <3>5
  <2>2. CASE ~Grouped(d.opcode)
    <3> DEFINE o == d.opcode
               k == o % 8
    <3>1. o \in Nat /\ o < 64 /\ k < 6 /\ o \div 8 \in {0, 1, 4, 5, 6, 7} /\ k \in 0 .. 5
      BY <1>1, <2>2 DEF IsAlu, Parsed
    <3>2. op = o \div 8
      BY <3>1 DEF Operation
    <3>3. Exec(n, d) = ExecLow(n, d, o)
      BY <3>1 DEF Exec
    <3>4. w = IF k \in {0, 2, 4} THEN 1 ELSE NB
      <4>1. o % 2 = k % 2
        BY <3>1
      <4> HIDE DEF o, k
      <4>2. k % 2 = 0 <=> k \in {0, 2, 4}
        BY <3>1
      <4> QED
        BY <4>1, <4>2 DEF WidthDue, o
    <3>5. /\ Left(d) = IF k < 2 THEN "rm" ELSE IF k < 4 THEN "r" ELSE "acc"
          /\ Right(d) = IF k > 3 THEN "imm" ELSE IF k < 2 THEN "r" ELSE "rm"
      BY <2>2 DEF Left, Right
    <3>6. CASE k \in {0, 2, 4}
      <4>1. ExecLow(n, d, o) = Family8(n, d)
        BY <3>1, <3>6 DEF ExecLow
      <4>2. Family8(n, d) = Alu(n, d, o \div 8, 1, Left(d), Right(d))
        BY <3>5, <3>6 DEF Family8
      <4> QED
        BY <3>2, <3>3, <3>4, <3>6, <4>1, <4>2
    <3>7. CASE k \in {1, 3, 5}
      <4>1. ExecLow(n, d, o) = Family32(n, d)
        BY <3>1, <3>7 DEF ExecLow
      <4>2. Family32(n, d) = Alu(n, d, o \div 8, NB, Left(d), Right(d))
        BY <3>5, <3>7 DEF Family32
      <4> QED
        BY <3>2, <3>3, <3>4, <3>7, <4>1, <4>2
    <3> QED
      BY <3>1, <3>6, <3>7
  <2> QED
    BY <2>1, <2>2
<1>6. Get(n, d, Left(d), w) = Get(m, d, Left(d), w) /\ Get(n, d, Right(d), w) = Get(m, d, Right(d), w)
  BY <1>2, SameOperands
<1>7. Alu(n, d, op, w, Left(d), Right(d)).eflags =
        AluFlags(op, n.eflags, Get(n, d, Left(d), w), Get(n, d, Right(d), w),
                 IF CF \in n.eflags THEN 1 ELSE 0, HalfOf(w))
  <2> DEFINE dst == Left(d)
             src == Right(d)
  <2>1. dst \in Targets /\ src \in Operands
    BY <1>4 DEF Targets, Operands
  <2> HIDE DEF op, w, dst, src
  <2>2. n \in Machines /\ op \in Nat /\ w \in Widths
    BY <1>2, <1>4
  <2>3. Alu(n, d, op, w, dst, src).eflags = FlagsDue(n, d, op, w, dst, src)
    BY <1>1, <2>1, <2>2, AluFlagsAre, Zenon
  <2> QED
    BY <2>3 DEF dst, src, FlagsDue
<1> QED
  BY <1>1, <1>2, <1>3, <1>4, <1>5, <1>6, <1>7
-----------------------------------------------------------------------------
(* The processes and the arena.                                            *)

Cpus == [reg : [Registers -> Word], eip : Nat, eflags : SUBSET Nat, stack : Seq(Word),
         halted : BOOLEAN]

\* Cells of the arena are bytes; registers and what is on a stack are double words.
Cells == arena \in Arena /\ cpus \in [Player -> Cpus]

LEMMA StartPosNat == ASSUME NEW p \in Nat, NEW offset \in Nat PROVE StartPos(p, offset) \in Nat
<1> DEFINE x == (CORE_SIZE \div NumPlayers) * p + (IF p # 0 THEN offset ELSE 0)
<1>1. CORE_SIZE \div NumPlayers \in Nat
  BY DecodeAssumption, NiiAssumption
<1>2. (CORE_SIZE \div NumPlayers) * p \in Nat
  BY <1>1
<1>3. x \in Nat
  BY <1>2
<1> HIDE DEF x
<1>4. x % CORE_SIZE \in Nat
  BY <1>3, DecodeAssumption
<1> QED
  BY <1>4 DEF StartPos, x

LEMMA LoadedOK ==
  ASSUME NEW load \in Loads, NEW offset \in Offsets
  PROVE  Loaded(NumPlayers, load, offset) \in Arena
<1> DEFINE cell(k, x, a) ==
             IF a - StartPos(k - 1, offset) \in 0 .. Len(load[k - 1]) - 1
             THEN load[k - 1][a - StartPos(k - 1, offset) + 1] ELSE x[a]
           put(k, x) == [a \in 0 .. CORE_SIZE - 1 |-> cell(k, x, a)]
           R == [a \in 0 .. CORE_SIZE - 1 |-> 204]
           n == NumPlayers
           step == [k \in 1 .. n |-> [x \in Arena |-> put(k, x)]]
           F(f) == f = [k \in 0 .. n |-> IF k = 0 THEN R ELSE put(k, f[k - 1])]
<1>1. n \in Nat /\ R \in Arena
  BY NiiAssumption DEF Arena, Byte
<1>2. ASSUME NEW k \in 1 .. n, NEW x \in Arena PROVE put(k, x) \in Arena
  <2>1. load[k - 1] \in Seq(Byte) /\ k - 1 \in Nat
    <3>1. k - 1 \in 0 .. NumPlayers - 1
      BY <1>1
    <3> QED
      BY <3>1, NiiAssumption
  <2> DEFINE s == load[k - 1]
             at == StartPos(k - 1, offset)
  <2>2. at \in Nat
    <3>1. offset \in Nat
      BY NiiAssumption
    <3> QED
      BY <2>1, <3>1, StartPosNat
  <2>3. s \in Seq(Byte)
    BY <2>1
  <2> HIDE DEF s, at
  <2>4. ASSUME NEW a \in 0 .. CORE_SIZE - 1
        PROVE  (IF a - at \in 0 .. Len(s) - 1 THEN s[a - at + 1] ELSE x[a]) \in Byte
    <3>1. x[a] \in Byte
      BY DEF Arena
    <3>2. CASE a - at \in 0 .. Len(s) - 1
      <4>1. a - at + 1 \in 1 .. Len(s)
        BY <2>2, <2>3, <3>2
      <4> QED
        BY <2>3, <3>2, <4>1
    <3> QED
      BY <3>1, <3>2
  <2>5. [a \in 0 .. CORE_SIZE - 1 |-> IF a - at \in 0 .. Len(s) - 1 THEN s[a - at + 1] ELSE x[a]]
          \in [0 .. CORE_SIZE - 1 -> Byte]
    BY <2>4
  <2> QED
    BY <2>5 DEF Arena, s, at
<1>3. Loaded(NumPlayers, load, offset) = (CHOOSE f : F(f))[n]
  BY DEF Loaded
<1> HIDE DEF put, R, n
<1>4. step \in [1 .. n -> [Arena -> Arena]]
  BY <1>2
<1>5. PICK g : IsIteration(g, n, Arena, R, step)
  <2> HIDE DEF step
  <2> QED
    BY <1>1, <1>4, Recursion, Zenon
<1>6. \A k \in 1 .. n : g[k] = put(k, g[k - 1])
  <2> TAKE k \in 1 .. n
  <2>1. g[k - 1] \in Arena
    BY <1>1, <1>5 DEF IsIteration
  <2>2. step[k][g[k - 1]] = put(k, g[k - 1])
    BY <2>1
  <2> HIDE DEF step
  <2> QED
    BY <1>5, <2>2 DEF IsIteration
<1>7. F(g)
  BY <1>1, <1>5, <1>6 DEF IsIteration
<1>8. F(CHOOSE f : F(f))
  <2> HIDE DEF F
  <2> QED
    BY <1>7
<1> DEFINE f == CHOOSE f : F(f)
<1>9. Loaded(NumPlayers, load, offset) = f[n]
  BY <1>3
<1> HIDE DEF f
<1>10. f[0] = R /\ \A k \in 1 .. n : f[k] = put(k, f[k - 1])
  <2>1. f = [k \in 0 .. n |-> IF k = 0 THEN R ELSE put(k, f[k - 1])]
    BY <1>8 DEF f
  <2> HIDE DEF F
  <2> QED
    BY <1>1, <2>1
<1> DEFINE A == {k \in 0 .. n : f[k] \in Arena}
<1>11. 0 \in A
  BY <1>1, <1>10
<1>12. \A k \in 0 .. n - 1 : k \in A => k + 1 \in A
  <2> SUFFICES ASSUME NEW k \in 0 .. n - 1, k \in A PROVE k + 1 \in A
    OBVIOUS
  <2>1. k + 1 \in 1 .. n /\ (k + 1) - 1 = k /\ f[k] \in Arena
    BY <1>1
  <2>2. f[k + 1] = put(k + 1, f[k])
    BY <1>10, <2>1
  <2>3. f[k + 1] \in Arena
    BY <1>2, <2>1, <2>2
  <2> QED
    BY <1>1, <2>1, <2>3
<1>13. n \in A
  <2> HIDE DEF A
  <2> QED
    BY <1>1, <1>11, <1>12, UpTo
<1> QED
  BY <1>9, <1>13

LEMMA FlagStackOK == FlagStack \in Seq(Word)
<1> DEFINE S == Seq(Word)
           n == 8
           step == [k \in 1 .. n |-> [x \in S |-> x \o FlagWords]]
           F(f) == f = [k \in 0 .. n |-> IF k = 0 THEN <<>> ELSE f[k - 1] \o FlagWords]
<1>1. n \in Nat /\ <<>> \in S /\ FlagWords \in S
  BY NiiAssumption DEF Word
<1>2. \A x \in S : x \o FlagWords \in S
  BY <1>1
<1>3. FlagStack = (CHOOSE f : F(f))[n]
  BY DEF FlagStack
<1> HIDE DEF S, n
<1>4. step \in [1 .. n -> [S -> S]]
  BY <1>2
<1>5. PICK g : IsIteration(g, n, S, <<>>, step)
  <2> HIDE DEF step
  <2> QED
    BY <1>1, <1>4, Recursion, Zenon
<1>6. \A k \in 1 .. n : g[k] = g[k - 1] \o FlagWords
  <2> TAKE k \in 1 .. n
  <2>1. g[k - 1] \in S
    BY <1>1, <1>5 DEF IsIteration
  <2>2. step[k][g[k - 1]] = g[k - 1] \o FlagWords
    BY <2>1
  <2> HIDE DEF step
  <2> QED
    BY <1>5, <2>2 DEF IsIteration
<1>7. F(g)
  <2>1. g \in [0 .. n -> S] /\ g[0] = <<>>
    BY <1>5 DEF IsIteration
  <2>2. \A k \in 0 .. n : g[k] = IF k = 0 THEN <<>> ELSE g[k - 1] \o FlagWords
    BY <1>1, <1>6, <2>1
  <2> QED
    BY <2>1, <2>2
<1>8. F(CHOOSE f : F(f))
  <2> HIDE DEF F
  <2> QED
    BY <1>7
<1> DEFINE f == CHOOSE f : F(f)
<1>9. FlagStack = f[n]
  BY <1>3
<1> HIDE DEF f
<1>10. f[0] = <<>> /\ \A k \in 1 .. n : f[k] = f[k - 1] \o FlagWords
  <2>1. f = [k \in 0 .. n |-> IF k = 0 THEN <<>> ELSE f[k - 1] \o FlagWords]
    BY <1>8 DEF f
  <2> HIDE DEF F
  <2>2. 0 \in 0 .. n /\ \A k \in 1 .. n : k \in 0 .. n /\ k # 0
    BY <1>1
  <2> QED
    BY <2>1, <2>2
<1> DEFINE A == {k \in 0 .. n : f[k] \in S}
<1>11. 0 \in A
  BY <1>1, <1>10
<1>12. \A k \in 0 .. n - 1 : k \in A => k + 1 \in A
  <2> SUFFICES ASSUME NEW k \in 0 .. n - 1, k \in A PROVE k + 1 \in A
    OBVIOUS
  <2>1. k + 1 \in 1 .. n /\ (k + 1) - 1 = k /\ f[k] \in S
    BY <1>1
  <2>2. f[k + 1] = f[k] \o FlagWords
    BY <1>10, <2>1
  <2>3. f[k + 1] \in S
    BY <1>2, <2>1, <2>2
  <2> QED
    BY <1>1, <2>1, <2>3
<1>13. n \in A
  <2> HIDE DEF A
  <2> QED
    BY <1>1, <1>11, <1>12, UpTo
<1> QED
  BY <1>9, <1>13 DEF S

LEMMA CellsInit == Init => Cells
<1> SUFFICES ASSUME Init PROVE Cells
  OBVIOUS
<1>1. PICK load \in Loads, offset \in Offsets, unset \in [Player -> Unset] :
        /\ arena = Loaded(NumPlayers, load, offset)
        /\ cpus = [p \in Player |-> NewCpu(p, offset, unset[p])]
  BY DEF Init
<1>2. arena \in Arena
  BY <1>1, LoadedOK
<1>3. ASSUME NEW p \in Player PROVE NewCpu(p, offset, unset[p]) \in Cpus
  <2>1. p \in Nat /\ offset \in Nat
    BY NiiAssumption DEF Player
  <2>2. unset[p].eflags \in SUBSET Nat /\ unset[p].halted \in BOOLEAN
    <3>1. unset[p] \in [eflags : SUBSET (0 .. DBits - 1), halted : BOOLEAN]
      BY NiiAssumption
    <3>2. 0 .. DBits - 1 \subseteq Nat
      BY WidthFacts
    <3> QED
      BY <3>1, <3>2
  <2>3. [r \in Registers |-> 0] \in [Registers -> Word]
    BY WidthFacts DEF Word
  <2>4. (IF p = 0 THEN FlagStack ELSE <<>>) \in Seq(Word)
    BY FlagStackOK
  <2>5. StartPos(p, offset) \in Nat
    BY <2>1, StartPosNat
  <2> DEFINE s == IF p = 0 THEN FlagStack ELSE <<>>
             r == [x \in Registers |-> 0]
  <2>6. NewCpu(p, offset, unset[p]) =
          [reg |-> r, eip |-> StartPos(p, offset), eflags |-> unset[p].eflags,
           stack |-> s, halted |-> unset[p].halted]
    BY DEF NewCpu
  <2> HIDE DEF s, r
  <2> QED
    BY <2>2, <2>3, <2>4, <2>5, <2>6 DEF Cpus, s, r
<1>4. cpus \in [Player -> Cpus]
  BY <1>1, <1>3
<1> QED
  BY <1>2, <1>4 DEF Cells

LEMMA MachineIs ==
  ASSUME Cells, NEW p \in Player
  PROVE  /\ Machine(p) \in Machines /\ Machine(p).arena = arena /\ Machine(p).eip = cpus[p].eip
         /\ Machine(p).eflags = cpus[p].eflags
<1>1. cpus[p] \in Cpus
  BY DEF Cells
<1> QED
  BY <1>1 DEF Cells, Cpus, Machine, Machines

LEMMA CellsNext == ASSUME Cells, [Next]_vars PROVE Cells'
<1>1. CASE UNCHANGED <<arena, cpus>>
  BY <1>1 DEF Cells
<1>2. ASSUME NEW p \in Player, Turn(p) PROVE Cells'
  <2>1. PICK old \in Leftovers :
          LET m == Step(Machine(p), old)
          IN  /\ arena' = m.arena
              /\ cpus' = [cpus EXCEPT ![p] = [reg |-> m.reg, eip |-> m.eip, eflags |-> m.eflags,
                                              stack |-> m.stack, halted |-> m.halted]]
    BY <1>2 DEF Turn
  <2> DEFINE m == Step(Machine(p), old)
             c == [reg |-> m.reg, eip |-> m.eip, eflags |-> m.eflags,
                   stack |-> m.stack, halted |-> m.halted]
  <2>2. m \in Machines
    <3>1. old \in [modrm : Byte, sib : Byte, repeat : 0 .. 3]
      BY NiiAssumption
    <3> QED
      BY <3>1, MachineIs, StepOK
  <2>3. arena' = m.arena /\ cpus' = [cpus EXCEPT ![p] = c]
    BY <2>1
  <2> HIDE DEF m
  <2>4. c \in Cpus /\ m.arena \in Arena
    BY <2>2 DEF Machines, Cpus
  <2> HIDE DEF c
  <2> QED
    BY <2>3, <2>4 DEF Cells
<1>3. CASE EndCycle \/ \E p \in Player : NoTurn(p)
  BY <1>1, <1>3 DEF EndCycle, NoTurn
<1> QED
  BY <1>1, <1>2, <1>3 DEF Next, vars

\* An arithmetic instruction that is due: its operands fit its width, and these are the
\* flags it leaves.
LEMMA AluDue ==
  ASSUME Cells, NEW p \in Player, NEW old \in Leftovers, NEW d, d = Due(p, old), IsAlu(d)
  PROVE  LET H == HalfOf(WidthDue(d)) IN
         /\ H \in Nat \ {0}
         /\ LeftDue(p, d) \in 0 .. 2 * H - 1 /\ RightDue(p, d) \in 0 .. 2 * H - 1
         /\ Operation(d) \in {5, 7} =>
              FlagsAfter(p, old) = SubFlags(cpus[p].eflags, LeftDue(p, d), RightDue(p, d), H)
         /\ Operation(d) = 0 =>
              FlagsAfter(p, old) = AddFlags(cpus[p].eflags, LeftDue(p, d), RightDue(p, d), H)
<1> DEFINE m == Machine(p)
           w == WidthDue(d)
           H == HalfOf(w)
           a == Get(m, d, Left(d), w)
           b == Get(m, d, Right(d), w)
           c == IF CF \in m.eflags THEN 1 ELSE 0
<1>1. m \in Machines /\ d = Parse(m.arena, m.eip, old) /\ m.eflags = cpus[p].eflags
  BY MachineIs DEF Due
<1>2. old \in [modrm : Byte, sib : Byte, repeat : 0 .. 3]
  BY NiiAssumption
<1>3. FlagsAfter(p, old) = Step(m, old).eflags
  BY DEF FlagsAfter
<1>4. LeftDue(p, d) = a /\ RightDue(p, d) = InWidth(b, H)
  BY DEF LeftDue, RightDue
<1> HIDE DEF m
<1>5. /\ d \in Parsed /\ w \in Widths
      /\ Left(d) \in {"rm", "r", "acc"} /\ Right(d) \in {"rm", "r", "imm"}
      /\ Step(m, old).eflags = AluFlags(Operation(d), m.eflags, a, b, c, H)
  BY <1>1, <1>2, AluStep
<1>6. a \in Fits(w) /\ b \in Int
  <2>1. a \in Fits(w)
    BY <1>1, <1>5, GetFits
  <2>2. b \in Fits(w) \/ b \in Int
    BY <1>1, <1>5, GetFits
  <2> QED
    BY <1>5, <2>1, <2>2, FitsInt
<1>7. H \in Nat \ {0} /\ a \in 0 .. 2 * H - 1
  BY <1>5, <1>6, FitsInt
<1> HIDE DEF w, a, b, c, H
<1>8. InWidth(b, H) \in 0 .. 2 * H - 1 /\ InWidth(InWidth(b, H), H) = InWidth(b, H)
  BY <1>6, <1>7, WithinWidth
<1>9. /\ SubFlags(m.eflags, a, b, H) = SubFlags(m.eflags, a, InWidth(b, H), H)
      /\ AddFlags(m.eflags, a, b, H) = AddFlags(m.eflags, a, InWidth(b, H), H)
  BY <1>8 DEF SubFlags, AddFlags
<1>10. Operation(d) \in {5, 7} => AluFlags(Operation(d), m.eflags, a, b, c, H) = SubFlags(m.eflags, a, b, H)
  BY DEF AluFlags
<1>11. Operation(d) = 0 => AluFlags(Operation(d), m.eflags, a, b, c, H) = AddFlags(m.eflags, a, b, H)
  BY DEF AluFlags
<1> QED
  BY <1>1, <1>3, <1>4, <1>5, <1>7, <1>8, <1>9, <1>10, <1>11 DEF H, w

\* In every state in which an instruction of cmp's or sub's family is due, for every
\* form, width and operands: jcc and setcc then say how the operands compare.
THEOREM ComparesCorrect == Spec => []ComparesRight
<1>1. Cells => ComparesRight
  <2> SUFFICES ASSUME Cells, NEW p \in Player, NEW old \in Leftovers,
                      NEW d \in {Due(p, old)}, IsAlu(d), Operation(d) \in {5, 7}
               PROVE  DifferenceTold(LeftDue(p, d), RightDue(p, d), HalfOf(WidthDue(d)), FlagsAfter(p, old))
    BY DEF ComparesRight
  <2> DEFINE H == HalfOf(WidthDue(d))
             a == LeftDue(p, d)
             b == RightDue(p, d)
             g == FlagsAfter(p, old)
  <2>1. /\ H \in Nat \ {0} /\ a \in 0 .. 2 * H - 1 /\ b \in 0 .. 2 * H - 1
        /\ g = SubFlags(cpus[p].eflags, a, b, H)
    BY AluDue
  <2> HIDE DEF H, a, b, g
  <2>2. DifferenceTold(a, b, H, g)
    BY <2>1, SubtractionTells DEF DifferenceTold
  <2> QED
    BY <2>2 DEF H, a, b, g
<1> QED
  BY <1>1, CellsInit, CellsNext, PTL DEF Spec

\* The same for additions: the carry tells whether the sum left the width, the overflow
\* whether the signed sum did.
THEOREM SumsCorrect == Spec => []SumsRight
<1>1. Cells => SumsRight
  <2> SUFFICES ASSUME Cells, NEW p \in Player, NEW old \in Leftovers,
                      NEW d \in {Due(p, old)}, IsAlu(d), Operation(d) = 0
               PROVE  SumTold(LeftDue(p, d), RightDue(p, d), HalfOf(WidthDue(d)), FlagsAfter(p, old))
    BY DEF SumsRight
  <2> DEFINE H == HalfOf(WidthDue(d))
             a == LeftDue(p, d)
             b == RightDue(p, d)
             g == FlagsAfter(p, old)
  <2>1. /\ H \in Nat \ {0} /\ a \in 0 .. 2 * H - 1 /\ b \in 0 .. 2 * H - 1
        /\ g = AddFlags(cpus[p].eflags, a, b, H)
    BY AluDue
  <2> HIDE DEF H, a, b, g
  <2>2. SumTold(a, b, H, g)
    BY <2>1, AdditionTells DEF SumTold
  <2> QED
    BY <2>2 DEF H, a, b, g
<1> QED
  BY <1>1, CellsInit, CellsNext, PTL DEF Spec

-----------------------------------------------------------------------------
(* What an earlier instruction left in the InstrData.                      *)

\* Two results of the parser that differ only in what the instruction does not have.
Alike(i, j) ==
  /\ j.opcode = i.opcode /\ j.imm = i.imm /\ j.moffs = i.moffs
  /\ HasModRm(i.opcode) =>
       j.modrm = i.modrm /\ j.disp = i.disp /\ (HasSib(i.modrm) => j.sib = i.sib)

\* Where the operand in memory is comes from the bytes of the instruction.
Addressed(i) == Mod(i.modrm) # 3 \/ RmOf(i.modrm) # 4

LEMMA ParsedAlike ==
  ASSUME NEW arr, NEW eip, NEW x, NEW y, NEW i, NEW j,
         i = Parse(arr, eip, x), j = Parse(arr, eip, y), ~ReadsLeftovers(i)
  PROVE  Alike(i, j) /\ j.next = i.next /\ (i.opcode = 141 => Addressed(i))
<1> DEFINE opcode == Opcode(arr, eip)
           a == eip + (IF opcode >= 3840 THEN 2 ELSE 1)
           rm == HasModRm(opcode)
           modrm(old) == IF rm THEN Get8(arr, a) ELSE old.modrm
           hasSib(old) == rm /\ HasSib(modrm(old))
           sib(old) == IF hasSib(old) THEN Get8(arr, a + 1) ELSE old.sib
           b(old) == a + (IF rm THEN 1 ELSE 0) + (IF hasSib(old) THEN 1 ELSE 0)
           dn(old) == IF rm THEN DispBytes(modrm(old), sib(old)) ELSE 0
           c(old) == b(old) + dn(old)
           immn == IF opcode \in Imm32Opcodes THEN NB ELSE IF opcode \in Imm8Opcodes THEN 1 ELSE 0
           d(old) == c(old) + immn
           D(at, n) == IF n = 0 THEN 0 ELSE WithSign(GetData(arr, at, n), Power(2, 8 * n - 1))
           M(at) == IF HasMoffs(opcode) THEN GetData(arr, at, NB) ELSE 0
           N(at) == Addr(at + (IF HasMoffs(opcode) THEN NB ELSE 0))
<1>1. ASSUME NEW old, NEW k, k = Parse(arr, eip, old)
      PROVE  /\ k.opcode = opcode /\ k.modrm = modrm(old) /\ k.sib = sib(old)
             /\ k.disp = D(b(old), dn(old)) /\ k.imm = D(c(old), immn)
             /\ k.moffs = M(d(old)) /\ k.next = N(d(old))
  BY <1>1 DEF Parse
<1> HIDE DEF opcode, a, immn, D, M, N
<1>2. hasSib(y) = hasSib(x) /\ (rm => modrm(y) = modrm(x)) /\ (hasSib(x) => sib(y) = sib(x))
  OBVIOUS
<1>3. dn(y) = dn(x)
  <2>1. CASE rm
    <3> DEFINE r == Get8(arr, a)
    <3>1. modrm(x) = r /\ modrm(y) = r
      BY <2>1
    <3>2. i.opcode = opcode /\ i.modrm = r
      BY <1>1, <3>1
    <3>3. ~(Mod(r) = 0 /\ RmOf(r) \notin {4, 5})
      BY <2>1, <3>2 DEF ReadsLeftovers
    <3>4. Mod(r) = 0 /\ RmOf(r) = 4 => sib(y) = sib(x)
      BY <1>2, <2>1, <3>1 DEF HasSib
    <3> HIDE DEF r, modrm, sib, hasSib
    <3>5. DispBytes(r, sib(y)) = DispBytes(r, sib(x))
      BY <3>3, <3>4 DEF DispBytes
    <3> QED
      BY <2>1, <3>1, <3>5
  <2> QED
    BY <2>1
<1>4. b(y) = b(x)
  BY <1>2
<1> HIDE DEF modrm, sib, hasSib, b, dn
<1>5. c(y) = c(x) /\ d(y) = d(x)
  BY <1>3, <1>4
<1> HIDE DEF c, d
<1>6. /\ i.opcode = opcode /\ i.modrm = modrm(x) /\ i.sib = sib(x) /\ i.disp = D(b(x), dn(x))
      /\ i.imm = D(c(x), immn) /\ i.moffs = M(d(x)) /\ i.next = N(d(x))
  BY <1>1
<1>7. /\ j.opcode = opcode /\ j.modrm = modrm(y) /\ j.sib = sib(y) /\ j.disp = D(b(y), dn(y))
      /\ j.imm = D(c(y), immn) /\ j.moffs = M(d(y)) /\ j.next = N(d(y))
  BY <1>1
<1>8. HasModRm(i.opcode) /\ HasSib(i.modrm) => hasSib(x)
  BY <1>6 DEF hasSib
<1>9. i.opcode = 141 => Addressed(i)
  BY DEF ReadsLeftovers, Addressed
<1> QED
  BY <1>2, <1>3, <1>4, <1>5, <1>6, <1>7, <1>8, <1>9 DEF Alike

\* Two results of the parser that no instruction with a ModRM byte tells apart.
SameView(i, j) ==
  /\ j.opcode = i.opcode /\ j.imm = i.imm /\ j.modrm = i.modrm
  /\ \A m, w : GetRm(m, j, w) = GetRm(m, i, w)
  /\ \A m, w, v : SetRm(m, j, w, v) = SetRm(m, i, w, v)

LEMMA SameAddress ==
  ASSUME NEW i, NEW j, Alike(i, j), HasModRm(i.opcode), Addressed(i), NEW m
  PROVE  CalcModRm(m, j) = CalcModRm(m, i)
<1>1. j.modrm = i.modrm /\ j.disp = i.disp
  BY DEF Alike
<1>2. CASE RmOf(i.modrm) = 4
  <2>1. j.sib = i.sib
    BY <1>2 DEF Alike, Addressed, HasSib
  <2>2. CalcSib(m, j) = CalcSib(m, i)
    BY <1>1, <2>1 DEF CalcSib
  <2> QED
    BY <1>1, <2>2 DEF CalcModRm
<1>3. CASE RmOf(i.modrm) # 4
  <2> DEFINE rm == RmOf(i.modrm)
             disp == IF Mod(i.modrm) \in {1, 2} THEN i.disp ELSE 0
  <2>1. ASSUME NEW k, k.modrm = i.modrm, k.disp = i.disp
        PROVE  CalcModRm(m, k) = Addr(IF rm = 5 /\ Mod(i.modrm) = 0 THEN i.disp ELSE disp + m.reg[rm])
    BY <1>3, <2>1 DEF CalcModRm
  <2> QED
    BY <1>1, <2>1
<1> QED
  BY <1>2, <1>3

LEMMA ViewIsSame ==
  ASSUME NEW i, NEW j, Alike(i, j), HasModRm(i.opcode)
  PROVE  SameView(i, j)
<1>1. j.modrm = i.modrm
  BY DEF Alike
<1>2. ASSUME NEW m, Mod(i.modrm) # 3 PROVE CalcModRm(m, j) = CalcModRm(m, i)
  BY <1>2, SameAddress DEF Addressed
<1>3. ASSUME NEW m, NEW w PROVE GetRm(m, j, w) = GetRm(m, i, w)
  BY <1>1, <1>2 DEF GetRm
<1>4. ASSUME NEW m, NEW w, NEW v PROVE SetRm(m, j, w, v) = SetRm(m, i, w, v)
  BY <1>1, <1>2 DEF SetRm
<1> QED
  BY <1>1, <1>3, <1>4 DEF SameView, Alike

LEMMA AluSameView ==
  ASSUME NEW i, NEW j, SameView(i, j), NEW m, NEW op, NEW w, NEW dst, NEW src
  PROVE  Alu(m, j, op, w, dst, src) = Alu(m, i, op, w, dst, src)
<1>1. \A n, o : Get(n, j, o, w) = Get(n, i, o, w)
  BY DEF SameView, Get
<1>2. \A n, o, v : Put(n, j, o, w, v) = Put(n, i, o, w, v)
  BY DEF SameView, Put
<1> QED
  BY <1>1, <1>2 DEF Alu

LEMMA FamiliesSameView ==
  ASSUME NEW i, NEW j, SameView(i, j), NEW m
  PROVE  /\ i.opcode % 8 \in {0, 2} => Family8(m, j) = Family8(m, i)
         /\ i.opcode % 8 \in {1, 3} => Family32(m, j) = Family32(m, i)
         /\ Code80(m, j) = Code80(m, i) /\ Code81(m, j) = Code81(m, i)
         /\ Code83(m, j) = Code83(m, i)
<1>1. j.opcode = i.opcode /\ j.modrm = i.modrm
  BY DEF SameView
<1>2. \A op, w, dst, src : Alu(m, j, op, w, dst, src) = Alu(m, i, op, w, dst, src)
  BY AluSameView
<1>3. i.opcode % 8 \in {0, 2} => Family8(m, j) = Family8(m, i)
  BY <1>1, <1>2 DEF Family8
<1>4. i.opcode % 8 \in {1, 3} => Family32(m, j) = Family32(m, i)
  BY <1>1, <1>2 DEF Family32
<1>5. /\ Code80(m, j) = Code80(m, i) /\ Code81(m, j) = Code81(m, i)
      /\ Code83(m, j) = Code83(m, i)
  BY <1>1, <1>2 DEF Code80, Code81, Code83
<1> QED
  BY <1>3, <1>4, <1>5

LEMMA ArithmeticSameView ==
  ASSUME NEW i, NEW j, SameView(i, j), NEW m, NEW w
  PROVE  /\ \A by : BumpRm(m, j, by) = BumpRm(m, i, by)
         /\ \A c : Shift(m, j, w, c) = Shift(m, i, w, c)
         /\ Mul8(m, j) = Mul8(m, i) /\ Imul8(m, j) = Imul8(m, i)
         /\ Div8(m, j) = Div8(m, i) /\ Idiv8(m, j) = Idiv8(m, i)
         /\ Mul32(m, j) = Mul32(m, i) /\ Imul32(m, j) = Imul32(m, i)
         /\ Div32(m, j) = Div32(m, i) /\ Idiv32(m, j) = Idiv32(m, i)
         /\ ImulImm(m, j) = ImulImm(m, i) /\ ImulReg(m, j) = ImulReg(m, i)
         /\ TestImm(m, j, w) = TestImm(m, i, w) /\ Not(m, j, w) = Not(m, i, w)
         /\ Neg(m, j, w) = Neg(m, i, w)
<1>1. j.imm = i.imm /\ j.modrm = i.modrm
  BY DEF SameView
<1>2. \A n, k : GetRm(n, j, k) = GetRm(n, i, k)
  BY DEF SameView
<1>3. \A n, k, v : SetRm(n, j, k, v) = SetRm(n, i, k, v)
  BY DEF SameView
<1>4. \A by : BumpRm(m, j, by) = BumpRm(m, i, by)
  BY <1>2, <1>3 DEF BumpRm
<1>5. \A c : Shift(m, j, w, c) = Shift(m, i, w, c)
  BY <1>1, <1>2, <1>3 DEF Shift
<1>6. Mul8(m, j) = Mul8(m, i) /\ Imul8(m, j) = Imul8(m, i)
  BY <1>2 DEF Mul8, Imul8
<1>7. Div8(m, j) = Div8(m, i) /\ Idiv8(m, j) = Idiv8(m, i)
  BY <1>2 DEF Div8, Idiv8
<1>8. Mul32(m, j) = Mul32(m, i) /\ Imul32(m, j) = Imul32(m, i)
  BY <1>2 DEF Mul32, Imul32
<1>9. Div32(m, j) = Div32(m, i) /\ Idiv32(m, j) = Idiv32(m, i)
  BY <1>2 DEF Div32, Idiv32
<1>10. ImulImm(m, j) = ImulImm(m, i) /\ ImulReg(m, j) = ImulReg(m, i)
  BY <1>1, <1>2 DEF ImulImm, ImulReg
<1>11. /\ TestImm(m, j, w) = TestImm(m, i, w) /\ Not(m, j, w) = Not(m, i, w)
       /\ Neg(m, j, w) = Neg(m, i, w)
  BY <1>2, <1>3 DEF TestImm, Not, Neg
<1> QED
  BY <1>4, <1>5, <1>6, <1>7, <1>8, <1>9, <1>10, <1>11

LEMMA MovesSameView ==
  ASSUME NEW i, NEW j, SameView(i, j), NEW m, NEW w
  PROVE  /\ Xchg(m, j, w) = Xchg(m, i, w)
         /\ i.opcode \in 136 .. 139 \cup {198, 199} => MovFamily(m, j, w) = MovFamily(m, i, w)
         /\ Extend(m, j) = Extend(m, i) /\ SetCc(m, j) = SetCc(m, i)
<1>1. j.opcode = i.opcode /\ j.imm = i.imm /\ j.modrm = i.modrm
  BY DEF SameView
<1>2. \A n, k : GetRm(n, j, k) = GetRm(n, i, k)
  BY DEF SameView
<1>3. \A n, k, v : SetRm(n, j, k, v) = SetRm(n, i, k, v)
  BY DEF SameView
<1>4. Xchg(m, j, w) = Xchg(m, i, w)
  BY <1>1, <1>2, <1>3 DEF Xchg
<1>5. i.opcode \in 136 .. 139 \cup {198, 199} => MovFamily(m, j, w) = MovFamily(m, i, w)
  BY <1>1, <1>2, <1>3 DEF MovFamily
<1>6. Extend(m, j) = Extend(m, i) /\ SetCc(m, j) = SetCc(m, i)
  BY <1>1, <1>2 DEF Extend, SetCc
<1> QED
  BY <1>4, <1>5, <1>6

LEMMA CodesSameView ==
  ASSUME NEW i, NEW j, SameView(i, j), Reg(i.modrm) \in 0 .. 7, NEW m
  PROVE  CodeF6(m, j) = CodeF6(m, i) /\ CodeF7(m, j) = CodeF7(m, i) /\ CodeFf(m, j) = CodeFf(m, i)
<1>1. j.modrm = i.modrm
  BY DEF SameView
<1>2. \A n, k : GetRm(n, j, k) = GetRm(n, i, k)
  BY DEF SameView
<1>3. CodeF6(m, j) = CodeF6(m, i)
  BY <1>1, ArithmeticSameView DEF CodeF6
<1>4. CodeF7(m, j) = CodeF7(m, i)
  BY <1>1, ArithmeticSameView DEF CodeF7
<1>5. CallRm(m, j) = CallRm(m, i) /\ JmpRm(m, j) = JmpRm(m, i) /\ PushRm(m, j) = PushRm(m, i)
  BY <1>2 DEF CallRm, JmpRm, PushRm
<1>6. \A by : BumpRm(m, j, by) = BumpRm(m, i, by)
  BY ArithmeticSameView
<1>7. CodeFf(m, j) = CodeFf(m, i)
  BY <1>1, <1>5, <1>6 DEF CodeFf
<1> QED
  BY <1>3, <1>4, <1>7

\* An operand that no ModRM byte names.
LEMMA PlainSame ==
  ASSUME NEW i, NEW j, Alike(i, j), NEW m, NEW op, NEW w
  PROVE  /\ Alu(m, j, op, w, "acc", "imm") = Alu(m, i, op, w, "acc", "imm")
         /\ Jcc(m, j) = Jcc(m, i) /\ Interrupt(m, j) = Interrupt(m, i)
         /\ i.opcode \in 160 .. 163 => MovFamily(m, j, w) = MovFamily(m, i, w)
<1>1. j.opcode = i.opcode /\ j.imm = i.imm /\ j.moffs = i.moffs
  BY DEF Alike
<1>2. Get(m, j, "acc", w) = Get(m, i, "acc", w) /\ Get(m, j, "imm", w) = Get(m, i, "imm", w)
  BY <1>1 DEF Get
<1>3. \A v : Put(m, j, "acc", w, v) = Put(m, i, "acc", w, v)
  BY DEF Put
<1>4. Alu(m, j, op, w, "acc", "imm") = Alu(m, i, op, w, "acc", "imm")
  BY <1>2, <1>3 DEF Alu
<1>5. Jcc(m, j) = Jcc(m, i) /\ Interrupt(m, j) = Interrupt(m, i)
  BY <1>1 DEF Jcc, Interrupt
<1>6. i.opcode \in 160 .. 163 => MovFamily(m, j, w) = MovFamily(m, i, w)
  BY <1>1 DEF MovFamily
<1> QED
  BY <1>4, <1>5, <1>6

LEMMA HaveModRm ==
  ASSUME NEW op \in Nat
  PROVE  /\ op \div 8 \in {0, 1, 4, 5, 6, 7} /\ op % 8 \in 0 .. 3 => HasModRm(op)
         /\ op \in {105, 107} \cup 128 .. 142 \cup {192, 193, 198, 199, 211, 246, 247, 255}
              => HasModRm(op)
         /\ op - Two(0) \in 144 .. 159 \cup {175, 182, 183, 190, 191} => HasModRm(op)
<1>1. ASSUME op \div 8 \in {0, 1, 4, 5, 6, 7}, op % 8 \in 0 .. 3 PROVE HasModRm(op)
  <2> DEFINE f == op \div 8
             k == op % 8
  <2>1. op = 8 * f + k
    OBVIOUS
  <2> HIDE DEF f, k
  <2>2. op \in {8 * f + x : x \in 0 .. 3}
    BY <1>1, <2>1 DEF k
  <2>3. op \in RmFamilies
    BY <1>1, <2>2 DEF RmFamilies, f
  <2> QED
    BY <2>3 DEF HasModRm, ModRmOpcodes
<1>2. op - Two(0) \in 144 .. 159 \cup {175, 182, 183, 190, 191} => HasModRm(op)
  <2> SUFFICES ASSUME op - Two(0) \in 144 .. 159 \cup {175, 182, 183, 190, 191}
               PROVE  op \in ModRmTwoByte
    BY DEF HasModRm
  <2> DEFINE b == op - Two(0)
  <2>1. op = Two(b)
    BY DEF Two
  <2> QED
    BY <2>1 DEF ModRmTwoByte
<1> QED
  BY <1>1, <1>2 DEF HasModRm, ModRmOpcodes

LEMMA LowAlike ==
  ASSUME NEW i, NEW j, Alike(i, j), i.opcode \in 0 .. 111, NEW m
  PROVE  ExecLow(m, j, i.opcode) = ExecLow(m, i, i.opcode)
<1> DEFINE op == i.opcode
           f == op \div 8
           k == op % 8
<1>1. j.opcode = op /\ j.imm = i.imm
  BY DEF Alike
<1>2. k \in 0 .. 7
  OBVIOUS
<1>3. ASSUME HasModRm(op) PROVE SameView(i, j)
  BY <1>3, ViewIsSame
<1>4. CASE f \in {0, 1, 4, 5, 6, 7}
  <2>0. ASSUME NEW n, NEW x
        PROVE  /\ k \in {0, 2, 4} => ExecLow(n, x, op) = Family8(n, x)
               /\ k \in {1, 3, 5} => ExecLow(n, x, op) = Family32(n, x)
    <3>1. op \div 8 \in {0, 1, 4, 5, 6, 7}
      BY <1>4
    <3> HIDE DEF op
    <3>2. op % 8 \in {0, 2, 4} => ExecLow(n, x, op) = Family8(n, x)
      BY <3>1 DEF ExecLow
    <3>3. op % 8 \in {1, 3, 5} => ExecLow(n, x, op) = Family32(n, x)
      <4> SUFFICES ASSUME op % 8 \in {1, 3, 5} PROVE ExecLow(n, x, op) = Family32(n, x)
        OBVIOUS
      <4>1. op % 8 \notin {0, 2, 4}
        OBVIOUS
      <4> DEFINE a == op \div 8
                 b == op % 8
      <4> HIDE DEF a, b
      <4>2. /\ ~(a \in {0, 1, 4, 5, 6, 7} /\ b \in {0, 2, 4})
            /\ a \in {0, 1, 4, 5, 6, 7} /\ b \in {1, 3, 5}
        BY <3>1, <4>1 DEF a, b
      <4> QED
        BY <4>2 DEF ExecLow, a, b
    <3> QED
      BY <3>2, <3>3
  <2>1. CASE k \in 0 .. 3
    <3>1. SameView(i, j)
      BY <1>3, <1>4, <2>1, HaveModRm
    <3>2. CASE k \in {0, 2}
      BY <1>4, <3>1, <3>2, FamiliesSameView DEF ExecLow
    <3>3. CASE k \in {1, 3}
      <4>1. ExecLow(m, i, op) = Family32(m, i) /\ ExecLow(m, j, op) = Family32(m, j)
        BY <2>0, <3>3
      <4> QED
        BY <3>1, <3>3, <4>1, FamiliesSameView
    <3> QED
      BY <2>1, <3>2, <3>3
  <2>2. CASE k = 4
    <3>1. ExecLow(m, i, op) = Family8(m, i) /\ ExecLow(m, j, op) = Family8(m, j)
      BY <2>0, <2>2
    <3>2. Family8(m, i) = Alu(m, i, f, 1, "acc", "imm") /\ Family8(m, j) = Alu(m, j, f, 1, "acc", "imm")
      BY <1>1, <2>2 DEF Family8
    <3> QED
      BY <3>1, <3>2, PlainSame
  <2>3. CASE k = 5
    <3>1. ExecLow(m, i, op) = Family32(m, i) /\ ExecLow(m, j, op) = Family32(m, j)
      BY <2>0, <2>3
    <3>2. /\ Family32(m, i) = Alu(m, i, f, NB, "acc", "imm")
          /\ Family32(m, j) = Alu(m, j, f, NB, "acc", "imm")
      BY <1>1, <2>3 DEF Family32
    <3> QED
      BY <3>1, <3>2, PlainSame
  <2>4. CASE k \in {6, 7}
    BY <1>4, <2>4 DEF ExecLow
  <2> QED
    BY <1>2, <2>1, <2>2, <2>3, <2>4
<1>5. CASE op \in {105, 107}
  <2>1. ExecLow(m, i, op) = ImulImm(m, i) /\ ExecLow(m, j, op) = ImulImm(m, j)
    BY <1>5 DEF ExecLow
  <2>2. SameView(i, j)
    BY <1>3, <1>5, HaveModRm
  <2> QED
    BY <2>1, <2>2, ArithmeticSameView
<1>6. CASE f \notin {0, 1, 4, 5, 6, 7} /\ op \notin {105, 107}
  BY <1>1, <1>6 DEF ExecLow
<1> QED
  BY <1>4, <1>5, <1>6

LEMMA MiddleAlike ==
  ASSUME NEW i, NEW j, Alike(i, j), i.opcode \in 112 .. 159, ~ReadsLeftovers(i),
         i.opcode = 141 => Addressed(i), NEW m
  PROVE  ExecMiddle(m, j, i.opcode) = ExecMiddle(m, i, i.opcode)
<1> DEFINE op == i.opcode
<1>1. j.opcode = op
  BY DEF Alike
<1>2. op \notin 145 .. 151
  BY DEF ReadsLeftovers
<1>3. ASSUME op \in 128 .. 142 PROVE SameView(i, j)
  BY <1>3, ViewIsSame, HaveModRm
<1>4. CASE op \in 112 .. 127
  BY <1>4, PlainSame DEF ExecMiddle
<1>5. CASE op \in 128 .. 131
  <2>1. SameView(i, j)
    BY <1>3, <1>5
  <2> QED
    BY <1>5, <2>1, FamiliesSameView DEF ExecMiddle
<1>6. CASE op \in {132, 133}
  <2>1. SameView(i, j)
    BY <1>3, <1>6
  <2> QED
    BY <1>6, <2>1, AluSameView DEF ExecMiddle
<1>7. CASE op \in 134 .. 139
  <2>1. SameView(i, j)
    BY <1>3, <1>7
  <2> QED
    BY <1>7, <2>1, MovesSameView DEF ExecMiddle
<1>8. CASE op = 141
  <2>1. CalcModRm(m, j) = CalcModRm(m, i) /\ j.modrm = i.modrm
    BY <1>8, SameAddress, HaveModRm DEF Alike
  <2>2. Lea(m, j) = Lea(m, i)
    BY <2>1 DEF Lea
  <2> QED
    BY <1>8, <2>2 DEF ExecMiddle
<1>9. CASE op \in {140, 142, 143, 144} \cup 152 .. 159
  BY <1>9 DEF ExecMiddle
<1> QED
  BY <1>2, <1>4, <1>5, <1>6, <1>7, <1>8, <1>9

LEMMA HighAlike ==
  ASSUME NEW i, NEW j, Alike(i, j), i.opcode \in 160 .. 255, ~ReadsLeftovers(i),
         Reg(i.modrm) \in 0 .. 7, NEW m
  PROVE  ExecHigh(m, j, i.opcode) = ExecHigh(m, i, i.opcode)
<1> DEFINE op == i.opcode
           rms == {192, 193, 198, 199, 211, 246, 247, 255}
<1>1. j.opcode = op /\ j.imm = i.imm
  BY DEF Alike
<1>2. op \notin {166, 167}
  BY DEF ReadsLeftovers
<1>3. ASSUME op \in rms PROVE SameView(i, j)
  BY <1>3, ViewIsSame, HaveModRm
<1>4. CASE op \in 160 .. 163
  BY <1>4, PlainSame DEF ExecHigh
<1>5. CASE op \in {168, 169}
  BY <1>5, PlainSame DEF ExecHigh
<1>6. CASE op = 205
  BY <1>6, PlainSame DEF ExecHigh
<1>7. CASE op \in {198, 199}
  <2>1. SameView(i, j)
    BY <1>3, <1>7
  <2> QED
    BY <1>7, <2>1, MovesSameView DEF ExecHigh
<1>8. CASE op \in {192, 193, 211}
  <2>1. SameView(i, j)
    BY <1>3, <1>8
  <2>2. \A w, c : Shift(m, j, w, c) = Shift(m, i, w, c)
    BY <2>1, ArithmeticSameView
  <2> QED
    BY <1>1, <1>8, <2>2 DEF ExecHigh
<1>9. CASE op \in {246, 247, 255}
  <2>1. SameView(i, j)
    BY <1>3, <1>9
  <2> QED
    BY <1>9, <2>1, CodesSameView DEF ExecHigh
<1>10. CASE op \notin rms \cup 160 .. 163 \cup {168, 169, 205}
  BY <1>1, <1>2, <1>10 DEF ExecHigh
<1> QED
  BY <1>4, <1>5, <1>6, <1>7, <1>8, <1>9, <1>10

LEMMA TwoAlike ==
  ASSUME NEW i, NEW j, Alike(i, j), i.opcode \in Nat, NEW m, NEW op, op = i.opcode - Two(0)
  PROVE  ExecTwo(m, j, op) = ExecTwo(m, i, op)
<1> DEFINE rms == 144 .. 159 \cup {175, 182, 183, 190, 191}
<1>1. CASE op \in rms
  <2>1. SameView(i, j)
    BY <1>1, ViewIsSame, HaveModRm
  <2>2. ImulReg(m, j) = ImulReg(m, i) /\ Extend(m, j) = Extend(m, i) /\ SetCc(m, j) = SetCc(m, i)
    BY <2>1, ArithmeticSameView, MovesSameView
  <2>3. CASE op = 175
    BY <2>2, <2>3 DEF ExecTwo
  <2>4. CASE op \in 144 .. 159
    BY <2>2, <2>4 DEF ExecTwo
  <2>5. CASE op \in {182, 183, 190, 191}
    BY <2>2, <2>5 DEF ExecTwo
  <2> QED
    BY <1>1, <2>3, <2>4, <2>5
<1>2. CASE op \notin rms
  <2>1. Jcc(m, j) = Jcc(m, i)
    BY PlainSame
  <2> QED
    BY <1>2, <2>1 DEF ExecTwo
<1> QED
  BY <1>1, <1>2

LEMMA StepAlike ==
  ASSUME NEW m \in Machines,
         NEW x \in [modrm : Byte, sib : Byte, repeat : 0 .. 3],
         NEW y \in [modrm : Byte, sib : Byte, repeat : 0 .. 3],
         ~ReadsLeftovers(Parse(m.arena, m.eip, x))
  PROVE  Step(m, y) = Step(m, x)
<1> DEFINE i == Parse(m.arena, m.eip, x)
           j == Parse(m.arena, m.eip, y)
           n == [m EXCEPT !.eip = i.next]
<1>1. i \in Parsed
  BY ParsedIs DEF Machines
<1>2. Step(m, x) = Exec(n, i) /\ Step(m, y) = Exec([m EXCEPT !.eip = j.next], j)
  BY DEF Step
<1>3. Alike(i, j) /\ j.next = i.next /\ (i.opcode = 141 => Addressed(i)) /\ ~ReadsLeftovers(i)
  BY ParsedAlike
<1> HIDE DEF i, j
<1>4. Step(m, y) = Exec(n, j)
  BY <1>2, <1>3
<1> HIDE DEF n
<1>5. i.opcode \in Nat /\ Reg(i.modrm) \in 0 .. 7 /\ j.opcode = i.opcode
  BY <1>1, <1>3, FieldsOf DEF Parsed, Alike, Registers
<1>6. CASE i.opcode < 112
  <2>1. Exec(n, i) = ExecLow(n, i, i.opcode) /\ Exec(n, j) = ExecLow(n, j, i.opcode)
    BY <1>5, <1>6 DEF Exec
  <2> QED
    BY <1>2, <1>3, <1>4, <1>5, <1>6, <2>1, LowAlike
<1>7. CASE i.opcode \in 112 .. 159
  <2>1. Exec(n, i) = ExecMiddle(n, i, i.opcode) /\ Exec(n, j) = ExecMiddle(n, j, i.opcode)
    BY <1>5, <1>7 DEF Exec
  <2> QED
    BY <1>2, <1>3, <1>4, <1>7, <2>1, MiddleAlike
<1>8. CASE i.opcode \in 160 .. 255
  <2>1. Exec(n, i) = ExecHigh(n, i, i.opcode) /\ Exec(n, j) = ExecHigh(n, j, i.opcode)
    BY <1>5, <1>8 DEF Exec
  <2> QED
    BY <1>2, <1>3, <1>4, <1>5, <1>8, <2>1, HighAlike
<1>9. CASE i.opcode > 255
  <2>1. /\ Exec(n, i) = ExecTwo(n, i, i.opcode - Two(0))
        /\ Exec(n, j) = ExecTwo(n, j, i.opcode - Two(0))
    BY <1>5, <1>9 DEF Exec
  <2> QED
    BY <1>2, <1>3, <1>4, <1>5, <2>1, TwoAlike
<1> QED
  BY <1>5, <1>6, <1>7, <1>8, <1>9

\* In every state, whatever an earlier instruction left in the InstrData, an instruction
\* that is not one of those named in ReadsLeftovers does the same.
THEOREM LeftoversCorrect == Spec => []LeftoversUnused
<1>1. Cells => LeftoversUnused
  <2> DEFINE some == CHOOSE x \in Leftovers : TRUE
  <2> SUFFICES ASSUME Cells, NEW p \in Player, ~ReadsLeftovers(Due(p, some))
               PROVE  Cardinality({Step(Machine(p), x) : x \in Leftovers}) = 1
    BY DEF LeftoversUnused
  <2>1. Leftovers \subseteq [modrm : Byte, sib : Byte, repeat : 0 .. 3] /\ some \in Leftovers
    BY NiiAssumption
  <2> HIDE DEF some
  <2> DEFINE m == Machine(p)
  <2>2. m \in Machines /\ ~ReadsLeftovers(Parse(m.arena, m.eip, some))
    BY MachineIs DEF Due
  <2> HIDE DEF m
  <2>3. \A x \in Leftovers : Step(m, x) = Step(m, some)
    BY <2>1, <2>2, StepAlike
  <2>4. {Step(m, x) : x \in Leftovers} = {Step(m, some)}
    BY <2>1, <2>3
  <2>5. Cardinality({Step(m, some)}) = 1
    BY FS_Singleton
  <2> QED
    BY <2>4, <2>5 DEF m
<1> QED
  BY <1>1, CellsInit, CellsNext, PTL DEF Spec

-----------------------------------------------------------------------------
USE NiiAssumption

Counters == /\ current_procs \in [Player -> {0, 1}]
            /\ player_id \in 0 .. NumPlayers
            /\ alive_players \in Nat
            /\ cycle \in Nat
            /\ last_alive_player = -1 \/ result = "won"

\* Who had a turn in this cycle and lives has been counted.
Counted ==
  /\ \A p \in Player : Lives(p) /\ p < player_id => alive_players >= 1
  /\ \A p, q \in Player : Lives(p) /\ Lives(q) /\ p < q /\ q < player_id => alive_players >= 2

IInv == Counters /\ Counted /\ ResultSound

LEMMA InitIInv == Init => IInv
BY DEF Init, IInv, Counters, Counted, ResultSound, Lives, Player

\* A turn counts its player, whether or not the instruction kills it.
LEMMA TurnIInv ==
  ASSUME IInv, NEW p \in Player, Turn(p)
  PROVE  IInv'
<1>1. PICK m : IF m.fate = "runs"
               THEN /\ current_procs' = [current_procs EXCEPT ![p] = IF m.halted THEN 0 ELSE 1]
                    /\ player_id' = player_id + 1
                    /\ alive_players' = alive_players + 1
                    /\ result' = result
               ELSE /\ result' = IF m.fate = "hung" THEN "hung" ELSE "crashed"
                    /\ UNCHANGED <<current_procs, player_id, alive_players>>
  BY DEF Turn
<1>2. result = "none" /\ player_id = p /\ Lives(p) /\ UNCHANGED <<cycle, last_alive_player>>
  BY DEF Turn, Plays
<1>3. CASE m.fate = "runs"
  <2>1. /\ current_procs' \in [Player -> {0, 1}]
        /\ \A q \in Player : Lives(q)' => Lives(q)
        /\ player_id' = p + 1 /\ alive_players' = alive_players + 1 /\ result' = "none"
    BY <1>1, <1>2, <1>3 DEF IInv, Counters, Lives
  <2>2. Counters'
    BY <1>2, <2>1 DEF IInv, Counters, Player
  <2>3. Counted'
    BY <1>2, <2>1 DEF IInv, Counters, Counted, Player
  <2> QED
    BY <1>2, <2>1, <2>2, <2>3 DEF IInv, Counters, ResultSound
<1>4. CASE m.fate # "runs"
  BY <1>1, <1>2, <1>4 DEF IInv, Counters, Counted, ResultSound, Lives
<1> QED
  BY <1>3, <1>4

LEMMA NoTurnIInv ==
  ASSUME IInv, NEW p \in Player, NoTurn(p)
  PROVE  IInv'
<1>1. /\ result = "none" /\ player_id = p /\ ~Lives(p) /\ player_id' = p + 1
      /\ UNCHANGED <<current_procs, cycle, alive_players, result, last_alive_player>>
  BY DEF NoTurn
<1>2. Counted'
  BY <1>1 DEF IInv, Counters, Counted, Lives, Player
<1> QED
  BY <1>1, <1>2 DEF IInv, Counters, ResultSound, Lives, Player

\* At the end of a cycle every player who lives has been counted in it.
LEMMA EndCycleIInv ==
  ASSUME IInv, EndCycle
  PROVE  IInv'
<1> DEFINE living == {p \in Player : Lives(p)}
<1>1. /\ result = "none" /\ player_id = NumPlayers /\ last_alive_player = -1
      /\ UNCHANGED <<arena, cpus, current_procs>>
  BY DEF EndCycle, IInv, Counters
<1>2. /\ \A p \in Player : Lives(p) => alive_players >= 1
      /\ \A p, q \in Player : Lives(p) /\ Lives(q) /\ p # q => alive_players >= 2
  BY <1>1 DEF IInv, Counters, Counted, Player
<1>3. CASE alive_players = 0
  <2>1. result' = "tie" /\ UNCHANGED <<last_alive_player, player_id, alive_players, cycle>>
    BY <1>3 DEF EndCycle
  <2> QED
    BY <1>1, <1>2, <1>3, <2>1 DEF IInv, Counters, Counted, ResultSound, Lives
<1>4. CASE alive_players = 1
  <2>1. \A p, q \in living : p = q
    BY <1>2, <1>4
  <2>2. /\ result' = "won"
        /\ last_alive_player' = IF living = {} THEN -1 ELSE CHOOSE p \in living : TRUE
        /\ UNCHANGED <<player_id, alive_players, cycle>>
    BY <1>4, <2>1 DEF EndCycle
  <2>3. \A p \in Player : Lives(p) <=> p = last_alive_player'
    <3>1. CASE living = {}
      BY <2>2, <3>1 DEF Player
    <3>2. CASE living # {}
      <4>1. last_alive_player' \in living
        BY <2>2, <3>2
      <4> QED
        BY <2>1, <4>1
    <3> QED
      BY <3>1, <3>2
  <2> QED
    BY <1>1, <2>2, <2>3 DEF IInv, Counters, Counted, ResultSound, Lives
<1>5. CASE alive_players \notin {0, 1}
  <2>1. /\ result' = IF cycle = MAX_CYCLE - 1 THEN "tie" ELSE "none"
        /\ UNCHANGED last_alive_player
        /\ IF result' = "none" THEN player_id' = 0 /\ alive_players' = 0 /\ cycle' = cycle + 1
           ELSE UNCHANGED <<player_id, alive_players, cycle>>
    BY <1>5 DEF EndCycle
  <2> QED
    BY <1>1, <1>5, <2>1 DEF IInv, Counters, Counted, ResultSound, Lives, Player
<1> QED
  BY <1>3, <1>4, <1>5

\* run_game never meets more than one living player after it counted one, and it
\* announces the one who lives, or nobody, or a tie.
THEOREM ResultCorrect == Spec => []ResultSound
<1>1. IInv /\ [Next]_vars => IInv'
  <2> SUFFICES ASSUME IInv, [Next]_vars
               PROVE  IInv'
    OBVIOUS
  <2>1. CASE EndCycle
    BY <2>1, EndCycleIInv
  <2>2. CASE \E p \in Player : Turn(p)
    BY <2>2, TurnIInv
  <2>3. CASE \E p \in Player : NoTurn(p)
    BY <2>3, NoTurnIInv
  <2>4. CASE UNCHANGED vars
    BY <2>4 DEF vars, IInv, Counters, Counted, ResultSound, Lives
  <2> QED
    BY <2>1, <2>2, <2>3, <2>4 DEF Next
<1> QED
  BY <1>1, InitIInv, PTL DEF Spec, IInv
=============================================================================
