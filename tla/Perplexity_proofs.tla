-------------------------- MODULE Perplexity_proofs --------------------------
(***************************************************************************)
(* For every number of directions, rooms, links and loops:                 *)
(*                                                                         *)
(* No room ever gets two directions of one name.  The loop's rooms are     *)
(* linked one after the other: a room that has not had its turn has no     *)
(* direction, and the two that it then gets differ.  Everywhere else a     *)
(* free direction is taken, and at both ends of a link between loops.      *)
(*                                                                         *)
(* Every world can be played up to the first loop that only keys lead      *)
(* into.  Each room before has a rank, which grows along some way to it    *)
(* that needs only what lies in rooms of lower rank, and every room has a  *)
(* height, which falls along some way back to the first room (Ranks,       *)
(* Homes).  A new loop gets its ranks after all others: from where it is   *)
(* entered, around.  Reached is a recursive function, and what it has      *)
(* after k steps is shown by its least counterexample (UpTo), since the    *)
(* prover has no induction.                                                *)
(*                                                                         *)
(* For every world and every order of commands: no item is in two places;  *)
(* a code that the display showed stands for the room it was shown for;    *)
(* and the two numbers of a full door add up to what its symbols and its   *)
(* wheels have in common.  Digits, Value, Xor, InPlace and Match are loops *)
(* of the program: each is first shown to be the function that its         *)
(* definition describes (Recursion, Loop), then followed turn by turn.     *)
(***************************************************************************)
EXTENDS PerplexityMap, Perplexity, FiniteSetTheorems, SequenceTheorems,
        WellFoundedInduction, TLAPS

\* Rooms that had their turn, while a loop is made.
RingInv ==
  pc = "ring" => /\ main + 1 + ring.i <= rooms
                 /\ \A e \in exits : e.from < main + 1 + ring.i

MapInv ==
  /\ size \in Sizes
  /\ main \in Nat /\ rooms \in Nat /\ main <= rooms
  /\ ring \in [i : Nat, links : BOOLEAN, prev : Int, first : Int]
  /\ \A e \in exits : e.from \in Nat /\ e.from <= rooms
  /\ pc = "loop" => main = rooms
  /\ RingInv

IInv == MapInv /\ ExitsDistinct

\* A direction that is free at r is the name of none of r's directions.
LEMMA FreeIsNew ==
  ASSUME NEW r, NEW d \in Free(r), NEW e \in exits, e.from = r
  PROVE  e.dir # d
BY DEF Free, Used

\* The direction put in place first and the one after it have from and dir as given.
LEMMA ExitFields ==
  ASSUME NEW r, NEW k, NEW d, NEW to, NEW l
  PROVE  Exit(r, k, d, to, l).from = r /\ Exit(r, k, d, to, l).dir = d
BY DEF Exit

\* One more direction, with a name that is free, keeps the names apart.
LEMMA OneMore ==
  ASSUME ExitsDistinct, NEW x, x.dir \in Free(x.from), exits' = exits \cup {x}
  PROVE  ExitsDistinct'
<1> SUFFICES ASSUME NEW e \in exits', NEW f \in exits', e.from = f.from, e.dir = f.dir
             PROVE  e = f
  BY DEF ExitsDistinct
<1>1. CASE e \in exits /\ f \in exits
  BY <1>1 DEF ExitsDistinct
<1>2. \A g \in exits : g.from = x.from => g.dir # x.dir
  BY FreeIsNew
<1> QED
  BY <1>1, <1>2

LEMMA InitOK == Init => IInv
BY DEF Init, IInv, MapInv, RingInv, ExitsDistinct

LEMMA NewLoopOK == ASSUME IInv, NewLoop PROVE IInv'
<1> USE DEF IInv, MapInv, NewLoop
<1>1. size.directions \in Nat /\ size.MIN_ROOMS \in Nat /\ size.MAX_ROOMS \in Nat /\ size.MIN_ROOMS > 1
  BY MapAssumption
<1>2. PICK n \in size.MIN_ROOMS .. size.MAX_ROOMS - 1, d \in Directions :
        /\ rooms' = main + n
        /\ ring' = [i |-> 0, links |-> FALSE, prev |-> d, first |-> Opposite(d)]
  OBVIOUS
<1>3. n \in Nat /\ n > 1 /\ d \in Int
  BY <1>1 DEF Directions
<1>4. Opposite(d) \in Int
  BY <1>3 DEF Opposite
<1>5. main = rooms /\ pc' = "ring"
  OBVIOUS
<1>6. rooms' \in Nat /\ main' <= rooms' /\ ring' \in [i : Nat, links : BOOLEAN, prev : Int, first : Int]
  BY <1>2, <1>3, <1>4
<1>7. ring'.i = 0
  BY <1>2
<1>8. \A e \in exits' : e.from \in Nat /\ e.from <= rooms' /\ e.from < main' + 1 + ring'.i
  BY <1>2, <1>3, <1>5, <1>7
<1>9. main' + 1 + ring'.i <= rooms'
  BY <1>2, <1>3, <1>7
<1>10. MapInv'
  BY <1>5, <1>6, <1>8, <1>9 DEF RingInv
<1> QED
  BY <1>10 DEF ExitsDistinct

LEMMA LinkRoomOK == ASSUME IInv, LinkRoom PROVE IInv'
<1> DEFINE r     == main + 1 + ring.i
           last  == r = rooms
           links == IF last THEN LastLinks ELSE ring.links
           back  == Opposite(ring.prev)
<1>1. PICK on \in IF ~links THEN {back}
                  ELSE IF last THEN {Opposite(ring.first)} ELSE Directions \ {back} :
        /\ exits' = exits \cup
             (IF links /\ on # back
              THEN {Exit(r, 0, back, r - 1, 0), Exit(r, 1, on, NextInRing(r), 0)}
              ELSE {Exit(r, 0, on, NextInRing(r), 0)})
        /\ \E l \in BOOLEAN :
             ring' = [i |-> ring.i + 1, links |-> l, prev |-> on, first |-> ring.first]
  BY DEF LinkRoom
<1>2. /\ size \in Sizes /\ main \in Nat /\ rooms \in Nat
      /\ ring \in [i : Nat, links : BOOLEAN, prev : Int, first : Int]
      /\ pc = "ring" /\ r <= rooms
      /\ \A e \in exits : e.from \in Nat /\ e.from < r
      /\ pc' = (IF last THEN "teleporter" ELSE "ring")
      /\ UNCHANGED <<size, rooms, main>>
  BY DEF IInv, MapInv, RingInv, LinkRoom
<1>3. on \in Int
  <2>1. size.directions \in Nat
    BY <1>2, MapAssumption
  <2>2. \A d \in Directions : d \in Int
    BY <2>1 DEF Directions
  <2>3. Opposite(ring.first) \in Int /\ Opposite(ring.prev) \in Int
    BY <1>2 DEF Opposite
  <2>4. on \in {back, Opposite(ring.first)} \cup Directions
    <3> HIDE DEF r, last, links, back
    <3> QED
      BY <1>1
  <2> QED
    BY <2>2, <2>3, <2>4
<1>4. /\ ring' \in [i : Nat, links : BOOLEAN, prev : Int, first : Int]
      /\ ring'.i = ring.i + 1
  <2>1. PICK l \in BOOLEAN :
          ring' = [i |-> ring.i + 1, links |-> l, prev |-> on, first |-> ring.first]
    BY <1>1
  <2> QED
    BY <2>1, <1>2, <1>3
<1>5. \A e \in exits' : e \in exits \/ e.from = r
  BY <1>1, ExitFields
<1>6. \A e \in exits' : e.from \in Nat /\ e.from < r + 1
  BY <1>2, <1>5
<1>7. MapInv'
  BY <1>2, <1>4, <1>6 DEF IInv, MapInv, RingInv
<1>8. ExitsDistinct'
  <2> SUFFICES ASSUME NEW e \in exits', NEW f \in exits', e.from = f.from, e.dir = f.dir
               PROVE  e = f
    BY DEF ExitsDistinct
  <2>1. CASE e \in exits \/ f \in exits
    <3>1. e.from < r /\ f.from < r /\ e.from # r /\ f.from # r
      BY <2>1, <1>2
    <3>2. e \in exits /\ f \in exits
      BY <3>1, <1>5
    <3> QED
      BY <3>2 DEF IInv, ExitsDistinct
  <2>2. CASE e \notin exits /\ f \notin exits
    <3>1. CASE links /\ on # back
      <4>1. e \in {Exit(r, 0, back, r - 1, 0), Exit(r, 1, on, NextInRing(r), 0)}
        BY <1>1, <2>2, <3>1
      <4>2. f \in {Exit(r, 0, back, r - 1, 0), Exit(r, 1, on, NextInRing(r), 0)}
        BY <1>1, <2>2, <3>1
      <4> QED
        BY <3>1, <4>1, <4>2, ExitFields
    <3>2. CASE ~(links /\ on # back)
      BY <1>1, <2>2, <3>2
    <3> QED
      BY <3>1, <3>2
  <2> QED
    BY <2>1, <2>2
<1> QED
  BY <1>7, <1>8 DEF IInv

LEMMA PlaceTeleporterOK == ASSUME IInv, PlaceTeleporter PROVE IInv'
<1>1. PICK r \in NewRooms : \E d \in Free(r) : exits' = exits \cup {Exit(r, 0, d, Nowhere, 0)}
  BY DEF PlaceTeleporter
<1>a. PICK d \in Free(r) : exits' = exits \cup {Exit(r, 0, d, Nowhere, 0)}
  BY <1>1
<1>2. main \in Nat /\ rooms \in Nat /\ r \in Nat /\ r <= rooms
  BY DEF IInv, MapInv, NewRooms
<1>3. Exit(r, 0, d, Nowhere, 0).from = r /\ Exit(r, 0, d, Nowhere, 0).dir = d
  BY ExitFields
<1>4. ExitsDistinct'
  BY <1>a, <1>3, OneMore DEF IInv
<1>5. MapInv'
  BY <1>a, <1>2, <1>3 DEF IInv, MapInv, RingInv, PlaceTeleporter
<1> QED
  BY <1>4, <1>5 DEF IInv

LEMMA LoopLinkOK == ASSUME IInv, LoopLink PROVE IInv'
<1> DEFINE l == Cardinality(DOMAIN locks) + 1
<1>1. PICK a \in Main, b \in NewRooms : \E d \in FreeBoth(a, b) :
        exits' = exits \cup {Exit(a, 0, d, b, l), Exit(b, 0, Opposite(d), a, 0)}
  BY DEF LoopLink
<1>a. PICK d \in FreeBoth(a, b) :
        exits' = exits \cup {Exit(a, 0, d, b, l), Exit(b, 0, Opposite(d), a, 0)}
  BY <1>1
<1>2. /\ main \in Nat /\ rooms \in Nat /\ a \in Nat /\ b \in Nat
      /\ a <= main /\ b > main /\ b <= rooms /\ main <= rooms
  BY DEF IInv, MapInv, Main, NewRooms
<1> DEFINE x == Exit(a, 0, d, b, l)
           y == Exit(b, 0, Opposite(d), a, 0)
<1>3. x.from = a /\ x.dir = d /\ y.from = b /\ y.dir = Opposite(d)
  BY ExitFields
<1>4. d \in Free(a) /\ Opposite(d) \in Free(b)
  BY DEF FreeBoth
<1>5. ExitsDistinct'
  <2> HIDE DEF x, y, l
  <2> SUFFICES ASSUME NEW e \in exits', NEW f \in exits', e.from = f.from, e.dir = f.dir
               PROVE  e = f
    BY DEF ExitsDistinct
  <2>1. \A g \in exits : (g.from = a => g.dir # d) /\ (g.from = b => g.dir # Opposite(d))
    BY <1>4, FreeIsNew
  <2>2. \A g \in exits' : g \in exits \/ g = x \/ g = y
    BY <1>a DEF x, y
  <2>3. a # b
    BY <1>2
  <2>4. CASE e \in exits /\ f \in exits
    BY <2>4 DEF IInv, ExitsDistinct
  <2> QED
    BY <2>1, <2>2, <2>3, <2>4, <1>3
<1>6. \A e \in exits' : e \in exits \/ e.from = a \/ e.from = b
  BY <1>a, <1>3
<1>7. MapInv'
  BY <1>2, <1>6 DEF IInv, MapInv, RingInv, LoopLink
<1> QED
  BY <1>5, <1>7 DEF IInv

LEMMA RandomLinkOK ==
  ASSUME NEW To, NEW From, From \subseteq 1 .. rooms, IInv, RandomLink(To, From), pc # "ring"
  PROVE  IInv'
<1>1. CASE UNCHANGED exits
  BY <1>1 DEF IInv, MapInv, RingInv, ExitsDistinct, RandomLink
<1>2. CASE exits' # exits
  <2>1. PICK t \in To, f \in From : \E d \in Free(f) : exits' = exits \cup {Exit(f, 0, d, t, 0)}
    BY <1>2 DEF RandomLink
  <2>a. PICK d \in Free(f) : exits' = exits \cup {Exit(f, 0, d, t, 0)}
    BY <2>1
  <2>2. Exit(f, 0, d, t, 0).from = f /\ Exit(f, 0, d, t, 0).dir = d
    BY ExitFields
  <2>3. rooms \in Nat /\ f \in Nat /\ f <= rooms
    BY DEF IInv, MapInv
  <2>4. ExitsDistinct'
    BY <2>a, <2>2, OneMore DEF IInv
  <2>5. \A e \in exits' : e \in exits \/ e.from = f
    BY <2>a, <2>2
  <2>6. MapInv'
    BY <2>3, <2>5 DEF IInv, MapInv, RingInv, RandomLink
  <2> QED
    BY <2>4, <2>6 DEF IInv
<1> QED
  BY <1>1, <1>2

LEMMA AddExitRoomOK == ASSUME IInv, AddExitRoom PROVE IInv'
<1> DEFINE l == Cardinality(DOMAIN locks) + 1
<1>1. PICK r \in Main : \E d \in Free(r) : exits' = exits \cup {Exit(r, 0, d, rooms + 2, l)}
  BY DEF AddExitRoom
<1>a. PICK d \in Free(r) : exits' = exits \cup {Exit(r, 0, d, rooms + 2, l)}
  BY <1>1
<1>2. Exit(r, 0, d, rooms + 2, l).from = r /\ Exit(r, 0, d, rooms + 2, l).dir = d
  BY ExitFields
<1>3. main \in Nat /\ rooms \in Nat /\ main <= rooms /\ r \in Nat /\ r <= main
  BY DEF IInv, MapInv, Main
<1>4. ExitsDistinct'
  BY <1>a, <1>2, OneMore DEF IInv
<1>5. \A e \in exits' : e \in exits \/ e.from = r
  BY <1>a, <1>2
<1>6. MapInv'
  BY <1>3, <1>5 DEF IInv, MapInv, RingInv, AddExitRoom
<1> QED
  BY <1>4, <1>6 DEF IInv

\* Every action keeps the invariant.
LEMMA StepOK == ASSUME IInv, [Generate]_mapVars PROVE IInv'
<1>1. main \in Nat /\ rooms \in Nat /\ main <= rooms
  BY DEF IInv, MapInv
<1>2. NewRooms \subseteq 1 .. rooms
  BY <1>1 DEF NewRooms
<1>3. CASE SelfLink
  BY <1>2, <1>3, RandomLinkOK DEF SelfLink
<1>4. CASE BackLink
  BY <1>2, <1>4, RandomLinkOK DEF BackLink
<1>5. CASE NextPart
  BY <1>5 DEF NextPart, IInv, MapInv, RingInv, ExitsDistinct
<1>6. CASE SortRoomDirections
  BY <1>6 DEF SortRoomDirections, IInv, MapInv, RingInv, ExitsDistinct
<1>7. CASE PickAgain \/ UNCHANGED mapVars
  BY <1>7 DEF PickAgain, mapVars, IInv, MapInv, RingInv, ExitsDistinct
<1> QED
  BY <1>3, <1>4, <1>5, <1>6, <1>7, NewLoopOK, LinkRoomOK, PlaceTeleporterOK, LoopLinkOK, AddExitRoomOK
     DEF Generate

\* What the sort could drop is never there: the directions of a room that
\* GenerateGame adds, in five places, all have names of their own.
THEOREM DistinctExits == GenerateSpec => []ExitsDistinct
<1>1. IInv => ExitsDistinct
  BY DEF IInv
<1> QED
  BY <1>1, InitOK, StepOK, PTL DEF GenerateSpec

-----------------------------------------------------------------------------
(* What the iteration of ReachedUpToKeys computes.                         *)

\* Induction over an interval, for a set of numbers.
LEMMA UpTo ==
  ASSUME NEW n \in Nat, NEW A, 0 \in A, \A k \in 0 .. n - 1 : k \in A => k + 1 \in A
  PROVE  0 .. n \subseteq A
<1> DEFINE B == (0 .. n) \ A
<1> SUFFICES ASSUME B # {} PROVE FALSE
  OBVIOUS
<1>1. B \subseteq Nat
  OBVIOUS
<1>2. PICK m \in B : \A i \in B : ~(<<i, m>> \in OpToRel(<, Nat))
  <2> HIDE DEF B
  <2> QED
    BY <1>1, NatLessThanWellFounded, WFMin, Zenon
<1>3. m \in 1 .. n /\ m - 1 \in 0 .. n - 1
  OBVIOUS
<1>4. m - 1 \in A
  <2> SUFFICES ASSUME m - 1 \notin A PROVE FALSE
    OBVIOUS
  <2>1. m - 1 \in B /\ m - 1 \in Nat /\ m \in Nat /\ m - 1 < m
    BY <1>3
  <2> HIDE DEF B
  <2>2. <<m - 1, m>> \in OpToRel(<, Nat)
    BY <2>1 DEF OpToRel
  <2> QED
    BY <1>2, <2>1, <2>2
<1>5. (m - 1) + 1 \in A
  BY <1>3, <1>4
<1> QED
  BY <1>3, <1>5

\* g iterates a step on sets of S from R on.
IsIteration(g, n, S, R, step) ==
  /\ g \in [0 .. n -> SUBSET S] /\ g[0] = R
  /\ \A k \in 1 .. n : g[k] = step[g[k - 1]]

\* A step can be iterated.
LEMMA Iterates ==
  ASSUME NEW n \in Nat, NEW S, NEW R \in SUBSET S, NEW step \in [SUBSET S -> SUBSET S]
  PROVE  \E g : IsIteration(g, n, S, R, step)
<1> DEFINE Partial(m, g) == IsIteration(g, m, S, R, step)
           A == {m \in 0 .. n : \E g : Partial(m, g)}
<1> USE DEF IsIteration
<1>1. 0 \in A
  <2> DEFINE g == [k \in 0 .. 0 |-> R]
  <2>1. g \in [0 .. 0 -> SUBSET S] /\ g[0] = R /\ \A k \in 1 .. 0 : g[k] = step[g[k - 1]]
    OBVIOUS
  <2>2. Partial(0, g)
    BY <2>1
  <2>3. 0 \in 0 .. n
    OBVIOUS
  <2> HIDE DEF Partial, g
  <2> QED
    BY <2>2, <2>3
<1>2. ASSUME NEW m \in 0 .. n - 1, m \in A
      PROVE  m + 1 \in A
  <2>1. PICK g : Partial(m, g)
    BY <1>2
  <2> DEFINE h == [k \in 0 .. m + 1 |-> IF k = m + 1 THEN step[g[m]] ELSE g[k]]
  <2>2. step[g[m]] \in SUBSET S
    BY <2>1
  <2>3. h \in [0 .. m + 1 -> SUBSET S] /\ h[0] = R
    BY <2>1, <2>2
  <2>4. \A k \in 1 .. m : h[k] = g[k] /\ h[k - 1] = g[k - 1]
    OBVIOUS
  <2>5. h[m + 1] = step[g[m]] /\ h[m] = g[m]
    OBVIOUS
  <2>6. \A k \in 1 .. m + 1 : k = m + 1 \/ k \in 1 .. m
    OBVIOUS
  <2>7. (m + 1) - 1 = m
    OBVIOUS
  <2> HIDE DEF h
  <2>8. \A k \in 1 .. m + 1 : h[k] = step[h[k - 1]]
    BY <2>1, <2>4, <2>5, <2>6, <2>7
  <2> QED
    BY <2>3, <2>8
<1>3. 0 .. n \subseteq A
  <2> HIDE DEF A
  <2> QED
    BY <1>1, <1>2, UpTo
<1>4. n \in A
  <2> HIDE DEF A
  <2> QED
    BY <1>3
<1> QED
  BY <1>4

\* The exits that are open once rooms R were reached, and those that need nothing; and
\* the functions that Reached iterates with them.
Unlocked(R)  == {e \in exits : e.lock = 0 \/ (/\ e.lock \in DOMAIN locks /\ ~locks[e.lock].key
                                              /\ locks[e.lock].parts \subseteq R)}
Unguarded(R) == {e \in exits : e.lock = 0}
WithKeys(R)  == LET f[k \in 0 .. rooms] == IF k = 0 THEN R ELSE Beyond(f[k - 1], Unlocked(f[k - 1]))
                IN  f
WithNone(R)  == LET f[k \in 0 .. rooms] == IF k = 0 THEN R ELSE Beyond(f[k - 1], Unguarded(f[k - 1]))
                IN  f

LEMMA ReachedIs ==
  ASSUME NEW R
  PROVE  Reached(R, Unlocked) = WithKeys(R)[rooms] /\ Reached(R, Unguarded) = WithNone(R)[rooms]
<1>1. Reached(R, Unlocked) = WithKeys(R)[rooms]
  BY Zenon DEF Reached, WithKeys
<1>2. Reached(R, Unguarded) = WithNone(R)[rooms]
  BY Zenon DEF Reached, WithNone
<1> QED
  BY <1>1, <1>2

\* The functions are what their recursive definitions say.
LEMMA WithKeysIs ==
  ASSUME rooms \in Nat, NEW R
  PROVE  WithKeys(R)[0] = R /\ \A k \in 1 .. rooms :
           WithKeys(R)[k] = Beyond(WithKeys(R)[k - 1], Unlocked(WithKeys(R)[k - 1]))
<1> DEFINE S == R \cup {e.to : e \in exits}
           step == [X \in SUBSET S |-> Beyond(X, Unlocked(X))]
<1>1. step \in [SUBSET S -> SUBSET S]
  BY DEF Beyond, Unlocked
<1>2. R \in SUBSET S
  OBVIOUS
<1>3. PICK g \in [0 .. rooms -> SUBSET S] :
        g[0] = R /\ \A k \in 1 .. rooms : g[k] = step[g[k - 1]]
  <2> HIDE DEF S, step
  <2>1. PICK g : IsIteration(g, rooms, S, R, step)
    BY <1>1, <1>2, Iterates
  <2> QED
    BY <2>1 DEF IsIteration
<1>4. \A k \in 0 .. rooms : g[k] = IF k = 0 THEN R ELSE Beyond(g[k - 1], Unlocked(g[k - 1]))
  <2> TAKE k \in 0 .. rooms
  <2>1. CASE k = 0
    BY <1>3, <2>1
  <2>2. CASE k # 0
    <3>1. k \in 1 .. rooms /\ k - 1 \in 0 .. rooms
      BY <2>2
    <3>2. g[k - 1] \in SUBSET S
      BY <3>1
    <3>3. step[g[k - 1]] = Beyond(g[k - 1], Unlocked(g[k - 1]))
      BY <3>2
    <3> QED
      BY <1>3, <2>2, <3>1, <3>3
  <2> QED
    BY <2>1, <2>2
<1> HIDE DEF S, step
<1>5. g = [k \in 0 .. rooms |-> IF k = 0 THEN R ELSE Beyond(g[k - 1], Unlocked(g[k - 1]))]
  BY <1>4
<1>6. WithKeys(R) = [k \in 0 .. rooms |-> IF k = 0 THEN R
                       ELSE Beyond(WithKeys(R)[k - 1], Unlocked(WithKeys(R)[k - 1]))]
  BY <1>5, Zenon DEF WithKeys
<1> DEFINE f == WithKeys(R)
<1>7. \A k \in 0 .. rooms : f[k] = IF k = 0 THEN R ELSE Beyond(f[k - 1], Unlocked(f[k - 1]))
  <2> HIDE DEF f
  <2> SUFFICES f = [k \in 0 .. rooms |-> IF k = 0 THEN R ELSE Beyond(f[k - 1], Unlocked(f[k - 1]))]
    OBVIOUS
  <2> QED
    BY <1>6, Zenon DEF f
<1> QED
  BY <1>7

LEMMA WithNoneIs ==
  ASSUME rooms \in Nat, NEW R
  PROVE  WithNone(R)[0] = R /\ \A k \in 1 .. rooms :
           WithNone(R)[k] = Beyond(WithNone(R)[k - 1], Unguarded(WithNone(R)[k - 1]))
<1> DEFINE S == R \cup {e.to : e \in exits}
           step == [X \in SUBSET S |-> Beyond(X, Unguarded(X))]
<1>1. step \in [SUBSET S -> SUBSET S]
  BY DEF Beyond, Unguarded
<1>2. R \in SUBSET S
  OBVIOUS
<1>3. PICK g \in [0 .. rooms -> SUBSET S] :
        g[0] = R /\ \A k \in 1 .. rooms : g[k] = step[g[k - 1]]
  <2> HIDE DEF S, step
  <2>1. PICK g : IsIteration(g, rooms, S, R, step)
    BY <1>1, <1>2, Iterates
  <2> QED
    BY <2>1 DEF IsIteration
<1>4. \A k \in 0 .. rooms : g[k] = IF k = 0 THEN R ELSE Beyond(g[k - 1], Unguarded(g[k - 1]))
  <2> TAKE k \in 0 .. rooms
  <2>1. CASE k = 0
    BY <1>3, <2>1
  <2>2. CASE k # 0
    <3>1. k \in 1 .. rooms /\ k - 1 \in 0 .. rooms
      BY <2>2
    <3>2. g[k - 1] \in SUBSET S
      BY <3>1
    <3>3. step[g[k - 1]] = Beyond(g[k - 1], Unguarded(g[k - 1]))
      BY <3>2
    <3> QED
      BY <1>3, <2>2, <3>1, <3>3
  <2> QED
    BY <2>1, <2>2
<1> HIDE DEF S, step
<1>5. g = [k \in 0 .. rooms |-> IF k = 0 THEN R ELSE Beyond(g[k - 1], Unguarded(g[k - 1]))]
  BY <1>4
<1>6. WithNone(R) = [k \in 0 .. rooms |-> IF k = 0 THEN R
                       ELSE Beyond(WithNone(R)[k - 1], Unguarded(WithNone(R)[k - 1]))]
  BY <1>5, Zenon DEF WithNone
<1> DEFINE f == WithNone(R)
<1>7. \A k \in 0 .. rooms : f[k] = IF k = 0 THEN R ELSE Beyond(f[k - 1], Unguarded(f[k - 1]))
  <2> HIDE DEF f
  <2> SUFFICES f = [k \in 0 .. rooms |-> IF k = 0 THEN R ELSE Beyond(f[k - 1], Unguarded(f[k - 1]))]
    OBVIOUS
  <2> QED
    BY <1>6, Zenon DEF f
<1> QED
  BY <1>7

-----------------------------------------------------------------------------
(* Ranks of rooms.  A room can be reached if it has a way in from a room of *)
(* lower rank, and what opens that way, no key, lies in rooms of lower      *)
(* rank, all of them before the first loop that only keys lead into; and the *)
(* first can be reached again if every other room has an open way to a room *)
(* of lower rank.                                                           *)

Entrance(rk, r, e) ==
  /\ e \in exits /\ e.to = r /\ e.from \in BeforeKeys /\ rk[e.from] < rk[r]
  /\ \/ e.lock = 0
     \/ /\ e.lock \in DOMAIN locks /\ ~locks[e.lock].key
        /\ \A q \in locks[e.lock].parts : q \in BeforeKeys /\ rk[q] < rk[r]

WayHome(hk, r, e) ==
  e \in exits /\ e.from = r /\ e.to \in Main /\ hk[e.to] < hk[r] /\ e.lock = 0

IsRank(rk) == rk \in [Main -> Nat] /\ \A r \in Main : rk[r] < main

Ranks == \E rk : IsRank(rk) /\ \A r \in BeforeKeys : r = 1 \/ \E e : Entrance(rk, r, e)
Homes == \E hk : IsRank(hk) /\ \A r \in Main : r = 1 \/ \E e : WayHome(hk, r, e)

LEMMA AllReached ==
  ASSUME Ranks, main \in Nat, rooms \in Nat, 0 < main, main <= rooms
  PROVE  BeforeKeys \subseteq Reached({1}, Unlocked)
<1> DEFINE f == WithKeys({1})
<1>1. f[0] = {1} /\ \A k \in 1 .. rooms : f[k] = Beyond(f[k - 1], Unlocked(f[k - 1]))
  BY WithKeysIs
<1>2. PICK rk : IsRank(rk) /\ \A r \in BeforeKeys : r = 1 \/ \E e : Entrance(rk, r, e)
  BY DEF Ranks
<1>3. /\ rk \in [Main -> Nat] /\ \A r \in Main : rk[r] < main /\ rk[r] \in Nat
      /\ Main \subseteq Nat \ {0} /\ BeforeKeys \subseteq Main
  BY <1>2 DEF IsRank, Main, BeforeKeys
<1> DEFINE A == {k \in 0 .. rooms : 1 \in f[k] /\ \A r \in BeforeKeys : rk[r] <= k => r \in f[k]}
<1> HIDE DEF f
<1>4. 0 \in A
  <2>1. ASSUME NEW r \in BeforeKeys, rk[r] <= 0
        PROVE  r = 1
    <3>1. ASSUME NEW e, Entrance(rk, r, e)
          PROVE  FALSE
      <4>1. rk[e.from] \in Nat /\ rk[e.from] < rk[r]
        BY <1>3, <3>1 DEF Entrance
      <4> QED
        BY <1>3, <2>1, <4>1
    <3> QED
      BY <1>2, <3>1
  <2> QED
    BY <1>1, <2>1
<1>5. ASSUME NEW k \in 0 .. rooms - 1, k \in A
      PROVE  k + 1 \in A
  <2>1. /\ k \in Nat /\ k + 1 \in 0 .. rooms /\ k + 1 \in 1 .. rooms /\ (k + 1) - 1 = k
        /\ 1 \in f[k] /\ \A r \in BeforeKeys : rk[r] <= k => r \in f[k]
    BY <1>5
  <2>2. f[k + 1] = Beyond(f[k], Unlocked(f[k]))
    BY <1>1, <2>1
  <2>3. f[k] \subseteq f[k + 1]
    BY <2>2 DEF Beyond
  <2>4. ASSUME NEW r \in BeforeKeys, rk[r] <= k + 1
        PROVE  r \in f[k + 1]
    <3>1. CASE r = 1
      BY <2>1, <2>3, <3>1
    <3>2. ASSUME NEW e, Entrance(rk, r, e)
          PROVE  r \in f[k + 1]
      <4>1. \A q \in BeforeKeys : rk[q] < rk[r] => q \in f[k]
        <5> SUFFICES ASSUME NEW q \in BeforeKeys, rk[q] < rk[r]
                     PROVE  rk[q] <= k
          BY <2>1
        <5> QED
          BY <1>3, <2>1, <2>4
      <4>2. e \in exits /\ e.to = r /\ e.from \in f[k] /\ e \in Unlocked(f[k])
        BY <3>2, <4>1 DEF Entrance, Unlocked
      <4>3. e.to # Nowhere
        BY <1>3, <4>2 DEF Nowhere
      <4> QED
        BY <2>2, <4>2, <4>3 DEF Beyond
    <3> QED
      BY <1>2, <3>1, <3>2
  <2> QED
    BY <2>1, <2>3, <2>4
<1>6. rooms \in A
  <2> HIDE DEF A
  <2>1. 0 .. rooms \subseteq A
    BY <1>4, <1>5, UpTo
  <2> QED
    BY <2>1
<1>7. \A r \in BeforeKeys : r \in f[rooms]
  <2>1. \A r \in BeforeKeys : rk[r] <= rooms
    BY <1>3
  <2> QED
    BY <1>6, <2>1
<1>8. Reached({1}, Unlocked) = f[rooms]
  BY ReachedIs DEF f
<1> QED
  BY <1>7, <1>8

LEMMA FirstReached ==
  ASSUME Homes, main \in Nat, rooms \in Nat, main <= rooms, NEW r \in Main
  PROVE  1 \in Reached({r}, Unguarded)
<1> DEFINE f == WithNone({r})
<1>1. f[0] = {r} /\ \A k \in 1 .. rooms : f[k] = Beyond(f[k - 1], Unguarded(f[k - 1]))
  BY WithNoneIs
<1>2. PICK hk : IsRank(hk) /\ \A q \in Main : q = 1 \/ \E e : WayHome(hk, q, e)
  BY DEF Homes
<1>3. /\ \A q \in Main : hk[q] < main /\ hk[q] \in Nat
      /\ Main \subseteq Nat \ {0}
  BY <1>2 DEF IsRank, Main
<1> DEFINE A == {k \in 0 .. rooms : 1 \in f[k] \/ \E q \in f[k] : q \in Main /\ hk[q] + k <= hk[r]}
<1> HIDE DEF f
<1>4. 0 \in A
  BY <1>1, <1>3
<1>5. ASSUME NEW k \in 0 .. rooms - 1, k \in A
      PROVE  k + 1 \in A
  <2>1. /\ k \in Nat /\ k + 1 \in 0 .. rooms /\ k + 1 \in 1 .. rooms /\ (k + 1) - 1 = k
        /\ 1 \in f[k] \/ \E q \in f[k] : q \in Main /\ hk[q] + k <= hk[r]
    BY <1>5
  <2>2. f[k + 1] = Beyond(f[k], Unguarded(f[k]))
    BY <1>1, <2>1
  <2>3. f[k] \subseteq f[k + 1]
    BY <2>2 DEF Beyond
  <2>4. CASE 1 \in f[k]
    BY <2>1, <2>3, <2>4
  <2>5. ASSUME NEW q \in f[k], q \in Main, hk[q] + k <= hk[r], q # 1
        PROVE  \E p \in f[k + 1] : p \in Main /\ hk[p] + (k + 1) <= hk[r]
    <3>1. PICK e : WayHome(hk, q, e)
      BY <1>2, <2>5
    <3>2. /\ e \in Unguarded(f[k]) /\ e.from \in f[k] /\ e.to \in Main /\ e.to # Nowhere
          /\ hk[e.to] < hk[q]
      BY <1>3, <2>5, <3>1 DEF WayHome, Unguarded, Nowhere
    <3>3. e.to \in f[k + 1]
      BY <2>2, <3>2 DEF Beyond
    <3>4. hk[e.to] + (k + 1) <= hk[r]
      <4>1. hk[e.to] \in Nat /\ hk[q] \in Nat /\ hk[r] \in Nat
        BY <1>3, <2>5, <3>2
      <4>2. hk[e.to] < hk[q] /\ hk[q] + k <= hk[r] /\ k \in Nat
        BY <2>1, <2>5, <3>2
      <4> QED
        BY <4>1, <4>2
    <3> QED
      BY <3>2, <3>3, <3>4
  <2> QED
    BY <2>1, <2>4, <2>5
<1>6. rooms \in A
  <2> HIDE DEF A
  <2>1. 0 .. rooms \subseteq A
    BY <1>4, <1>5, UpTo
  <2> QED
    BY <2>1
<1>7. 1 \in f[rooms]
  <2> SUFFICES ASSUME NEW q \in f[rooms], q \in Main, hk[q] + rooms <= hk[r] PROVE FALSE
    BY <1>6
  <2>1. hk[q] \in Nat /\ hk[r] \in Nat /\ hk[r] < main
    BY <1>3
  <2> QED
    BY <2>1
<1>8. Reached({r}, Unguarded) = f[rooms]
  BY ReachedIs DEF f
<1> QED
  BY <1>7, <1>8

-----------------------------------------------------------------------------
(* What is true of a world in the making.                                  *)

\* Locks are numbered.
PartsNumbered == \E n \in Nat : DOMAIN locks = 1 .. n /\ Cardinality(DOMAIN locks) = n

\* A room of the new loop is linked to the next one.
Linked(q) == \E e \in exits : e.from = q /\ e.to = NextInRing(q) /\ e.lock = 0

\* The new loop can be entered, with what lies in the rooms before it, unless there are
\* only keys for its doors, and left.
Door(a, b, e) == /\ e \in exits /\ e.from = a /\ e.to = b
                 /\ e.lock \in DOMAIN locks /\ locks[e.lock].parts \subseteq Main
                 /\ locks[e.lock].before = main /\ (~locks[e.lock].key \/ Shut(main))
Way(b, a, e)  == e \in exits /\ e.from = b /\ e.to = a /\ e.lock = 0
Entered == \E a \in Main, b \in NewRooms : (\E e : Door(a, b, e)) /\ (\E e : Way(b, a, e))

\* The locks are those of earlier loops, and those of this one once links are made.
Earlier == \A l \in DOMAIN locks : locks[l].before < main
Bases   == /\ main = 0 => DOMAIN locks = {}
           /\ \A l \in DOMAIN locks : locks[l].before \in Nat /\ locks[l].before <= main

InTheMaking == pc \in {"teleporter", "links", "self", "back"}

LoopInv ==
  /\ loop \in Nat
  /\ main = 0 <=> loop = 0
  /\ pc = "ring" => \A q \in Nat : main < q /\ q <= main + ring.i => Linked(q)
  /\ InTheMaking => main < rooms /\ \A q \in NewRooms : Linked(q)
  /\ pc \in {"links", "back"} => loop # 0
  /\ Bases /\ (pc \notin {"links", "self", "back"} => Earlier)
  /\ pc = "links" => ((left > 0 /\ Earlier) \/ Entered) /\ switch \in Main \cup {0}
  /\ pc \in {"self", "back"} /\ loop # 0 => Entered

WorldInv == PartsNumbered /\ LoopInv /\ (main > 0 => Ranks /\ Homes)

\* The places of directions are numbers.
PlacesNumbered == IsFiniteSet(exits) /\ \A e \in exits : e.at \in Nat

LEMMA PlacesStay ==
  ASSUME PlacesNumbered, NEW x, NEW z, x.at \in Nat, z.at \in Nat,
         exits' \in {exits, exits \cup {x}, exits \cup {x, z}}
  PROVE  PlacesNumbered'
<1>1. IsFiniteSet(exits) /\ IsFiniteSet({x}) /\ IsFiniteSet({z}) /\ {x, z} = {x} \cup {z}
  BY FS_Singleton DEF PlacesNumbered
<1>2. \A S, T : IsFiniteSet(S) /\ IsFiniteSet(T) => IsFiniteSet(S \cup T)
  BY FS_Union, Zenon
<1>3. IsFiniteSet({x, z}) /\ IsFiniteSet(exits \cup {x})
  <2>1. IsFiniteSet({x} \cup {z}) /\ IsFiniteSet(exits \cup {x})
    BY <1>1, <1>2
  <2> QED
    BY <1>1, <2>1
<1>4. IsFiniteSet(exits \cup {x, z})
  BY <1>1, <1>2, <1>3
<1>5. IsFiniteSet(exits')
  BY <1>1, <1>3, <1>4
<1> QED
  BY <1>5 DEF PlacesNumbered

LEMMA ExitPlace ==
  ASSUME PlacesNumbered, NEW r, NEW k \in Nat, NEW d, NEW to, NEW l
  PROVE  Exit(r, k, d, to, l).at \in Nat
<1>1. IsFiniteSet({e \in exits : e.from = r})
  <2>1. {e \in exits : e.from = r} \subseteq exits
    OBVIOUS
  <2> QED
    BY <2>1, FS_Subset DEF PlacesNumbered
<1>2. Cardinality({e \in exits : e.from = r}) \in Nat
  BY <1>1, FS_CardinalityType
<1>3. Exit(r, k, d, to, l).at = Cardinality({e \in exits : e.from = r}) + k
  BY DEF Exit
<1> QED
  BY <1>2, <1>3

\* Every place that adds directions numbers them.
LEMMA PlacesStep == ASSUME PlacesNumbered, [Generate]_mapVars PROVE PlacesNumbered'
<1>1. CASE UNCHANGED exits
  BY <1>1 DEF PlacesNumbered
<1>2. CASE LinkRoom
  <2> DEFINE r    == main + 1 + ring.i
             back == Opposite(ring.prev)
  <2>1. PICK on : \/ exits' = exits \cup {Exit(r, 0, back, r - 1, 0), Exit(r, 1, on, NextInRing(r), 0)}
                  \/ exits' = exits \cup {Exit(r, 0, on, NextInRing(r), 0)}
    BY <1>2 DEF LinkRoom
  <2>2. /\ Exit(r, 0, back, r - 1, 0).at \in Nat /\ Exit(r, 1, on, NextInRing(r), 0).at \in Nat
        /\ Exit(r, 0, on, NextInRing(r), 0).at \in Nat
    BY ExitPlace
  <2> HIDE DEF r, back
  <2> QED
    BY <2>1, <2>2, PlacesStay
<1>3. CASE LoopLink
  <2>1. PICK a, b, d, l : exits' = exits \cup {Exit(a, 0, d, b, l), Exit(b, 0, Opposite(d), a, 0)}
    BY <1>3 DEF LoopLink
  <2>2. Exit(a, 0, d, b, l).at \in Nat /\ Exit(b, 0, Opposite(d), a, 0).at \in Nat
    BY ExitPlace
  <2> QED
    BY <2>1, <2>2, PlacesStay
<1>4. CASE exits' # exits /\ (PlaceTeleporter \/ SelfLink \/ BackLink \/ AddExitRoom)
  <2>1. PICK r, d, to, l : exits' = exits \cup {Exit(r, 0, d, to, l)}
    BY <1>4 DEF PlaceTeleporter, SelfLink, BackLink, AddExitRoom, RandomLink
  <2>2. Exit(r, 0, d, to, l).at \in Nat
    BY ExitPlace
  <2> QED
    BY <2>1, <2>2, PlacesStay
<1>5. CASE SortRoomDirections
  <2>1. exits' \subseteq exits
    BY <1>5 DEF SortRoomDirections
  <2> QED
    BY <2>1, FS_Subset DEF PlacesNumbered
<1>6. CASE NewLoop \/ PickAgain \/ NextPart \/ UNCHANGED mapVars
  <2>1. UNCHANGED exits
    BY <1>6 DEF NewLoop, PickAgain, NextPart, mapVars
  <2> QED
    BY <1>1, <2>1
<1> QED
  BY <1>1, <1>2, <1>3, <1>4, <1>5, <1>6 DEF Generate

\* Ways that are there stay there.
Grown ==
  /\ exits \subseteq exits' /\ UNCHANGED main
  /\ DOMAIN locks \subseteq DOMAIN locks' /\ \A l \in DOMAIN locks : locks'[l] = locks[l]
  /\ BeforeKeys' = BeforeKeys

LEMMA GrownIs ==
  ASSUME exits \subseteq exits', UNCHANGED <<main, locks>>
  PROVE  Grown /\ (Bases <=> Bases') /\ (Earlier <=> Earlier')
<1>1. BeforeKeys' = BeforeKeys
  BY DEF BeforeKeys, Shut, Main
<1> QED
  BY <1>1 DEF Grown, Bases, Earlier

LEMMA RanksKept ==
  ASSUME Grown
  PROVE  (Ranks => Ranks') /\ (Homes => Homes')
<1>1. Main' = Main /\ main' = main /\ BeforeKeys' = BeforeKeys
  BY DEF Grown, Main
<1>2. \A rk, r, e : Entrance(rk, r, e) => Entrance(rk, r, e)'
  BY <1>1 DEF Entrance, Grown
<1>3. \A hk, r, e : WayHome(hk, r, e) => WayHome(hk, r, e)'
  BY <1>1 DEF WayHome, Grown
<1>4. \A rk : IsRank(rk) => IsRank(rk)'
  BY <1>1 DEF IsRank
<1>5. Ranks => Ranks'
  BY <1>1, <1>2, <1>4 DEF Ranks
<1>6. Homes => Homes'
  BY <1>1, <1>3, <1>4 DEF Homes
<1> QED
  BY <1>5, <1>6

LEMMA LinksKept ==
  ASSUME Grown, UNCHANGED rooms
  PROVE  (\A q : Linked(q) => Linked(q)') /\ (UNCHANGED locks /\ Entered => Entered')
<1>1. Main' = Main /\ NewRooms' = NewRooms /\ \A q : NextInRing(q)' = NextInRing(q)
  BY DEF Grown, Main, NewRooms, NextInRing
<1>2. \A q : Linked(q) => Linked(q)'
  BY <1>1 DEF Linked, Grown
<1>3. UNCHANGED locks => Shut(main)' = Shut(main)
  BY DEF Shut, Grown
<1>4. ASSUME UNCHANGED locks
      PROVE  \A a, b, e : (Door(a, b, e) => Door(a, b, e)') /\ (Way(b, a, e) => Way(b, a, e)')
  BY <1>1, <1>3, <1>4 DEF Door, Way, Grown
<1>5. UNCHANGED locks /\ Entered => Entered'
  BY <1>1, <1>4 DEF Entered
<1> QED
  BY <1>2, <1>5

LEMMA InitWorld == Init => WorldInv
<1> SUFFICES ASSUME Init PROVE WorldInv
  OBVIOUS
<1>1. DOMAIN locks = {} /\ 1 .. 0 = {}
  BY DEF Init
<1>2. PartsNumbered
  BY <1>1, FS_EmptySet DEF PartsNumbered
<1>3. Bases /\ Earlier
  BY <1>1 DEF Bases, Earlier
<1> QED
  BY <1>2, <1>3 DEF Init, WorldInv, LoopInv, InTheMaking

LEMMA NewLoopWorld == ASSUME IInv, WorldInv, NewLoop PROVE WorldInv'
<1>a. /\ pc = "loop" /\ pc' = "ring" /\ UNCHANGED <<exits, locks, loop, main>> /\ main \in Nat
      /\ ring'.i = 0
  BY DEF NewLoop, IInv, MapInv
<1>1. Grown /\ (Bases <=> Bases') /\ (Earlier <=> Earlier')
  BY <1>a, GrownIs
<1>2. PartsNumbered' /\ (main' > 0 => Ranks' /\ Homes')
  BY <1>a, <1>1, RanksKept DEF WorldInv, PartsNumbered
<1>3. LoopInv'
  BY <1>a, <1>1 DEF WorldInv, LoopInv, InTheMaking
<1> QED
  BY <1>2, <1>3 DEF WorldInv

LEMMA LinkRoomWorld == ASSUME IInv, WorldInv, LinkRoom PROVE WorldInv'
<1> DEFINE r    == main + 1 + ring.i
           back == Opposite(ring.prev)
<1>1. /\ main \in Nat /\ rooms \in Nat /\ ring.i \in Nat /\ r <= rooms /\ pc = "ring"
      /\ pc' = (IF r = rooms THEN "teleporter" ELSE "ring")
      /\ UNCHANGED <<rooms, main, loop, locks>>
      /\ exits \subseteq exits' /\ ring'.i = ring.i + 1
  BY DEF LinkRoom, IInv, MapInv, RingInv
<1>2. Grown /\ (Bases <=> Bases') /\ (Earlier <=> Earlier')
  BY <1>1, GrownIs
<1>3. PartsNumbered' /\ (main' > 0 => Ranks' /\ Homes')
  BY <1>1, <1>2, RanksKept DEF WorldInv, PartsNumbered
<1>4. \A q : q = r => Linked(q)'
  <2>1. PICK on : \/ exits' = exits \cup {Exit(r, 0, back, r - 1, 0), Exit(r, 1, on, NextInRing(r), 0)}
                  \/ exits' = exits \cup {Exit(r, 0, on, NextInRing(r), 0)}
    BY DEF LinkRoom
  <2>2. \E k : Exit(r, k, on, NextInRing(r), 0) \in exits'
    BY <2>1
  <2>3. \A k : /\ Exit(r, k, on, NextInRing(r), 0).from = r
               /\ Exit(r, k, on, NextInRing(r), 0).to = NextInRing(r)
               /\ Exit(r, k, on, NextInRing(r), 0).lock = 0
    BY DEF Exit
  <2> HIDE DEF r
  <2>4. \E e \in exits' : e.from = r /\ e.to = NextInRing(r) /\ e.lock = 0
    BY <2>2, <2>3
  <2>5. \A q : NextInRing(q)' = NextInRing(q)
    BY <1>1 DEF NextInRing
  <2> QED
    BY <2>4, <2>5 DEF Linked
<1>5. ASSUME NEW q \in Nat, main < q, q <= r
      PROVE  Linked(q)'
  <2>1. CASE q = r
    BY <1>4, <2>1
  <2>2. CASE q # r
    <3>1. q <= main + ring.i
      BY <1>1, <1>5, <2>2
    <3>2. Linked(q)
      BY <1>1, <1>5, <3>1 DEF WorldInv, LoopInv
    <3> QED
      BY <1>1, <1>2, <3>2, LinksKept
  <2> QED
    BY <2>1, <2>2
<1>6. LoopInv'
  <2>1. loop \in Nat /\ (main = 0 <=> loop = 0) /\ Bases' /\ Earlier'
    BY <1>1, <1>2 DEF WorldInv, LoopInv
  <2>2. \A q \in Nat : main' < q /\ q <= main' + ring'.i => Linked(q)'
    <3>1. main' + ring'.i = r /\ main' = main
      BY <1>1
    <3> HIDE DEF r
    <3> QED
      BY <1>5, <3>1
  <2>3. CASE r = rooms
    <3>1. \A q \in NewRooms' : q \in Nat /\ main < q /\ q <= r
      BY <1>1, <2>3 DEF NewRooms
    <3>2. \A q \in NewRooms' : Linked(q)'
      BY <1>5, <3>1
    <3>3. main' < rooms'
      BY <1>1, <2>3
    <3> QED
      BY <1>1, <2>1, <2>3, <3>2, <3>3 DEF LoopInv
  <2>4. CASE r # rooms
    BY <1>1, <2>1, <2>2, <2>4 DEF LoopInv, InTheMaking
  <2> QED
    BY <2>3, <2>4
<1> QED
  BY <1>3, <1>6 DEF WorldInv

LEMMA PlaceTeleporterWorld == ASSUME IInv, WorldInv, PlaceTeleporter PROVE WorldInv'
<1>1. /\ UNCHANGED <<rooms, main, loop, locks>> /\ pc = "teleporter"
      /\ pc' \in {"self", "links"} /\ (pc' = "self" <=> loop = 0)
      /\ pc' = "links" => left' \in size.MIN_LOOP_LINKS .. size.MAX_LOOP_LINKS - 1
      /\ exits \subseteq exits' /\ switch' = 0
  BY DEF PlaceTeleporter
<1>2. size.MIN_LOOP_LINKS \in Nat /\ size.MIN_LOOP_LINKS > 0 /\ size.MAX_LOOP_LINKS \in Nat
  BY MapAssumption DEF IInv, MapInv
<1>3. pc' = "links" => left' > 0
  BY <1>1, <1>2
<1>4. Grown /\ (Bases <=> Bases') /\ (Earlier <=> Earlier')
  BY <1>1, GrownIs
<1>5. PartsNumbered' /\ (main' > 0 => Ranks' /\ Homes')
  BY <1>1, <1>4, RanksKept DEF WorldInv, PartsNumbered
<1>6. \A q \in NewRooms' : Linked(q)'
  <2>1. NewRooms' = NewRooms /\ \A q \in NewRooms : Linked(q)
    BY <1>1 DEF WorldInv, LoopInv, InTheMaking, NewRooms
  <2> QED
    BY <1>1, <1>4, <2>1, LinksKept
<1>7. LoopInv'
  BY <1>1, <1>3, <1>4, <1>6 DEF WorldInv, LoopInv, InTheMaking
<1> QED
  BY <1>5, <1>7 DEF WorldInv

LEMMA LoopLinkWorld == ASSUME IInv, WorldInv, LoopLink PROVE WorldInv'
<1> DEFINE l == Cardinality(DOMAIN locks) + 1
<1>1. PICK a \in Main, b \in NewRooms : \E d \in FreeBoth(a, b) :
        exits' = exits \cup {Exit(a, 0, d, b, l), Exit(b, 0, Opposite(d), a, 0)}
  BY DEF LoopLink
<1>2. PICK d \in FreeBoth(a, b) :
        exits' = exits \cup {Exit(a, 0, d, b, l), Exit(b, 0, Opposite(d), a, 0)}
  BY <1>1
<1>f. PICK P : \E k \in BOOLEAN :
        /\ Lock(l, P, k)
        /\ \/ P \in Scattered /\ UNCHANGED switch
           \/ (\E r \in Main : P = {r}) /\ UNCHANGED switch
           \/ \E s \in IF switch = 0 THEN Main \ switches ELSE {switch} :
                P = {s} /\ switch' = s
  <2> HIDE DEF l
  <2>1. CASE \E Q \in Scattered : Lock(l, Q, FALSE) /\ UNCHANGED <<switch, switches>>
    BY <2>1
  <2>2. CASE \E r \in Main : Lock(l, {r}, TRUE) /\ UNCHANGED <<switch, switches>>
    BY <2>2
  <2>3. CASE \E s \in IF switch = 0 THEN Main \ switches ELSE {switch} :
               Lock(l, {s}, FALSE) /\ switch' = s /\ switches' = switches \cup {s}
    BY <2>3
  <2> QED
    BY <2>1, <2>2, <2>3 DEF LoopLink, l
<1>3. PICK key \in BOOLEAN :
        /\ Lock(l, P, key)
        /\ \/ P \in Scattered /\ UNCHANGED switch
           \/ (\E r \in Main : P = {r}) /\ UNCHANGED switch
           \/ \E s \in IF switch = 0 THEN Main \ switches ELSE {switch} :
                P = {s} /\ switch' = s
  BY <1>f
<1>4. PICK n \in Nat : DOMAIN locks = 1 .. n /\ Cardinality(DOMAIN locks) = n
  BY DEF WorldInv, PartsNumbered
<1>5. l = n + 1 /\ n + 1 \in Nat
  BY <1>4
<1> HIDE DEF l
<1>6. /\ UNCHANGED <<rooms, main, loop>> /\ pc = "links" /\ pc' = pc /\ main \in Nat /\ main > 0
  BY DEF LoopLink, IInv, MapInv, Main
<1>7. P \subseteq Main /\ switch' \in Main \cup {0}
  BY <1>3, <1>6 DEF WorldInv, LoopInv, Scattered
<1>8. /\ DOMAIN locks' = 1 .. n + 1
      /\ \A k \in 1 .. n : k \in 1 .. n + 1 /\ locks'[k] = locks[k]
      /\ locks'[n + 1].parts = P /\ locks'[n + 1].key = key /\ locks'[n + 1].before = main
  BY <1>3, <1>5 DEF Lock
<1>a. \A k \in 1 .. n + 1 : k \in 1 .. n \/ k = n + 1
  OBVIOUS
<1>b. Bases /\ \A k \in 1 .. n : locks[k].before \in Nat /\ locks[k].before <= main
  BY <1>4, <1>6 DEF WorldInv, LoopInv, Bases
<1>c. /\ \A x \in Nat : x # main => (Shut(x)' <=> Shut(x))
      /\ Shut(main)' <=> Shut(main) /\ key
  BY <1>4, <1>6, <1>8, <1>a DEF Shut
<1>d. BeforeKeys' = BeforeKeys
  <2>1. Main' = Main /\ \A r \in Main : r \in Nat /\ r <= main
    BY <1>6 DEF Main
  <2>2. ASSUME NEW r \in Main, NEW k \in 1 .. n
        PROVE  (Shut(locks[k].before)' => r <= locks'[k].before)
               <=> (Shut(locks[k].before) => r <= locks[k].before)
    <3>1. CASE locks[k].before = main
      BY <1>8, <2>1, <3>1
    <3>2. CASE locks[k].before # main
      <4>1. locks'[k].before = locks[k].before /\ locks[k].before \in Nat
        BY <1>8, <1>b
      <4>2. Shut(locks[k].before)' <=> Shut(locks[k].before)
        BY <1>4, <1>8, <1>a, <3>2, <4>1 DEF Shut
      <4> QED
        BY <4>1, <4>2
    <3> QED
      BY <3>1, <3>2
  <2>3. \A r \in Main : Shut(locks[n + 1].before)' => r <= locks'[n + 1].before
    BY <1>8, <2>1
  <2> QED
    BY <1>4, <1>8, <1>a, <2>1, <2>2, <2>3 DEF BeforeKeys
<1>9. Grown
  BY <1>2, <1>4, <1>6, <1>8, <1>d DEF Grown
<1>10. PartsNumbered' /\ Bases'
  <2>1. Cardinality(1 .. n + 1) = n + 1
    <3>1. Cardinality(1 .. n + 1) = IF 1 > n + 1 THEN 0 ELSE (n + 1) - 1 + 1
      BY FS_Interval
    <3> QED
      BY <3>1
  <2>2. Bases'
    BY <1>6, <1>8, <1>a, <1>b DEF Bases
  <2> QED
    BY <1>5, <1>8, <2>1, <2>2 DEF PartsNumbered
<1>e. Main' = Main /\ NewRooms' = NewRooms /\ n + 1 \in 1 .. n + 1
  BY <1>5, <1>6 DEF Main, NewRooms
<1>11. Entered'
  <2>1. CASE key => Shut(main)'
    <3> DEFINE x == Exit(a, 0, d, b, l)
               y == Exit(b, 0, Opposite(d), a, 0)
    <3>1. /\ x.from = a /\ x.to = b /\ x.lock = n + 1
          /\ y.from = b /\ y.to = a /\ y.lock = 0
      BY <1>5 DEF Exit
    <3>2. x \in exits' /\ y \in exits'
      BY <1>2
    <3> HIDE DEF x, y
    <3>3. \E e : Door(a, b, e)'
      <4>1. \E e : /\ e \in exits' /\ e.from = a /\ e.to = b
                   /\ e.lock \in DOMAIN locks' /\ locks'[e.lock].parts \subseteq Main'
                   /\ locks'[e.lock].before = main' /\ (~locks'[e.lock].key \/ Shut(main)')
        BY <1>6, <1>7, <1>8, <1>e, <2>1, <3>1, <3>2
      <4> QED
        BY <4>1 DEF Door
    <3>4. \E e : Way(b, a, e)'
      <4>1. \E e : e \in exits' /\ e.from = b /\ e.to = a /\ e.lock = 0
        BY <3>1, <3>2
      <4> QED
        BY <4>1 DEF Way
    <3> QED
      BY <1>e, <3>3, <3>4 DEF Entered
  <2>2. CASE key /\ ~Shut(main)'
    <3>1. ~Shut(main)
      BY <1>c, <2>2
    <3>2. ~Earlier
      BY <1>6, <1>b, <3>1 DEF Earlier, Shut
    <3>3. PICK p \in Main, q \in NewRooms : (\E e : Door(p, q, e)) /\ (\E e : Way(q, p, e))
      BY <1>6, <3>2 DEF WorldInv, LoopInv, Entered
    <3>4. PICK x : Door(p, q, x)
      BY <3>3
    <3>5. PICK y : Way(q, p, y)
      BY <3>3
    <3>6. Door(p, q, x)'
      BY <1>4, <1>6, <1>8, <1>9, <1>e, <3>1, <3>4 DEF Door, Grown
    <3>7. Way(q, p, y)'
      BY <1>9, <3>5 DEF Way, Grown
    <3> QED
      BY <1>e, <3>6, <3>7 DEF Entered
  <2> QED
    BY <1>3, <2>1, <2>2
<1>12. \A q \in NewRooms' : Linked(q)'
  <2>1. NewRooms' = NewRooms /\ \A q \in NewRooms : Linked(q)
    BY <1>6 DEF WorldInv, LoopInv, InTheMaking, NewRooms
  <2> QED
    BY <1>6, <1>9, <2>1, LinksKept
<1>14. LoopInv'
  BY <1>6, <1>7, <1>10, <1>11, <1>12, <1>e DEF WorldInv, LoopInv, InTheMaking
<1>15. main' > 0 => Ranks' /\ Homes'
  BY <1>6, <1>9, RanksKept DEF WorldInv
<1> QED
  BY <1>10, <1>14, <1>15 DEF WorldInv

LEMMA RandomLinkWorld ==
  ASSUME NEW To, NEW From, IInv, WorldInv, RandomLink(To, From), pc \in {"self", "back"}
  PROVE  WorldInv'
<1>1. UNCHANGED <<rooms, main, loop, locks, pc>> /\ exits \subseteq exits'
  BY DEF RandomLink
<1>2. Grown /\ (Bases <=> Bases') /\ (Earlier <=> Earlier')
  BY <1>1, GrownIs
<1>3. PartsNumbered' /\ (main' > 0 => Ranks' /\ Homes')
  BY <1>1, <1>2, RanksKept DEF WorldInv, PartsNumbered
<1>4. \A q \in NewRooms' : Linked(q)'
  <2>1. NewRooms' = NewRooms /\ \A q \in NewRooms : Linked(q)
    BY <1>1 DEF WorldInv, LoopInv, InTheMaking, NewRooms
  <2> QED
    BY <1>1, <1>2, <2>1, LinksKept
<1>5. loop # 0 => Entered'
  BY <1>1, <1>2, LinksKept DEF WorldInv, LoopInv
<1>6. LoopInv'
  BY <1>1, <1>2, <1>4, <1>5 DEF WorldInv, LoopInv, InTheMaking
<1> QED
  BY <1>3, <1>6 DEF WorldInv

\* The exit is behind a door that is not among the ways the ranks use.
LEMMA AddExitRoomWorld == ASSUME IInv, WorldInv, AddExitRoom PROVE WorldInv'
<1>1. /\ UNCHANGED <<main, loop, locks>> /\ exits \subseteq exits' /\ pc = "exit" /\ pc' = "sort"
  BY DEF AddExitRoom
<1>2. Grown /\ (Bases <=> Bases') /\ (Earlier <=> Earlier')
  BY <1>1, GrownIs
<1>3. PartsNumbered' /\ (main' > 0 => Ranks' /\ Homes')
  BY <1>1, <1>2, RanksKept DEF WorldInv, PartsNumbered
<1>4. LoopInv'
  BY <1>1, <1>2 DEF WorldInv, LoopInv, InTheMaking
<1> QED
  BY <1>3, <1>4 DEF WorldInv

\* The sort drops nothing, because the directions of a room have names of their own.
LEMMA SortWorld == ASSUME IInv, WorldInv, PlacesNumbered, SortRoomDirections PROVE WorldInv'
<1>1. /\ UNCHANGED <<main, loop, locks>> /\ pc = "sort" /\ pc' = "done"
      /\ exits' = {e \in exits : \A f \in exits : f.from = e.from /\ f.dir = e.dir => e.at <= f.at}
  BY DEF SortRoomDirections
<1>2. ASSUME NEW e \in exits, NEW f \in exits, f.from = e.from, f.dir = e.dir
      PROVE  e.at <= f.at
  BY <1>2 DEF IInv, ExitsDistinct, PlacesNumbered
<1>a. exits \subseteq exits'
  BY <1>1, <1>2
<1>3. Grown /\ (Bases <=> Bases') /\ (Earlier <=> Earlier')
  BY <1>1, <1>a, GrownIs
<1>4. PartsNumbered' /\ (main' > 0 => Ranks' /\ Homes')
  BY <1>1, <1>3, RanksKept DEF WorldInv, PartsNumbered
<1>5. LoopInv'
  BY <1>1, <1>3 DEF WorldInv, LoopInv, InTheMaking
<1> QED
  BY <1>4, <1>5 DEF WorldInv

\* A rank for the rooms of the first loop: each is entered from the one before it, and
\* leads round to the first.
LEMMA FirstLoopRanked ==
  ASSUME IInv, WorldInv, main = 0, pc = "self", main' = rooms, UNCHANGED <<exits, rooms, locks>>
  PROVE  Ranks' /\ Homes'
<1>1. /\ rooms \in Nat /\ rooms > 0 /\ Main' = 1 .. rooms
      /\ \A q \in 1 .. rooms : Linked(q)
  BY DEF IInv, MapInv, WorldInv, LoopInv, InTheMaking, Main, NewRooms
<1>2. PICK rk, hk :
        /\ rk \in [1 .. rooms -> Nat] /\ \A q \in 1 .. rooms : rk[q] = q - 1 /\ rk[q] < rooms
        /\ hk \in [1 .. rooms -> Nat]
        /\ \A q \in 1 .. rooms : hk[q] = (IF q = 1 THEN 0 ELSE rooms - q + 1) /\ hk[q] < rooms
  <2> DEFINE f == [q \in 1 .. rooms |-> q - 1]
             g == [q \in 1 .. rooms |-> IF q = 1 THEN 0 ELSE rooms - q + 1]
  <2>1. /\ f \in [1 .. rooms -> Nat] /\ \A q \in 1 .. rooms : f[q] = q - 1 /\ f[q] < rooms
        /\ g \in [1 .. rooms -> Nat]
        /\ \A q \in 1 .. rooms : g[q] = (IF q = 1 THEN 0 ELSE rooms - q + 1) /\ g[q] < rooms
    BY <1>1
  <2> HIDE DEF f, g
  <2> QED
    BY <2>1
<1>3. ASSUME NEW r \in 1 .. rooms, r # 1
      PROVE  \E e \in exits : /\ e.to = r /\ e.from \in 1 .. rooms /\ rk[e.from] < rk[r]
                              /\ e.lock = 0
  <2>1. r - 1 \in 1 .. rooms /\ r - 1 # rooms /\ (r - 1) + 1 = r /\ r - 1 < r
    BY <1>1, <1>3
  <2>2. NextInRing(r - 1) = r
    BY <2>1 DEF NextInRing
  <2>3. PICK e \in exits : e.from = r - 1 /\ e.to = r /\ e.lock = 0
    BY <1>1, <2>1, <2>2 DEF Linked
  <2>4. rk[r - 1] < rk[r]
    BY <1>2, <2>1
  <2> QED
    BY <2>1, <2>3, <2>4
<1>4. ASSUME NEW r \in 1 .. rooms, r # 1
      PROVE  \E e \in exits : /\ e.from = r /\ e.to \in 1 .. rooms /\ hk[e.to] < hk[r]
                              /\ e.lock = 0
  <2>1. PICK e \in exits : e.from = r /\ e.to = NextInRing(r) /\ e.lock = 0
    BY <1>1 DEF Linked
  <2>2. NextInRing(r) = IF r = rooms THEN 1 ELSE r + 1
    BY DEF NextInRing
  <2>3. NextInRing(r) \in 1 .. rooms /\ hk[NextInRing(r)] < hk[r]
    <3>1. CASE r = rooms
      BY <1>1, <1>2, <1>4, <2>2, <3>1
    <3>2. CASE r # rooms
      <4>1. r + 1 \in 1 .. rooms /\ r + 1 # 1
        BY <1>1, <3>2
      <4>2. hk[r + 1] = rooms - (r + 1) + 1 /\ hk[r] = rooms - r + 1
        BY <1>2, <1>4, <4>1
      <4> QED
        BY <1>1, <2>2, <3>2, <4>1, <4>2
    <3> QED
      BY <3>1, <3>2
  <2> QED
    BY <2>1, <2>3
<1>5. IsRank(rk)' /\ IsRank(hk)'
  BY <1>1, <1>2 DEF IsRank
<1>a. BeforeKeys' = 1 .. rooms
  <2>1. DOMAIN locks = {}
    BY DEF WorldInv, LoopInv, Bases
  <2> QED
    BY <1>1, <2>1 DEF BeforeKeys
<1>6. \A r \in BeforeKeys' : r = 1 \/ \E e : Entrance(rk, r, e)'
  BY <1>a, <1>3 DEF Entrance
<1>7. \A r \in Main' : r = 1 \/ \E e : WayHome(hk, r, e)'
  BY <1>1, <1>4 DEF WayHome
<1>8. Ranks'
  BY <1>5, <1>6 DEF Ranks
<1>9. Homes'
  BY <1>5, <1>7 DEF Homes
<1> QED
  BY <1>8, <1>9

\* The rooms of a later loop rank after all that were there: from the door in, once
\* round; and on the way home, once round to the room with the passage back.
LEMMA NextLoopRanked ==
  ASSUME IInv, WorldInv, main > 0, Entered, InTheMaking, main' = rooms,
         UNCHANGED <<exits, rooms, locks>>
  PROVE  Ranks' /\ Homes'
<1>1. /\ main \in Nat /\ rooms \in Nat /\ main < rooms /\ Main' = 1 .. rooms
      /\ \A q \in NewRooms : Linked(q)
      /\ \A q \in 1 .. rooms : q \in Main \/ q \in NewRooms
      /\ \A q \in Main : q \in 1 .. rooms /\ q \notin NewRooms
      /\ NewRooms = main + 1 .. rooms
  BY DEF IInv, MapInv, WorldInv, LoopInv, Main, NewRooms
<1>2. PICK a \in Main, b \in NewRooms : (\E e : Door(a, b, e)) /\ (\E e : Way(b, a, e))
  BY DEF Entered
<1>3. b \in Nat /\ main < b /\ b <= rooms
  BY <1>1 DEF NewRooms
<1>a. Shut(main) => \E l \in DOMAIN locks : Shut(locks[l].before)
  BY <1>2 DEF Door
<1>b. \A l \in DOMAIN locks : locks[l].before \in Nat /\ locks[l].before <= main
  BY DEF WorldInv, LoopInv, Bases
<1>c. /\ BeforeKeys \subseteq BeforeKeys' /\ BeforeKeys' \subseteq 1 .. rooms
      /\ \A r \in Main : r \in BeforeKeys' => r \in BeforeKeys
      /\ \A r \in NewRooms : r \in BeforeKeys' => BeforeKeys' = 1 .. rooms /\ ~Shut(main)
  <2>1. \A n : Shut(n)' = Shut(n)
    BY DEF Shut
  <2>2. BeforeKeys' = {r \in 1 .. rooms : \A l \in DOMAIN locks :
                         Shut(locks[l].before) => r <= locks[l].before}
    BY <1>1, <2>1 DEF BeforeKeys
  <2>3. BeforeKeys = {r \in Main : \A l \in DOMAIN locks :
                        Shut(locks[l].before) => r <= locks[l].before}
    BY DEF BeforeKeys
  <2>4. ASSUME NEW r \in NewRooms, r \in BeforeKeys'
        PROVE  \A l \in DOMAIN locks : ~Shut(locks[l].before)
    <3> SUFFICES ASSUME NEW l \in DOMAIN locks, Shut(locks[l].before)
                 PROVE  FALSE
      OBVIOUS
    <3>1. r <= locks[l].before /\ locks[l].before <= main /\ locks[l].before \in Nat
      BY <1>b, <2>2, <2>4
    <3>2. r \in Nat /\ r > main
      BY <1>1, <2>4
    <3> QED
      BY <1>1, <3>1, <3>2
  <2>5. \A r \in NewRooms : r \in BeforeKeys' => BeforeKeys' = 1 .. rooms /\ ~Shut(main)
    BY <1>a, <2>2, <2>4
  <2> QED
    BY <1>1, <2>2, <2>3, <2>5
<1>4. PICK old : IsRank(old) /\ \A r \in BeforeKeys : r = 1 \/ \E e : Entrance(old, r, e)
  BY <1>1 DEF WorldInv, Ranks
<1>5. PICK home : IsRank(home) /\ \A r \in Main : r = 1 \/ \E e : WayHome(home, r, e)
  BY <1>1 DEF WorldInv, Homes
<1>6. \A q \in Main : /\ old[q] \in Nat /\ old[q] < main /\ home[q] \in Nat /\ home[q] < main
  BY <1>4, <1>5 DEF IsRank
<1>7. PICK rk :
        /\ rk \in [1 .. rooms -> Nat] /\ \A q \in 1 .. rooms : rk[q] < rooms
        /\ \A q \in Main : rk[q] = old[q]
        /\ \A q \in NewRooms : rk[q] = IF q >= b THEN main + (q - b) ELSE rooms + (q - b)
  <2> DEFINE f == [q \in 1 .. rooms |-> IF q \in Main THEN old[q]
                     ELSE IF q >= b THEN main + (q - b) ELSE rooms + (q - b)]
  <2>1. \A q \in Main : f[q] = old[q]
    BY <1>1
  <2>2. \A q \in NewRooms : f[q] = IF q >= b THEN main + (q - b) ELSE rooms + (q - b)
    <3>1. \A q \in NewRooms : q \in 1 .. rooms /\ q \notin Main
      BY <1>1
    <3> QED
      BY <3>1
  <2>3. \A q \in 1 .. rooms : f[q] \in Nat /\ f[q] < rooms
    <3> SUFFICES ASSUME NEW q \in 1 .. rooms PROVE f[q] \in Nat /\ f[q] < rooms
      OBVIOUS
    <3>1. CASE q \in Main
      BY <1>1, <1>6, <2>1, <3>1
    <3>2. CASE q \in NewRooms
      <4>1. q \in Nat /\ main < q /\ q <= rooms
        BY <1>1, <3>2
      <4> HIDE DEF f
      <4> QED
        BY <1>1, <1>3, <2>2, <3>2, <4>1
    <3> QED
      BY <1>1, <3>1, <3>2
  <2>4. f \in [1 .. rooms -> Nat]
    BY <2>3
  <2> HIDE DEF f
  <2> QED
    BY <2>1, <2>2, <2>3, <2>4
<1>8. PICK hk :
        /\ hk \in [1 .. rooms -> Nat] /\ \A q \in 1 .. rooms : hk[q] < rooms
        /\ \A q \in Main : hk[q] = home[q]
        /\ \A q \in NewRooms : hk[q] = IF q <= b THEN main + (b - q) ELSE rooms + (b - q)
  <2> DEFINE f == [q \in 1 .. rooms |-> IF q \in Main THEN home[q]
                     ELSE IF q <= b THEN main + (b - q) ELSE rooms + (b - q)]
  <2>1. \A q \in Main : f[q] = home[q]
    BY <1>1
  <2>2. \A q \in NewRooms : f[q] = IF q <= b THEN main + (b - q) ELSE rooms + (b - q)
    <3>1. \A q \in NewRooms : q \in 1 .. rooms /\ q \notin Main
      BY <1>1
    <3> QED
      BY <3>1
  <2>3. \A q \in 1 .. rooms : f[q] \in Nat /\ f[q] < rooms
    <3> SUFFICES ASSUME NEW q \in 1 .. rooms PROVE f[q] \in Nat /\ f[q] < rooms
      OBVIOUS
    <3>1. CASE q \in Main
      BY <1>1, <1>6, <2>1, <3>1
    <3>2. CASE q \in NewRooms
      <4>1. q \in Nat /\ main < q /\ q <= rooms
        BY <1>1, <3>2
      <4> HIDE DEF f
      <4> QED
        BY <1>1, <1>3, <2>2, <3>2, <4>1
    <3> QED
      BY <1>1, <3>1, <3>2
  <2>4. f \in [1 .. rooms -> Nat]
    BY <2>3
  <2> HIDE DEF f
  <2> QED
    BY <2>1, <2>2, <2>3, <2>4
<1>9. \A q \in NewRooms : NextInRing(q) = IF q = rooms THEN main + 1 ELSE q + 1
  BY DEF NextInRing
<1>10. ASSUME NEW r \in BeforeKeys', r # 1
       PROVE  \E e \in exits :
                /\ e.to = r /\ e.from \in BeforeKeys' /\ rk[e.from] < rk[r]
                /\ \/ e.lock = 0
                   \/ /\ e.lock \in DOMAIN locks /\ ~locks[e.lock].key
                      /\ \A q \in locks[e.lock].parts : q \in BeforeKeys' /\ rk[q] < rk[r]
  <2>a. r \in 1 .. rooms
    BY <1>c
  <2>b. r \in NewRooms => BeforeKeys' = 1 .. rooms /\ ~Shut(main)
    BY <1>c
  <2>1. CASE r \in Main
    <3>1. PICK e : Entrance(old, r, e)
      BY <1>4, <1>10, <1>c, <2>1
    <3>2. \A q \in BeforeKeys : old[q] < old[r] => q \in BeforeKeys' /\ rk[q] < rk[r]
      BY <1>1, <1>7, <1>c, <2>1 DEF BeforeKeys
    <3> QED
      BY <3>1, <3>2 DEF Entrance
  <2>2. CASE r = b
    <3>1. PICK e : Door(a, b, e)
      BY <1>2
    <3>2. rk[b] = main
      BY <1>1, <1>3, <1>7
    <3>3. \A q \in Main : q \in BeforeKeys' /\ rk[q] < rk[b]
      BY <1>1, <1>6, <1>7, <2>2, <2>b, <3>2
    <3> QED
      BY <2>2, <2>b, <3>1, <3>3 DEF Door
  <2>3. CASE r \in NewRooms /\ r # b /\ r # main + 1
    <3>1. /\ r - 1 \in NewRooms /\ r - 1 # rooms /\ (r - 1) + 1 = r /\ r - 1 \in 1 .. rooms
          /\ r \in Nat /\ (r >= b <=> r - 1 >= b)
      BY <1>1, <1>3, <2>3
    <3>2. NextInRing(r - 1) = r
      BY <1>9, <3>1
    <3>3. PICK e \in exits : e.from = r - 1 /\ e.to = r /\ e.lock = 0
      BY <1>1, <3>1, <3>2 DEF Linked
    <3>4. rk[r - 1] < rk[r]
      BY <1>1, <1>3, <1>7, <2>3, <3>1
    <3> QED
      BY <2>3, <2>b, <3>1, <3>3, <3>4
  <2>4. CASE r \in NewRooms /\ r # b /\ r = main + 1
    <3>1. rooms \in NewRooms /\ rooms \in 1 .. rooms /\ rooms >= b /\ ~(r >= b)
      BY <1>1, <1>3, <2>4
    <3>2. PICK e \in exits : e.from = rooms /\ e.to = r /\ e.lock = 0
      BY <1>1, <1>9, <2>4, <3>1 DEF Linked
    <3>3. rk[rooms] = main + (rooms - b) /\ rk[r] = rooms + (r - b)
      BY <1>7, <2>4, <3>1
    <3>4. rk[rooms] < rk[r]
      BY <1>1, <1>3, <2>4, <3>3
    <3> QED
      BY <2>4, <2>b, <3>1, <3>2, <3>4
  <2> QED
    BY <1>1, <2>1, <2>2, <2>3, <2>4, <2>a
<1>11. ASSUME NEW r \in 1 .. rooms, r # 1
       PROVE  \E e \in exits : /\ e.from = r /\ e.to \in 1 .. rooms /\ hk[e.to] < hk[r]
                               /\ e.lock = 0
  <2>1. CASE r \in Main
    <3>1. PICK e : WayHome(home, r, e)
      BY <1>5, <1>11, <2>1
    <3>2. \A q \in Main : home[q] < home[r] => q \in 1 .. rooms /\ hk[q] < hk[r]
      BY <1>1, <1>8, <2>1
    <3> QED
      BY <3>1, <3>2 DEF WayHome
  <2>2. CASE r = b
    <3>1. PICK e : Way(b, a, e)
      BY <1>2
    <3>2. hk[b] = main /\ hk[a] < main
      BY <1>1, <1>3, <1>6, <1>8, SMTT(30)
    <3>3. a \in 1 .. rooms
      BY <1>1
    <3> QED
      BY <2>2, <3>1, <3>2, <3>3 DEF Way
  <2>3. CASE r \in NewRooms /\ r # b /\ r # rooms
    <3>1. r + 1 \in NewRooms /\ r + 1 \in 1 .. rooms /\ r \in Nat /\ (r <= b <=> r + 1 <= b)
      BY <1>1, <1>3, <2>3
    <3>2. PICK e \in exits : e.from = r /\ e.to = r + 1 /\ e.lock = 0
      BY <1>1, <1>9, <2>3 DEF Linked
    <3>3. hk[r + 1] < hk[r]
      BY <1>1, <1>3, <1>8, <2>3, <3>1
    <3> QED
      BY <3>1, <3>2, <3>3
  <2>4. CASE r \in NewRooms /\ r # b /\ r = rooms
    <3>1. /\ main + 1 \in NewRooms /\ main + 1 \in 1 .. rooms /\ main + 1 <= b /\ ~(r <= b)
      BY <1>1, <1>3, <2>4
    <3>2. PICK e \in exits : e.from = r /\ e.to = main + 1 /\ e.lock = 0
      BY <1>1, <1>9, <2>4 DEF Linked
    <3>3. hk[main + 1] = main + (b - (main + 1)) /\ hk[r] = rooms + (b - r)
      BY <1>8, <2>4, <3>1
    <3>4. hk[main + 1] < hk[r]
      BY <1>1, <1>3, <2>4, <3>3
    <3> QED
      BY <3>1, <3>2, <3>4
  <2> QED
    BY <1>1, <2>1, <2>2, <2>3, <2>4
<1>12. IsRank(rk)' /\ IsRank(hk)'
  BY <1>1, <1>7, <1>8 DEF IsRank
<1>13. \A r \in BeforeKeys' : r = 1 \/ \E e : Entrance(rk, r, e)'
  BY <1>10 DEF Entrance
<1>14. \A r \in Main' : r = 1 \/ \E e : WayHome(hk, r, e)'
  BY <1>1, <1>11 DEF WayHome
<1>15. Ranks'
  BY <1>12, <1>13 DEF Ranks
<1>16. Homes'
  BY <1>12, <1>14 DEF Homes
<1> QED
  BY <1>15, <1>16

LEMMA NextPartWorld == ASSUME IInv, WorldInv, NextPart PROVE WorldInv'
<1>1. left = 0 /\ UNCHANGED <<exits, rooms, locks>>
  BY DEF NextPart
<1>2. PartsNumbered'
  BY <1>1 DEF WorldInv, PartsNumbered
<1>3. CASE pc' \in {"self", "back"}
  <2>1. /\ UNCHANGED <<main, loop>> /\ InTheMaking /\ (loop # 0 => Entered)
        /\ pc' = "back" => loop # 0
    BY <1>1, <1>3 DEF NextPart, WorldInv, LoopInv, InTheMaking
  <2>2. Grown /\ (Bases <=> Bases') /\ (Earlier <=> Earlier')
    BY <1>1, <2>1, GrownIs
  <2>3. NewRooms' = NewRooms /\ \A q \in NewRooms : Linked(q)
    BY <1>1, <2>1 DEF WorldInv, LoopInv, InTheMaking, NewRooms
  <2>4. (\A q \in NewRooms' : Linked(q)') /\ (loop # 0 => Entered')
    BY <1>1, <2>1, <2>2, <2>3, LinksKept
  <2>5. LoopInv'
    BY <1>1, <1>3, <2>1, <2>2, <2>4 DEF WorldInv, LoopInv, InTheMaking
  <2>6. main' > 0 => Ranks' /\ Homes'
    BY <2>1, <2>2, RanksKept DEF WorldInv
  <2> QED
    BY <1>2, <2>5, <2>6 DEF WorldInv
<1>4. CASE pc' \notin {"self", "back"}
  <2>1. /\ main' = rooms /\ loop' = loop + 1 /\ pc' \in {"exit", "loop"}
        /\ pc = "back" \/ (pc = "self" /\ loop = 0)
    BY <1>4 DEF NextPart
  <2>2. Ranks' /\ Homes'
    <3>1. CASE pc = "self" /\ loop = 0
      <4>1. main = 0
        BY <3>1 DEF WorldInv, LoopInv
      <4> QED
        BY <1>1, <2>1, <3>1, <4>1, FirstLoopRanked
    <3>2. CASE pc = "back"
      <4>1. Entered /\ InTheMaking /\ loop # 0
        BY <3>2 DEF WorldInv, LoopInv, InTheMaking
      <4>2. main > 0
        BY <4>1 DEF WorldInv, LoopInv, IInv, MapInv
      <4> QED
        BY <1>1, <2>1, <4>1, <4>2, NextLoopRanked
    <3> QED
      BY <2>1, <3>1, <3>2
  <2>3. LoopInv'
    <3>1. rooms > 0 /\ loop + 1 \in Nat /\ loop + 1 # 0 /\ main < rooms /\ Bases
          /\ main \in Nat /\ rooms \in Nat
      BY <2>1 DEF WorldInv, LoopInv, InTheMaking, IInv, MapInv
    <3>2. Bases' /\ Earlier'
      BY <1>1, <2>1, <3>1 DEF Bases, Earlier
    <3> QED
      BY <2>1, <3>1, <3>2 DEF LoopInv, InTheMaking
  <2> QED
    BY <1>2, <2>2, <2>3 DEF WorldInv
<1> QED
  BY <1>3, <1>4

LEMMA NextWorld == ASSUME IInv, WorldInv, PlacesNumbered, [Generate]_mapVars PROVE WorldInv'
<1>1. CASE SelfLink
  BY <1>1, RandomLinkWorld DEF SelfLink
<1>2. CASE BackLink
  BY <1>2, RandomLinkWorld DEF BackLink
<1>3. CASE PickAgain \/ UNCHANGED mapVars
  <2>1. UNCHANGED mapVars
    BY <1>3 DEF PickAgain
  <2>a. UNCHANGED <<exits, main, rooms, loop, ring, left, switch, pc, locks>>
    BY <2>1 DEF mapVars
  <2>2. Grown /\ (Bases <=> Bases') /\ (Earlier <=> Earlier')
    BY <2>a, GrownIs
  <2>3. PartsNumbered' /\ (main' > 0 => Ranks' /\ Homes')
    BY <2>a, <2>2, RanksKept DEF WorldInv, PartsNumbered
  <2>4. Main' = Main /\ NewRooms' = NewRooms
    BY <2>a DEF Main, NewRooms
  <2>5. LoopInv'
    BY <2>a, <2>2, <2>4, LinksKept DEF WorldInv, LoopInv, InTheMaking
  <2> QED
    BY <2>3, <2>5 DEF WorldInv
<1> QED
  BY <1>1, <1>2, <1>3, NewLoopWorld, LinkRoomWorld, PlaceTeleporterWorld, LoopLinkWorld,
     NextPartWorld, AddExitRoomWorld, SortWorld DEF Generate

\* However the dice fall, every world can be played up to the first loop that only keys
\* lead into: with what lies in rooms that were reached, all rooms before are reached, and
\* from each of all rooms the first one again.
THEOREM WorldsReachedUpToKeys == GenerateSpec => []ReachedUpToKeys
<1>1. IInv /\ WorldInv => ReachedUpToKeys
  <2> SUFFICES ASSUME IInv, WorldInv, main > 0
               PROVE  /\ BeforeKeys \subseteq Reached({1}, Unlocked)
                      /\ \A r \in Main : 1 \in Reached({r}, Unguarded)
    BY Zenon DEF ReachedUpToKeys, Unlocked, Unguarded
  <2>1. main \in Nat /\ rooms \in Nat /\ main <= rooms /\ Ranks /\ Homes
    BY DEF IInv, MapInv, WorldInv
  <2> QED
    BY <2>1, AllReached, FirstReached
<1>2. Init => PlacesNumbered
  BY FS_EmptySet DEF Init, PlacesNumbered
<1>3. IInv /\ [Generate]_mapVars => IInv'
  BY StepOK
<1>4. PlacesNumbered /\ [Generate]_mapVars => PlacesNumbered'
  BY PlacesStep
<1>5. IInv /\ WorldInv /\ PlacesNumbered /\ [Generate]_mapVars => WorldInv'
  BY NextWorld
<1> QED
  BY <1>1, <1>2, <1>3, <1>4, <1>5, InitOK, InitWorld, PTL DEF GenerateSpec
-----------------------------------------------------------------------------
(* Items: where their entries are.                                         *)

Lists == world.rooms \cup {Self} \cup Holders
Counts == [Lists -> [Items -> Nat]]
ToBeMade == (Of("page") \cup (world.spare \cap Items)) \ made

ItemTypes ==
  /\ world \in Worlds /\ CurRoom \in world.rooms
  /\ has \in Counts
  /\ wheels \in [WheelDoors -> Seq(Of("wheel"))]
  /\ doorOf \in [Of("wheel") -> WheelDoors \cup {None, Unset}]

\* By lists h and doors w, x is nowhere; or in one place at most.
InNoDoor(w, x) == \A d \in WheelDoors : \A k \in 1 .. Len(w[d]) : w[d][k] # x
InNoList(h, x) == \A p \in Lists : h[p][x] = 0
Alone(h, w, x) ==
  /\ \A p \in Lists : h[p][x] <= 1 /\ (h[p][x] > 0 => InNoDoor(w, x))
  /\ \A p, q \in Lists : h[p][x] > 0 /\ h[q][x] > 0 => p = q
  /\ \A d, e \in WheelDoors : \A k \in 1 .. Len(w[d]), l \in 1 .. Len(w[e]) :
       w[d][k] = x /\ w[e][l] = x => d = e /\ k = l

Single   == \A x \in Items \ copied : Alone(has, wheels, x)
Unmade   == \A x \in ToBeMade : InNoList(has, x) /\ InNoDoor(wheels, x) /\ x \notin burnt
Ashes    == \A x \in Items \ copied : x \in burnt => InNoList(has, x) /\ InNoDoor(wheels, x)
Pointers == \A x \in Of("wheel") \ copied, d \in WheelDoors :
              doorOf[x] = d <=> \E k \in 1 .. Len(wheels[d]) : wheels[d][k] = x

ItemsInv == ItemTypes /\ Single /\ Unmade /\ Ashes /\ Pointers

\* What a command does to the entries of x in lists.
Fewer(x) == \A p \in Lists : has'[p][x] <= has[p][x]
Given(x) == \E p, q \in Lists :
  /\ has[p][x] > 0
  /\ \A r \in Lists : has'[r][x] = has[r][x] - (IF r = p THEN 1 ELSE 0) + (IF r = q THEN 1 ELSE 0)
Copied(x) == x \in copied' /\ \E p \in Lists : has[p][x] > 0
Made(x) == /\ x \in ToBeMade /\ x \in made' /\ x \notin burnt'
           /\ \E q \in Lists : \A r \in Lists :
                has'[r][x] = has[r][x] + (IF r = q THEN 1 ELSE 0)

\* A command that changes lists only.
LEMMA ListStep ==
  ASSUME ItemsInv, UNCHANGED <<world, wheels, doorOf>>, CurRoom' \in world.rooms,
         has' \in Counts,
         copied \subseteq copied', made \subseteq made',
         \A x \in Items : Fewer(x) \/ Given(x) \/ Copied(x) \/ Made(x),
         \A x \in burnt' \cap Items : x \in burnt \/
            /\ \E p \in Lists : has[p][x] > 0
            /\ x \notin copied' => InNoList(has', x) /\ InNoDoor(wheels, x)
  PROVE  ItemsInv'
<1>1. Items' = Items /\ Lists' = Lists /\ WheelDoors' = WheelDoors
      /\ Of("wheel")' = Of("wheel") /\ ToBeMade' \subseteq ToBeMade /\ ToBeMade \subseteq Items
      /\ ToBeMade' \cap made' = {}
  BY DEF Items, Lists, WheelDoors, Of, Holders, ToBeMade
<1>2. \A x \in Items, p \in Lists : has[p][x] \in Nat /\ has'[p][x] \in Nat
  BY DEF ItemsInv, ItemTypes, Counts
<1>3. ItemTypes'
  BY <1>1 DEF ItemsInv, ItemTypes, Counts
<1>4. ASSUME NEW x \in Items, Given(x), Alone(has, wheels, x)
      PROVE  Alone(has', wheels, x)
  <2>1. PICK p \in Lists, q \in Lists :
          /\ has[p][x] > 0
          /\ \A r \in Lists : has'[r][x] = has[r][x] - (IF r = p THEN 1 ELSE 0)
                                                     + (IF r = q THEN 1 ELSE 0)
    BY <1>4 DEF Given
  <2>2. \A r \in Lists : has[r][x] = IF r = p THEN 1 ELSE 0
    BY <1>2, <1>4, <2>1 DEF Alone
  <2>3. \A r \in Lists : has'[r][x] = IF r = q THEN 1 ELSE 0
    BY <2>1, <2>2
  <2>4. InNoDoor(wheels, x)
    BY <1>4, <2>1 DEF Alone
  <2>5. \A r, s \in Lists : has'[r][x] <= 1 /\ (has'[r][x] > 0 /\ has'[s][x] > 0 => r = s)
    BY <2>3
  <2> QED
    BY <2>4, <2>5 DEF Alone, InNoDoor
<1>5. Single'
  <2> SUFFICES ASSUME NEW x \in Items, x \notin copied'
               PROVE  Alone(has', wheels, x)
    BY <1>1 DEF Single, Alone, InNoDoor
  <2>1. Alone(has, wheels, x)
    BY DEF ItemsInv, Single
  <2>2. CASE Fewer(x)
    BY <1>2, <2>1, <2>2 DEF Alone, Fewer
  <2>3. CASE Given(x)
    BY <1>4, <2>1, <2>3
  <2>4. CASE Made(x)
    <3>1. InNoList(has, x) /\ InNoDoor(wheels, x)
      BY <2>4 DEF ItemsInv, Unmade, Made
    <3>2. PICK q \in Lists : \A r \in Lists : has'[r][x] = IF r = q THEN 1 ELSE 0
      BY <2>4, <3>1, <1>2 DEF Made, InNoList
    <3> QED
      BY <2>1, <3>1, <3>2 DEF Alone
  <2> QED
    BY <2>2, <2>3, <2>4 DEF Copied
<1>6. Unmade'
  <2> SUFFICES ASSUME NEW x \in ToBeMade'
               PROVE  InNoList(has', x) /\ InNoDoor(wheels, x) /\ x \notin burnt'
    BY <1>1 DEF Unmade, InNoList, InNoDoor
  <2>1. x \in Items /\ InNoList(has, x) /\ InNoDoor(wheels, x) /\ x \notin burnt
    BY <1>1 DEF ItemsInv, Unmade
  <2>2. \A p \in Lists : has[p][x] = 0
    BY <2>1 DEF InNoList
  <2>3. Fewer(x) /\ x \notin burnt'
    BY <1>1, <2>1, <2>2 DEF Given, Copied, Made
  <2> QED
    BY <1>2, <2>1, <2>2, <2>3 DEF InNoList, Fewer
<1>7. Ashes'
  <2> SUFFICES ASSUME NEW x \in Items, x \notin copied', x \in burnt'
               PROVE  InNoList(has', x) /\ InNoDoor(wheels, x)
    BY <1>1 DEF Ashes, InNoList, InNoDoor
  <2>1. CASE x \in burnt
    <3>1. InNoList(has, x) /\ InNoDoor(wheels, x)
      BY <2>1 DEF ItemsInv, Ashes
    <3>2. Fewer(x)
      BY <3>1 DEF Given, Copied, Made, InNoList
    <3> QED
      BY <1>2, <3>1, <3>2 DEF Fewer, InNoList
  <2> QED
    BY <2>1
<1>8. Pointers'
  BY <1>1 DEF ItemsInv, Pointers
<1> QED
  BY <1>3, <1>5, <1>6, <1>7, <1>8 DEF ItemsInv
\* What the list functions do to the entries of x.
LEMMA GoneIs ==
  ASSUME NEW h \in Counts, NEW x \in Items, NEW p \in Lists, h[p][x] > 0
  PROVE  /\ Gone(h, x, p) \in Counts
         /\ \A r \in Lists, y \in Items :
              Gone(h, x, p)[r][y] = h[r][y] - (IF r = p /\ y = x THEN 1 ELSE 0)
<1>1. h[p][x] \in Nat /\ h[p][x] - 1 \in Nat /\ \A r \in Lists, y \in Items : h[r][y] \in Nat
  BY DEF Counts
<1>2. [h[p] EXCEPT ![x] = h[p][x] - 1] \in [Items -> Nat]
  BY <1>1 DEF Counts
<1>3. Gone(h, x, p) = [h EXCEPT ![p] = [h[p] EXCEPT ![x] = h[p][x] - 1]]
  BY DEF Gone
<1> QED
  BY <1>1, <1>2, <1>3 DEF Counts

LEMMA ComeIs ==
  ASSUME NEW h \in Counts, NEW i \in Items, NEW q \in Lists
  PROVE  /\ Come(h, i, q) \in Counts
         /\ \A r \in Lists, y \in Items :
              Come(h, i, q)[r][y] = h[r][y] + (IF r = q /\ y = i THEN 1 ELSE 0)
<1>1. h[q][i] + 1 \in Nat /\ \A r \in Lists, y \in Items : h[r][y] \in Nat
  BY DEF Counts
<1>2. [h[q] EXCEPT ![i] = h[q][i] + 1] \in [Items -> Nat]
  BY <1>1 DEF Counts
<1>3. Come(h, i, q) = [h EXCEPT ![q] = [h[q] EXCEPT ![i] = h[q][i] + 1]]
  BY DEF Come
<1> QED
  BY <1>1, <1>2, <1>3 DEF Counts

LEMMA EmptiedIs ==
  ASSUME NEW h \in Counts, NEW X
  PROVE  /\ Emptied(h, X) \in Counts
         /\ \A r \in Lists, y \in Items :
              Emptied(h, X)[r][y] = IF r \in X THEN 0 ELSE h[r][y]
<1>1. DOMAIN h = Lists /\ \A r \in Lists : h[r] \in [Items -> Nat]
  BY DEF Counts
<1>2. Emptied(h, X) = [p \in Lists |-> IF p \in X THEN [y \in Items |-> 0] ELSE h[p]]
  BY <1>1 DEF Emptied
<1> QED
  BY <1>1, <1>2 DEF Counts

\* What is deleted with X is either in X, or was in a list of X and is in no other.
LEMMA DestroyedIs ==
  ASSUME ItemsInv, NEW X, Destroyed(X) \cap copied = {}, NEW y \in Destroyed(X) \ X
  PROVE  /\ InNoDoor(wheels, y) /\ \A r \in Lists : r \notin X => has[r][y] = 0
         /\ \E r \in Lists : has[r][y] > 0
<1>1. PICK j \in X \cap Of("journal") : has[j][y] > 0
  BY DEF Destroyed
<1>2. y \in Items /\ j \in Lists /\ \A r \in Lists : has[r][y] \in Nat
  BY <1>1 DEF Destroyed, ItemsInv, ItemTypes, Counts, Lists, Holders
<1>3. Alone(has, wheels, y)
  BY <1>2 DEF ItemsInv, Single
<1> QED
  BY <1>1, <1>2, <1>3 DEF Alone

\* An entry that goes from one list to another.
LEMMA MoveStep ==
  ASSUME ItemsInv, UNCHANGED <<world, wheels, doorOf, copied, burnt, made, CurRoom>>,
         NEW x \in Items, NEW p \in Lists, NEW q \in Lists, has[p][x] > 0,
         has' = Come(Gone(has, x, p), x, q)
  PROVE  ItemsInv'
<1> DEFINE h == Gone(has, x, p)
<1>1. has \in Counts /\ CurRoom \in world.rooms
  BY DEF ItemsInv, ItemTypes, Counts
<1>2. /\ h \in Counts
      /\ \A r \in Lists, y \in Items :
           h[r][y] = has[r][y] - (IF r = p /\ y = x THEN 1 ELSE 0)
  BY <1>1, GoneIs
<1>a. has' = Come(h, x, q)
  OBVIOUS
<1> HIDE DEF h
<1>3. /\ has' \in Counts
      /\ \A r \in Lists, y \in Items :
           has'[r][y] = h[r][y] + (IF r = q /\ y = x THEN 1 ELSE 0)
  BY <1>2, <1>a, ComeIs
<1>4. Given(x)
  BY <1>2, <1>3 DEF Given
<1>5. \A y \in Items : y # x => Fewer(y)
  BY <1>1, <1>2, <1>3 DEF Fewer, Counts
<1> QED
  BY <1>1, <1>3, <1>4, <1>5, ListStep

\* Something new comes into a list.
LEMMA MakeStep ==
  ASSUME ItemsInv, UNCHANGED <<world, wheels, doorOf, copied, burnt, CurRoom>>,
         NEW x \in ToBeMade, NEW q \in Lists,
         made' = made \cup {x}, has' = Come(has, x, q)
  PROVE  ItemsInv'
<1>1. /\ has \in Counts /\ CurRoom \in world.rooms
      /\ x \in Items /\ x \notin burnt
  BY DEF ItemsInv, ItemTypes, Unmade, ToBeMade, Of
<1>2. /\ has' \in Counts
      /\ \A r \in Lists, y \in Items :
           has'[r][y] = has[r][y] + (IF r = q /\ y = x THEN 1 ELSE 0)
  BY <1>1, ComeIs
<1>3. Made(x)
  BY <1>1, <1>2 DEF Made
<1>4. \A y \in Items : y # x => Fewer(y)
  BY <1>1, <1>2 DEF Fewer, Counts
<1> QED
  BY <1>1, <1>2, <1>3, <1>4, ListStep

\* A step that touches no entry.
LEMMA StillStep ==
  ASSUME ItemsInv, UNCHANGED <<world, has, wheels, doorOf, copied, burnt, made>>,
         CurRoom' \in world.rooms
  PROVE  ItemsInv'
<1>1. \A x \in Items : Fewer(x)
  BY DEF ItemsInv, ItemTypes, Fewer, Counts
<1> QED
  BY <1>1, ListStep DEF ItemsInv, ItemTypes, Counts


LEMMA Reaches ==
  ASSUME ItemsInv
  PROVE  /\ CurRoom \in Lists /\ Self \in Lists /\ Holders \subseteq Lists \cap Items
         /\ Self \notin Items /\ {None, Unset} \cap WheelDoors = {}
         /\ \A w \in world.ways : w.to \in world.rooms
         /\ \A p \in Lists, x \in Items : has[p][x] \in Nat
         /\ Of("wheel") \subseteq Items /\ DOMAIN has = Lists
BY WorldsAssumption DEF ItemsInv, ItemTypes, Lists, Holders, Of, WheelDoors, Items, Counts

LEMMA TakeKeeps ==
  ASSUME ItemsInv, NEW x \in Items, Take(x), UNCHANGED <<world, CurRoom>>
  PROVE  ItemsInv'
BY Reaches, MoveStep DEF Take, InRoom, lockVars, fireVars, pageVars

LEMMA DropKeeps ==
  ASSUME ItemsInv, NEW x \in Items, Drop(x), UNCHANGED <<world, CurRoom>>
  PROVE  ItemsInv'
BY Reaches, MoveStep DEF Drop, lockVars, fireVars, pageVars

LEMMA PutInKeeps ==
  ASSUME ItemsInv, NEW c \in Holders, NEW x \in Items, PutIn(c, x), UNCHANGED <<world, CurRoom>>
  PROVE  ItemsInv'
<1>1. UNCHANGED <<wheels, doorOf, copied, made>> /\ has[Self][x] > 0
  BY DEF PutIn, OnPerson, pageVars
<1>2. c \in Lists /\ Self \in Lists /\ c # Self /\ CurRoom \in world.rooms
  BY Reaches DEF ItemsInv, ItemTypes, Counts
<1>3. CASE c \notin Of("fireplace")
  BY <1>1, <1>2, <1>3, MoveStep DEF PutIn
<1>4. CASE c \in Of("fireplace")
  <2> DEFINE rest  == [y \in Items |-> IF {x, y} \subseteq Of("wood") THEN 0 ELSE has[c][y]]
             burns == c \in lit /\ x \notin Of("wood")
             g     == [has EXCEPT ![c] = rest]
             h     == Gone(g, x, Self)
  <2>1. /\ Destroyed({x}) \cap copied = {}
        /\ has' = IF burns THEN Emptied(h, {x}) ELSE Come(h, x, c)
        /\ burnt' = IF burns THEN burnt \cup Destroyed({x}) ELSE burnt
    BY <1>4 DEF PutIn
  <2>a. x \notin copied
    BY <2>1 DEF Destroyed
  <2>2. \A p \in Lists, y \in Items : has[p][y] \in Nat
    BY Reaches
  <2>3. /\ g \in Counts /\ g[Self][x] > 0
        /\ g[Self][x] = has[Self][x]
        /\ \A p \in Lists, y \in Items : g[p][y] <= has[p][y]
    <3>1. rest \in [Items -> Nat] /\ \A y \in Items : rest[y] <= has[c][y]
      BY <1>2, <2>2
    <3>2. has \in Counts
      BY DEF ItemsInv, ItemTypes, Counts
    <3> HIDE DEF rest
    <3> QED
      BY <1>1, <1>2, <2>2, <3>1, <3>2 DEF Counts
  <2> HIDE DEF g
  <2>4. /\ h \in Counts
        /\ \A r \in Lists, y \in Items :
             h[r][y] = g[r][y] - (IF r = Self /\ y = x THEN 1 ELSE 0)
    BY <1>2, <2>3, GoneIs
  <2> HIDE DEF h, burns
  <2>5. /\ Come(h, x, c) \in Counts
        /\ \A r \in Lists, y \in Items :
             Come(h, x, c)[r][y] = h[r][y] + (IF r = c /\ y = x THEN 1 ELSE 0)
    BY <1>2, <2>4, ComeIs
  <2>b. /\ Emptied(h, {x}) \in Counts
        /\ \A r \in Lists, y \in Items :
             Emptied(h, {x})[r][y] = IF r \in {x} THEN 0 ELSE h[r][y]
    BY <2>4, EmptiedIs
  <2>6. has' \in Counts
    BY <2>1, <2>5, <2>b
  <2>7. \A r \in Lists, y \in Items :
          /\ g[r][y] \in Nat /\ h[r][y] \in Nat
          /\ y # x => has'[r][y] <= g[r][y]
    <3>1. \A r \in Lists, y \in Items : g[r][y] \in Nat /\ h[r][y] \in Nat
      BY <2>3, <2>4 DEF Counts
    <3>2. ASSUME NEW r \in Lists, NEW y \in Items, y # x
          PROVE  has'[r][y] <= g[r][y]
      <4>1. h[r][y] = g[r][y]
        BY <2>4, <3>1, <3>2
      <4>2. Come(h, x, c)[r][y] = h[r][y]
        BY <2>5, <3>1, <3>2
      <4>3. Emptied(h, {x})[r][y] <= h[r][y]
        BY <2>b, <3>1
      <4> QED
        BY <2>1, <3>1, <4>1, <4>2, <4>3
    <3> QED
      BY <3>1, <3>2
  <2>8. \A y \in Items : y # x => Fewer(y)
    <3>1. \A r \in Lists, y \in Items : has'[r][y] \in Nat
      BY <2>6 DEF Counts
    <3> QED
      BY <2>2, <2>3, <2>7, <3>1 DEF Fewer
  <2>9. Alone(has, wheels, x)
    BY <2>a DEF ItemsInv, Single
  <2>10. \A r \in Lists : r # Self => has[r][x] = 0
    BY <1>1, <1>2, <2>2, <2>9 DEF Alone
  <2>11. has[Self][x] = 1
    BY <1>1, <1>2, <2>2, <2>9 DEF Alone
  <2>12. \A r \in Lists : h[r][x] = 0
    BY <2>2, <2>3, <2>4, <2>7, <2>10, <2>11
  <2>13. CASE burns
    <3>1. has' = Emptied(h, {x}) /\ burnt' = burnt \cup Destroyed({x})
      BY <2>1, <2>13
    <3>2. Fewer(x) /\ InNoList(has', x) /\ InNoDoor(wheels, x)
      <4>1. \A r \in Lists : has'[r][x] = 0
        BY <2>b, <2>12, <3>1
      <4>2. InNoDoor(wheels, x)
        BY <1>1, <1>2, <2>9 DEF Alone
      <4> QED
        BY <2>2, <4>1, <4>2 DEF Fewer, InNoList
    <3>3. ASSUME NEW y \in Destroyed({x}), y # x
          PROVE  /\ \E p \in Lists : has[p][y] > 0
                 /\ InNoList(has', y) /\ InNoDoor(wheels, y)
      <4>1. /\ InNoDoor(wheels, y) /\ \A r \in Lists : r \notin {x} => has[r][y] = 0
            /\ \E r \in Lists : has[r][y] > 0
        BY <2>1, <3>3, DestroyedIs
      <4>2. y \in Items
        BY <3>3 DEF Destroyed
      <4>3. \A r \in Lists : r # x => h[r][y] = 0
        BY <2>2, <2>3, <2>4, <2>7, <3>3, <4>1, <4>2
      <4> QED
        BY <2>b, <3>1, <4>1, <4>2, <4>3 DEF InNoList
    <3> QED
      BY <1>1, <1>2, <2>6, <2>8, <3>1, <3>2, <3>3, ListStep
  <2>14. CASE ~burns
    <3>1. \A r \in Lists : has'[r][x] = IF r = c THEN 1 ELSE 0
      BY <2>1, <2>5, <2>12, <2>14
    <3>2. Given(x)
      BY <1>1, <1>2, <2>10, <2>11, <3>1 DEF Given
    <3> QED
      BY <1>1, <1>2, <2>1, <2>6, <2>8, <2>14, <3>2, ListStep
  <2> QED
    BY <2>13, <2>14
<1> QED
  BY <1>3, <1>4

LEMMA TakeFromKeeps ==
  ASSUME ItemsInv, NEW c \in Holders, NEW x \in Items, TakeFrom(c, x),
         UNCHANGED <<world, CurRoom>>
  PROVE  ItemsInv'
<1>1. UNCHANGED <<wheels, doorOf, burnt, made>> /\ has[c][x] > 0
  BY DEF TakeFrom, lockVars, fireVars, pageVars
<1>2. c \in Lists /\ Self \in Lists /\ CurRoom \in world.rooms
  BY Reaches DEF ItemsInv, ItemTypes, Counts
<1>3. CASE has' = Come(Gone(has, x, c), x, Self) /\ UNCHANGED copied
  BY <1>1, <1>2, <1>3, MoveStep
<1>4. CASE has' = Come(has, x, Self) /\ copied' = copied \cup {x}
  <2>1. has \in Counts
    BY DEF ItemsInv, ItemTypes, Counts
  <2>2. /\ has' \in Counts
        /\ \A r \in Lists, y \in Items :
             has'[r][y] = has[r][y] + (IF r = Self /\ y = x THEN 1 ELSE 0)
    BY <1>2, <1>4, <2>1, ComeIs
  <2>3. Copied(x)
    BY <1>1, <1>2, <1>4 DEF Copied
  <2>4. \A y \in Items : y # x => Fewer(y)
    BY <2>1, <2>2 DEF Fewer, Counts
  <2> QED
    BY <1>1, <1>2, <1>4, <2>2, <2>3, <2>4, ListStep
<1> QED
  BY <1>3, <1>4 DEF TakeFrom

LEMMA LightKeeps ==
  ASSUME ItemsInv, NEW f \in Of("fireplace"), Light(f), UNCHANGED <<world, CurRoom>>
  PROVE  ItemsInv'
<1> DEFINE fuel == {x \in Items : has[f][x] > 0}
           X    == fuel \cup {f}
<1>1. /\ UNCHANGED <<wheels, doorOf, copied, made>> /\ Destroyed(fuel) \cap copied = {}
      /\ burnt' = burnt \cup Destroyed(fuel)
      /\ has' = Emptied(has, X)
  BY DEF Light, lockVars, pageVars
<1>2. /\ f \in Lists /\ CurRoom \in world.rooms /\ has \in Counts
  BY Reaches DEF ItemsInv, ItemTypes, Holders
<1>3. /\ has' \in Counts
      /\ \A r \in Lists, y \in Items : has'[r][y] = IF r \in X THEN 0 ELSE has[r][y]
  <2> HIDE DEF X
  <2> QED
    BY <1>1, <1>2, EmptiedIs
<1>4. \A y \in Items : Fewer(y)
  <2> HIDE DEF X
  <2> QED
    BY <1>2, <1>3 DEF Fewer, Counts
<1>5. ASSUME NEW x \in Destroyed(fuel)
      PROVE  /\ \E p \in Lists : has[p][x] > 0
             /\ InNoList(has', x) /\ InNoDoor(wheels, x)
  <2>1. CASE x \in fuel
    <3>1. x \in Items /\ has[f][x] > 0 /\ x \notin copied
      BY <1>1, <2>1 DEF Destroyed
    <3>2. Alone(has, wheels, x)
      BY <3>1 DEF ItemsInv, Single
    <3>3. \A r \in Lists : r # f => has[r][x] = 0
      BY <1>2, <3>1, <3>2 DEF Alone, Counts
    <3>4. \A r \in Lists : has'[r][x] = 0
      BY <1>3, <3>1, <3>3
    <3> QED
      BY <1>2, <3>1, <3>2, <3>4 DEF Alone, InNoList
  <2>2. CASE x \notin fuel
    <3>1. /\ InNoDoor(wheels, x) /\ \A r \in Lists : r \notin fuel => has[r][x] = 0
          /\ \E r \in Lists : has[r][x] > 0
      <4> HIDE DEF fuel
      <4> QED
        BY <1>1, <2>2, DestroyedIs
    <3>2. x \in Items
      BY <2>2 DEF Destroyed
    <3> HIDE DEF fuel
    <3> QED
      BY <1>3, <3>1, <3>2 DEF InNoList
  <2> QED
    BY <2>1, <2>2
<1> HIDE DEF fuel
<1> QED
  BY <1>1, <1>2, <1>3, <1>4, <1>5, ListStep

LEMMA CreatePageKeeps ==
  ASSUME ItemsInv, NEW j \in Of("journal"), NEW x \in Items, CreatePage(j, x),
         UNCHANGED <<world, CurRoom>>
  PROVE  ItemsInv'
<1>1. x \in ToBeMade /\ j \in Lists
  BY Reaches DEF CreatePage, ToBeMade, Holders
<1> QED
  BY <1>1, MakeStep DEF CreatePage, lockVars, fireVars

LEMMA ReplicateKeeps ==
  ASSUME ItemsInv, NEW m \in Of("replicator"), NEW x \in Items, Replicate(m, x),
         UNCHANGED <<world, CurRoom>>
  PROVE  ItemsInv'
<1>1. x \in ToBeMade /\ CurRoom \in Lists /\ Self \in Lists
  BY Reaches DEF Replicate, ToBeMade
<1> QED
  BY <1>1, MakeStep DEF Replicate, lockVars, fireVars

-----------------------------------------------------------------------------
(* Wheels in doors.                                                        *)

LEMMA LeastNumber == \A S \in SUBSET Nat : S # {} => \E m \in S : \A n \in S : m <= n
<1> SUFFICES ASSUME NEW S \in SUBSET Nat, S # {}
             PROVE  \E m \in S : \A n \in S : m <= n
  OBVIOUS
<1>1. PICK m \in S : \A n \in S : ~(<<n, m>> \in OpToRel(<, Nat))
  BY NatLessThanWellFounded, WFMin, Zenon
<1>2. \A n \in S : ~(n < m)
  BY <1>1 DEF OpToRel
<1> QED
  BY <1>2

\* What is left of a list without the first x.
LEMMA RemoveFirstIs ==
  ASSUME NEW S, NEW s \in Seq(S), NEW x, \E k \in 1 .. Len(s) : s[k] = x
  PROVE  /\ RemoveFirst(s, x) \in Seq(S)
         /\ \E k \in 1 .. Len(s) :
              /\ s[k] = x /\ Len(RemoveFirst(s, x)) = Len(s) - 1
              /\ \A i \in 1 .. Len(s) - 1 :
                   RemoveFirst(s, x)[i] = IF i < k THEN s[i] ELSE s[i + 1]
<1> DEFINE I == {i \in 1 .. Len(s) : s[i] = x}
           k == Min(I)
<1>1. Len(s) \in Nat /\ \A i \in 1 .. Len(s) : s[i] \in S
  BY LenProperties, ElementOfSeq
<1>2. k \in I
  <2>1. I \in SUBSET Nat /\ I # {}
    OBVIOUS
  <2>2. \E m \in I : \A n \in I : m <= n
    <3> HIDE DEF I
    <3> QED
      BY <2>1, LeastNumber
  <2> QED
    BY <2>2 DEF Min
<1>3. RemoveFirst(s, x) = SubSeq(s, 1, k - 1) \o SubSeq(s, k + 1, Len(s))
  BY <1>2 DEF RemoveFirst, RemoveAt, SelectInSeq
<1> HIDE DEF k
<1> DEFINE a == SubSeq(s, 1, k - 1)
           b == SubSeq(s, k + 1, Len(s))
<1>4. /\ a \in Seq(S) /\ Len(a) = k - 1 /\ \A i \in 1 .. k - 1 : a[i] = s[i]
      /\ b \in Seq(S) /\ Len(b) = Len(s) - k /\ \A i \in 1 .. Len(s) - k : b[i] = s[k + i]
  BY <1>1, <1>2, SubSeqProperties
<1> HIDE DEF a, b
<1>5. /\ a \o b \in Seq(S) /\ Len(a \o b) = Len(s) - 1
      /\ \A i \in 1 .. Len(s) - 1 : (a \o b)[i] = IF i <= k - 1 THEN a[i] ELSE b[i - (k - 1)]
  <2>1. /\ a \o b \in Seq(S) /\ Len(a \o b) = Len(a) + Len(b)
        /\ \A i \in 1 .. Len(a) + Len(b) :
             (a \o b)[i] = IF i <= Len(a) THEN a[i] ELSE b[i - Len(a)]
    BY <1>4, ConcatProperties
  <2>2. Len(a) + Len(b) = Len(s) - 1
    BY <1>1, <1>2, <1>4
  <2> QED
    BY <1>4, <2>1, <2>2
<1>6. \A i \in 1 .. Len(s) - 1 : (a \o b)[i] = IF i < k THEN s[i] ELSE s[i + 1]
  <2> SUFFICES ASSUME NEW i \in 1 .. Len(s) - 1
               PROVE  (a \o b)[i] = IF i < k THEN s[i] ELSE s[i + 1]
    OBVIOUS
  <2>1. CASE i < k
    <3>1. i <= k - 1 /\ i \in 1 .. k - 1
      BY <1>1, <1>2, <2>1
    <3>2. (a \o b)[i] = a[i]
      BY <1>5, <3>1
    <3> QED
      BY <1>4, <2>1, <3>1, <3>2
  <2>2. CASE ~(i < k)
    <3>1. i - (k - 1) \in 1 .. Len(s) - k /\ k + (i - (k - 1)) = i + 1
      BY <1>1, <1>2, <2>2
    <3>2. b[i - (k - 1)] = s[i + 1]
      BY <1>4, <3>1
    <3>3. ~(i <= k - 1)
      BY <1>1, <1>2, <2>2
    <3>4. (a \o b)[i] = b[i - (k - 1)]
      BY <1>5, <3>3
    <3> QED
      BY <2>2, <3>2, <3>4
  <2> QED
    BY <2>1, <2>2
<1> QED
  BY <1>2, <1>3, <1>5, <1>6 DEF a, b


LEMMA PutInDoorKeeps ==
  ASSUME ItemsInv, NEW d \in WheelDoors, NEW x \in Items, PutInDoor(d, x),
         UNCHANGED <<world, CurRoom>>
  PROVE  ItemsInv'
<1> DEFINE s == wheels[d]
<1>1. /\ UNCHANGED <<copied, burnt, made>> /\ has[Self][x] > 0 /\ x \in Of("wheel")
      /\ wheels' = [wheels EXCEPT ![d] = Append(s, x)]
      /\ has' = Gone(has, x, Self) /\ doorOf' = [doorOf EXCEPT ![x] = d]
  BY DEF PutInDoor, OnPerson, fireVars, pageVars
<1>2. /\ has \in Counts /\ Self \in Lists /\ CurRoom \in world.rooms /\ world \in Worlds
      /\ \A p \in Lists, y \in Items : has[p][y] \in Nat
      /\ wheels \in [WheelDoors -> Seq(Of("wheel"))]
      /\ doorOf \in [Of("wheel") -> WheelDoors \cup {None, Unset}]
  BY Reaches DEF ItemsInv, ItemTypes
<1>3. Items' = Items /\ Lists' = Lists /\ WheelDoors' = WheelDoors /\ Counts' = Counts
      /\ Of("wheel")' = Of("wheel") /\ ToBeMade' = ToBeMade /\ ToBeMade \subseteq Items
      /\ Of("wheel") \subseteq Items
  BY <1>1 DEF Items, Lists, WheelDoors, Of, Holders, ToBeMade, Counts
<1>4. /\ has' \in Counts
      /\ \A r \in Lists, y \in Items :
           has'[r][y] = has[r][y] - (IF r = Self /\ y = x THEN 1 ELSE 0)
  BY <1>1, <1>2, GoneIs
<1>5. /\ \A e \in WheelDoors : Len(wheels[e]) \in Nat
      /\ Append(s, x) \in Seq(Of("wheel")) /\ Len(Append(s, x)) = Len(s) + 1
      /\ \A k \in 1 .. Len(s) : Append(s, x)[k] = s[k]
      /\ Append(s, x)[Len(s) + 1] = x
  BY <1>1, <1>2, AppendProperties, LenProperties
<1>6. /\ wheels' \in [WheelDoors -> Seq(Of("wheel"))] /\ Len(wheels'[d]) = Len(s) + 1
      /\ \A e \in WheelDoors : e # d => wheels'[e] = wheels[e]
      /\ \A k \in 1 .. Len(s) : wheels'[d][k] = s[k]
      /\ wheels'[d][Len(s) + 1] = x
  BY <1>1, <1>2, <1>5
<1>7. \A e \in WheelDoors : \A k \in 1 .. Len(wheels'[e]) :
        \/ k \in 1 .. Len(wheels[e]) /\ wheels'[e][k] = wheels[e][k]
        \/ e = d /\ k = Len(s) + 1 /\ wheels'[e][k] = x
  BY <1>5, <1>6
<1>8. \A e \in WheelDoors : \A k \in 1 .. Len(wheels[e]) :
        k \in 1 .. Len(wheels'[e]) /\ wheels'[e][k] = wheels[e][k]
  BY <1>5, <1>6
<1>9. ItemTypes'
  BY <1>1, <1>2, <1>3, <1>4, <1>6 DEF ItemTypes
<1>10. ASSUME NEW y \in Items, y # x
       PROVE  /\ Alone(has, wheels, y) => Alone(has', wheels', y)
              /\ InNoList(has, y) => InNoList(has', y)
              /\ InNoDoor(wheels, y) => InNoDoor(wheels', y)
  <2>1. \A r \in Lists : has'[r][y] = has[r][y]
    BY <1>2, <1>4, <1>10
  <2>2. InNoDoor(wheels, y) => InNoDoor(wheels', y)
    BY <1>7, <1>10 DEF InNoDoor
  <2> QED
    BY <1>7, <1>10, <2>1, <2>2 DEF Alone, InNoList
<1>11. x \notin ToBeMade /\ (x \notin copied => x \notin burnt)
  BY <1>1, <1>2 DEF ItemsInv, Unmade, Ashes, InNoList
<1>12. ASSUME Alone(has, wheels, x) PROVE InNoDoor(wheels, x) /\ Alone(has', wheels', x)
  <2>1. InNoDoor(wheels, x) /\ \A r \in Lists : has[r][x] = IF r = Self THEN 1 ELSE 0
    BY <1>1, <1>2, <1>12 DEF Alone
  <2>2. \A r \in Lists : has'[r][x] = 0
    BY <1>4, <2>1
  <2>3. \A e \in WheelDoors : \A k \in 1 .. Len(wheels'[e]) :
          wheels'[e][k] = x => e = d /\ k = Len(s) + 1
    BY <1>7, <2>1 DEF InNoDoor
  <2> QED
    BY <2>1, <2>2, <2>3 DEF Alone
<1>13. Single'
  BY <1>1, <1>3, <1>10, <1>12, SMTT(30) DEF ItemsInv, Single, Alone, InNoDoor
<1>14. Unmade'
  BY <1>1, <1>3, <1>10, <1>11 DEF ItemsInv, Unmade, InNoList, InNoDoor
<1>15. Ashes'
  BY <1>1, <1>3, <1>10, <1>11 DEF ItemsInv, Ashes, InNoList, InNoDoor
<1>16. Pointers'
  <2> SUFFICES ASSUME NEW y \in Of("wheel"), y \notin copied, NEW e \in WheelDoors
               PROVE  doorOf'[y] = e <=> \E k \in 1 .. Len(wheels'[e]) : wheels'[e][k] = y
    BY <1>1, <1>3 DEF Pointers
  <2>1. doorOf[y] = e <=> \E k \in 1 .. Len(wheels[e]) : wheels[e][k] = y
    BY DEF ItemsInv, Pointers
  <2>2. CASE y # x
    BY <1>1, <1>2, <1>7, <1>8, <2>1, <2>2
  <2>3. CASE y = x
    <3>1. InNoDoor(wheels, x)
      BY <1>3, <1>12, <2>3 DEF ItemsInv, Single
    <3>2. doorOf'[x] = d
      BY <1>1, <1>2
    <3>3. Len(s) + 1 \in 1 .. Len(wheels'[d])
      BY <1>5, <1>6
    <3> QED
      BY <1>6, <1>7, <2>3, <3>1, <3>2, <3>3 DEF InNoDoor
  <2> QED
    BY <2>2, <2>3
<1> QED
  BY <1>9, <1>13, <1>14, <1>15, <1>16 DEF ItemsInv

LEMMA TakeFromDoorKeeps ==
  ASSUME ItemsInv, NEW d \in WheelDoors, NEW x \in Items, TakeFromDoor(d, x),
         UNCHANGED <<world, CurRoom>>
  PROVE  ItemsInv'
<1> DEFINE s == wheels[d]
<1>1. /\ UNCHANGED <<copied, burnt, made>> /\ \E k \in 1 .. Len(s) : s[k] = x
      /\ wheels' = [wheels EXCEPT ![d] = RemoveFirst(s, x)]
      /\ has' = Come(has, x, Self) /\ doorOf' = [doorOf EXCEPT ![x] = None]
  BY DEF TakeFromDoor, Contains, fireVars, pageVars
<1>2. /\ has \in Counts /\ Self \in Lists /\ CurRoom \in world.rooms /\ world \in Worlds
      /\ \A p \in Lists, y \in Items : has[p][y] \in Nat
      /\ wheels \in [WheelDoors -> Seq(Of("wheel"))] /\ s \in Seq(Of("wheel"))
      /\ doorOf \in [Of("wheel") -> WheelDoors \cup {None, Unset}] /\ None \notin WheelDoors
  BY Reaches DEF ItemsInv, ItemTypes
<1>3. Items' = Items /\ Lists' = Lists /\ WheelDoors' = WheelDoors /\ Counts' = Counts
      /\ Of("wheel")' = Of("wheel") /\ ToBeMade' = ToBeMade /\ ToBeMade \subseteq Items
      /\ Of("wheel") \subseteq Items
  BY <1>1 DEF Items, Lists, WheelDoors, Of, Holders, ToBeMade, Counts
<1>4. /\ has' \in Counts
      /\ \A r \in Lists, y \in Items :
           has'[r][y] = has[r][y] + (IF r = Self /\ y = x THEN 1 ELSE 0)
  BY <1>1, <1>2, ComeIs
<1>5. \A e \in WheelDoors : Len(wheels[e]) \in Nat
  BY <1>2, LenProperties
<1>6. PICK c \in 1 .. Len(s) :
        /\ RemoveFirst(s, x) \in Seq(Of("wheel"))
        /\ s[c] = x /\ Len(RemoveFirst(s, x)) = Len(s) - 1
        /\ \A i \in 1 .. Len(s) - 1 :
             RemoveFirst(s, x)[i] = IF i < c THEN s[i] ELSE s[i + 1]
  <2>1. /\ RemoveFirst(s, x) \in Seq(Of("wheel"))
        /\ \E c \in 1 .. Len(s) :
             /\ s[c] = x /\ Len(RemoveFirst(s, x)) = Len(s) - 1
             /\ \A i \in 1 .. Len(s) - 1 :
                  RemoveFirst(s, x)[i] = IF i < c THEN s[i] ELSE s[i + 1]
    <3> HIDE DEF s
    <3> QED
      BY <1>1, <1>2, RemoveFirstIs, SMTT(30)
  <2> QED
    BY <2>1
<1>7. x \in Of("wheel")
  BY <1>2, <1>6, ElementOfSeq
<1> DEFINE Old(e, k) == IF e # d \/ k < c THEN k ELSE k + 1
<1>8. /\ wheels' \in [WheelDoors -> Seq(Of("wheel"))] /\ Len(wheels'[d]) = Len(s) - 1
      /\ \A e \in WheelDoors : e # d => wheels'[e] = wheels[e]
      /\ \A i \in 1 .. Len(s) - 1 : wheels'[d][i] = IF i < c THEN s[i] ELSE s[i + 1]
  BY <1>1, <1>2, <1>6
<1>9. \A e \in WheelDoors : \A k \in 1 .. Len(wheels'[e]) :
        /\ Old(e, k) \in 1 .. Len(wheels[e]) /\ wheels'[e][k] = wheels[e][Old(e, k)]
        /\ e = d => Old(e, k) # c
        /\ \A l \in 1 .. Len(wheels'[e]) : Old(e, k) = Old(e, l) => k = l
  BY <1>5, <1>8
<1>10. \A e \in WheelDoors : \A k \in 1 .. Len(wheels[e]) :
         wheels[e][k] # x => \E l \in 1 .. Len(wheels'[e]) : wheels'[e][l] = wheels[e][k]
  <2> SUFFICES ASSUME NEW e \in WheelDoors, NEW k \in 1 .. Len(wheels[e]), wheels[e][k] # x
               PROVE  \E l \in 1 .. Len(wheels'[e]) : wheels'[e][l] = wheels[e][k]
    OBVIOUS
  <2>1. CASE e # d
    BY <1>8, <2>1
  <2>2. CASE e = d /\ k < c
    BY <1>5, <1>6, <1>8, <2>2
  <2>3. CASE e = d /\ ~(k < c)
    <3>1. k # c /\ k - 1 \in 1 .. Len(s) - 1 /\ ~(k - 1 < c) /\ k - 1 + 1 = k
      BY <1>5, <1>6, <2>3
    <3> QED
      BY <1>8, <2>3, <3>1
  <2> QED
    BY <2>1, <2>2, <2>3
<1> HIDE DEF Old
<1>11. ItemTypes'
  BY <1>1, <1>2, <1>3, <1>4, <1>8 DEF ItemTypes
<1>12. \A y \in Items : InNoDoor(wheels, y) => InNoDoor(wheels', y)
  BY <1>9 DEF InNoDoor
<1>13. \A y \in Items, e, f \in WheelDoors :
          \A k \in 1 .. Len(wheels'[e]), l \in 1 .. Len(wheels'[f]) :
            Alone(has, wheels, y) /\ wheels'[e][k] = y /\ wheels'[f][l] = y => e = f /\ k = l
  <2> SUFFICES ASSUME NEW y \in Items, NEW e \in WheelDoors, NEW f \in WheelDoors,
                      NEW k \in 1 .. Len(wheels'[e]), NEW l \in 1 .. Len(wheels'[f]),
                      Alone(has, wheels, y), wheels'[e][k] = y, wheels'[f][l] = y
               PROVE  e = f /\ k = l
    OBVIOUS
  <2>1. /\ Old(e, k) \in 1 .. Len(wheels[e]) /\ wheels[e][Old(e, k)] = y
        /\ Old(f, l) \in 1 .. Len(wheels[f]) /\ wheels[f][Old(f, l)] = y
    BY <1>9
  <2>2. e = f /\ Old(e, k) = Old(f, l)
    BY <2>1 DEF Alone
  <2> QED
    BY <1>9, <2>2
<1>14. ASSUME NEW y \in Items, y # x
       PROVE  /\ Alone(has, wheels, y) => Alone(has', wheels', y)
              /\ InNoList(has, y) => InNoList(has', y)
  <2>1. \A r \in Lists : has'[r][y] = has[r][y]
    BY <1>2, <1>4, <1>14
  <2>2. ASSUME Alone(has, wheels, y) PROVE Alone(has', wheels', y)
    <3>1. \A r \in Lists : has'[r][y] <= 1 /\ (has'[r][y] > 0 => InNoDoor(wheels', y))
      BY <1>12, <2>1, <2>2 DEF Alone
    <3>2. \A p, q \in Lists : has'[p][y] > 0 /\ has'[q][y] > 0 => p = q
      BY <2>1, <2>2 DEF Alone
    <3> QED
      BY <1>13, <2>2, <3>1, <3>2, SMTT(30) DEF Alone
  <2> QED
    BY <2>1, <2>2 DEF InNoList
<1>15. x \notin ToBeMade /\ (x \notin copied => x \notin burnt)
  BY <1>3, <1>6, <1>7 DEF ItemsInv, Unmade, Ashes, InNoDoor
<1>16. ASSUME Alone(has, wheels, x) PROVE InNoDoor(wheels', x) /\ Alone(has', wheels', x)
  <2>1. InNoDoor(wheels', x)
    <3> SUFFICES ASSUME NEW e \in WheelDoors, NEW k \in 1 .. Len(wheels'[e]),
                        wheels'[e][k] = x
                 PROVE  FALSE
      BY DEF InNoDoor
    <3> QED
      BY <1>6, <1>9, <1>16, SMTT(30) DEF Alone
  <2>2. \A r \in Lists : has[r][x] = 0
    BY <1>2, <1>3, <1>6, <1>7, <1>16, SMTT(30) DEF Alone, InNoDoor
  <2>3. \A r \in Lists : has'[r][x] = IF r = Self THEN 1 ELSE 0
    BY <1>3, <1>4, <1>7, <2>2
  <2> QED
    BY <2>1, <2>3 DEF Alone, InNoDoor
<1>17. Single'
  BY <1>1, <1>3, <1>14, <1>16 DEF ItemsInv, Single, Alone, InNoDoor
<1>18. Unmade'
  BY <1>1, <1>3, <1>12, <1>14, <1>15 DEF ItemsInv, Unmade, InNoList, InNoDoor
<1>19. Ashes'
  BY <1>1, <1>3, <1>12, <1>14, <1>15 DEF ItemsInv, Ashes, InNoList, InNoDoor
<1>20. Pointers'
  <2> SUFFICES ASSUME NEW y \in Of("wheel"), y \notin copied, NEW e \in WheelDoors
               PROVE  doorOf'[y] = e <=> \E k \in 1 .. Len(wheels'[e]) : wheels'[e][k] = y
    BY <1>1, <1>3 DEF Pointers
  <2>1. doorOf[y] = e <=> \E k \in 1 .. Len(wheels[e]) : wheels[e][k] = y
    BY DEF ItemsInv, Pointers
  <2>2. CASE y # x
    <3>1. doorOf'[y] = doorOf[y]
      BY <1>1, <1>2, <2>2
    <3>2. ASSUME NEW k \in 1 .. Len(wheels'[e]), wheels'[e][k] = y
          PROVE  \E l \in 1 .. Len(wheels[e]) : wheels[e][l] = y
      BY <1>9, <3>2
    <3>3. ASSUME NEW k \in 1 .. Len(wheels[e]), wheels[e][k] = y
          PROVE  \E l \in 1 .. Len(wheels'[e]) : wheels'[e][l] = y
      BY <1>10, <2>2, <3>3
    <3> QED
      BY <2>1, <3>1, <3>2, <3>3
  <2>3. CASE y = x
    <3>1. InNoDoor(wheels', x)
      BY <1>3, <1>16, <2>3 DEF ItemsInv, Single
    <3>2. doorOf'[x] = None
      BY <1>1, <1>2, <1>7
    <3> QED
      BY <1>2, <2>3, <3>1, <3>2 DEF InNoDoor
  <2> QED
    BY <2>2, <2>3
<1> QED
  BY <1>11, <1>17, <1>18, <1>19, <1>20 DEF ItemsInv


LEMMA RotateKeeps ==
  ASSUME ItemsInv, NEW x \in Of("wheel"), Rotate(x), UNCHANGED <<world, CurRoom>>
  PROVE  ItemsInv'
<1>1. /\ UNCHANGED <<has, copied, wheels, burnt, made>>
      /\ doorOf' = doorOf \/ (doorOf[x] = Unset /\ doorOf' = [doorOf EXCEPT ![x] = None])
  BY DEF Rotate, fireVars, pageVars
<1>2. CASE doorOf' = doorOf
  BY <1>1, <1>2, StillStep DEF ItemsInv, ItemTypes
<1>3. CASE doorOf[x] = Unset /\ doorOf' = [doorOf EXCEPT ![x] = None]
  <2>1. Items' = Items /\ Lists' = Lists /\ WheelDoors' = WheelDoors /\ Counts' = Counts
        /\ Of("wheel")' = Of("wheel") /\ ToBeMade' = ToBeMade
    BY <1>1 DEF Items, Lists, WheelDoors, Of, Holders, ToBeMade, Counts
  <2>2. /\ None \notin WheelDoors /\ Unset \notin WheelDoors
        /\ doorOf \in [Of("wheel") -> WheelDoors \cup {None, Unset}]
    BY Reaches DEF ItemsInv, ItemTypes
  <2>3. \A y \in Of("wheel"), d \in WheelDoors : doorOf'[y] = d <=> doorOf[y] = d
    BY <1>3, <2>2
  <2>4. ItemTypes'
    BY <1>1, <1>3, <2>1, <2>2 DEF ItemsInv, ItemTypes
  <2>5. Single' /\ Unmade' /\ Ashes'
    BY <1>1, <2>1 DEF ItemsInv, Single, Unmade, Ashes, Alone, InNoList, InNoDoor
  <2>6. Pointers'
    BY <1>1, <2>1, <2>3 DEF ItemsInv, Pointers
  <2> QED
    BY <2>4, <2>5, <2>6 DEF ItemsInv
<1> QED
  BY <1>1, <1>2, <1>3

LEMMA InitItemsInv == InitGame => ItemsInv
<1> SUFFICES ASSUME InitGame PROVE ItemsInv
  OBVIOUS
<1>1. /\ world \in Worlds /\ CurRoom = world.start /\ CurRoom \in world.rooms
      /\ {None, Unset} \cap WheelDoors = {} /\ None \notin Lists
      /\ Of("wheel") \subseteq Items
  BY WorldsAssumption DEF InitGame, WheelDoors, Lists, Holders, Of, Items, None, Self
<1>2. /\ has = [p \in Lists |-> [x \in Items |-> IF world.lie[x] = p THEN 1 ELSE 0]]
      /\ wheels = [d \in WheelDoors |-> <<>>]
      /\ doorOf = [x \in Of("wheel") |-> Unset]
      /\ made = {} /\ burnt = {} /\ copied = {}
  BY DEF InitGame, Lists
<1>3. \A d \in WheelDoors : wheels[d] \in Seq(Of("wheel")) /\ Len(wheels[d]) = 0
  BY <1>2, EmptySeq
<1>4. ItemTypes
  BY <1>1, <1>2, <1>3 DEF ItemTypes, Counts
<1>5. \A x \in Items : InNoDoor(wheels, x)
  BY <1>3 DEF InNoDoor
<1>6. \A p \in Lists, x \in Items : has[p][x] = IF world.lie[x] = p THEN 1 ELSE 0
  BY <1>2
<1>7. Single
  BY <1>3, <1>5, <1>6 DEF Single, Alone
<1>8. Unmade
  <2> SUFFICES ASSUME NEW x \in ToBeMade
               PROVE  x \in Items /\ world.lie[x] \notin Lists
    BY <1>2, <1>5, <1>6 DEF Unmade, InNoList
  <2>1. x \in Items /\ (world.items[x] = "page" \/ x \in world.spare)
    BY DEF ToBeMade, Of
  <2> QED
    BY <1>1, <2>1, WorldsAssumption DEF Items
<1>9. Ashes
  BY <1>2 DEF Ashes
<1>10. Pointers
  BY <1>1, <1>2, <1>3 DEF Pointers
<1> QED
  BY <1>4, <1>7, <1>8, <1>9, <1>10 DEF ItemsInv

LEMMA NextItemsInv == ItemsInv /\ [NextCommand]_gameVars => ItemsInv'
<1> SUFFICES ASSUME ItemsInv, [NextCommand]_gameVars PROVE ItemsInv'
  OBVIOUS
<1>1. CASE OnThings /\ UNCHANGED fixedVars
  <2>1. UNCHANGED <<world, CurRoom>>
    BY <1>1 DEF OnThings, fixedVars, roomVars
  <2>2. ASSUME NEW x \in Items, Take(x) \/ Drop(x) PROVE ItemsInv'
    BY <2>1, <2>2, TakeKeeps, DropKeeps
  <2>3. ASSUME NEW c \in Holders, NEW x \in Items, PutIn(c, x) \/ TakeFrom(c, x)
        PROVE  ItemsInv'
    BY <2>1, <2>3, PutInKeeps, TakeFromKeeps
  <2>4. ASSUME NEW f \in Of("fireplace"), Light(f) PROVE ItemsInv'
    BY <2>1, <2>4, LightKeeps
  <2>5. ASSUME NEW j \in Of("journal"), NEW x \in Items, CreatePage(j, x) PROVE ItemsInv'
    BY <2>1, <2>5, CreatePageKeeps
  <2>6. ASSUME NEW m \in Of("replicator"), NEW x \in Items, Replicate(m, x) PROVE ItemsInv'
    BY <2>1, <2>6, ReplicateKeeps
  <2>7. ASSUME NEW x, Extinguish(x) \/ Water(x) \/ Crumple(x) PROVE ItemsInv'
    <3>1. UNCHANGED <<has, wheels, doorOf, copied, burnt, made>>
      BY <2>7 DEF Extinguish, Water, Crumple, lockVars, fireVars, pageVars
    <3> QED
      BY <2>1, <3>1, StillStep DEF ItemsInv, ItemTypes
  <2>8. ASSUME NEW d \in WheelDoors, NEW x \in Items, PutInDoor(d, x) \/ TakeFromDoor(d, x)
        PROVE  ItemsInv'
    BY <2>1, <2>8, PutInDoorKeeps, TakeFromDoorKeeps
  <2>9. ASSUME NEW x \in Of("wheel"), Rotate(x) PROVE ItemsInv'
    BY <2>1, <2>9, RotateKeeps
  <2> QED
    BY <1>1, <2>2, <2>3, <2>4, <2>5, <2>6, <2>7, <2>8, <2>9 DEF OnThings
<1>2. CASE /\ OnDoors \/ Moves \/ OnCodes \/ Prints \/ UNCHANGED gameVars
           /\ UNCHANGED fixedVars
  <2>1. UNCHANGED <<world, has, wheels, doorOf, copied, burnt, made>>
    BY <1>2 DEF OnDoors, Moves, OnCodes, Prints, gameVars, fixedVars, lockVars, fireVars,
                pageVars
  <2>2. CurRoom' = CurRoom \/ CurRoom' \in world.rooms
    BY <1>2, Reaches DEF OnDoors, Moves, OnCodes, Prints, gameVars, roomVars, Go, Teleport,
                         Enter
  <2> QED
    BY <2>1, <2>2, StillStep DEF ItemsInv, ItemTypes
<1> QED
  BY <1>1, <1>2 DEF NextCommand, gameVars, fixedVars

\* A set in which all are equal has no element, or one.
LEMMA AtMostOne ==
  \A S : (\A a, b \in S : a = b) =>
    Cardinality(S) = IF S = {} THEN 0 ELSE 1
<1> SUFFICES ASSUME NEW S, \A a, b \in S : a = b
             PROVE  Cardinality(S) = IF S = {} THEN 0 ELSE 1
  OBVIOUS
<1>1. CASE S = {}
  BY <1>1, FS_EmptySet
<1>2. CASE S # {}
  <2>1. PICK a : S = {a}
    BY <1>2
  <2> QED
    BY <2>1, FS_Singleton
<1> QED
  BY <1>1, <1>2

\* Whatever the world and the commands, no item is in two places, what was burnt is in
\* none, and the wheels know the doors that they are in; except what a storage gave out.
THEOREM ItemsInOnePlace == GameSpec => []InOnePlace
<1>1. ASSUME ItemsInv PROVE InOnePlace
  <2> SUFFICES ASSUME NEW x \in Items, x \notin copied
               PROVE  /\ Places(x) <= IF x \in burnt THEN 0 ELSE 1
                      /\ x \in Of("wheel") =>
                           \A d \in WheelDoors : doorOf[x] = d <=> Contains(wheels[d], x)
    BY DEF InOnePlace
  <2>1. Alone(has, wheels, x) /\ (x \in burnt => InNoList(has, x) /\ InNoDoor(wheels, x))
    BY <1>1 DEF ItemsInv, Single, Ashes
  <2>2. /\ \A p \in Lists : has[p][x] \in Nat
        /\ \A d \in WheelDoors : DOMAIN wheels[d] = 1 .. Len(wheels[d])
        /\ DOMAIN has = Lists
    BY <1>1, Reaches, LenProperties DEF ItemsInv, ItemTypes
  <2>3. \A e \in Listed(x) : \E p \in Lists : has[p][x] > 0 /\ e = [list |-> p, n |-> 1]
    <3> SUFFICES ASSUME NEW p \in Lists, NEW k \in 1 .. has[p][x]
                 PROVE  has[p][x] > 0 /\ k = 1
      BY <2>2 DEF Listed
    <3> QED
      BY <2>1, <2>2 DEF Alone
  <2>4. \A e \in Fitted(x) : \E d \in WheelDoors : \E k \in 1 .. Len(wheels[d]) :
          wheels[d][k] = x /\ e = [door |-> d, n |-> k]
    BY <2>2 DEF Fitted
  <2>5. Cardinality(Listed(x)) = IF Listed(x) = {} THEN 0 ELSE 1
    <3>1. \A a, b \in Listed(x) : a = b
      BY <2>1, <2>3 DEF Alone
    <3> QED
      BY <3>1, AtMostOne
  <2>6. Cardinality(Fitted(x)) = IF Fitted(x) = {} THEN 0 ELSE 1
    <3>1. \A a, b \in Fitted(x) : a = b
      BY <2>1, <2>4 DEF Alone
    <3> QED
      BY <3>1, AtMostOne
  <2>7. Listed(x) = {} \/ Fitted(x) = {}
    BY <2>1, <2>3, <2>4 DEF Alone, InNoDoor
  <2>8. x \in burnt => Listed(x) = {} /\ Fitted(x) = {}
    BY <2>1, <2>3, <2>4 DEF InNoList, InNoDoor
  <2>9. Places(x) <= IF x \in burnt THEN 0 ELSE 1
    BY <2>5, <2>6, <2>7, <2>8 DEF Places
  <2>10. x \in Of("wheel") => \A d \in WheelDoors : doorOf[x] = d <=> Contains(wheels[d], x)
    BY <1>1 DEF ItemsInv, Pointers, Contains
  <2> QED
    BY <2>9, <2>10
<1> QED
  BY <1>1, InitItemsInv, NextItemsInv, PTL DEF GameSpec
-----------------------------------------------------------------------------
(* Codes.  Digits, Xor and Value are recursive functions: that there are   *)
(* functions that their definitions describe is a matter of their own.     *)

\* A function on the numbers whose value at n is a step from its values below n.
IsRecursive(f, step) == \A n \in Nat : f[n] = step[<<n, f>>]

\* There is one, when a step looks at nothing else.
LEMMA Recursion ==
  ASSUME NEW V, NEW v0 \in V, NEW step \in [Nat \X [Nat -> V] -> V],
         \A n \in Nat, f, g \in [Nat -> V] :
           (\A m \in 0 .. n - 1 : f[m] = g[m]) => step[<<n, f>>] = step[<<n, g>>]
  PROVE  \E f \in [Nat -> V] : IsRecursive(f, step)
<1> DEFINE Upto(n, f) == \A m \in 0 .. n - 1 : f[m] = step[<<m, f>>]
           A == {n \in Nat : \E f \in [Nat -> V] : Upto(n, f)}
<1>1. 0 \in A
  <2>1. PICK f \in [Nat -> V] : TRUE
    <3>1. [n \in Nat |-> v0] \in [Nat -> V]
      OBVIOUS
    <3> QED
      BY <3>1
  <2>2. Upto(0, f)
    OBVIOUS
  <2> HIDE DEF Upto
  <2> QED
    BY <2>2
<1>2. ASSUME NEW n \in Nat, n \in A PROVE n + 1 \in A
  <2>1. PICK f \in [Nat -> V] : Upto(n, f)
    BY <1>2
  <2>2. step[<<n, f>>] \in V
    OBVIOUS
  <2>3. PICK g \in [Nat -> V] : g[n] = step[<<n, f>>] /\ \A m \in 0 .. n - 1 : g[m] = f[m]
    <3>1. PICK v \in V : v = step[<<n, f>>]
      BY <2>2
    <3>2. [f EXCEPT ![n] = v] \in [Nat -> V]
      OBVIOUS
    <3>3. [f EXCEPT ![n] = v][n] = v /\ \A m \in 0 .. n - 1 : [f EXCEPT ![n] = v][m] = f[m]
      OBVIOUS
    <3> QED
      BY <3>1, <3>2, <3>3
  <2>4. g[n] = step[<<n, g>>]
    BY <2>3
  <2>5. ASSUME NEW m \in 0 .. n - 1 PROVE g[m] = step[<<m, g>>]
    <3>1. m \in Nat /\ \A k \in 0 .. m - 1 : k \in 0 .. n - 1
      OBVIOUS
    <3>2. step[<<m, g>>] = step[<<m, f>>]
      BY <2>3, <3>1
    <3> QED
      BY <2>1, <2>3, <3>2
  <2> QED
    BY <2>4, <2>5
<1>3. ASSUME NEW n \in Nat PROVE n \in A
  <2>1. 0 .. n \subseteq A
    <3> HIDE DEF A
    <3>1. \A k \in 0 .. n - 1 : k \in A => k + 1 \in A
      BY <1>2
    <3> QED
      BY <1>1, <3>1, UpTo
  <2> HIDE DEF A
  <2> QED
    BY <2>1
<1>4. ASSUME NEW n \in Nat, NEW f \in [Nat -> V], NEW g \in [Nat -> V], Upto(n, f), Upto(n, g)
      PROVE  \A m \in 0 .. n - 1 : f[m] = g[m]
  <2> DEFINE B == {k \in 0 .. n : \A m \in 0 .. k - 1 : f[m] = g[m]}
  <2>1. 0 \in B
    OBVIOUS
  <2>2. ASSUME NEW k \in 0 .. n - 1, k \in B PROVE k + 1 \in B
    <3>1. k \in Nat /\ \A m \in 0 .. k - 1 : f[m] = g[m]
      BY <2>2
    <3>2. step[<<k, f>>] = step[<<k, g>>]
      BY <3>1
    <3>3. f[k] = g[k]
      BY <1>4, <3>2
    <3>4. \A m \in 0 .. (k + 1) - 1 : m = k \/ m \in 0 .. k - 1
      OBVIOUS
    <3> QED
      BY <3>1, <3>3, <3>4
  <2>3. 0 .. n \subseteq B
    <3> HIDE DEF B
    <3> QED
      BY <2>1, <2>2, UpTo
  <2>4. n \in B
    <3> HIDE DEF B
    <3> QED
      BY <2>3
  <2> QED
    BY <2>4
<1> DEFINE Part(n) == CHOOSE f \in [Nat -> V] : Upto(n, f)
           F == [n \in Nat |-> Part(n + 1)[n]]
<1>5. ASSUME NEW n \in Nat PROVE Part(n) \in [Nat -> V] /\ Upto(n, Part(n))
  <2>1. \E f \in [Nat -> V] : Upto(n, f)
    BY <1>3
  <2> HIDE DEF Upto
  <2> QED
    BY <2>1
<1> HIDE DEF Part, Upto
<1>6. F \in [Nat -> V]
  BY <1>5
<1>7. ASSUME NEW n \in Nat PROVE F[n] = step[<<n, F>>]
  <2> DEFINE f == Part(n + 1)
  <2>1. n + 1 \in Nat /\ f \in [Nat -> V] /\ Upto(n + 1, f)
    BY <1>5
  <2>2. ASSUME NEW m \in 0 .. n - 1 PROVE F[m] = f[m]
    <3>1. m \in Nat /\ m + 1 \in Nat
      OBVIOUS
    <3>2. Part(m + 1) \in [Nat -> V] /\ Upto(m + 1, Part(m + 1))
      BY <1>5, <3>1
    <3>5. Upto(m + 1, f)
      BY <2>1, SMTT(30) DEF Upto
    <3>3. m \in 0 .. (m + 1) - 1
      OBVIOUS
    <3> HIDE DEF f, F
    <3>4. Part(m + 1)[m] = f[m]
      BY <1>4, <2>1, <3>1, <3>2, <3>3, <3>5
    <3> QED
      BY <3>1, <3>4 DEF F
  <2>3. F[n] = f[n] /\ f[n] = step[<<n, f>>]
    <3>1. n \in 0 .. (n + 1) - 1
      OBVIOUS
    <3>2. F[n] = Part(n + 1)[n]
      OBVIOUS
    <3> HIDE DEF F, f
    <3>3. f[n] = step[<<n, f>>]
      BY <2>1, <3>1 DEF Upto
    <3> QED
      BY <3>2, <3>3 DEF f
  <2> HIDE DEF f, F
  <2>4. step[<<n, F>>] = step[<<n, f>>]
    BY <1>6, <2>1, <2>2
  <2> QED
    BY <2>3, <2>4
<1> HIDE DEF F
<1> QED
  BY <1>6, <1>7 DEF IsRecursive

\* All numbers are in a set that has each number with all below it.
LEMMA AllNumbers ==
  ASSUME NEW A, \A n \in Nat : (\A m \in 0 .. n - 1 : m \in A) => n \in A
  PROVE  Nat \subseteq A
<1> DEFINE B == Nat \ A
<1> SUFFICES ASSUME B # {} PROVE FALSE
  OBVIOUS
<1>1. PICK m \in B : \A i \in B : m <= i
  <2>1. B \in SUBSET Nat
    OBVIOUS
  <2> HIDE DEF B
  <2> QED
    BY <2>1, LeastNumber
<1>2. \A i \in 0 .. m - 1 : i \in A
  BY <1>1
<1> QED
  BY <1>1, <1>2

\* The rotations of the wheel of symbols.
Rotations == 0 .. Symbols - 1

\* Remainders and quotients by the number of symbols.
LEMMA Divided ==
  ASSUME NEW n \in Nat, NEW m \in Nat \ {0, 1}
  PROVE  /\ n % m \in 0 .. m - 1 /\ n \div m \in Nat /\ n = m * (n \div m) + (n % m)
         /\ n > 0 => n \div m < n
<1>1. n % m \in 0 .. m - 1 /\ n \div m \in Nat /\ n = m * (n \div m) + (n % m)
  OBVIOUS
<1>2. ASSUME n > 0 PROVE n \div m < n
  <2> DEFINE q == n \div m
  <2>1. q \in Nat /\ n >= m * q
    BY <1>1
  <2> HIDE DEF q
  <2>2. m * q >= 2 * q
    BY <2>1
  <2> QED
    BY <1>2, <2>1, <2>2
<1> QED
  BY <1>1, <1>2

\* Turning on by v, and how far that was.
LEMMA Rotated ==
  ASSUME NEW r \in Rotations, NEW v \in Rotations
  PROVE  /\ (r + v) % Symbols \in Rotations /\ (r + v + 1) % Symbols \in Rotations
         /\ (((r + v) % Symbols) - r) % Symbols = v
<1> DEFINE S == Symbols
<1>0. S \in Nat \ {0, 1} /\ r \in 0 .. S - 1 /\ v \in 0 .. S - 1
  BY SymbolsAssumption DEF Rotations
<1> HIDE DEF S
<1>1. \A i \in 0 .. S - 1 : i % S = i
  BY <1>0
<1>2. \A i \in S .. 2 * S - 1 : i % S = i - S
  BY <1>0
<1>3. \A i \in -S .. -1 : i % S = i + S
  BY <1>0
<1>4. CASE r + v < S
  <2>1. (r + v) % S = r + v
    BY <1>0, <1>1, <1>4
  <2> QED
    BY <1>0, <1>1, <1>4, <2>1 DEF S, Rotations
<1>5. CASE r + v >= S
  <2>1. (r + v) % S = r + v - S
    BY <1>0, <1>2, <1>5
  <2> QED
    BY <1>0, <1>2, <1>3, <1>5, <2>1 DEF S, Rotations
<1> QED
  BY <1>0, <1>4, <1>5

\* For a number: its code in each rotation, from those of smaller numbers.
Codes == [Rotations -> Seq(Rotations)]
DigitsOf(id, f) ==
  [rotation \in Rotations |->
    IF id = 0 THEN <<>>
    ELSE LET v == id % Symbols
         IN  <<(rotation + v) % Symbols>> \o f[id \div Symbols][(rotation + v + 1) % Symbols]]

\* What the display writes: Digits is the function that its definition describes.
LEMMA DigitsIs ==
  /\ Digits \in [Nat -> Codes]
  /\ \A id \in Nat : Digits[id] = DigitsOf(id, Digits)
<1> DEFINE step == [p \in Nat \X [Nat -> Codes] |-> DigitsOf(p[1], p[2])]
<1>0. ASSUME NEW id \in Nat, id # 0 PROVE id \div Symbols \in 0 .. id - 1
  <2>1. id > 0 /\ Symbols \in Nat \ {0, 1}
    BY <1>0, SymbolsAssumption
  <2>2. id \div Symbols \in Nat /\ id \div Symbols < id
    BY <2>1, Divided, Zenon
  <2> DEFINE q == id \div Symbols
  <2> HIDE DEF q
  <2>3. q \in Nat /\ q < id => q \in 0 .. id - 1
    OBVIOUS
  <2> QED
    BY <2>2, <2>3 DEF q
<1>1. ASSUME NEW id \in Nat, NEW f, \A m \in 0 .. id - 1 : f[m] \in Codes
      PROVE  DigitsOf(id, f) \in Codes
  <2>1. ASSUME NEW r \in Rotations, id # 0
        PROVE  <<(r + (id % Symbols)) % Symbols>> \o f[id \div Symbols][(r + (id % Symbols) + 1) % Symbols]
                 \in Seq(Rotations)
    <3>1. id % Symbols \in Rotations /\ id \div Symbols \in Nat
      BY Divided, SymbolsAssumption DEF Rotations
    <3>2. (r + (id % Symbols)) % Symbols \in Rotations /\ (r + (id % Symbols) + 1) % Symbols \in Rotations
      BY <3>1, Rotated
    <3>3. f[id \div Symbols] \in Codes
      BY <1>0, <1>1, <2>1
    <3>4. f[id \div Symbols][(r + (id % Symbols) + 1) % Symbols] \in Seq(Rotations)
      BY <3>2, <3>3 DEF Codes
    <3> QED
      BY <3>2, <3>4
  <2>2. <<>> \in Seq(Rotations)
    OBVIOUS
  <2> QED
    BY <2>1, <2>2 DEF DigitsOf, Codes
<1>2. step \in [Nat \X [Nat -> Codes] -> Codes]
  BY <1>1
<1>3. ASSUME NEW id \in Nat, NEW f \in [Nat -> Codes], NEW g \in [Nat -> Codes],
             \A m \in 0 .. id - 1 : f[m] = g[m]
      PROVE  DigitsOf(id, f) = DigitsOf(id, g)
  <2>1. CASE id = 0
    BY <2>1 DEF DigitsOf
  <2>2. CASE id # 0
    <3>1. id \div Symbols \in 0 .. id - 1
      BY <1>0, <2>2
    <3>2. f[id \div Symbols] = g[id \div Symbols]
      BY <1>3, <3>1
    <3> QED
      BY <3>2, Zenon DEF DigitsOf
  <2> QED
    BY <2>1, <2>2
<1>4. \A id \in Nat, f \in [Nat -> Codes] : step[<<id, f>>] = DigitsOf(id, f)
  OBVIOUS
<1>5. \E v : v \in Codes
  <2>1. [r \in Rotations |-> <<>>] \in Codes
    BY DEF Codes
  <2> QED
    BY <2>1
<1> HIDE DEF step
<1>6. PICK f \in [Nat -> Codes] : IsRecursive(f, step)
  <2>1. \A n \in Nat, f, g \in [Nat -> Codes] :
           (\A m \in 0 .. n - 1 : f[m] = g[m]) => step[<<n, f>>] = step[<<n, g>>]
    BY <1>3, <1>4
  <2> HIDE DEF Codes
  <2> QED
    BY <1>2, <1>5, <2>1, Recursion
<1>7. \A id \in Nat : f[id] = DigitsOf(id, f)
  BY <1>4, <1>6 DEF IsRecursive
<1> DEFINE IsDigits(g) == g = [id \in Nat |-> DigitsOf(id, g)]
<1>8. IsDigits(f)
  BY <1>7
<1>9. Digits = CHOOSE g : IsDigits(g)
  BY DEF Digits, DigitsOf, Rotations
<1>10. IsDigits(Digits)
  <2> HIDE DEF IsDigits
  <2> QED
    BY <1>8, <1>9
<1>11. \A id \in Nat : Digits[id] = DigitsOf(id, Digits)
  <2> SUFFICES ASSUME NEW g, IsDigits(g) PROVE \A id \in Nat : g[id] = DigitsOf(id, g)
    BY <1>10
  <2> QED
    OBVIOUS
<1>12. \A id \in Nat : Digits[id] \in Codes
  <2> DEFINE A == {id \in Nat : Digits[id] \in Codes}
  <2>1. \A id \in Nat : (\A m \in 0 .. id - 1 : m \in A) => id \in A
    BY <1>1, <1>11
  <2>2. Nat \subseteq A
    <3> HIDE DEF A
    <3> QED
      BY <2>1, AllNumbers
  <2> QED
    BY <2>2
<1>13. Digits \in [Nat -> Codes]
  <2> SUFFICES ASSUME NEW g, IsDigits(g), \A id \in Nat : g[id] \in Codes PROVE g \in [Nat -> Codes]
    BY <1>10, <1>12
  <2> QED
    OBVIOUS
<1> QED
  BY <1>11, <1>13

\* Bitwise exclusive or, from that of the halves.
Words == [Nat -> Nat]
XorOf(x, f) == [y \in Nat |-> IF x = 0 THEN y ELSE ((x + y) % 2) + 2 * f[x \div 2][y \div 2]]

\* A number is twice its half and its last bit.
LEMMA Halved ==
  ASSUME NEW x \in Nat
  PROVE  /\ x % 2 \in 0 .. 1 /\ x \div 2 \in Nat /\ x = 2 * (x \div 2) + (x % 2)
         /\ x # 0 => x \div 2 \in 0 .. x - 1
  OBVIOUS

\* Xor is the function that its definition describes.
LEMMA XorIs ==
  /\ Xor \in [Nat -> Words]
  /\ \A x \in Nat : Xor[x] = XorOf(x, Xor)
<1> DEFINE step == [p \in Nat \X [Nat -> Words] |-> XorOf(p[1], p[2])]
<1>1. ASSUME NEW x \in Nat, NEW f, \A m \in 0 .. x - 1 : f[m] \in Words
      PROVE  XorOf(x, f) \in Words
  <2>1. ASSUME NEW y \in Nat, x # 0 PROVE ((x + y) % 2) + 2 * f[x \div 2][y \div 2] \in Nat
    <3>1. f[x \div 2] \in Words /\ y \div 2 \in Nat /\ (x + y) % 2 \in Nat
      BY <1>1, <2>1, Halved
    <3>2. f[x \div 2][y \div 2] \in Nat
      BY <3>1 DEF Words
    <3> QED
      BY <3>1, <3>2
  <2> QED
    BY <2>1 DEF XorOf, Words
<1>2. step \in [Nat \X [Nat -> Words] -> Words]
  BY <1>1
<1>3. ASSUME NEW x \in Nat, NEW f \in [Nat -> Words], NEW g \in [Nat -> Words],
             \A m \in 0 .. x - 1 : f[m] = g[m]
      PROVE  XorOf(x, f) = XorOf(x, g)
  <2>1. CASE x = 0
    BY <2>1 DEF XorOf
  <2>2. CASE x # 0
    <3>1. f[x \div 2] = g[x \div 2]
      BY <1>3, <2>2, Halved
    <3> QED
      BY <3>1, Zenon DEF XorOf
  <2> QED
    BY <2>1, <2>2
<1>4. \A x \in Nat, f \in [Nat -> Words] : step[<<x, f>>] = XorOf(x, f)
  OBVIOUS
<1>5. \E v : v \in Words
  <2>1. [y \in Nat |-> 0] \in Words
    BY DEF Words
  <2> QED
    BY <2>1
<1> HIDE DEF step
<1>6. PICK f \in [Nat -> Words] : IsRecursive(f, step)
  <2>1. \A n \in Nat, f, g \in [Nat -> Words] :
           (\A m \in 0 .. n - 1 : f[m] = g[m]) => step[<<n, f>>] = step[<<n, g>>]
    BY <1>3, <1>4
  <2> HIDE DEF Words
  <2> QED
    BY <1>2, <1>5, <2>1, Recursion
<1>7. \A x \in Nat : f[x] = XorOf(x, f)
  BY <1>4, <1>6 DEF IsRecursive
<1> DEFINE IsXor(g) == g = [x \in Nat |-> XorOf(x, g)]
<1>8. IsXor(f)
  BY <1>7
<1>9. Xor = CHOOSE g : IsXor(g)
  BY DEF Xor, XorOf
<1>10. IsXor(Xor)
  <2> HIDE DEF IsXor
  <2> QED
    BY <1>8, <1>9
<1>11. \A x \in Nat : Xor[x] = XorOf(x, Xor)
  <2> SUFFICES ASSUME NEW g, IsXor(g) PROVE \A x \in Nat : g[x] = XorOf(x, g)
    BY <1>10
  <2> QED
    OBVIOUS
<1>12. \A x \in Nat : Xor[x] \in Words
  <2> DEFINE A == {x \in Nat : Xor[x] \in Words}
  <2>1. \A x \in Nat : (\A m \in 0 .. x - 1 : m \in A) => x \in A
    BY <1>1, <1>11
  <2>2. Nat \subseteq A
    <3> HIDE DEF A
    <3> QED
      BY <2>1, AllNumbers
  <2> QED
    BY <2>2
<1>13. Xor \in [Nat -> Words]
  <2> SUFFICES ASSUME NEW g, IsXor(g), \A x \in Nat : g[x] \in Words PROVE g \in [Nat -> Words]
    BY <1>10, <1>12
  <2> QED
    OBVIOUS
<1> QED
  BY <1>11, <1>13

\* What the definition says of two numbers.
LEMMA XorValues ==
  ASSUME NEW x \in Nat, NEW y \in Nat
  PROVE  /\ Xor[x][y] \in Nat
         /\ Xor[0][y] = y
         /\ x # 0 => Xor[x][y] = ((x + y) % 2) + 2 * Xor[x \div 2][y \div 2]
<1>1. Xor[x] \in Words /\ Xor[x] = XorOf(x, Xor) /\ Xor[0] = XorOf(0, Xor)
  BY XorIs
<1>2. Xor[x][y] \in Nat
  BY <1>1 DEF Words
<1>3. XorOf(0, Xor)[y] = y
  BY DEF XorOf
<1>4. x # 0 => XorOf(x, Xor)[y] = ((x + y) % 2) + 2 * Xor[x \div 2][y \div 2]
  BY DEF XorOf
<1> QED
  BY <1>1, <1>2, <1>3, <1>4

\* A number with itself gives nothing.
LEMMA XorSelf == \A y \in Nat : Xor[y][y] = 0
<1> DEFINE A == {y \in Nat : Xor[y][y] = 0}
<1>1. ASSUME NEW y \in Nat, \A m \in 0 .. y - 1 : m \in A PROVE y \in A
  <2>1. CASE y = 0
    BY <2>1, XorValues
  <2>2. CASE y # 0
    <3>1. Xor[y \div 2][y \div 2] = 0
      BY <1>1, <2>2, Halved
    <3>2. Xor[y][y] = ((y + y) % 2) + 2 * 0
      BY <2>2, <3>1, XorValues
    <3> QED
      BY <3>2
  <2> QED
    BY <2>1, <2>2
<1> HIDE DEF A
<1>2. Nat \subseteq A
  BY <1>1, AllNumbers
<1> QED
  BY <1>2 DEF A

\* Twice with y gives back what there was.
LEMMA XorTwice == \A x, y \in Nat : Xor[Xor[x][y]][y] = x
<1> DEFINE A == {x \in Nat : \A y \in Nat : Xor[Xor[x][y]][y] = x}
<1>1. ASSUME NEW x \in Nat, \A m \in 0 .. x - 1 : m \in A, NEW y \in Nat
      PROVE  Xor[Xor[x][y]][y] = x
  <2>1. CASE x = 0
    BY <2>1, XorValues, XorSelf
  <2>2. CASE x # 0
    <3>1. PICK h \in Nat, k \in Nat, a \in 0 .. 1, b \in 0 .. 1 :
            /\ h = x \div 2 /\ k = y \div 2 /\ a = x % 2 /\ b = y % 2
            /\ x = 2 * h + a /\ y = 2 * k + b
      BY Halved
    <3>2. h \in A
      BY <1>1, <2>2, <3>1, Halved
    <3>3. PICK w \in Nat : w = Xor[h][k]
      BY XorValues
    <3>4. Xor[w][k] = h
      BY <3>2, <3>3
    <3>5. PICK c \in 0 .. 1 : c = (x + y) % 2 /\ c = IF a = b THEN 0 ELSE 1
      BY <3>1
    <3>6. Xor[x][y] = c + 2 * w
      <4>1. Xor[x][y] = ((x + y) % 2) + 2 * Xor[x \div 2][y \div 2]
        BY <2>2, XorValues
      <4>2. Xor[x \div 2][y \div 2] = w /\ (x + y) % 2 = c
        BY <3>1, <3>3, <3>5, Zenon
      <4> QED
        BY <4>1, <4>2, Zenon
    <3>7. CASE c + 2 * w = 0
      <4>1. w = 0 /\ c = 0
        BY <3>7
      <4>2. k = h
        BY <3>4, <4>1, XorValues
      <4>3. x = y
        BY <3>1, <3>5, <4>1, <4>2
      <4> QED
        BY <3>6, <3>7, <4>3, XorValues
    <3>8. CASE c + 2 * w # 0
      <4> DEFINE z == c + 2 * w
      <4>1. z \in Nat /\ z \div 2 = w /\ (z + y) % 2 = a
        BY <3>1, <3>5
      <4> HIDE DEF z
      <4>2. Xor[z][y] = a + 2 * Xor[w][k]
        <5>1. z # 0
          BY <3>8 DEF z
        <5>2. Xor[z][y] = ((z + y) % 2) + 2 * Xor[z \div 2][y \div 2]
          BY <4>1, <5>1, XorValues
        <5>3. Xor[z \div 2][y \div 2] = Xor[w][k]
          BY <3>1, <4>1, Zenon
        <5> QED
          BY <4>1, <5>2, <5>3, Zenon
      <4> QED
        BY <3>1, <3>4, <3>6, <4>2 DEF z
    <3> QED
      BY <3>7, <3>8
  <2> QED
    BY <2>1, <2>2
<1>2. \A x \in Nat : (\A m \in 0 .. x - 1 : m \in A) => x \in A
  BY <1>1
<1> HIDE DEF A
<1>3. Nat \subseteq A
  BY <1>2, AllNumbers
<1> QED
  BY <1>3 DEF A

\* For a code: its number in each rotation, from those of its tail.
Readings == [Seq(Nat) -> [Rotations -> Nat]]
ValueOf(code, f) ==
  [rotation \in Rotations |->
    IF code = <<>> THEN 0
    ELSE LET v == (Head(code) - rotation) % Symbols
         IN  v + Symbols * f[Tail(code)][(rotation + v + 1) % Symbols]]

\* What the keypad reads: Value is the function that its definition describes.
LEMMA ValueIs == \A code \in Seq(Nat) : Value[code] = ValueOf(code, Value)
<1> DEFINE zero == [rotation \in Rotations |-> 0]
           Row(n, f) == [code \in Seq(Nat) |-> IF code = <<>> \/ n = 0 THEN zero ELSE ValueOf(code, f[n - 1])]
           step == [p \in Nat \X [Nat -> Readings] |-> Row(p[1], p[2])]
<1>1. ASSUME NEW f \in Readings, NEW code \in Seq(Nat), code # <<>>
      PROVE  ValueOf(code, f) \in [Rotations -> Nat]
  <2>1. ASSUME NEW r \in Rotations, NEW v, v = (Head(code) - r) % Symbols
        PROVE  v + Symbols * f[Tail(code)][(r + v + 1) % Symbols] \in Nat
    <3>1. Symbols \in Nat \ {0, 1} /\ r \in Nat
      BY SymbolsAssumption DEF Rotations
    <3>2. Head(code) \in Nat /\ Tail(code) \in Seq(Nat)
      BY <1>1, HeadTailProperties
    <3>3. v \in Nat /\ v \in Rotations
      BY <2>1, <3>1, <3>2 DEF Rotations
    <3>4. (r + v + 1) % Symbols \in Rotations
      BY <3>3, Rotated
    <3>5. PICK w \in Nat : w = f[Tail(code)][(r + v + 1) % Symbols]
      BY <3>2, <3>4 DEF Readings
    <3>6. v + Symbols * w \in Nat
      BY <3>1, <3>3
    <3> QED
      BY <3>5, <3>6
  <2> QED
    BY <1>1, <2>1 DEF ValueOf
<1>2. ASSUME NEW n \in Nat, NEW f \in [Nat -> Readings] PROVE Row(n, f) \in Readings
  <2>1. zero \in [Rotations -> Nat]
    OBVIOUS
  <2>2. ASSUME NEW code \in Seq(Nat), code # <<>>, n # 0 PROVE ValueOf(code, f[n - 1]) \in [Rotations -> Nat]
    <3>1. n - 1 \in Nat
      BY <2>2
    <3>2. f[n - 1] \in Readings
      BY <3>1
    <3> QED
      BY <1>1, <2>2, <3>2
  <2> HIDE DEF zero
  <2> QED
    BY <2>1, <2>2 DEF Readings
<1>3. step \in [Nat \X [Nat -> Readings] -> Readings]
  <2> HIDE DEF Row
  <2> QED
    BY <1>2
<1>4. ASSUME NEW n \in Nat, NEW f \in [Nat -> Readings], NEW g \in [Nat -> Readings],
             \A m \in 0 .. n - 1 : f[m] = g[m]
      PROVE  Row(n, f) = Row(n, g)
  <2>1. CASE n = 0
    BY <2>1
  <2>2. CASE n # 0
    <3>1. n - 1 \in 0 .. n - 1
      BY <2>2
    <3>2. f[n - 1] = g[n - 1]
      BY <1>4, <3>1
    <3> QED
      BY <3>2, Zenon
  <2> QED
    BY <2>1, <2>2
<1>5. \A n \in Nat, f \in [Nat -> Readings] : step[<<n, f>>] = Row(n, f)
  <2> HIDE DEF Row
  <2> QED
    OBVIOUS
<1>6. \E v : v \in Readings
  <2>1. [code \in Seq(Nat) |-> zero] \in Readings
    BY DEF Readings
  <2> QED
    BY <2>1
<1> HIDE DEF step, Row
<1>7. PICK g \in [Nat -> Readings] : IsRecursive(g, step)
  <2>1. \A n \in Nat, f, h \in [Nat -> Readings] :
           (\A m \in 0 .. n - 1 : f[m] = h[m]) => step[<<n, f>>] = step[<<n, h>>]
    BY <1>4, <1>5
  <2> HIDE DEF Readings
  <2> QED
    BY <1>3, <1>6, <2>1, Recursion
<1>8. \A n \in Nat : g[n] = Row(n, g)
  BY <1>5, <1>7 DEF IsRecursive
<1> DEFINE F == [code \in Seq(Nat) |-> g[Len(code)][code]]
           IsValue(f) == f = [code \in Seq(Nat) |-> ValueOf(code, f)]
<1>9. ASSUME NEW code \in Seq(Nat) PROVE F[code] = ValueOf(code, F)
  <2>1. CASE code = <<>>
    <3>1. Len(code) \in Nat /\ g[Len(code)] = Row(Len(code), g)
      BY <1>8
    <3>2. Row(Len(code), g)[code] = zero
      BY <2>1 DEF Row
    <3>3. ValueOf(code, F) = zero
      BY <2>1 DEF ValueOf
    <3> QED
      BY <3>1, <3>2, <3>3
  <2>2. CASE code # <<>>
    <3>1. /\ Len(code) \in Nat /\ Len(code) # 0
          /\ Tail(code) \in Seq(Nat) /\ Len(Tail(code)) = Len(code) - 1
      BY <2>2, HeadTailProperties, EmptySeq, LenProperties
    <3>2. g[Len(code)] = Row(Len(code), g)
      BY <1>8, <3>1
    <3>3. Row(Len(code), g)[code] = ValueOf(code, g[Len(code) - 1])
      BY <2>2, <3>1 DEF Row
    <3>4. F[Tail(code)] = g[Len(code) - 1][Tail(code)]
      BY <3>1
    <3>5. F[code] = ValueOf(code, g[Len(code) - 1])
      BY <3>2, <3>3
    <3> HIDE DEF F
    <3>6. ValueOf(code, g[Len(code) - 1]) = ValueOf(code, F)
      BY <3>4, Zenon DEF ValueOf
    <3> QED
      BY <3>5, <3>6
  <2> QED
    BY <2>1, <2>2
<1>10. IsValue(F)
  <2> SUFFICES [code \in Seq(Nat) |-> g[Len(code)][code]] = [code \in Seq(Nat) |-> ValueOf(code, F)]
    OBVIOUS
  <2>1. \A code \in Seq(Nat) : g[Len(code)][code] = ValueOf(code, F)
    BY <1>9
  <2> HIDE DEF F
  <2> QED
    BY <2>1, Zenon
<1>11. Value = CHOOSE f : IsValue(f)
  BY DEF Value, ValueOf, Rotations
<1>12. IsValue(Value)
  <2> HIDE DEF IsValue, F
  <2> QED
    BY <1>10, <1>11
<1> SUFFICES ASSUME NEW f, IsValue(f) PROVE \A code \in Seq(Nat) : f[code] = ValueOf(code, f)
  BY <1>12
<1> QED
  OBVIOUS

\* Rotations are numbers.
LEMMA NumbersOnly == \A s \in Seq(Rotations) : s \in Seq(Nat)
<1> SUFFICES ASSUME NEW s \in Seq(Rotations) PROVE s \in Seq(Nat)
  OBVIOUS
<1>1. \A i \in 1 .. Len(s) : s[i] \in Rotations
  BY ElementOfSeq
<1>2. \A i \in 1 .. Len(s) : s[i] \in Nat
  BY <1>1 DEF Rotations
<1>3. s \in [1 .. Len(s) -> Nat] /\ Len(s) \in Nat
  BY <1>2, LenProperties
<1> QED
  BY <1>3, SeqDef

\* The keypad reads what the display wrote.
LEMMA ReadsWritten ==
  \A id \in Nat : \A r \in Rotations : Value[Digits[id][r]][r] = id
<1> DEFINE A == {id \in Nat : \A r \in Rotations : Value[Digits[id][r]][r] = id}
<1>0. Symbols \in Nat \ {0, 1}
  BY SymbolsAssumption
<1>1. ASSUME NEW id \in Nat, \A m \in 0 .. id - 1 : m \in A, NEW r \in Rotations
      PROVE  Value[Digits[id][r]][r] = id
  <2>1. Digits[id] = DigitsOf(id, Digits) /\ Digits[id] \in Codes
    BY DigitsIs
  <2>2. PICK code \in Seq(Rotations) : code = Digits[id][r]
    BY <2>1 DEF Codes
  <2>3. code \in Seq(Nat)
    BY NumbersOnly
  <2>4. Value[code] = ValueOf(code, Value)
    BY <2>3, ValueIs
  <2>5. CASE id = 0
    <3>1. code = <<>>
      BY <2>1, <2>2, <2>5 DEF DigitsOf
    <3> QED
      BY <2>2, <2>4, <2>5, <3>1 DEF ValueOf
  <2>6. CASE id # 0
    <3>1. PICK v \in Rotations, q \in 0 .. id - 1 :
            v = id % Symbols /\ q = id \div Symbols /\ id = Symbols * q + v
      <4>1. id > 0
        BY <2>6
      <4>2. /\ id % Symbols \in 0 .. Symbols - 1 /\ id \div Symbols \in Nat /\ id \div Symbols < id
            /\ id = Symbols * (id \div Symbols) + (id % Symbols)
        BY <1>0, <4>1, Divided, Zenon
      <4> DEFINE q == id \div Symbols
                 v == id % Symbols
      <4> HIDE DEF q, v
      <4>3. q \in Nat /\ q < id => q \in 0 .. id - 1
        OBVIOUS
      <4>4. v \in Rotations /\ q \in 0 .. id - 1 /\ id = Symbols * q + v
        BY <4>2, <4>3, Zenon DEF Rotations, q, v
      <4> QED
        BY <4>4, Zenon DEF q, v
    <3> DEFINE next == (r + v + 1) % Symbols
               rest == Digits[q][next]
    <3>2. next \in Rotations /\ (r + v) % Symbols \in Rotations /\ (((r + v) % Symbols) - r) % Symbols = v
      BY Rotated
    <3>3. q \in Nat /\ q \in A
      BY <1>1, <3>1
    <3>4. rest \in Seq(Rotations) /\ rest \in Seq(Nat)
      <4>1. Digits[q] \in Codes
        BY <3>3, DigitsIs
      <4> HIDE DEF next
      <4>2. rest \in Seq(Rotations)
        BY <3>2, <4>1 DEF Codes
      <4> QED
        BY <4>2, NumbersOnly
    <3>5. code = <<(r + v) % Symbols>> \o rest
      <4>1. DigitsOf(id, Digits)[r] = <<(r + (id % Symbols)) % Symbols>> \o Digits[id \div Symbols][(r + (id % Symbols) + 1) % Symbols]
        BY <2>6 DEF DigitsOf
      <4> QED
        BY <2>1, <2>2, <3>1, <4>1, Zenon
    <3>6. code # <<>> /\ Head(code) = (r + v) % Symbols /\ Tail(code) = rest
      <4> HIDE DEF rest, next
      <4> DEFINE h == (r + v) % Symbols
      <4>1. h \in Rotations
        BY <3>2
      <4>2. code = <<h>> \o rest
        BY <3>5
      <4> HIDE DEF h
      <4>3. code # <<>> /\ Head(code) = h /\ Tail(code) = rest
        BY <3>4, <4>1, <4>2
      <4> QED
        BY <4>3 DEF h
    <3>7. (Head(code) - r) % Symbols = v
      BY <3>2, <3>6, Zenon
    <3>8. ValueOf(code, Value)[r] = v + Symbols * Value[rest][next]
      <4>1. ValueOf(code, Value)[r] = ((Head(code) - r) % Symbols) + Symbols * Value[Tail(code)][(r + ((Head(code) - r) % Symbols) + 1) % Symbols]
        BY <3>6, Zenon DEF ValueOf
      <4> QED
        BY <3>6, <3>7, <4>1, Zenon
    <3>9. Value[rest][next] = q
      BY <3>2, <3>3
    <3> HIDE DEF rest, next
    <3>10. v + Symbols * q = Symbols * q + v
      BY <1>0 DEF Rotations
    <3> QED
      BY <2>2, <2>4, <3>1, <3>8, <3>9, <3>10, Zenon
  <2> QED
    BY <2>5, <2>6
<1>2. \A id \in Nat : (\A m \in 0 .. id - 1 : m \in A) => id \in A
  BY <1>1
<1> HIDE DEF A
<1>3. Nat \subseteq A
  BY <1>2, AllNumbers
<1> QED
  BY <1>3 DEF A
-----------------------------------------------------------------------------
(* What the display showed.                                                *)

\* The rooms on the display are rooms of the world, and what was shown leads back.
CodesInv ==
  /\ world \in Worlds /\ DiscoveredRooms \in Seq(world.rooms)
  /\ CodesLeadBack

\* A code stands for the room that it was made for.
LEMMA CodeLeadsBack ==
  ASSUME world \in Worlds, DiscoveredRooms \in Seq(world.rooms), NEW i \in DOMAIN DiscoveredRooms
  PROVE  Keypad(RoomCode(i)) = world.address[DiscoveredRooms[i]]
<1>1. PICK a \in Nat : a = world.address[DiscoveredRooms[i]]
  <2>1. DiscoveredRooms[i] \in world.rooms
    BY ElementOfSeq, LenProperties
  <2>2. world.address \in [world.rooms -> Nat]
    BY WorldsAssumption
  <2> QED
    BY <2>1, <2>2
<1>2. i \in Nat
  BY LenProperties
<1>3. PICK k \in Rotations : k = i % Symbols
  BY <1>2, SymbolsAssumption DEF Rotations
<1>4. PICK c \in Nat : c = Constant[k]
  BY SymbolsAssumption DEF Rotations
<1>5. PICK x \in Nat : x = Xor[a][c]
  BY XorValues
<1>6. PICK rest \in Seq(Nat) : rest = Digits[x][k]
  <2>1. Digits[x] \in Codes
    BY DigitsIs
  <2>2. Digits[x][k] \in Seq(Rotations)
    BY <2>1 DEF Codes
  <2> QED
    BY <2>2, NumbersOnly
<1>7. PICK code : code = <<k>> \o rest /\ Head(code) = k /\ Tail(code) = rest
  <2>1. k \in Nat
    BY DEF Rotations
  <2>2. Head(<<k>> \o rest) = k /\ Tail(<<k>> \o rest) = rest
    BY <2>1
  <2> QED
    BY <2>2, Zenon
<1>8. RoomCode(i) = code
  BY <1>1, <1>3, <1>4, <1>5, <1>6, <1>7, Zenon DEF RoomCode
<1>9. Value[rest][k] = x
  BY <1>6, ReadsWritten
<1>10. Xor[x][c] = a
  BY <1>5, XorTwice
<1>11. Keypad(code) = a
  BY <1>4, <1>7, <1>9, <1>10, Zenon DEF Keypad
<1> QED
  BY <1>1, <1>8, <1>11

\* Keypad depends on nothing that changes.
LEMMA ShownStays ==
  ASSUME CodesLeadBack, UNCHANGED world, shown' \subseteq shown
  PROVE  CodesLeadBack'
BY DEF CodesLeadBack, Keypad

\* No command makes it wrong: the display shows codes, other commands show none.
LEMMA NextCodesInv == CodesInv /\ [NextCommand]_gameVars => CodesInv'
<1> SUFFICES ASSUME CodesInv, [NextCommand]_gameVars PROVE CodesInv'
  OBVIOUS
<1>0. world' = world /\ world \in Worlds
  BY DEF CodesInv, NextCommand, gameVars, fixedVars
<1>1. CASE \/ OnThings \/ OnDoors \/ Prints \/ UNCHANGED gameVars
  <2>1. UNCHANGED <<DiscoveredRooms, shown>>
    BY <1>1 DEF OnThings, OnDoors, Prints, gameVars, roomVars, codeVars
  <2> QED
    BY <1>0, <2>1, ShownStays DEF CodesInv
<1>2. CASE Moves
  <2>1. shown' = shown
    BY <1>2 DEF Moves, codeVars
  <2>2. \E r \in world.rooms : Enter(r)
    BY <1>0, <1>2, WorldsAssumption DEF Moves, Go, Teleport
  <2>3. PICK r \in world.rooms : Enter(r)
    BY <2>2
  <2>4. DiscoveredRooms' \in Seq(world.rooms)
    BY <2>3, AppendProperties DEF Enter, CodesInv
  <2> QED
    BY <1>0, <2>1, <2>4, ShownStays DEF CodesInv
<1>3. CASE OnCodes
  <2>1. DiscoveredRooms' = DiscoveredRooms
    BY <1>3 DEF OnCodes, roomVars
  <2>2. CASE \E s : ViewDisplay(s)
    <3>1. shown' = shown \cup {[room |-> DiscoveredRooms[i], code |-> RoomCode(i)] : i \in DOMAIN DiscoveredRooms}
      BY <2>2 DEF ViewDisplay
    <3>2. ASSUME NEW s \in shown' PROVE Keypad(s.code) = world.address[s.room]
      <4>1. CASE s \in shown
        BY <4>1 DEF CodesInv, CodesLeadBack
      <4>2. CASE s \notin shown
        <5>1. PICK i \in DOMAIN DiscoveredRooms : s = [room |-> DiscoveredRooms[i], code |-> RoomCode(i)]
          BY <3>1, <4>2
        <5>2. s.room = DiscoveredRooms[i] /\ s.code = RoomCode(i)
          BY <5>1
        <5>3. Keypad(RoomCode(i)) = world.address[DiscoveredRooms[i]]
          BY CodeLeadsBack DEF CodesInv
        <5> QED
          BY <5>2, <5>3, Zenon
      <4> QED
        BY <4>1, <4>2
    <3> QED
      BY <1>0, <2>1, <3>2 DEF CodesInv, CodesLeadBack, Keypad
  <2>3. CASE ~ \E s : ViewDisplay(s)
    <3>1. shown' = shown
      BY <1>3, <2>3 DEF OnCodes, SwitchDisplay, TouchKeypad, Activate, Deactivate
    <3> QED
      BY <1>0, <2>1, <3>1, ShownStays DEF CodesInv
  <2> QED
    BY <2>2, <2>3
<1> QED
  BY <1>1, <1>2, <1>3 DEF NextCommand

\* Whatever addresses the rooms have, in every order of commands: the keypad takes a code
\* that the display showed at any time for the room that it was shown for.
THEOREM CodesCorrect == GameSpec => []CodesLeadBack
<1>1. InitGame => CodesInv
  <2> SUFFICES ASSUME InitGame PROVE CodesInv
    OBVIOUS
  <2>1. world \in Worlds /\ world.start \in world.rooms /\ DiscoveredRooms = <<world.start>> /\ shown = {}
    BY WorldsAssumption DEF InitGame
  <2>2. ASSUME NEW S, NEW r \in S PROVE <<r>> \in Seq(S)
    OBVIOUS
  <2> QED
    BY <2>1, <2>2, Zenon DEF CodesInv, CodesLeadBack
<1>2. CodesInv => CodesLeadBack
  BY DEF CodesInv
<1> QED
  BY <1>1, <1>2, NextCodesInv, PTL DEF GameSpec
-----------------------------------------------------------------------------
(* How often a symbol is in a list.                                        *)

\* How many of the places A of s have y.
CountIn(y, s, A) == Cardinality({k \in A : s[k] = y})

\* It is a number.
LEMMA CountNat ==
  ASSUME NEW y, NEW s, NEW m \in Nat, NEW n \in Nat
  PROVE  IsFiniteSet({k \in m .. n : s[k] = y}) /\ CountIn(y, s, m .. n) \in Nat
<1>1. IsFiniteSet(m .. n)
  BY FS_Interval
<1>2. IsFiniteSet({k \in m .. n : s[k] = y})
  BY <1>1, FS_Subset
<1> QED
  BY <1>2, FS_CardinalityType DEF CountIn

\* The first place counts or does not.
LEMMA CountStep ==
  ASSUME NEW y, NEW s, NEW m \in Nat, NEW n \in Nat, m <= n
  PROVE  CountIn(y, s, m .. n) = CountIn(y, s, m + 1 .. n) + (IF s[m] = y THEN 1 ELSE 0)
<1> DEFINE A == {k \in m .. n : s[k] = y}
           B == {k \in m + 1 .. n : s[k] = y}
<1>1. IsFiniteSet(B) /\ Cardinality(B) \in Nat
  <2>1. m + 1 \in Nat
    OBVIOUS
  <2> QED
    BY <2>1, CountNat DEF CountIn
<1>2. CASE s[m] = y
  <2>1. A = B \cup {m} /\ m \notin B
    BY <1>2
  <2> HIDE DEF A, B
  <2>2. Cardinality(A) = Cardinality(B) + 1
    BY <1>1, <2>1, FS_AddElement
  <2> QED
    BY <1>2, <2>2 DEF CountIn, A, B
<1>3. CASE s[m] # y
  <2>1. A = B
    BY <1>3
  <2> HIDE DEF A, B
  <2>2. Cardinality(A) = Cardinality(B) + 0
    BY <1>1, <2>1
  <2> QED
    BY <1>3, <2>2 DEF CountIn, A, B
<1> QED
  BY <1>2, <1>3

\* In no places it is nowhere.
LEMMA CountNone == \A y, s : \A n \in Nat : CountIn(y, s, n + 1 .. n) = 0
<1> SUFFICES ASSUME NEW y, NEW s, NEW n \in Nat PROVE CountIn(y, s, n + 1 .. n) = 0
  OBVIOUS
<1>1. {k \in n + 1 .. n : s[k] = y} = {}
  OBVIOUS
<1> QED
  BY <1>1, FS_EmptySet DEF CountIn

\* Times counts in all places.
LEMMA TimesIs ==
  ASSUME NEW S, NEW s \in Seq(S), NEW y
  PROVE  Times(y, s) = CountIn(y, s, 1 .. Len(s)) /\ Times(y, s) \in Nat
<1>1. DOMAIN s = 1 .. Len(s) /\ Len(s) \in Nat
  BY LenProperties
<1>2. Times(y, s) = CountIn(y, s, 1 .. Len(s))
  BY <1>1 DEF Times, CountIn
<1> QED
  BY <1>1, <1>2, CountNat

\* One place more at the end.
LEMMA TimesAppend ==
  ASSUME NEW S, NEW s \in Seq(S), NEW e \in S, NEW y
  PROVE  Times(y, Append(s, e)) = Times(y, s) + (IF e = y THEN 1 ELSE 0)
<1> DEFINE q == Append(s, e)
           n == Len(s)
           A == {k \in 1 .. n + 1 : q[k] = y}
           B == {k \in 1 .. n : s[k] = y}
<1>1. q \in Seq(S) /\ Len(q) = n + 1 /\ n \in Nat /\ q[n + 1] = e /\ \A k \in 1 .. n : q[k] = s[k]
  BY AppendProperties, LenProperties
<1>2. IsFiniteSet(B) /\ Times(y, s) = Cardinality(B) /\ Cardinality(B) \in Nat
  BY <1>1, TimesIs, CountNat DEF CountIn
<1>3. Times(y, q) = Cardinality(A)
  <2> HIDE DEF q, n
  <2>1. Times(y, q) = CountIn(y, q, 1 .. n + 1)
    BY <1>1, TimesIs
  <2> QED
    BY <2>1 DEF CountIn
<1> HIDE DEF q, n
<1>4. CASE e = y
  <2>1. A = B \cup {n + 1} /\ n + 1 \notin B
    BY <1>1, <1>4
  <2> HIDE DEF A, B
  <2>2. Cardinality(A) = Cardinality(B) + 1
    BY <1>2, <2>1, FS_AddElement
  <2> QED
    BY <1>2, <1>3, <1>4, <2>2 DEF q
<1>5. CASE e # y
  <2>1. A = B
    BY <1>1, <1>5
  <2> HIDE DEF A, B
  <2>2. Cardinality(A) = Cardinality(B) + 0
    BY <1>2, <2>1
  <2> QED
    BY <1>2, <1>3, <1>5, <2>2 DEF q
<1> QED
  BY <1>4, <1>5

\* RemoveFirst takes one x away.
LEMMA TimesRemoved ==
  ASSUME NEW S, NEW s \in Seq(S), NEW x, Contains(s, x), NEW y
  PROVE  /\ RemoveFirst(s, x) \in Seq(S)
         /\ Times(y, s) = Times(y, RemoveFirst(s, x)) + (IF x = y THEN 1 ELSE 0)
<1>0. \E k \in 1 .. Len(s) : s[k] = x
  BY DEF Contains
<1>1. PICK r \in Seq(S), k \in 1 .. Len(s) :
        /\ r = RemoveFirst(s, x)
        /\ s[k] = x /\ Len(r) = Len(s) - 1
        /\ \A i \in 1 .. Len(s) - 1 : r[i] = IF i < k THEN s[i] ELSE s[i + 1]
  BY <1>0, RemoveFirstIs
<1> DEFINE n == Len(s)
           A == {i \in 1 .. n : s[i] = y}
           B == {i \in 1 .. n - 1 : r[i] = y}
           C == {i \in 1 .. n : i # k /\ s[i] = y}
           h == [i \in B |-> IF i < k THEN i ELSE i + 1]
<1>2. n \in Nat /\ n - 1 \in Nat /\ k \in 1 .. n
  BY LenProperties, <1>1
<1>3. IsFiniteSet(B) /\ Times(y, r) = Cardinality(B)
  <2>1. Times(y, r) = CountIn(y, r, 1 .. n - 1)
    BY <1>1, TimesIs
  <2> QED
    BY <1>2, <2>1, CountNat DEF CountIn
<1>4. IsFiniteSet(A) /\ Times(y, s) = Cardinality(A)
  <2>1. Times(y, s) = CountIn(y, s, 1 .. n)
    BY TimesIs
  <2> QED
    BY <1>2, <2>1, CountNat DEF CountIn
<1>5. IsFiniteSet(C) /\ Cardinality(C) = Cardinality(B)
  <2> HIDE DEF n
  <2>1. \A i \in 1 .. n - 1 : r[i] = IF i < k THEN s[i] ELSE s[i + 1]
    BY <1>1 DEF n
  <2>2. h \in [B -> C]
    BY <1>2, <2>1
  <2>3. \A i, j \in B : h[i] = h[j] => i = j
    BY <1>2
  <2>4. ASSUME NEW j \in C PROVE \E i \in B : h[i] = j
    <3>1. CASE j < k
      <4>1. j \in B /\ h[j] = j
        BY <1>2, <2>1, <3>1
      <4> QED
        BY <4>1
    <3>2. CASE j > k
      <4>1. j - 1 \in 1 .. n - 1 /\ ~(j - 1 < k) /\ (j - 1) + 1 = j
        BY <1>2, <3>2
      <4>2. j - 1 \in B /\ h[j - 1] = j
        BY <2>1, <4>1
      <4> QED
        BY <4>2
    <3>3. j \in Int /\ k \in Int /\ j # k
      BY <1>2
    <3>4. j < k \/ j > k
      BY <3>3
    <3> HIDE DEF h, B, C
    <3> QED
      BY <3>1, <3>2, <3>4
  <2> HIDE DEF h, B, C
  <2>5. h \in Bijection(B, C)
    BY <2>2, <2>3, <2>4 DEF Bijection, Injection, Surjection, IsInjective
  <2>6. ExistsBijection(B, C)
    BY <2>5 DEF ExistsBijection
  <2> QED
    BY <1>3, <2>6, FS_Bijection
<1>6. CASE x = y
  <2>1. A = C \cup {k} /\ k \notin C
    BY <1>1, <1>6
  <2> HIDE DEF A, B, C
  <2>2. Cardinality(A) = Cardinality(C) + 1
    BY <1>5, <2>1, FS_AddElement
  <2> QED
    BY <1>1, <1>3, <1>4, <1>5, <1>6, <2>2
<1>7. CASE x # y
  <2>1. A = C
    BY <1>1, <1>7
  <2>2. Cardinality(B) \in Nat
    BY <1>3, FS_CardinalityType
  <2> HIDE DEF A, B, C
  <2> QED
    BY <1>1, <1>3, <1>4, <1>5, <1>7, <2>1, <2>2
<1> QED
  BY <1>1, <1>6, <1>7
-----------------------------------------------------------------------------
(* What two lists have in common.                                          *)

\* What two counts have in common: pairs of a symbol and a number.
Common(Y, N, f, g) == {p \in Y \X (1 .. N) : p[2] <= f[p[1]] /\ p[2] <= g[p[1]]}

\* Their number is a number.
LEMMA CommonFinite ==
  ASSUME NEW Y, IsFiniteSet(Y), NEW N \in Nat, NEW f, NEW g
  PROVE  IsFiniteSet(Common(Y, N, f, g)) /\ Cardinality(Common(Y, N, f, g)) \in Nat
<1>1. IsFiniteSet(Y \X (1 .. N))
  <2>1. IsFiniteSet(1 .. N)
    BY FS_Interval
  <2> QED
    BY <2>1, FS_Product
<1>2. Common(Y, N, f, g) \subseteq Y \X (1 .. N)
  BY DEF Common
<1> QED
  BY <1>1, <1>2, FS_Subset, FS_CardinalityType

\* f counts one z more than u.
OneUp(Y, f, u, z) == \A y \in Y : f[y] = u[y] + (IF z = y THEN 1 ELSE 0)

\* One more of z in both makes one pair more.
LEMMA OneMoreInBoth ==
  ASSUME NEW Y, IsFiniteSet(Y), NEW N \in Nat, NEW f \in [Y -> 0 .. N], NEW g \in [Y -> 0 .. N],
         NEW u \in [Y -> 0 .. N], NEW v \in [Y -> 0 .. N], NEW z \in Y,
         OneUp(Y, f, u, z), OneUp(Y, g, v, z)
  PROVE  Cardinality(Common(Y, N, f, g)) = Cardinality(Common(Y, N, u, v)) + 1
<1> DEFINE m == IF u[z] < v[z] THEN u[z] + 1 ELSE v[z] + 1
           e == <<z, m>>
           A == Common(Y, N, f, g)
           B == Common(Y, N, u, v)
<1> USE DEF OneUp
<1>1. m \in 1 .. N /\ m <= f[z] /\ m <= g[z] /\ ~(m <= u[z] /\ m <= v[z])
  <2>1. f[z] = u[z] + 1 /\ g[z] = v[z] + 1 /\ u[z] \in 0 .. N /\ v[z] \in 0 .. N /\ f[z] \in 0 .. N /\ g[z] \in 0 .. N
    OBVIOUS
  <2> QED
    BY <2>1
<1>2. \A n \in 1 .. N : n <= f[z] /\ n <= g[z] <=> n = m \/ (n <= u[z] /\ n <= v[z])
  <2>1. f[z] = u[z] + 1 /\ g[z] = v[z] + 1 /\ u[z] \in 0 .. N /\ v[z] \in 0 .. N
    OBVIOUS
  <2> QED
    BY <2>1
<1> HIDE DEF m
<1>3. \A y \in Y : y # z => f[y] = u[y] /\ g[y] = v[y]
  OBVIOUS
<1>4. e \in A /\ e \notin B
  BY <1>1 DEF Common
<1>5. A \subseteq B \cup {e}
  <2> SUFFICES ASSUME NEW y \in Y, NEW n \in 1 .. N, n <= f[y], n <= g[y], <<y, n>> # e
               PROVE  n <= u[y] /\ n <= v[y]
    BY DEF Common
  <2>1. CASE y = z
    BY <1>2, <2>1
  <2>2. CASE y # z
    BY <1>3, <2>2
  <2> QED
    BY <2>1, <2>2
<1>6. B \subseteq A
  <2> SUFFICES ASSUME NEW y \in Y, NEW n \in 1 .. N, n <= u[y], n <= v[y]
               PROVE  n <= f[y] /\ n <= g[y]
    BY DEF Common
  <2>1. CASE y = z
    BY <1>2, <2>1
  <2>2. CASE y # z
    BY <1>3, <2>2
  <2> QED
    BY <2>1, <2>2
<1>7. IsFiniteSet(B)
  BY CommonFinite
<1> HIDE DEF A, B, e
<1>8. A = B \cup {e}
  BY <1>4, <1>5, <1>6
<1>9. Cardinality(A) = Cardinality(B) + 1
  BY <1>4, <1>7, <1>8, FS_AddElement
<1> QED
  BY <1>9 DEF A, B

\* One more of z in f is nothing more, if g has none.
LEMMA OneMoreInOne ==
  ASSUME NEW Y, NEW N \in Nat, NEW f \in [Y -> 0 .. N], NEW g \in [Y -> 0 .. N],
         NEW u \in [Y -> 0 .. N], NEW z \in Y, g[z] = 0,
         OneUp(Y, f, u, z)
  PROVE  Common(Y, N, f, g) = Common(Y, N, u, g)
<1> USE DEF OneUp
<1> SUFFICES ASSUME NEW y \in Y, NEW n \in 1 .. N
             PROVE  (n <= f[y] /\ n <= g[y]) <=> (n <= u[y] /\ n <= g[y])
  BY DEF Common
<1>1. CASE y = z
  <2>1. ~(n <= g[y])
    BY <1>1
  <2> QED
    BY <2>1
<1>2. CASE y # z
  BY <1>2
<1> QED
  BY <1>1, <1>2

\* f has at each place what turn makes of its value at the place before.
IsLoop(f, N, v0, turn) == f = [i \in 0 .. N |-> IF i = 0 THEN v0 ELSE turn[<<i, f[i - 1]>>]]

\* A loop over the places of a list is a function.
LEMMA Loop ==
  ASSUME NEW N \in Nat, NEW V, NEW v0 \in V, NEW turn \in [Nat \X V -> V]
  PROVE  \E f \in [0 .. N -> V] : IsLoop(f, N, v0, turn)
<1> DEFINE Next_(n, f) == IF n = 0 THEN v0 ELSE turn[<<n, f[n - 1]>>]
           step == [p \in Nat \X [Nat -> V] |-> Next_(p[1], p[2])]
<1>1. ASSUME NEW n \in Nat, NEW f \in [Nat -> V] PROVE Next_(n, f) \in V
  <2>1. CASE n # 0
    <3>1. n - 1 \in Nat
      BY <2>1
    <3> QED
      BY <3>1
  <2> QED
    BY <2>1
<1>2. step \in [Nat \X [Nat -> V] -> V] /\ \A n \in Nat, f \in [Nat -> V] : step[<<n, f>>] = Next_(n, f)
  <2> HIDE DEF Next_
  <2> QED
    BY <1>1
<1>3. ASSUME NEW n \in Nat, NEW f \in [Nat -> V], NEW g \in [Nat -> V], \A m \in 0 .. n - 1 : f[m] = g[m]
      PROVE  Next_(n, f) = Next_(n, g)
  <2>1. CASE n # 0
    <3>1. n - 1 \in 0 .. n - 1
      BY <2>1
    <3> QED
      BY <1>3, <3>1
  <2> QED
    BY <2>1
<1>4. PICK g \in [Nat -> V] : IsRecursive(g, step)
  <2> HIDE DEF step, Next_
  <2>1. \A n \in Nat, f, g \in [Nat -> V] :
           (\A m \in 0 .. n - 1 : f[m] = g[m]) => step[<<n, f>>] = step[<<n, g>>]
    BY <1>2, <1>3
  <2> QED
    BY <1>2, <2>1, Recursion
<1>5. \A n \in Nat : g[n] = Next_(n, g)
  <2> HIDE DEF step, Next_
  <2> QED
    BY <1>2, <1>4 DEF IsRecursive
<1> HIDE DEF step
<1> DEFINE f == [i \in 0 .. N |-> g[i]]
<1>6. ASSUME NEW i \in 0 .. N PROVE f[i] = IF i = 0 THEN v0 ELSE turn[<<i, f[i - 1]>>]
  <2>1. CASE i = 0
    BY <1>5, <2>1
  <2>2. CASE i # 0
    <3>1. i \in Nat /\ i - 1 \in 0 .. N
      BY <2>2
    <3>2. f[i] = g[i] /\ f[i - 1] = g[i - 1] /\ g[i] = turn[<<i, g[i - 1]>>]
      BY <1>5, <2>2, <3>1
    <3> HIDE DEF f
    <3> QED
      BY <2>2, <3>2
  <2> QED
    BY <2>1, <2>2
<1>7. f \in [0 .. N -> V]
  OBVIOUS
<1>8. f = [i \in 0 .. N |-> IF i = 0 THEN v0 ELSE turn[<<i, f[i - 1]>>]]
  <2>1. f = [i \in 0 .. N |-> f[i]]
    OBVIOUS
  <2> HIDE DEF f
  <2> QED
    BY <1>6, <2>1
<1> HIDE DEF f
<1> QED
  BY <1>7, <1>8 DEF IsLoop
-----------------------------------------------------------------------------
(* The two numbers of a full door: the loops of ValidateCombo.             *)

\* One turn of the loop of Match.
Matched(a, y) ==
  IF Contains(a.rest, y) THEN [n |-> a.n + 1, rest |-> RemoveFirst(a.rest, y)] ELSE a
IsMatching(f, s, t) ==
  f = [i \in 0 .. Len(s) |-> IF i = 0 THEN [n |-> 0, rest |-> t] ELSE Matched(f[i - 1], s[i])]

\* Matching ends with a function that does what the loop does.
LEMMA MatchIs ==
  ASSUME NEW Y, NEW S, NEW s \in Seq(Y), NEW t \in Seq(S)
  PROVE  \E f : IsMatching(f, s, t) /\ Match(s, t) = f[Len(s)].n
<1> DEFINE N == Len(s)
           V == [n : Nat, rest : Seq(S)]
           first == [n |-> 0, rest |-> t]
           turn == [p \in Nat \X V |-> Matched(p[2], s[p[1]])]
<1>1. N \in Nat /\ first \in V
  BY LenProperties
<1>2. ASSUME NEW a \in V, NEW y PROVE Matched(a, y) \in V
  <2>1. CASE Contains(a.rest, y)
    <3>1. a.rest \in Seq(S) /\ a.n \in Nat
      OBVIOUS
    <3>2. RemoveFirst(a.rest, y) \in Seq(S)
      BY <2>1, <3>1, TimesRemoved
    <3> QED
      BY <2>1, <3>1, <3>2 DEF Matched
  <2>2. CASE ~Contains(a.rest, y)
    BY <2>2 DEF Matched
  <2> QED
    BY <2>1, <2>2
<1>3. turn \in [Nat \X V -> V] /\ \A i \in Nat, a \in V : turn[<<i, a>>] = Matched(a, s[i])
  <2> HIDE DEF V
  <2> QED
    BY <1>2
<1> HIDE DEF turn, V, first, N
<1>4. PICK f \in [0 .. N -> V] : IsLoop(f, N, first, turn)
  BY <1>1, <1>3, Loop
<1>5. \A i \in 0 .. N : i # 0 => i \in Nat /\ f[i - 1] \in V
  BY <1>1
<1>6. \A i \in 0 .. N : i # 0 => turn[<<i, f[i - 1]>>] = Matched(f[i - 1], s[i])
  BY <1>3, <1>5
<1>7. f = [i \in 0 .. N |-> IF i = 0 THEN first ELSE Matched(f[i - 1], s[i])]
  BY <1>4, <1>6, Zenon DEF IsLoop
<1>8. IsMatching(f, s, t)
  BY <1>7 DEF IsMatching, N, first
<1>9. Match(s, t) = (CHOOSE h : IsMatching(h, s, t))[Len(s)].n
  BY DEF Match, IsMatching, Matched
<1> DEFINE h == CHOOSE h : IsMatching(h, s, t)
<1>10. IsMatching(h, s, t)
  BY <1>8
<1> QED
  BY <1>9, <1>10

\* Each y is in s at most N times.
Few(Y, N, s) == \A y \in Y : Times(y, s) <= N

\* Names for facts about lists.
ListOf(s, Y) == s \in Seq(Y)

\* Match counts what the two lists have in common.
LEMMA MatchCounts ==
  ASSUME NEW Y, IsFiniteSet(Y), NEW S, NEW N \in Nat, NEW s, NEW t, ListOf(s, Y), ListOf(t, S),
         Few(Y, N, s), Few(Y, N, t)
  PROVE  Match(s, t) = Cardinality(Common(Y, N, [y \in Y |-> Times(y, s)], [y \in Y |-> Times(y, t)]))
<1>0. \A a, b, c, d \in [Y -> 0 .. N], z \in Y :
         OneUp(Y, a, c, z) /\ OneUp(Y, b, d, z)
         => Cardinality(Common(Y, N, a, b)) = Cardinality(Common(Y, N, c, d)) + 1
  <2> SUFFICES ASSUME NEW a \in [Y -> 0 .. N], NEW b \in [Y -> 0 .. N], NEW c \in [Y -> 0 .. N],
                      NEW d \in [Y -> 0 .. N], NEW z \in Y, OneUp(Y, a, c, z), OneUp(Y, b, d, z)
               PROVE  Cardinality(Common(Y, N, a, b)) = Cardinality(Common(Y, N, c, d)) + 1
    OBVIOUS
  <2> QED
    BY OneMoreInBoth, SMT
<1> DEFINE L == Len(s)
<1>s. s \in Seq(Y) /\ t \in Seq(S)
  BY DEF ListOf
<1>1. PICK f : IsMatching(f, s, t) /\ Match(s, t) = f[Len(s)].n
  BY <1>s, MatchIs
<1>2. L \in Nat /\ \A i \in 1 .. L : s[i] \in Y
  BY <1>s, LenProperties, ElementOfSeq
<1>3. f[0] = [n |-> 0, rest |-> t] /\ \A i \in 0 .. L - 1 : f[i + 1] = Matched(f[i], s[i + 1])
  <2> HIDE DEF L
  <2>1. f = [i \in 0 .. L |-> IF i = 0 THEN [n |-> 0, rest |-> t] ELSE Matched(f[i - 1], s[i])]
    BY <1>1 DEF IsMatching, L
  <2>2. \A i \in 0 .. L : f[i] = IF i = 0 THEN [n |-> 0, rest |-> t] ELSE Matched(f[i - 1], s[i])
    <3> SUFFICES ASSUME NEW g, g = [i \in 0 .. L |-> IF i = 0 THEN [n |-> 0, rest |-> t] ELSE Matched(f[i - 1], s[i])]
                 PROVE  \A i \in 0 .. L : g[i] = IF i = 0 THEN [n |-> 0, rest |-> t] ELSE Matched(f[i - 1], s[i])
      BY <2>1, Zenon
    <3> QED
      OBVIOUS
  <2>3. \A i \in 0 .. L - 1 : i + 1 \in 0 .. L /\ i + 1 # 0 /\ (i + 1) - 1 = i
    BY <1>2
  <2>4. 0 \in 0 .. L
    BY <1>2
  <2> QED
    BY <2>2, <2>3, <2>4
<1> DEFINE F(i) == [y \in Y |-> CountIn(y, s, i + 1 .. L)]
           G(i) == [y \in Y |-> Times(y, f[i].rest)]
           C(i) == Cardinality(Common(Y, N, F(i), G(i)))
           Inv(i) == /\ f[i].n \in Nat /\ f[i].rest \in Seq(S)
                     /\ F(i) \in [Y -> 0 .. N] /\ G(i) \in [Y -> 0 .. N]
                     /\ f[i].n + C(i) = C(0)
           A == {i \in 0 .. L : Inv(i)}
<1>4. F(0) = [y \in Y |-> Times(y, s)] /\ G(0) = [y \in Y |-> Times(y, t)]
  <2>1. \A y \in Y : CountIn(y, s, 0 + 1 .. L) = Times(y, s)
    BY <1>s, TimesIs
  <2>2. f[0].rest = t
    BY <1>3
  <2> QED
    BY <2>1, <2>2
<1>5. \A i : C(i) \in Nat
  <2> SUFFICES ASSUME NEW i PROVE C(i) \in Nat
    OBVIOUS
  <2> HIDE DEF F, G
  <2> QED
    BY CommonFinite
<1>6. 0 \in A
  <2>1. \A y \in Y : Times(y, s) \in 0 .. N /\ Times(y, t) \in 0 .. N
    BY <1>s, TimesIs DEF Few
  <2>2. F(0) \in [Y -> 0 .. N] /\ G(0) \in [Y -> 0 .. N]
    BY <1>4, <2>1
  <2>3. f[0].n = 0 /\ f[0].rest = t
    BY <1>3
  <2> HIDE DEF F, G, C
  <2>4. f[0].n + C(0) = C(0)
    BY <1>5, <2>3
  <2> QED
    BY <1>s, <1>2, <2>2, <2>3, <2>4
<1>7. ASSUME NEW i \in 0 .. L - 1, i \in A PROVE i + 1 \in A
  <2>1. /\ f[i].n \in Nat /\ f[i].rest \in Seq(S)
        /\ F(i) \in [Y -> 0 .. N] /\ G(i) \in [Y -> 0 .. N]
        /\ f[i].n + C(i) = C(0)
    BY <1>7
  <2>2. PICK z \in Y : z = s[i + 1]
    BY <1>2
  <2>3. f[i + 1] = Matched(f[i], z)
    BY <1>3, <2>2
  <2>4. i + 1 \in 0 .. L /\ i + 1 \in Nat
    BY <1>2
  <2>5. \A y \in Y : F(i)[y] = F(i + 1)[y] + (IF z = y THEN 1 ELSE 0)
    <3> SUFFICES ASSUME NEW y \in Y
                 PROVE  CountIn(y, s, i + 1 .. L) = CountIn(y, s, i + 1 + 1 .. L) + (IF z = y THEN 1 ELSE 0)
      OBVIOUS
    <3> DEFINE m == i + 1
    <3>1. m \in Nat /\ L \in Nat /\ m <= L
      BY <1>2
    <3> HIDE DEF L, m
    <3>2. CountIn(y, s, m .. L) = CountIn(y, s, m + 1 .. L) + (IF s[m] = y THEN 1 ELSE 0)
      BY <3>1, CountStep
    <3> QED
      BY <2>2, <3>2, Zenon DEF m
  <2>6. F(i + 1) \in [Y -> 0 .. N]
    <3>1. \A y \in Y : CountIn(y, s, i + 1 + 1 .. L) \in Nat
      <4>1. i + 1 + 1 \in Nat /\ L \in Nat
        BY <1>2
      <4> HIDE DEF L
      <4> QED
        BY <4>1, CountNat
    <3>2. \A y \in Y : F(i + 1)[y] \in Nat
      BY <3>1
    <3> DEFINE u == F(i)
               v == F(i + 1)
    <3>4. v = [y \in Y |-> v[y]]
      OBVIOUS
    <3> HIDE DEF u, v
    <3>3. \A y \in Y : u[y] \in 0 .. N /\ u[y] = v[y] + (IF z = y THEN 1 ELSE 0) /\ v[y] \in Nat
      BY <2>1, <2>5, <3>2 DEF u, v
    <3>5. \A y \in Y : v[y] \in 0 .. N
      BY <3>3
    <3>6. v \in [Y -> 0 .. N]
      BY <3>4, <3>5
    <3> QED
      BY <3>6 DEF v
  <2>7. CASE Contains(f[i].rest, z)
    <3>1. f[i + 1].n = f[i].n + 1 /\ f[i + 1].rest = RemoveFirst(f[i].rest, z)
      BY <2>3, <2>7 DEF Matched
    <3>2. /\ f[i + 1].rest \in Seq(S)
          /\ \A y : Times(y, f[i].rest) = Times(y, f[i + 1].rest) + (IF z = y THEN 1 ELSE 0)
      BY <2>1, <2>7, <3>1, TimesRemoved
    <3>3. \A y \in Y : G(i)[y] = G(i + 1)[y] + (IF z = y THEN 1 ELSE 0) /\ G(i + 1)[y] \in Nat
      BY <3>2, TimesIs
    <3>4. G(i + 1) \in [Y -> 0 .. N]
      <4> DEFINE u == G(i)
                 v == G(i + 1)
      <4>1. v = [y \in Y |-> v[y]]
        OBVIOUS
      <4> HIDE DEF u, v
      <4>2. \A y \in Y : u[y] \in 0 .. N /\ u[y] = v[y] + (IF z = y THEN 1 ELSE 0) /\ v[y] \in Nat
        BY <2>1, <3>3 DEF u, v
      <4>3. \A y \in Y : v[y] \in 0 .. N
        BY <4>2
      <4>4. v \in [Y -> 0 .. N]
        BY <4>1, <4>3
      <4> QED
        BY <4>4 DEF v
    <3> HIDE DEF F, G
    <3>5. C(i) = C(i + 1) + 1
      <4>1. \A y \in Y : /\ F(i)[y] = F(i + 1)[y] + (IF z = y THEN 1 ELSE 0)
                         /\ G(i)[y] = G(i + 1)[y] + (IF z = y THEN 1 ELSE 0)
        BY <2>5, <3>3
      <4> DEFINE a == F(i)
                 b == G(i)
                 c == F(i + 1)
                 d == G(i + 1)
      <4>2. a \in [Y -> 0 .. N] /\ b \in [Y -> 0 .. N] /\ c \in [Y -> 0 .. N] /\ d \in [Y -> 0 .. N]
        BY <2>1, <2>6, <3>4
      <4>4. OneUp(Y, a, c, z) /\ OneUp(Y, b, d, z)
        BY <4>1 DEF OneUp
      <4> HIDE DEF a, b, c, d, L
      <4>3. Cardinality(Common(Y, N, a, b)) = Cardinality(Common(Y, N, c, d)) + 1
        BY <1>0, <4>2, <4>4, SMT
      <4> QED
        BY <4>3 DEF a, b, c, d
    <3> HIDE DEF C
    <3>6. f[i + 1].n \in Nat /\ f[i + 1].n + C(i + 1) = C(0)
      <4>1. PICK a \in Nat, b \in Nat, c \in Nat, n \in Nat :
              a = C(i) /\ b = C(i + 1) /\ c = C(0) /\ n = f[i].n
        BY <1>5, <2>1
      <4>2. n + a = c /\ a = b + 1 /\ f[i + 1].n = n + 1
        BY <2>1, <3>1, <3>5, <4>1, Zenon
      <4>3. n + 1 \in Nat /\ (n + 1) + b = c
        BY <4>2
      <4> QED
        BY <4>1, <4>2, <4>3, Zenon
    <3> QED
      BY <2>4, <2>6, <3>2, <3>4, <3>6
  <2>8. CASE ~Contains(f[i].rest, z)
    <3>1. f[i + 1] = f[i]
      BY <2>3, <2>8 DEF Matched
    <3>2. G(i)[z] = 0 /\ G(i + 1) = G(i)
      <4>1. Times(z, f[i].rest) = 0
        <5>1. {k \in DOMAIN f[i].rest : f[i].rest[k] = z} = {}
          BY <2>1, <2>8, LenProperties DEF Contains
        <5> QED
          BY <5>1, FS_EmptySet DEF Times
      <4> QED
        BY <3>1, <4>1
    <3> HIDE DEF F, G
    <3>3. Common(Y, N, F(i), G(i)) = Common(Y, N, F(i + 1), G(i))
      <4>1. OneUp(Y, F(i), F(i + 1), z)
        BY <2>5 DEF OneUp
      <4> QED
        BY <2>1, <2>6, <3>2, <4>1, OneMoreInOne
    <3>4. C(i + 1) = C(i)
      BY <3>2, <3>3
    <3> HIDE DEF C
    <3> QED
      BY <2>1, <2>4, <2>6, <3>1, <3>2, <3>4
  <2> QED
    BY <2>7, <2>8
<1>8. L \in A
  <2>1. 0 .. L \subseteq A
    <3> HIDE DEF A
    <3> QED
      BY <1>2, <1>6, <1>7, UpTo
  <2> HIDE DEF A
  <2> QED
    BY <1>2, <2>1
<1>9. C(L) = 0
  <2>1. \A y \in Y : F(L)[y] = 0
    BY <1>2, CountNone
  <2> HIDE DEF F, G
  <2>2. Common(Y, N, F(L), G(L)) = {}
    BY <2>1 DEF Common
  <2> QED
    BY <2>2, FS_EmptySet
<1>10. f[L].n \in Nat /\ f[L].n + C(L) = C(0)
  BY <1>8
<1>11. f[L].n = C(0)
  <2> HIDE DEF C
  <2> QED
    BY <1>9, <1>10
<1> QED
  BY <1>1, <1>4, <1>11

\* How often y is in q and in the places m to n of s.
Tally(y, q, s, m, n) == Times(y, q) + CountIn(y, s, m .. n)

\* Without the first of the places there is one less of what is there,
LEMMA TallyLess ==
  ASSUME NEW S, NEW q, ListOf(q, S), NEW s, NEW m \in Nat, NEW n \in Nat, m <= n, NEW y
  PROVE  /\ Tally(y, q, s, m, n) = Tally(y, q, s, m + 1, n) + (IF s[m] = y THEN 1 ELSE 0)
         /\ Tally(y, q, s, m, n) \in Nat /\ Tally(y, q, s, m + 1, n) \in Nat
<1>1. PICK a \in Nat : a = Times(y, q)
  BY TimesIs DEF ListOf
<1>2. m + 1 \in Nat
  OBVIOUS
<1>3. PICK b \in Nat, c \in Nat : b = CountIn(y, s, m .. n) /\ c = CountIn(y, s, m + 1 .. n)
  BY <1>2, CountNat
<1>4. b = c + (IF s[m] = y THEN 1 ELSE 0)
  BY <1>3, CountStep
<1>5. a + b = (a + c) + (IF s[m] = y THEN 1 ELSE 0) /\ a + b \in Nat /\ a + c \in Nat
  BY <1>4
<1> QED
  BY <1>1, <1>3, <1>5 DEF Tally

\* unless it goes to the end of q.
LEMMA TallyKept ==
  ASSUME NEW S, NEW q, ListOf(q, S), NEW s, NEW m \in Nat, NEW n \in Nat, m <= n, s[m] \in S, NEW y
  PROVE  Tally(y, Append(q, s[m]), s, m + 1, n) = Tally(y, q, s, m, n)
<1>1. PICK a \in Nat : a = Times(y, q)
  BY TimesIs DEF ListOf
<1>2. m + 1 \in Nat
  OBVIOUS
<1>3. PICK b \in Nat, c \in Nat : b = CountIn(y, s, m .. n) /\ c = CountIn(y, s, m + 1 .. n)
  BY <1>2, CountNat
<1>4. b = c + (IF s[m] = y THEN 1 ELSE 0)
  BY <1>3, CountStep
<1>5. Times(y, Append(q, s[m])) = a + (IF s[m] = y THEN 1 ELSE 0)
  BY <1>1, TimesAppend DEF ListOf
<1>6. (a + (IF s[m] = y THEN 1 ELSE 0)) + c = a + b
  BY <1>4
<1> QED
  BY <1>1, <1>3, <1>5, <1>6 DEF Tally

\* The tally with no places left, and with nothing in q.
LEMMA TallyEnds ==
  ASSUME NEW S, NEW q, ListOf(q, S), NEW s, NEW n \in Nat, NEW y
  PROVE  /\ Tally(y, q, s, n + 1, n) = Times(y, q)
         /\ Tally(y, <<>>, s, 1, n) = CountIn(y, s, 1 .. n)
<1>1. PICK a \in Nat : a = Times(y, q)
  BY TimesIs DEF ListOf
<1>2. PICK b \in Nat : b = CountIn(y, s, 1 .. n)
  <2>1. 1 \in Nat
    OBVIOUS
  <2> QED
    BY <2>1, CountNat
<1>3. CountIn(y, s, n + 1 .. n) = 0
  BY CountNone
<1>4. Times(y, <<>>) = 0
  <2>1. {k \in DOMAIN << >> : << >>[k] = y} = {}
    OBVIOUS
  <2> QED
    BY <2>1, FS_EmptySet DEF Times
<1>5. a + 0 = a /\ 0 + b = b
  OBVIOUS
<1> QED
  BY <1>1, <1>2, <1>3, <1>4, <1>5 DEF Tally

\* Nothing is in a list more often than the list is long.
LEMMA TimesAtMost ==
  ASSUME NEW S, NEW s, ListOf(s, S), NEW y
  PROVE  Times(y, s) \in 0 .. Len(s)
<1>1. Len(s) \in Nat /\ Times(y, s) \in Nat /\ Times(y, s) = CountIn(y, s, 1 .. Len(s))
  BY LenProperties, TimesIs DEF ListOf
<1>2. IsFiniteSet(1 .. Len(s)) /\ Cardinality(1 .. Len(s)) = Len(s)
  <2>1. PICK n \in Nat : n = Len(s)
    BY <1>1
  <2>2. IsFiniteSet(1 .. n) /\ Cardinality(1 .. n) = IF 1 > n THEN 0 ELSE (n - 1) + 1
    BY FS_Interval
  <2> QED
    BY <2>1, <2>2
<1>3. {k \in 1 .. Len(s) : s[k] = y} \subseteq 1 .. Len(s)
  OBVIOUS
<1>4. Cardinality({k \in 1 .. Len(s) : s[k] = y}) <= Cardinality(1 .. Len(s))
  BY <1>2, <1>3, FS_Subset
<1> QED
  BY <1>1, <1>2, <1>4 DEF CountIn

\* One turn of the loop of InPlace.
Placed(a, x, w) ==
  IF x = w THEN [a EXCEPT !.exact = @ + 1]
  ELSE [a EXCEPT !.symbols = Append(@, x), !.wheels = Append(@, w)]
NonePlaced == [exact |-> 0, symbols |-> <<>>, wheels |-> <<>>]
IsPlacing(f, s, t) ==
  f = [i \in 0 .. Len(s) |-> IF i = 0 THEN NonePlaced ELSE Placed(f[i - 1], s[i], t[i])]
Placings(Y, S) == [exact : Nat, symbols : Seq(Y), wheels : Seq(S)]

\* What the turn does to each field.
LEMMA PlacedIs ==
  ASSUME NEW Y, NEW S, NEW a \in Placings(Y, S), NEW x \in Y, NEW w \in S
  PROVE  /\ Placed(a, x, w) \in Placings(Y, S)
         /\ x = w => /\ Placed(a, x, w).exact = a.exact + 1
                     /\ Placed(a, x, w).symbols = a.symbols /\ Placed(a, x, w).wheels = a.wheels
         /\ x # w => /\ Placed(a, x, w).exact = a.exact
                     /\ Placed(a, x, w).symbols = Append(a.symbols, x)
                     /\ Placed(a, x, w).wheels = Append(a.wheels, w)
<1>1. PICK n \in Nat, p \in Seq(Y), q \in Seq(S) : a = [exact |-> n, symbols |-> p, wheels |-> q]
  BY DEF Placings
<1>2. CASE x = w
  <2>1. Placed(a, x, w) = [exact |-> n + 1, symbols |-> p, wheels |-> q]
    BY <1>1, <1>2 DEF Placed
  <2> QED
    BY <1>1, <1>2, <2>1 DEF Placings
<1>3. CASE x # w
  <2>1. Placed(a, x, w) = [exact |-> n, symbols |-> Append(p, x), wheels |-> Append(q, w)]
    BY <1>1, <1>3 DEF Placed
  <2>2. PICK pp \in Seq(Y), qq \in Seq(S) : pp = Append(p, x) /\ qq = Append(q, w)
    BY AppendProperties
  <2>3. Placed(a, x, w) = [exact |-> n, symbols |-> pp, wheels |-> qq]
    BY <2>1, <2>2
  <2>4. /\ Placed(a, x, w) \in Placings(Y, S)
        /\ Placed(a, x, w).exact = n /\ Placed(a, x, w).symbols = pp /\ Placed(a, x, w).wheels = qq
    BY <2>3 DEF Placings
  <2>5. a.exact = n /\ a.symbols = p /\ a.wheels = q
    BY <1>1
  <2> QED
    BY <1>3, <2>2, <2>4, <2>5, Zenon
<1> QED
  BY <1>2, <1>3

\* Comparing place by place ends with a function that does what the loop does.
LEMMA InPlaceIs ==
  ASSUME NEW Y, NEW S, NEW s \in Seq(Y), NEW t \in Seq(S), Len(t) = Len(s)
  PROVE  \E f : IsPlacing(f, s, t) /\ InPlace(s, t) = f[Len(s)]
<1> DEFINE N == Len(s)
           V == Placings(Y, S)
           T(i, a) == IF i \in 1 .. N THEN Placed(a, s[i], t[i]) ELSE NonePlaced
           turn == [p \in Nat \X V |-> T(p[1], p[2])]
<1>1. N \in Nat /\ NonePlaced \in V
  <2>1. <<>> \in Seq(Y) /\ <<>> \in Seq(S)
    OBVIOUS
  <2> QED
    BY <2>1, LenProperties DEF NonePlaced, Placings
<1>2. ASSUME NEW a \in V, NEW i \in Nat PROVE T(i, a) \in V
  <2>1. CASE i \in 1 .. N
    <3>1. s[i] \in Y /\ t[i] \in S
      BY <2>1, ElementOfSeq
    <3>2. Placed(a, s[i], t[i]) \in V
      BY <3>1, PlacedIs
    <3> QED
      BY <2>1, <3>2
  <2> QED
    BY <1>1, <2>1
<1>3. turn \in [Nat \X V -> V] /\ \A i \in Nat, a \in V : turn[<<i, a>>] = T(i, a)
  <2> HIDE DEF V, T
  <2> QED
    BY <1>2
<1> HIDE DEF turn, V, N
<1>4. PICK f \in [0 .. N -> V] : IsLoop(f, N, NonePlaced, turn)
  BY <1>1, <1>3, Loop
<1>5. \A i \in 0 .. N : i # 0 => i \in Nat /\ i \in 1 .. N /\ f[i - 1] \in V
  BY <1>1
<1>6. \A i \in 0 .. N : i # 0 => turn[<<i, f[i - 1]>>] = Placed(f[i - 1], s[i], t[i])
  BY <1>3, <1>5
<1> HIDE DEF T
<1>7. f = [i \in 0 .. N |-> IF i = 0 THEN NonePlaced ELSE Placed(f[i - 1], s[i], t[i])]
  BY <1>4, <1>6, Zenon DEF IsLoop
<1>8. IsPlacing(f, s, t)
  BY <1>7 DEF IsPlacing, N
<1>9. InPlace(s, t) = (CHOOSE h : IsPlacing(h, s, t))[Len(s)]
  BY DEF InPlace, IsPlacing, Placed, NonePlaced
<1> DEFINE h == CHOOSE h : IsPlacing(h, s, t)
<1>10. IsPlacing(h, s, t)
  BY <1>8
<1> QED
  BY <1>9, <1>10

\* Names for facts about records and counts.
IsPlacings(a, Y, S) == a \in Placings(Y, S)
Less(y, u, w, e) == u = w + (IF e = y THEN 1 ELSE 0) /\ u \in Nat /\ w \in Nat

\* A count that is one less where it is less is in range where the other is.
LEMMA LessInRange ==
  ASSUME NEW Y, NEW N \in Nat, NEW u \in [Y -> 0 .. N], NEW w, w = [y \in Y |-> w[y]], NEW e,
         \A y \in Y : Less(y, u[y], w[y], e)
  PROVE  w \in [Y -> 0 .. N]
<1>1. \A y \in Y : w[y] \in 0 .. N
  BY DEF Less
<1> QED
  BY <1>1

\* Both lists have N elements.
Long(N, s, t) == N = Len(s) /\ N = Len(t)

\* The symbols in place and the matches of the others are what the two lists have in common.
LEMMA InPlaceCounts ==
  ASSUME NEW Y, IsFiniteSet(Y), NEW S, NEW s, NEW t, ListOf(s, Y), ListOf(t, S),
         NEW N \in Nat, Long(N, s, t)
  PROVE  LET a == InPlace(s, t)
         IN  a.exact + Match(a.symbols, a.wheels)
             = Cardinality(Common(Y, N, [y \in Y |-> Times(y, s)], [y \in Y |-> Times(y, t)]))
<1>1. PICK f : IsPlacing(f, s, t) /\ InPlace(s, t) = f[N]
  <2>1. s \in Seq(Y) /\ t \in Seq(S) /\ Len(t) = Len(s) /\ Len(s) = N
    BY DEF ListOf, Long
  <2>2. \E f : IsPlacing(f, s, t) /\ InPlace(s, t) = f[Len(s)]
    BY <2>1, InPlaceIs
  <2> QED
    BY <2>1, <2>2, Zenon
<1>2. \A i \in 1 .. N : s[i] \in Y /\ t[i] \in S
  BY ElementOfSeq DEF ListOf, Long
<1>3. f[0] = NonePlaced /\ \A i \in 0 .. N - 1 : f[i + 1] = Placed(f[i], s[i + 1], t[i + 1])
  <2>1. f = [i \in 0 .. N |-> IF i = 0 THEN NonePlaced ELSE Placed(f[i - 1], s[i], t[i])]
    BY <1>1 DEF IsPlacing, Long
  <2>2. \A i \in 0 .. N : f[i] = IF i = 0 THEN NonePlaced ELSE Placed(f[i - 1], s[i], t[i])
    <3> SUFFICES ASSUME NEW g, g = [i \in 0 .. N |-> IF i = 0 THEN NonePlaced ELSE Placed(f[i - 1], s[i], t[i])]
                 PROVE  \A i \in 0 .. N : g[i] = IF i = 0 THEN NonePlaced ELSE Placed(f[i - 1], s[i], t[i])
      BY <2>1, Zenon
    <3> QED
      BY Zenon
  <2>3. \A i \in 0 .. N - 1 : i + 1 \in 0 .. N /\ i + 1 # 0 /\ (i + 1) - 1 = i
    OBVIOUS
  <2>4. 0 \in 0 .. N
    OBVIOUS
  <2> QED
    BY <2>2, <2>3, <2>4
<1> DEFINE P(i) == [y \in Y |-> Tally(y, f[i].symbols, s, i + 1, N)]
           Q(i) == [y \in Y |-> Tally(y, f[i].wheels, t, i + 1, N)]
           C(i) == Cardinality(Common(Y, N, P(i), Q(i)))
           Inv(i) == /\ IsPlacings(f[i], Y, S) /\ f[i].exact \in Nat
                     /\ P(i) \in [Y -> 0 .. N] /\ Q(i) \in [Y -> 0 .. N]
                     /\ f[i].exact + C(i) = C(0)
           A == {i \in 0 .. N : Inv(i)}
<1>4. P(0) = [y \in Y |-> Times(y, s)] /\ Q(0) = [y \in Y |-> Times(y, t)]
  <2>1. f[0].symbols = <<>> /\ f[0].wheels = <<>> /\ ListOf(<<>>, Y)
    BY <1>3 DEF NonePlaced, ListOf
  <2>2. \A y : Tally(y, <<>>, s, 1, N) = Times(y, s) /\ Tally(y, <<>>, t, 1, N) = Times(y, t)
    <3>1. \A y : Tally(y, <<>>, s, 1, N) = CountIn(y, s, 1 .. N) /\ Tally(y, <<>>, t, 1, N) = CountIn(y, t, 1 .. N)
      BY <2>1, TallyEnds
    <3>2. \A y : CountIn(y, s, 1 .. N) = Times(y, s) /\ CountIn(y, t, 1 .. N) = Times(y, t)
      BY TimesIs DEF ListOf, Long
    <3> QED
      BY <3>1, <3>2
  <2> QED
    BY <2>1, <2>2
<1>5. \A i : C(i) \in Nat
  <2> SUFFICES ASSUME NEW i PROVE C(i) \in Nat
    OBVIOUS
  <2> HIDE DEF P, Q
  <2> QED
    BY CommonFinite
<1>6. 0 \in A
  <2>1. \A y \in Y : Times(y, s) \in 0 .. N /\ Times(y, t) \in 0 .. N
    BY TimesAtMost DEF Long
  <2>2. P(0) \in [Y -> 0 .. N] /\ Q(0) \in [Y -> 0 .. N]
    BY <1>4, <2>1
  <2>3. f[0].exact = 0 /\ IsPlacings(f[0], Y, S)
    <3>1. <<>> \in Seq(Y) /\ <<>> \in Seq(S)
      OBVIOUS
    <3> QED
      BY <1>3, <3>1 DEF NonePlaced, IsPlacings, Placings
  <2> HIDE DEF P, Q, C
  <2>4. f[0].exact + C(0) = C(0)
    BY <1>5, <2>3
  <2> QED
    BY <2>2, <2>3, <2>4
<1>7. ASSUME NEW i \in 0 .. N - 1, i \in A PROVE i + 1 \in A
  <2>1. /\ IsPlacings(f[i], Y, S) /\ f[i].exact \in Nat
        /\ P(i) \in [Y -> 0 .. N] /\ Q(i) \in [Y -> 0 .. N]
        /\ f[i].exact + C(i) = C(0)
    BY <1>7
  <2>2. PICK j \in 1 .. N : j = i + 1
    OBVIOUS
  <2>3. PICK x \in Y, w \in S : x = s[j] /\ w = t[j]
    BY <1>2
  <2>4. f[j] = Placed(f[i], x, w)
    BY <1>3, <2>2, <2>3
  <2>5. IsPlacings(f[j], Y, S)
    BY <2>1, <2>4, PlacedIs DEF IsPlacings
  <2>6. /\ ListOf(f[i].symbols, Y) /\ ListOf(f[i].wheels, S)
        /\ ListOf(f[j].symbols, Y) /\ ListOf(f[j].wheels, S)
        /\ f[i].exact \in Nat /\ f[j].exact \in Nat
    BY <2>1, <2>5 DEF IsPlacings, Placings, ListOf
  <2>7. /\ P(i) = [y \in Y |-> Tally(y, f[i].symbols, s, j, N)]
        /\ Q(i) = [y \in Y |-> Tally(y, f[i].wheels, t, j, N)]
        /\ P(j) = [y \in Y |-> Tally(y, f[j].symbols, s, j + 1, N)]
        /\ Q(j) = [y \in Y |-> Tally(y, f[j].wheels, t, j + 1, N)]
    BY <2>2
  <2> HIDE DEF P, Q
  <2>8. CASE x = w
    <3>1. f[j].exact = f[i].exact + 1 /\ f[j].symbols = f[i].symbols /\ f[j].wheels = f[i].wheels
      BY <2>1, <2>4, <2>8, PlacedIs DEF IsPlacings
    <3>2. \A y : Less(y, Tally(y, f[i].symbols, s, j, N), Tally(y, f[i].symbols, s, j + 1, N), x)
      <4> SUFFICES ASSUME NEW y
                   PROVE  Less(y, Tally(y, f[i].symbols, s, j, N), Tally(y, f[i].symbols, s, j + 1, N), x)
        OBVIOUS
      <4> QED
        BY <2>3, <2>6, TallyLess DEF Less
    <3>3. \A y : Less(y, Tally(y, f[i].wheels, t, j, N), Tally(y, f[i].wheels, t, j + 1, N), x)
      <4> SUFFICES ASSUME NEW y
                   PROVE  Less(y, Tally(y, f[i].wheels, t, j, N), Tally(y, f[i].wheels, t, j + 1, N), x)
        OBVIOUS
      <4>1. PICK q : q = f[i].wheels /\ ListOf(q, S)
        BY <2>6
      <4>2. j \in Nat /\ j <= N
        OBVIOUS
      <4>3. /\ Tally(y, q, t, j, N) = Tally(y, q, t, j + 1, N) + (IF t[j] = y THEN 1 ELSE 0)
            /\ Tally(y, q, t, j, N) \in Nat /\ Tally(y, q, t, j + 1, N) \in Nat
        BY <4>1, <4>2, TallyLess
      <4> QED
        BY <2>3, <2>8, <4>1, <4>3 DEF Less
    <3>4. \A y \in Y : Less(y, P(i)[y], P(j)[y], x) /\ Less(y, Q(i)[y], Q(j)[y], x)
      BY <2>7, <3>1, <3>2, <3>3
    <3>5. P(j) \in [Y -> 0 .. N] /\ Q(j) \in [Y -> 0 .. N]
      <4>1. P(j) = [y \in Y |-> P(j)[y]] /\ Q(j) = [y \in Y |-> Q(j)[y]]
        BY <2>7
      <4> QED
        BY <2>1, <3>4, <4>1, LessInRange
    <3>6. C(i) = C(j) + 1
      <4>1. OneUp(Y, P(i), P(j), x) /\ OneUp(Y, Q(i), Q(j), x)
        BY <3>4 DEF OneUp, Less
      <4> QED
        BY <2>1, <3>5, <4>1, OneMoreInBoth
    <3> HIDE DEF C
    <3>7. f[j].exact \in Nat /\ f[j].exact + C(j) = C(0)
      <4>1. PICK a \in Nat, b \in Nat, c \in Nat, n \in Nat :
              a = C(i) /\ b = C(j) /\ c = C(0) /\ n = f[i].exact
        BY <1>5, <2>1
      <4>2. n + a = c /\ a = b + 1 /\ f[j].exact = n + 1
        BY <2>1, <3>1, <3>6, <4>1, Zenon
      <4>3. n + 1 \in Nat /\ (n + 1) + b = c
        BY <4>2
      <4> QED
        BY <4>1, <4>2, <4>3, Zenon
    <3> QED
      BY <2>2, <2>5, <3>5, <3>7
  <2>9. CASE x # w
    <3>1. /\ f[j].exact = f[i].exact
          /\ f[j].symbols = Append(f[i].symbols, x) /\ f[j].wheels = Append(f[i].wheels, w)
      <4>1. PICK a \in Placings(Y, S) : a = f[i]
        BY <2>1 DEF IsPlacings
      <4>2. /\ Placed(a, x, w).exact = a.exact
            /\ Placed(a, x, w).symbols = Append(a.symbols, x)
            /\ Placed(a, x, w).wheels = Append(a.wheels, w)
        BY <2>9, PlacedIs
      <4> QED
        BY <2>4, <4>1, <4>2, Zenon
    <3>2. \A y : Tally(y, f[j].symbols, s, j + 1, N) = Tally(y, f[i].symbols, s, j, N)
      BY <2>3, <2>6, <3>1, TallyKept
    <3>3. \A y : Tally(y, f[j].wheels, t, j + 1, N) = Tally(y, f[i].wheels, t, j, N)
      BY <2>3, <2>6, <3>1, TallyKept
    <3>4. P(j) = P(i) /\ Q(j) = Q(i)
      BY <2>7, <3>2, <3>3
    <3> QED
      BY <2>1, <2>2, <2>5, <3>1, <3>4
  <2> QED
    BY <2>8, <2>9
<1>8. N \in A
  <2> HIDE DEF A
  <2>1. 0 .. N \subseteq A
    BY <1>6, <1>7, UpTo
  <2> QED
    BY <2>1
<1> DEFINE q == f[N].symbols
           r == f[N].wheels
<1>9. ListOf(q, Y) /\ ListOf(r, S)
  BY <1>8 DEF IsPlacings, Placings, ListOf
<1>10. P(N) = [y \in Y |-> Times(y, q)] /\ Q(N) = [y \in Y |-> Times(y, r)]
  <2> HIDE DEF q, r
  <2>1. \A y : Tally(y, q, s, N + 1, N) = Times(y, q) /\ Tally(y, r, t, N + 1, N) = Times(y, r)
    BY <1>9, TallyEnds
  <2> QED
    BY <2>1 DEF q, r
<1>11. Few(Y, N, q) /\ Few(Y, N, r)
  <2>1. P(N) \in [Y -> 0 .. N] /\ Q(N) \in [Y -> 0 .. N]
    BY <1>8
  <2> HIDE DEF P, Q, q, r
  <2>2. \A y \in Y : Times(y, q) \in 0 .. N /\ Times(y, r) \in 0 .. N
    BY <1>10, <2>1
  <2> QED
    BY <2>2 DEF Few
<1>12. Match(q, r) = C(N)
  <2> HIDE DEF P, Q, q, r
  <2>1. Match(q, r) = Cardinality(Common(Y, N, [y \in Y |-> Times(y, q)], [y \in Y |-> Times(y, r)]))
    BY <1>9, <1>11, MatchCounts
  <2> QED
    BY <1>10, <2>1
<1>13. f[N].exact + C(N) = C(0)
  BY <1>8
<1> HIDE DEF P, Q
<1> QED
  BY <1>1, <1>4, <1>12, <1>13
-----------------------------------------------------------------------------
(* The numbers of the doors of a game.                                     *)

\* Wheels are where they belong, and the symbols of a door are a code.
HintsInv == ItemsInv /\ symbols \in [WheelDoors -> world.codes]

\* A function on the numbers up to n is a list.
LEMMA AsList ==
  ASSUME NEW n \in Nat, NEW t, t = [i \in 1 .. n |-> t[i]]
  PROVE  t \in Seq(Range(t)) /\ Len(t) = n
<1>1. DOMAIN t = 1 .. n
  OBVIOUS
<1>2. t \in [1 .. n -> Range(t)]
  BY <1>1 DEF Range
<1>3. t \in Seq(Range(t))
  BY <1>2, SeqDef
<1> QED
  BY <1>1, <1>3, LenProperties

\* A list has finitely many elements.
LEMMA RangeFinite ==
  ASSUME NEW S, NEW s \in Seq(S)
  PROVE  IsFiniteSet(Range(s))
<1>1. PICK n \in Nat : DOMAIN s = 1 .. n
  BY LenProperties
<1>2. IsFiniteSet(1 .. n)
  <2>1. 1 \in Int /\ n \in Int
    OBVIOUS
  <2> QED
    BY <2>1, FS_Interval
<1> DEFINE f == [i \in 1 .. n |-> s[i]]
<1>3. f \in Surjection(1 .. n, Range(s))
  <2>1. \A i \in 1 .. n : s[i] \in Range(s)
    BY <1>1 DEF Range
  <2>2. \A x \in Range(s) : \E i \in 1 .. n : s[i] = x
    BY <1>1 DEF Range
  <2> HIDE DEF Range
  <2> QED
    BY <2>1, <2>2 DEF Surjection
<1> HIDE DEF f
<1> QED
  BY <1>2, <1>3, FS_Surjection

\* The numbers are right on every full door of such a state.
LEMMA RightHints == HintsInv => HintsRight
<1> SUFFICES ASSUME HintsInv, NEW d \in WheelDoors, Full(d)
             PROVE  LET s == symbols[d]
                        common == {p \in Range(s) \X (1 .. Len(s)) :
                                     p[2] <= Times(p[1], s) /\ p[2] <= Times(p[1], Displayed(d))}
                    IN  Hints(d).exact + Hints(d).outOfPlace = Cardinality(common)
  BY DEF HintsRight
<1> DEFINE s == symbols[d]
           t == Displayed(d)
           N == Len(s)
           Y == Range(s)
           S == Range(t)
           common == {p \in Y \X (1 .. N) : p[2] <= Times(p[1], s) /\ p[2] <= Times(p[1], t)}
<1>1. s \in Seq(Y)
  <2>1. s \in world.codes /\ world \in Worlds
    BY DEF HintsInv, ItemsInv, ItemTypes
  <2> QED
    BY <2>1, WorldsAssumption
<1>2. N \in Nat /\ IsFiniteSet(Y)
  BY <1>1, LenProperties, RangeFinite
<1>3. t \in Seq(S) /\ Len(t) = N
  <2>1. PICK W : wheels[d] \in Seq(W)
    BY DEF HintsInv, ItemsInv, ItemTypes
  <2>2. DOMAIN wheels[d] = 1 .. N
    BY <2>1, LenProperties DEF Full
  <2> HIDE DEF N
  <2>3. t = [i \in 1 .. N |-> ShapeOf(wheels[d][i])]
    BY <2>2 DEF Displayed
  <2>4. t = [i \in 1 .. N |-> t[i]]
    BY <2>3
  <2> HIDE DEF t, S
  <2> QED
    BY <1>2, <2>4, AsList DEF S
<1> HIDE DEF s, t, N, Y, S
<1>4. ListOf(s, Y) /\ ListOf(t, S) /\ Long(N, s, t)
  BY <1>1, <1>3 DEF ListOf, Long, N
<1> DEFINE a == InPlace(s, t)
<1>5. a.exact + Match(a.symbols, a.wheels)
      = Cardinality(Common(Y, N, [y \in Y |-> Times(y, s)], [y \in Y |-> Times(y, t)]))
  <2> HIDE DEF a
  <2>1. LET aa == InPlace(s, t)
        IN  aa.exact + Match(aa.symbols, aa.wheels)
            = Cardinality(Common(Y, N, [y \in Y |-> Times(y, s)], [y \in Y |-> Times(y, t)]))
    BY <1>2, <1>4, InPlaceCounts
  <2> QED
    BY <2>1 DEF a
<1>6. Common(Y, N, [y \in Y |-> Times(y, s)], [y \in Y |-> Times(y, t)]) = common
  BY DEF Common
<1>7. Hints(d).exact = a.exact /\ Hints(d).outOfPlace = Match(a.symbols, a.wheels)
  BY DEF Hints, s, t
<1>8. Hints(d).exact + Hints(d).outOfPlace = Cardinality(common)
  <2> HIDE DEF a, common
  <2> QED
    BY <1>5, <1>6, <1>7
<1> QED
  BY <1>8 DEF s, t, N, Y

\* In every order of commands, for all codes and wheels: the two numbers of a full door add
\* up to what its code and its wheels have in common.
THEOREM HintsCorrect == GameSpec => []HintsRight
<1>1. InitGame => HintsInv
  BY InitItemsInv DEF HintsInv, InitGame
<1>2. HintsInv /\ [NextCommand]_gameVars => HintsInv'
  <2> SUFFICES ASSUME HintsInv, [NextCommand]_gameVars PROVE HintsInv'
    OBVIOUS
  <2>1. ItemsInv'
    BY NextItemsInv DEF HintsInv
  <2>2. UNCHANGED fixedVars
    BY DEF NextCommand, gameVars
  <2>3. WheelDoors' = WheelDoors
    BY <2>2 DEF WheelDoors, fixedVars
  <2> QED
    BY <2>1, <2>2, <2>3 DEF HintsInv, fixedVars
<1> QED
  BY <1>1, <1>2, RightHints, PTL DEF GameSpec
=============================================================================
