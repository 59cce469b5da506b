---------------------------- MODULE PerplexityMap ----------------------------
(***************************************************************************)
(* How Perplexity makes its world (generategame.cc): loops of rooms, each  *)
(* linked to those before it by locked doors, with what opens the doors    *)
(* scattered over the earlier rooms.  Every random choice is a choice of   *)
(* the model.  Rooms are numbered in the order of RoomList.                *)
(*                                                                         *)
(* A door that needs nothing and a passage are the same here, and of the   *)
(* items only what opens a door is kept.                                   *)
(***************************************************************************)
EXTENDS Integers, FiniteSets

CONSTANT Sizes       \* the macros of generategame.cc

ASSUME MapAssumption ==
  \A z \in Sizes :
    /\ \A f \in {"directions", "MIN_ROOMS", "MAX_ROOMS", "MAX_ROOM_LINKS",
                 "MIN_LOOP_LINKS", "MAX_LOOP_LINKS", "loops"} : z[f] \in Nat
    /\ z.directions > 0 /\ z.directions % 2 = 0
    /\ z.MIN_ROOMS > 1 /\ z.MIN_LOOP_LINKS > 0

VARIABLES
  size,
  exits,      \* the directions of all rooms; "at" is the place in the room's list
  rooms,      \* how many rooms there are
  main,       \* those in RoomList; the others are the new loop
  loop,       \* how many loops RoomList has
  ring,       \* GenerateRoomLoop: i, PrevRoomLinks, PrevDirectionID, FirstDirectionID
  locks,      \* locks[l] = the rooms where what opens lock l was put, whether that is
              \* a key, and how many rooms there were before the loop behind the door
  switch,     \* the room of this call's switch, 0 when there is none
  switches,   \* RoomsWithSwitches
  left,       \* links that are still to be made
  pc

mapVars == <<size, exits, rooms, main, loop, ring, locks, switch, switches, left, pc>>

Directions == 0 .. size.directions - 1
Opposite(d) == IF d % 2 = 0 THEN d + 1 ELSE d - 1
Main == 1 .. main
NewRooms == main + 1 .. rooms
Nowhere == 0

\* GetUsedRoomDirections
Used(r) == {e.dir : e \in {x \in exits : x.from = r}}
Free(r) == Directions \ Used(r)

\* A direction put at the end of r's list, or after k others that are put there.
Exit(r, k, d, to, l) ==
  [from |-> r, at |-> Cardinality({e \in exits : e.from = r}) + k,
   dir |-> d, to |-> to, lock |-> l]

Init ==
  /\ size \in Sizes
  /\ exits = {} /\ rooms = 0 /\ main = 0 /\ loop = 0
  /\ ring = [i |-> 0, links |-> FALSE, prev |-> 0, first |-> 0]
  /\ locks = <<>> /\ switch = 0 /\ switches = {} /\ left = 0
  /\ pc = "loop"
-----------------------------------------------------------------------------
(* GenerateRoomLoop.                                                       *)

NewLoop ==
  /\ pc = "loop"
  /\ \E n \in size.MIN_ROOMS .. size.MAX_ROOMS - 1, d \in Directions :
       /\ rooms' = main + n
       /\ ring' = [i |-> 0, links |-> FALSE, prev |-> d, first |-> Opposite(d)]
  /\ pc' = "ring"
  /\ UNCHANGED <<size, exits, main, loop, locks, switch, switches, left>>

\* Whether the last room gets a way back: its way on must meet the first room from
\* the side where that has no direction yet.
LastLinks == (ring.links /\ ring.prev # ring.first) \/ (~ring.links /\ ring.first # ring.prev)

\* The last room leads to the first.
NextInRing(r) == IF r = rooms THEN main + 1 ELSE r + 1

\* One room of the loop: the way back, if the room before it was left by a passage
\* or a door that links back, and the way on.
LinkRoom ==
  LET r     == main + 1 + ring.i
      last  == r = rooms
      links == IF last THEN LastLinks ELSE ring.links
      back  == Opposite(ring.prev)
  IN  /\ pc = "ring"
      /\ \E on \in IF ~links THEN {back}
                   ELSE IF last THEN {Opposite(ring.first)} ELSE Directions \ {back} :
           /\ exits' = exits \cup
                (IF links /\ on # back
                 THEN {Exit(r, 0, back, r - 1, 0),
                       Exit(r, 1, on, NextInRing(r), 0)}
                 ELSE {Exit(r, 0, on, NextInRing(r), 0)})
           /\ \E l \in BOOLEAN :
                ring' = [i |-> ring.i + 1, links |-> l, prev |-> on, first |-> ring.first]
      /\ pc' = IF last THEN "teleporter" ELSE "ring"
      /\ UNCHANGED <<size, rooms, main, loop, locks, switch, switches, left>>

\* The teleporter leads nowhere yet.  Then the first loop is linked with itself, and
\* any other with the loops before it.
PlaceTeleporter ==
  /\ pc = "teleporter"
  /\ \E r \in NewRooms : \E d \in Free(r) : exits' = exits \cup {Exit(r, 0, d, Nowhere, 0)}
  /\ \/ loop = 0 /\ pc' = "self" /\ left' \in 0 .. size.MAX_ROOM_LINKS - 1
     \/ loop # 0 /\ pc' = "links" /\ left' \in size.MIN_LOOP_LINKS .. size.MAX_LOOP_LINKS - 1
  /\ switch' = 0
  /\ UNCHANGED <<size, rooms, main, loop, ring, locks, switches>>
-----------------------------------------------------------------------------
(* GenerateLoopLinks and RandomLinkRooms.                                  *)

\* Slip: one room's directions are looked at for both ends.
FreeBothOneSide(a, b) == {d \in Free(a) : Opposite(d) \in Free(a)}

\* Directions from a to b that neither of them uses.
FreeBoth(a, b) == {d \in Free(a) : Opposite(d) \in Free(b)}

\* Slip: over the rooms of the other list.
ScatteredBehind == {S \in SUBSET NewRooms : Cardinality(S) \in 1 .. 5}

\* Where the two to five wheels of a new door may be put.
Scattered == {S \in SUBSET Main : Cardinality(S) \in 1 .. 5}

\* A new lock, which wheels or a switch in the rooms P open, or a key.
Lock(l, P, key) ==
  locks' = [k \in 1 .. l |-> IF k = l THEN [parts |-> P, key |-> key, before |-> main] ELSE locks[k]]

\* A locked door into the new loop and a passage back.  All power doors of a call
\* have one switch, in a room that has none.
LoopLink ==
  LET l == Cardinality(DOMAIN locks) + 1 IN
  /\ pc = "links" /\ left > 0
  /\ \E a \in Main, b \in NewRooms : \E d \in FreeBoth(a, b) :
       exits' = exits \cup {Exit(a, 0, d, b, l), Exit(b, 0, Opposite(d), a, 0)}
  /\ \/ \E P \in Scattered : Lock(l, P, FALSE) /\ UNCHANGED <<switch, switches>>
     \/ \E r \in Main : Lock(l, {r}, TRUE) /\ UNCHANGED <<switch, switches>>
     \/ \E s \in IF switch = 0 THEN Main \ switches ELSE {switch} :
          Lock(l, {s}, FALSE) /\ switch' = s /\ switches' = switches \cup {s}
  /\ left' = left - 1
  /\ UNCHANGED <<size, rooms, main, loop, ring, pc>>

\* Both do-while loops: rooms without a free direction are picked again.
PickAgain ==
  /\ \/ pc = "links" /\ left > 0 /\ \E a \in Main, b \in NewRooms : FreeBoth(a, b) = {}
     \/ pc = "exit" /\ \E r \in Main : Free(r) = {}
  /\ UNCHANGED mapVars

\* A door in any direction that From's room has free; none if it has none.
RandomLink(To, From) ==
  /\ left > 0 /\ left' = left - 1
  /\ \E t \in To, f \in From :
       exits' \in IF Free(f) = {} THEN {exits} ELSE {exits \cup {Exit(f, 0, d, t, 0)} : d \in Free(f)}
  /\ UNCHANGED <<size, rooms, main, loop, ring, locks, switch, switches, pc>>

SelfLink == pc = "self" /\ RandomLink(NewRooms, NewRooms)
BackLink == pc = "back" /\ RandomLink(Main, NewRooms)

\* GenerateGame: from one part of a loop to the next.
NextPart ==
  /\ left = 0
  /\ \/ /\ pc = "links" /\ pc' = "self" /\ left' \in 0 .. size.MAX_ROOM_LINKS - 1
        /\ UNCHANGED <<main, loop>>
     \/ /\ pc = "self" /\ loop # 0
        /\ pc' = "back" /\ left' \in 0 .. size.MAX_ROOM_LINKS - 1
        /\ UNCHANGED <<main, loop>>
     \/ /\ pc = "back" \/ (pc = "self" /\ loop = 0)
        /\ main' = rooms /\ loop' = loop + 1
        /\ pc' = IF loop = size.loops THEN "exit" ELSE "loop"
        /\ UNCHANGED left
  /\ UNCHANGED <<size, exits, rooms, ring, locks, switch, switches>>
-----------------------------------------------------------------------------
(* AddExitRoom and SortRoomDirections.                                     *)

\* Two exit rooms are made: one behind the door, and one in the list, without a
\* direction.  The key may be put into any room of the list, the second exit included,
\* so no lock of locks stands for this door.
AddExitRoom ==
  /\ pc = "exit"
  /\ \E r \in Main : \E d \in Free(r) :
       /\ \A e \in Free(r) : d <= e
       /\ exits' = exits \cup {Exit(r, 0, d, rooms + 2, Cardinality(DOMAIN locks) + 1)}
  /\ rooms' = rooms + 2
  /\ pc' = "sort"
  /\ UNCHANGED <<size, main, loop, ring, locks, switch, switches, left>>

\* Of several directions of one name a room keeps the first.
SortRoomDirections ==
  /\ pc = "sort"
  /\ exits' = {e \in exits : \A f \in exits : f.from = e.from /\ f.dir = e.dir => e.at <= f.at}
  /\ pc' = "done"
  /\ UNCHANGED <<size, rooms, main, loop, ring, locks, switch, switches, left>>

Generate == \/ NewLoop \/ LinkRoom \/ PlaceTeleporter \/ LoopLink \/ PickAgain
            \/ SelfLink \/ BackLink \/ NextPart \/ AddExitRoom \/ SortRoomDirections

GenerateSpec == Init /\ [][Generate]_mapVars
-----------------------------------------------------------------------------
(* What should hold.                                                       *)

\* No room gets two directions of one name, of which the sort would drop one and
\* with it a way that the map counts on: each of the five places that add one looks
\* for a free one in its own way.
ExitsDistinct ==
  \A e, f \in exits : e.from = f.from /\ e.dir = f.dir => e = f

\* Where one gets from rooms R through exits E, in one more step.
Beyond(R, E) == R \cup {e.to : e \in {x \in E : x.from \in R /\ x.to # Nowhere}}
Reached(R, Open(_)) ==
  LET f[k \in 0 .. rooms] == IF k = 0 THEN R ELSE Beyond(f[k - 1], Open(f[k - 1])) IN f[rooms]

\* All doors into the loop after room b are key doors; and the rooms before the first
\* such loop.
Shut(b) == \A l \in DOMAIN locks : locks[l].before = b => locks[l].key
BeforeKeys == {r \in Main : \A l \in DOMAIN locks : Shut(locks[l].before) => r <= locks[l].before}

\* The game can be played up to the first loop that only keys lead into: with what lies in
\* rooms that were reached, every room before is reached, and from each of all rooms
\* the first one again, through doors that need nothing.  Wheels and switches are taken
\* to open their doors once their rooms are reached; what the player then does with them
\* is the matter of Perplexity.  No key opens any door: "use key 5 on n door" has "on"
\* one place further than item.cc:248 looks.  So nobody gets to the exit, either.
ReachedUpToKeys ==
  pc \in {"loop", "exit", "done"} /\ main > 0 =>
    LET unlocked(R) == {e \in exits : e.lock = 0 \/ (/\ e.lock \in DOMAIN locks /\ ~locks[e.lock].key
                                                    /\ locks[e.lock].parts \subseteq R)}
        open(R)     == {e \in exits : e.lock = 0}
    IN  /\ BeforeKeys \subseteq Reached({1}, unlocked)
        /\ \A r \in Main : 1 \in Reached({r}, open)
=============================================================================
