----------------------------- MODULE Perplexity -----------------------------
(***************************************************************************)
(* The commands of Perplexity, in the build with PERPLEXITY_V2: what moves *)
(* items between rooms, the player, containers and doors, the doors        *)
(* themselves, and the teleporter with the display that names its targets. *)
(*                                                                         *)
(* Items have names of their own here, and the player and a storage hold   *)
(* fewer than 50 and 100.  Only wheels are put into doors, and what a      *)
(* storage gave out and kept is not burnt: pointers to it would stay.      *)
(***************************************************************************)
EXTENDS Integers, SequencesExt

CONSTANTS
  Worlds,    \* rooms, ways, doors and items of a game; see MCPerplexity
  Symbols,   \* how many the keypad has: 17
  Constant,  \* Constant[k] is 0xb236fdfa7ea1e492 rotated by k
  MaxCopies  \* bound: a storage gives out no more of an item that is in so many places

ASSUME SymbolsAssumption ==
  /\ Symbols \in Nat \ {0, 1} /\ MaxCopies \in Nat
  /\ Constant \in [0 .. Symbols - 1 -> Nat]

None     == "none"
Unset    == "unset"
Self     == "self"
NoRoom   == -1

\* Pages and what the replicator makes are nowhere at first; the rooms, ways and doors of
\* a world are its own; rooms have numbers as addresses, and codes are lists of symbols.
ASSUME WorldsAssumption ==
  \A w \in Worlds :
    /\ \A s \in DOMAIN w.items : w.items[s] = "switch" =>
         s \in DOMAIN w.powers /\ w.powers[s] \subseteq DOMAIN w.doors
    /\ {None, Unset} \cap DOMAIN w.doors = {}
    /\ {None, Self} \cap (w.rooms \cup DOMAIN w.items) = {}
    /\ w.start \in w.rooms
    /\ \A v \in w.ways : v.to \in w.rooms /\ v.door \in DOMAIN w.doors \cup {None}
    /\ w.address \in [w.rooms -> Nat]
    /\ \A s \in w.codes : s \in Seq(Range(s))
    /\ \A x \in DOMAIN w.items :
         w.items[x] = "page" \/ x \in w.spare => w.lie[x] = None

VARIABLES
  world,
  CurRoom, DiscoveredRooms,
  has,          \* has[p][x]: how often list p (a room's, the player's or a container's) has x
  wheels,       \* _Wheels of each door with a wheel lock
  symbols,      \* its _Symbols
  shape,        \* _CurrentShape of each wheel, from 1
  doorOf,       \* its _Door
  open,         \* the doors that are open or have power
  state,        \* ItemPowerSwitch::_State
  lit, crumpled, broken, made,  \* of fireplaces, pages, the replicator, and what was made
  burnt,        \* items that were deleted
  copied,       \* items that a storage gave out and kept
  display,      \* ItemRoomDisplay::_TurnedOn
  shown,        \* the codes it has shown
  isOn, target, \* DirectionTeleporter::_IsOn, _Room
  alive

lockVars  == <<wheels, shape, doorOf>>
fireVars  == <<lit, burnt>>
pageVars  == <<crumpled, broken, made>>
roomVars  == <<CurRoom, DiscoveredRooms>>
doorVars  == <<open, state>>
codeVars  == <<display, shown, isOn, target>>
fixedVars == <<world, symbols>>
gameVars  == <<fixedVars, has, copied, lockVars, fireVars, pageVars, roomVars, doorVars, codeVars, alive>>

Items    == DOMAIN world.items
Of(kind) == {x \in Items : world.items[x] = kind}
Holders  == Of("storage") \cup Of("journal") \cup Of("fireplace")
WheelDoors == {d \in DOMAIN world.doors : world.doors[d] = "wheel"}
DoorsHere  == {w.door : w \in {v \in world.ways : v.from = CurRoom}}

\* Items whose HandleAction never calls Item's: they stay where they are.
Fixed == Of("fireplace") \cup Of("switch") \cup Of("display") \cup Of("replicator")

InitGame ==
  /\ world \in Worlds
  /\ CurRoom = world.start /\ DiscoveredRooms = <<world.start>>
  /\ has = [p \in world.rooms \cup {Self} \cup Holders |->
              [x \in Items |-> IF world.lie[x] = p THEN 1 ELSE 0]]
  /\ wheels = [d \in WheelDoors |-> <<>>]
  /\ symbols \in [WheelDoors -> world.codes]
  /\ shape = [x \in Of("wheel") |-> 1]
  /\ doorOf = [x \in Of("wheel") |-> Unset]
  /\ open = {} /\ state \in world.states   \* nothing sets it
  /\ lit = {} /\ crumpled = {} /\ broken = FALSE /\ made = {} /\ burnt = {} /\ copied = {}
  /\ display = FALSE /\ shown = {} /\ isOn = FALSE /\ target = NoRoom
  /\ alive = TRUE
-----------------------------------------------------------------------------
(* Where main finds what a command names: in the room, then with the       *)
(* player, then in a door.                                                 *)

InRoom(x) == has[CurRoom][x] > 0
OnPerson(x) == ~InRoom(x) /\ has[Self][x] > 0
InReach(x) == InRoom(x) \/ has[Self][x] > 0
InDoor(x) == \E d \in DoorsHere \cap WheelDoors : Contains(wheels[d], x)

\* One entry less of x in list p, one more in q.
Gone(h, x, p) == [h EXCEPT ![p][x] = @ - 1]
Come(h, x, q) == [h EXCEPT ![q][x] = @ + 1]

Take(x) ==
  /\ InRoom(x) /\ x \notin Fixed
  /\ has' = Come(Gone(has, x, CurRoom), x, Self)
  /\ UNCHANGED <<copied, lockVars, fireVars, pageVars>>

Drop(x) ==
  /\ has[Self][x] > 0
  /\ has' = Come(Gone(has, x, Self), x, CurRoom)
  /\ UNCHANGED <<copied, lockVars, fireVars, pageVars>>

\* A wheel that is put anywhere turns.
Turned(x) ==
  shape' \in IF x \in Of("wheel") THEN {[shape EXCEPT ![x] = n] : n \in 1 .. Len(world.shapes[x])}
             ELSE {shape}

\* CanAccept: a fireplace takes one thing besides wood, a journal a page that is smooth.
CanAccept(c, x) ==
  \/ c \in Of("storage")
  \/ c \in Of("journal") /\ x \in Of("page") \ crumpled
  \/ c \in Of("fireplace") /\ \A y \in Items \ Of("wood") : has[c][y] = 0

\* What is deleted with X: a journal deletes its pages, a storage only forgets its items.
Destroyed(X) == X \cup {y \in Items : \E x \in X \cap Of("journal") : has[x][y] > 0}
Emptied(h, X) == [p \in DOMAIN h |-> IF p \in X THEN [y \in Items |-> 0] ELSE h[p]]

\* Put x in c.  Wood replaces wood, and what is put on a fire burns.
PutIn(c, x) ==
  /\ OnPerson(x) /\ InReach(c) /\ CanAccept(c, x)
  /\ IF c \in Of("fireplace")
     THEN /\ Destroyed({x}) \cap copied = {}
          /\ LET rest == [y \in Items |-> IF {x, y} \subseteq Of("wood") THEN 0 ELSE has[c][y]]
                 burns == c \in lit /\ x \notin Of("wood")
                 h     == Gone([has EXCEPT ![c] = rest], x, Self)
             IN  /\ has' = IF burns THEN Emptied(h, {x}) ELSE Come(h, x, c)
                 /\ burnt' = IF burns THEN burnt \cup Destroyed({x}) ELSE burnt
     ELSE has' = Come(Gone(has, x, Self), x, c) /\ UNCHANGED burnt
  /\ Turned(x)
  /\ UNCHANGED <<copied, wheels, doorOf, lit, pageVars>>

\* The entries of x in lists and in doors, and how many they are.
Listed(x) == UNION {{[list |-> p, n |-> k] : k \in 1 .. has[p][x]} : p \in DOMAIN has}
Fitted(x) == UNION {{[door |-> d, n |-> k] : k \in {i \in DOMAIN wheels[d] : wheels[d][i] = x}} :
                    d \in WheelDoors}
Places(x) == Cardinality(Listed(x)) + Cardinality(Fitted(x))

\* From c take x.  A journal gives the page, a storage gives it and keeps it.
TakeFrom(c, x) ==
  /\ InReach(c) /\ has[c][x] > 0
  /\ \/ c \in Of("journal") /\ has' = Come(Gone(has, x, c), x, Self) /\ UNCHANGED copied
     \/ /\ c \in Of("storage") /\ Places(x) < MaxCopies
        /\ has' = Come(has, x, Self) /\ copied' = copied \cup {x}
  /\ UNCHANGED <<lockVars, fireVars, pageVars>>

\* The fire takes the wood and what lies on it; without wood it goes out at once.
Light(f) ==
  LET fuel == {x \in Items : has[f][x] > 0} IN
  /\ InRoom(f) /\ f \notin lit /\ fuel # {} /\ Destroyed(fuel) \cap copied = {}
  /\ lit' = IF fuel \cap Of("wood") # {} THEN lit \cup {f} ELSE lit
  /\ burnt' = burnt \cup Destroyed(fuel)
  /\ has' = Emptied(has, fuel \cup {f})
  /\ UNCHANGED <<copied, lockVars, pageVars>>

Extinguish(f) ==
  /\ InRoom(f) /\ f \in lit /\ lit' = lit \ {f}
  /\ UNCHANGED <<has, copied, lockVars, burnt, pageVars>>

\* A new page in the journal, and what the replicator makes, until there is water.
CreatePage(j, x) ==
  /\ InReach(j) /\ x \in Of("page") \ made
  /\ made' = made \cup {x} /\ has' = Come(has, x, j)
  /\ UNCHANGED <<copied, lockVars, fireVars, crumpled, broken>>

Replicate(m, x) ==
  /\ InRoom(m) /\ ~broken /\ x \in world.spare \ made
  /\ made' = made \cup {x} /\ has' = Come(has, x, IF x \in Of("storage") THEN CurRoom ELSE Self)
  /\ UNCHANGED <<copied, lockVars, fireVars, crumpled, broken>>

Water(m) ==
  /\ InRoom(m) /\ ~broken /\ broken' = TRUE
  /\ UNCHANGED <<has, copied, lockVars, fireVars, crumpled, made>>

Crumple(x) ==
  /\ InReach(x)
  /\ crumpled' = IF x \in crumpled THEN crumpled \ {x} ELSE crumpled \cup {x}
  /\ UNCHANGED <<has, copied, lockVars, fireVars, broken, made>>
-----------------------------------------------------------------------------
(* Wheels and the doors they lock.                                         *)

ShapeOf(x) == world.shapes[x][shape[x]]
Displayed(d) == [i \in DOMAIN wheels[d] |-> ShapeOf(wheels[d][i])]
Full(d) == Len(wheels[d]) = Len(symbols[d])

\* Slip: a wheel that was matched may match again.
MatchAgain(s, shown_) ==
  LET after[i \in 0 .. Len(s)] ==
        IF i = 0 THEN 0
        ELSE IF Contains(shown_, s[i]) THEN after[i - 1] + 1 ELSE after[i - 1]
  IN  after[Len(s)]

\* How many of the symbols s find a wheel of their own among those that show rest.
Match(s, shown_) ==
  LET after[i \in 0 .. Len(s)] ==
        IF i = 0 THEN [n |-> 0, rest |-> shown_]
        ELSE LET a == after[i - 1]
             IN  IF Contains(a.rest, s[i])
                 THEN [n |-> a.n + 1, rest |-> RemoveFirst(a.rest, s[i])] ELSE a
  IN  after[Len(s)].n

\* The places whose wheel shows their symbol are counted, the others listed.
InPlace(s, shown_) ==
  LET after[i \in 0 .. Len(s)] ==
        IF i = 0 THEN [exact |-> 0, symbols |-> <<>>, wheels |-> <<>>]
        ELSE LET a == after[i - 1]
             IN  IF s[i] = shown_[i] THEN [a EXCEPT !.exact = @ + 1]
                 ELSE [a EXCEPT !.symbols = Append(@, s[i]), !.wheels = Append(@, shown_[i])]
  IN  after[Len(s)]

\* ValidateCombo of a door that is full: matches in place, and out of place.
Hints(d) ==
  LET a == InPlace(symbols[d], Displayed(d))
  IN  [exact |-> a.exact, outOfPlace |-> Match(a.symbols, a.wheels)]

Valid(d) == Full(d) /\ Hints(d).exact = Len(symbols[d])

PutInDoor(d, x) ==
  /\ OnPerson(x) /\ x \in Of("wheel") /\ ~Full(d)
  /\ wheels' = [wheels EXCEPT ![d] = Append(@, x)]
  /\ has' = Gone(has, x, Self)
  /\ Turned(x) /\ doorOf' = [doorOf EXCEPT ![x] = d]
  /\ UNCHANGED <<copied, fireVars, pageVars, alive>>

\* Slip: the wheel goes on pointing to the door.
TakeFromDoorStale(d, x) ==
  /\ Contains(wheels[d], x)
  /\ wheels' = [wheels EXCEPT ![d] = RemoveFirst(@, x)]
  /\ has' = Come(has, x, Self)
  /\ UNCHANGED <<copied, shape, doorOf, fireVars, pageVars, alive>>

TakeFromDoor(d, x) ==
  /\ Contains(wheels[d], x)
  /\ wheels' = [wheels EXCEPT ![d] = RemoveFirst(@, x)]
  /\ doorOf' = [doorOf EXCEPT ![x] = None]
  /\ has' = Come(has, x, Self)
  /\ UNCHANGED <<copied, shape, fireVars, pageVars, alive>>

\* A wheel that was never in a door has whatever pointer was there: none, or one that
\* ends the program.
Rotate(x) ==
  /\ InRoom(x) \/ (~OnPerson(x) /\ InDoor(x))
  /\ \/ /\ doorOf[x] \notin {None, Unset}
        /\ shape' = [shape EXCEPT ![x] = (@ % Len(world.shapes[x])) + 1]
        /\ UNCHANGED <<doorOf, alive>>
     \/ doorOf[x] = Unset /\ doorOf' = [doorOf EXCEPT ![x] = None] /\ UNCHANGED <<shape, alive>>
     \/ doorOf[x] = Unset /\ alive' = FALSE /\ UNCHANGED <<shape, doorOf>>
  /\ UNCHANGED <<has, copied, wheels, fireVars, pageVars>>
-----------------------------------------------------------------------------
(* Doors and ways.                                                         *)

OpenDoor(d) ==
  /\ d \notin open
  /\ world.doors[d] = "plain" \/ (world.doors[d] = "wheel" /\ Valid(d))
  /\ open' = open \cup {d} /\ UNCHANGED state

CloseDoor(d) ==
  /\ d \in open /\ world.doors[d] \in {"plain", "wheel"}
  /\ open' = open \ {d} /\ UNCHANGED state

\* ~_State, which began as anything: off is 0 and on is all else.
Flip(s) ==
  /\ InRoom(s) /\ state' = -1 - state
  /\ open' = IF state' # 0 THEN open \cup world.powers[s] ELSE open \ world.powers[s]

Enter(r) ==
  /\ CurRoom' = r
  /\ DiscoveredRooms' = IF Contains(DiscoveredRooms, r) THEN DiscoveredRooms
                        ELSE Append(DiscoveredRooms, r)

Go == \E w \in world.ways : w.from = CurRoom /\ w.door \in open \cup {None} /\ Enter(w.to)
-----------------------------------------------------------------------------
(* ItemRoomDisplay and DirectionTeleporter.  RoomChars is the list of      *)
(* symbols rotated, so that one number says which rotation it is.          *)

Digits[id \in Nat] ==
  [rotation \in 0 .. Symbols - 1 |->
    IF id = 0 THEN <<>>
    ELSE LET v == id % Symbols
         IN  <<(rotation + v) % Symbols>> \o Digits[id \div Symbols][(rotation + v + 1) % Symbols]]

\* Exclusive or.
Xor[x \in Nat] ==
  [y \in Nat |-> IF x = 0 THEN y ELSE ((x + y) % 2) + 2 * Xor[x \div 2][y \div 2]]

\* ShowRooms: the code of the i-th room that was discovered.
RoomCode(i) ==
  LET k == i % Symbols
  IN  <<k>> \o Digits[Xor[world.address[DiscoveredRooms[i]]][Constant[k]]][k]

Value[code \in Seq(Nat)] ==
  [rotation \in 0 .. Symbols - 1 |->
    IF code = <<>> THEN 0
    ELSE LET v == (Head(code) - rotation) % Symbols
         IN  v + Symbols * Value[Tail(code)][(rotation + v + 1) % Symbols]]

\* Slip: the constant is not rotated.
KeypadUnrotated(code) == Xor[Value[Tail(code)][Head(code)]][Constant[0]]

\* The address that a code stands for.
Keypad(code) == Xor[Value[Tail(code)][Head(code)]][Constant[Head(code)]]

SwitchDisplay(s) == InRoom(s) /\ display' = ~display /\ UNCHANGED <<shown, isOn, target>>

ViewDisplay(s) ==
  /\ InRoom(s) /\ display
  /\ shown' = shown \cup {[room |-> DiscoveredRooms[i], code |-> RoomCode(i)] : i \in DOMAIN DiscoveredRooms}
  /\ UNCHANGED <<display, isOn, target>>

AtTeleporter == CurRoom = world.teleporter

\* Touch keypad: what was shown may be typed, or anything else; some of it is refused.
TouchKeypad ==
  /\ AtTeleporter /\ isOn' = FALSE
  /\ target' \in {NoRoom} \cup {Keypad(code) : code \in {s.code : s \in shown} \cup world.guesses}
  /\ UNCHANGED <<display, shown>>

\* Activate tells a room by its address.
Activate ==
  /\ AtTeleporter /\ ~isOn
  /\ IF \E r \in world.rooms : world.address[r] = target
     THEN isOn' = TRUE /\ UNCHANGED target
     ELSE isOn' = FALSE /\ target' = NoRoom
  /\ UNCHANGED <<display, shown>>

Deactivate ==
  /\ AtTeleporter /\ isOn /\ isOn' = FALSE /\ target' = NoRoom
  /\ UNCHANGED <<display, shown>>

\* The teleporter stays on.
Teleport ==
  /\ AtTeleporter /\ isOn
  /\ \E r \in world.rooms : world.address[r] = target /\ Enter(r)
-----------------------------------------------------------------------------
OnThings ==
  /\ \/ /\ \/ \E x \in Items : Take(x)
           \/ \E x \in Items : Drop(x)
           \/ \E c \in Holders, x \in Items : PutIn(c, x)
           \/ \E c \in Holders, x \in Items : TakeFrom(c, x)
           \/ \E f \in Of("fireplace") : Light(f)
           \/ \E f \in Of("fireplace") : Extinguish(f)
           \/ \E j \in Of("journal"), x \in Items : CreatePage(j, x)
           \/ \E m \in Of("replicator"), x \in Items : Replicate(m, x)
           \/ \E m \in Of("replicator") : Water(m)
           \/ \E x \in Of("page") : Crumple(x)
        /\ UNCHANGED alive
     \/ \E d \in DoorsHere \cap WheelDoors, x \in Items : PutInDoor(d, x)
     \/ \E d \in DoorsHere \cap WheelDoors, x \in Items : TakeFromDoor(d, x)
     \/ \E x \in Of("wheel") : Rotate(x)
  /\ UNCHANGED <<roomVars, doorVars, codeVars>>

OnDoors ==
  /\ \/ \E d \in DoorsHere \ {None} : OpenDoor(d)
     \/ \E d \in DoorsHere \ {None} : CloseDoor(d)
     \/ \E s \in Of("switch") : Flip(s)
  /\ UNCHANGED <<has, copied, lockVars, fireVars, pageVars, roomVars, codeVars, alive>>

Moves ==
  /\ Go \/ Teleport
  /\ UNCHANGED <<has, copied, lockVars, fireVars, pageVars, doorVars, codeVars, alive>>

OnCodes ==
  /\ \/ \E s \in Of("display") : SwitchDisplay(s)
     \/ \E s \in Of("display") : ViewDisplay(s)
     \/ TouchKeypad \/ Activate \/ Deactivate
  /\ UNCHANGED <<has, copied, lockVars, fireVars, pageVars, roomVars, doorVars, alive>>

\* What only prints or is refused.
Prints == UNCHANGED gameVars

NextCommand == /\ alive
               /\ OnThings \/ OnDoors \/ Moves \/ OnCodes \/ Prints
               /\ UNCHANGED fixedVars

GameSpec == InitGame /\ [][NextCommand]_gameVars
-----------------------------------------------------------------------------
(* What should hold.                                                       *)

\* Each command that moves an item takes it from one list and gives it to another, by
\* itself: together they never put an item in two places, or leave one that was
\* deleted anywhere, and a wheel names the door that it is in.  What a storage gave
\* out is excepted (item.storage.cc, RemoveItem keeps it).
InOnePlace ==
  \A x \in Items \ copied :
    /\ Places(x) <= IF x \in burnt THEN 0 ELSE 1
    /\ x \in Of("wheel") => \A d \in WheelDoors : doorOf[x] = d <=> Contains(wheels[d], x)

\* How often y is in s.
Times(y, s) == Cardinality({i \in DOMAIN s : s[i] = y})

\* The two numbers below the wheels of a full door tell how many show the symbol of
\* their place, and how many more would if the wheels changed places: together, how many
\* symbols code and wheels have in common, each as often as it is in both.
HintsRight ==
  \A d \in WheelDoors : Full(d) =>
    LET s == symbols[d]
        common == {p \in Range(s) \X (1 .. Len(s)) :
                     p[2] <= Times(p[1], s) /\ p[2] <= Times(p[1], Displayed(d))}
    IN  Hints(d).exact + Hints(d).outOfPlace = Cardinality(common)

\* The display writes and the keypad reads codes by rules of their own: any code that
\* was ever shown for a room stands for that room, also after more rooms were found.
CodesLeadBack == \A s \in shown : Keypad(s.code) = world.address[s.room]
=============================================================================
