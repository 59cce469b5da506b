---------------------------- MODULE MCPerplexity ----------------------------
(***************************************************************************)
(* Perplexity for TLC: the making of small worlds, or the commands in one  *)
(* of four given worlds, each with the items of one kind of puzzle.        *)
(***************************************************************************)
EXTENDS PerplexityMap, Perplexity

VARIABLE mode
vars == <<mapVars, gameVars, mode>>

\* One loop of three rooms with a random link; and two loops of two rooms with two
\* doors between them, or three with one, up to where the exit is added.
OneLoop == [directions |-> 4, MIN_ROOMS |-> 3, MAX_ROOMS |-> 4, MAX_ROOM_LINKS |-> 2,
            MIN_LOOP_LINKS |-> 1, MAX_LOOP_LINKS |-> 2, loops |-> 0]
TwoLoops == [OneLoop EXCEPT !.MIN_ROOMS = 2, !.MAX_ROOMS = 3, !.MAX_ROOM_LINKS = 1,
                            !.MIN_LOOP_LINKS = 2, !.MAX_LOOP_LINKS = 3, !.loops = 1]
LinksBack == [TwoLoops EXCEPT !.MAX_ROOM_LINKS = 2, !.MIN_LOOP_LINKS = 1, !.MAX_LOOP_LINKS = 2]
ThreeLoops == [TwoLoops EXCEPT !.MIN_LOOP_LINKS = 1, !.MAX_LOOP_LINKS = 2, !.loops = 2]
SmallSizes == {OneLoop, TwoLoops, LinksBack, ThreeLoops}

\* A world of rooms in a row without anything in it.
Row(R, start, doors) ==
  [rooms |-> R, start |-> start, ways |-> {}, doors |-> doors, teleporter |-> None,
   items |-> <<>>, lie |-> <<>>, shapes |-> <<>>, codes |-> {}, spare |-> {},
   address |-> [r \in R |-> 0], guesses |-> {}, states |-> {0},
   powers |-> <<>>]
Way(a, b, d) == {[from |-> a, to |-> b, door |-> d], [from |-> b, to |-> a, door |-> None]}

\* Three wheels that lie in two rooms, and a door with three slots.
Wheels ==
  [Row({"a", "b"}, "a", [gate |-> "wheel"]) EXCEPT
     !.ways = Way("a", "b", None) \cup Way("a", "b", "gate"),
     !.items = [w1 |-> "wheel", w2 |-> "wheel", w3 |-> "wheel"],
     !.lie = [w1 |-> "a", w2 |-> "b", w3 |-> "a"],
     !.shapes = [w1 |-> <<"star", "plus">>, w2 |-> <<"plus", "star">>, w3 |-> <<"plus", "minus">>],
     !.codes = {<<x, y, z>> : x \in {"star", "plus"}, y \in {"star", "plus"}, z \in {"plus", "minus"}}]

\* Two wheels, two slots and a desk, which can itself be carried, from the replicator.
Copies ==
  [Row({"a"}, "a", [gate |-> "wheel"]) EXCEPT
     !.ways = {[from |-> "a", to |-> "a", door |-> "gate"]},
     !.items = [w1 |-> "wheel", w2 |-> "wheel", desk |-> "storage",
                machine |-> "replicator"],
     !.lie = [w1 |-> "a", w2 |-> "a", desk |-> None, machine |-> "a"],
     !.spare = {"desk"},
     !.shapes = [w1 |-> <<"star", "plus">>, w2 |-> <<"star", "plus">>],
     !.codes = {<<"star", "plus">>}]

\* A fireplace, wood, a journal with a page to come, a desk, and more wood from the
\* replicator.
Hearth ==
  [Row({"a"}, "a", <<>>) EXCEPT
     !.items = [hearth |-> "fireplace", wood1 |-> "wood", wood2 |-> "wood", page1 |-> "page",
                desk |-> "storage", journal |-> "journal", machine |-> "replicator"],
     !.lie = [hearth |-> "a", wood1 |-> "a", wood2 |-> None, page1 |-> None,
              desk |-> "a", journal |-> Self, machine |-> "a"],
     !.spare = {"wood2"}]

\* Four rooms whose codes use three symbols, with the display in the first of them.
Codes ==
  [Row({"a", "b", "c", "d"}, "a", [panel |-> "power", wood |-> "plain", vault |-> "key", grate |-> "power"]) EXCEPT
     !.ways = Way("a", "b", None) \cup Way("a", "c", "panel") \cup Way("b", "d", "wood")
              \cup Way("b", "c", "vault") \cup Way("c", "d", "grate"),
     !.items = [screen |-> "display", lever |-> "switch"],
     !.lie = [screen |-> "a", lever |-> "b"],
     !.teleporter = "b",
     !.address = [a |-> 5, b |-> 14, c |-> 9, d |-> 3],
     !.guesses = {<<0, 1>>, <<2, 2, 1>>}, !.states = {-1, 0, 1},
     !.powers = [lever |-> {"panel"}]]

FourWorlds == {Wheels, Copies, Hearth, Codes}
\* Four bits, rotated.
RotatedBits == <<11, 7, 14>> 
Rotated == [k \in 0 .. 2 |-> RotatedBits[k + 1]]

IdleMap ==
  /\ size = OneLoop /\ exits = {} /\ rooms = 0 /\ main = 0 /\ loop = 0 /\ locks = <<>>
  /\ ring = [i |-> 0, links |-> FALSE, prev |-> 0, first |-> 0]
  /\ switch = 0 /\ switches = {} /\ left = 0 /\ pc = "done"
IdleGame ==
  /\ InitGame /\ world = Codes /\ state = 0

InitMC == \/ mode = "map" /\ Init /\ IdleGame
          \/ mode = "game" /\ IdleMap /\ InitGame

\* The generator ends; the game ends with the program.
MapEnds  == \/ pc = "done"
            \/ size.loops > 0 /\ pc = "exit"
            \/ size.loops = 1 /\ pc = "self" /\ left > 0

\* Of three loops only the links vary, and wheels lie in one room.
OnlyLinks == /\ ~ring'.links
             /\ pc = "loop" => ring'.prev = 0
             /\ \A l \in DOMAIN locks' : Cardinality(locks'[l].parts) = 1
             /\ pc = "teleporter" => \A e \in exits' : e.to = Nowhere => e.from % 2 = 1

NextMC ==
  /\ UNCHANGED mode
  /\ \/ /\ mode = "map" /\ ~MapEnds /\ Generate /\ UNCHANGED gameVars
        /\ size = ThreeLoops => OnlyLinks
     \/ mode = "map" /\ MapEnds /\ UNCHANGED <<mapVars, gameVars>>
     \/ mode = "game" /\ NextCommand /\ UNCHANGED mapVars
     \/ mode = "game" /\ ~alive /\ UNCHANGED <<mapVars, gameVars>>

Spec == InitMC /\ [][NextMC]_vars
=============================================================================
