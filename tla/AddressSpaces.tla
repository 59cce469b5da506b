---------------------------- MODULE AddressSpaces ----------------------------
(***************************************************************************)
(* What nivisor's memory promises its guests: every address space has      *)
(* regions of its own, a clone starts with a copy of them, and what a      *)
(* region holds changes only by a write of a thread of that address space. *)
(***************************************************************************)
EXTENDS Naturals

CONSTANTS Mm,        \* address spaces
          Region, RegionLen,
          Val, Image,
          NULL

VARIABLES content,    \* content[m][r]: what region r of m holds, NULL if none
          full        \* no memory is left

Offset == 0 .. RegionLen - 1
Zeroes == [o \in Offset |-> 0]
Section == [o \in Offset |-> Image]

Init == /\ full \in BOOLEAN
        /\ \E m \in Mm, r \in Region : content = [n \in Mm |-> [q \in Region |->
                       IF n = m /\ q = r THEN Section ELSE NULL]]

Store(m, r, o, x) ==
  /\ content[m][r] # NULL
  /\ content' = [content EXCEPT ![m][r][o] = x]

NewRegion(m, r) ==
  /\ content[m][r] = NULL
  /\ content' = [content EXCEPT ![m][r] = Zeroes]

Clone(m, n) ==
  /\ \A r \in Region : content[n][r] = NULL
  /\ content' = [content EXCEPT ![n] = content[m]]

\* An address space starts over, with a loaded section, or without anything when
\* its last thread has gone or nothing could be loaded.
Reset(m) ==
  \E K \in SUBSET Region :
    content' = [content EXCEPT ![m] = [r \in Region |->
                                         IF r \in K THEN Section ELSE NULL]]

\* What a region held is lost when there is no memory for a copy of it.
Lose(m, r) ==
  /\ full /\ content[m][r] # NULL
  /\ content' = [content EXCEPT ![m][r] = Zeroes]

\* Memory that was used is never free again.
Next == /\ full => full'
        /\ \/ UNCHANGED content
           \/ \E m \in Mm :
                \/ \E r \in Region, o \in Offset, x \in Val : Store(m, r, o, x)
                \/ \E r \in Region : NewRegion(m, r) \/ Lose(m, r)
                \/ \E n \in Mm : Clone(m, n)
                \/ Reset(m)

Spec == Init /\ [][Next]_<<content, full>>
=============================================================================
