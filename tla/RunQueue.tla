------------------------------ MODULE RunQueue ------------------------------
(***************************************************************************)
(* What nivisor's red-black tree promises to its scheduler: a queue ordered *)
(* by key whose leftmost element is removed first.                         *)
(***************************************************************************)
EXTENDS KeyedSequence

CONSTANT Element       \* records with a field key

VARIABLE q             \* the elements in ascending order of key

Init == q = <<>>

Add == \E e \in Element : q' = InsertByKey(q, e)

RemoveLeftmost == q # <<>> /\ q' = Tail(q)

Next == Add \/ RemoveLeftmost

Spec == Init /\ [][Next]_q
=============================================================================
