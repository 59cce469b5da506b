----------------------------- MODULE PooledTree -----------------------------
(***************************************************************************)
(* The run tree of nivisor's fair scheduler on its pool: RBTree allocates  *)
(* its nodes with MemPool's AllocBlock, frees them with FreeBlock, and     *)
(* keeps the key of a node in the word that links the block while it is    *)
(* free.  Nodes are named by their blocks.                                 *)
(***************************************************************************)
EXTENDS MemPool, RBTree

\* Whatever block the pool gives can hold a node.
ASSUME PooledAssumption == Block \subseteq Node

pooledVars == <<vars, treeVars>>

InitPooled == Init /\ InitTree

\* add writes to a node before it looks whether it was given one: nivisor faults
\* when there is none.
Faulted == ret = NULL /\ in_use # {}

\* add: allocNode, then the insertion.
AddNode(k) ==
  /\ ~Faulted
  /\ AllocInitialized \/ AllocAfterInit
  /\ add(k, m_head)

AddFaults ==
  /\ ~Faulted
  /\ AllocOutOfMemory
  /\ UNCHANGED treeVars

RemoveLeftmost ==
  /\ ~Faulted
  /\ removeLeftmostNode
  /\ UNCHANGED vars

\* Slip: the leftmost node is deleted, and it is another one
\* a node left of the one that was removed.
DeleteLeftmost ==
  /\ ~Faulted /\ removed # NIL
  /\ FreeBlock(IF t.root = NIL THEN removed ELSE getLeftmostNode(t))
  /\ deleteNode

\* deleteNode: destroyed and freed.
DeleteNode ==
  /\ ~Faulted /\ removed # NIL
  /\ FreeBlock(removed)
  /\ deleteNode

NextPooled == (\E k \in Key : AddNode(k)) \/ AddFaults \/ RemoveLeftmost \/ DeleteNode

SpecPooled == InitPooled /\ [][NextPooled]_pooledVars
-----------------------------------------------------------------------------
\* Tree and pool agree at all times: the blocks held are the nodes in the tree and
\* the one that Run removed and has yet to delete; no node is lost, freed twice or in
\* a block that the pool gives to another.
NodesAreHeld == in_use = InTree \cup ({removed} \ {NIL})
=============================================================================
