---------------------------- MODULE MCPooledTree ----------------------------
EXTENDS PooledTree

VARIABLE pooled      \* the tree on its pool, or a larger tree alone

mcVars == <<pooledVars, pooled>>

\* Which free block a node is put in makes no difference to the tree.
NextAlone ==
  \/ LET free == FreeNodes
     IN /\ free # {}
        /\ LET x == CHOOSE x \in free : TRUE IN \E k \in Key : add(k, x)
  \/ removeLeftmostNode
  \/ deleteNode

InitMC == InitPooled /\ pooled \in BOOLEAN
NextMC == \/ pooled /\ NextPooled /\ UNCHANGED pooled
          \/ ~pooled /\ NextAlone /\ UNCHANGED <<vars, pooled>>
SpecMC == InitMC /\ [][NextMC]_mcVars

\* PooledTree's NodesAreHeld, where there is a pool: the blocks held are the nodes in
\* the tree and the one that Run has removed.
PooledNodesAreHeld == pooled => NodesAreHeld

AllNodes == 0 .. 6
=============================================================================
