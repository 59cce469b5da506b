--------------------------- MODULE BlockAllocator ---------------------------
(***************************************************************************)
(* What nivisor's memory pool promises to the red-black tree: AllocBlock    *)
(* hands out a block nobody holds and refuses only when every block is     *)
(* held; FreeBlock takes a held block back.  Free lists, lazy              *)
(* initialisation and counters are left to MemPool, which implements this. *)
(***************************************************************************)
EXTENDS Integers

CONSTANTS NumBlocks,   \* blocks the heap has room for
          NULL         \* what AllocBlock returns when it refuses

VARIABLES in_use,      \* the blocks handed out and not yet freed
          ret          \* what the last AllocBlock returned

Block == 0 .. NumBlocks - 1

Init == in_use = {} /\ ret = NULL

Grant == \E b \in Block \ in_use : in_use' = in_use \cup {b} /\ ret' = b

Refuse == in_use = Block /\ ret' = NULL /\ UNCHANGED in_use

Release == \E b \in in_use : in_use' = in_use \ {b} /\ UNCHANGED ret

Next == Grant \/ Refuse \/ Release

Spec == Init /\ [][Next]_<<in_use, ret>>
=============================================================================
