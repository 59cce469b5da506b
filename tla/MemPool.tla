------------------------------ MODULE MemPool ------------------------------
(***************************************************************************)
(* The fixed-size block pool that holds the nodes of nivisor's run tree    *)
(* (src/nivisor/src/pool.cpp).  The free list is threaded through the      *)
(* first word of the free blocks, blocks are initialised InitStep at a     *)
(* time, and the word that follows the last initialised block of the list  *)
(* is the index of the first block not initialised yet: that is what lets  *)
(* AllocBlock continue from m_head after InitMoreBlocks.                   *)
(*                                                                         *)
(* A block is named by the index GetIdxFromPtr gives it.  The build        *)
(* modelled is the one without BUG1.                                       *)
(***************************************************************************)
EXTENDS Integers, FiniteSets

CONSTANTS NumBlocks,   \* m_num_blocks_total (21 in pool.h)
          InitStep,    \* INIT_STEP (10 in pool.h)
          DATA,        \* a first word that is not a link: the owner's m_key
          NULL

\* create_mempool initialises INIT_STEP blocks without looking at the size.
ASSUME PoolAssumption ==
  /\ NumBlocks \in Nat /\ InitStep \in Nat \ {0} /\ InitStep <= NumBlocks
  /\ DATA \notin Nat /\ NULL \notin Nat

VARIABLES m_head, word,
          m_num_blocks_allocd, m_num_blocks_free, m_num_blocks_initialized,
          m_high_mark,
          in_use,      \* blocks the callers hold
          ret          \* what the last AllocBlock returned

vars == <<m_head, word, m_num_blocks_allocd, m_num_blocks_free,
          m_num_blocks_initialized, m_high_mark, in_use, ret>>

Block == 0 .. NumBlocks - 1

\* The initialising loop: block b of from .. to-1 links to b+1.
Linked(w, from, to) ==
  [b \in Block |-> IF b \in from .. to - 1 THEN b + 1 ELSE w[b]]

\* create_mempool, then the RBTree constructor's m_high_mark = 0.
Init ==
  /\ m_head = 0
  /\ word = Linked([b \in Block |-> DATA], 0, InitStep)
  /\ m_num_blocks_allocd = 0
  /\ m_num_blocks_free = InitStep
  /\ m_num_blocks_initialized = InitStep
  /\ m_high_mark = 0
  /\ in_use = {}
  /\ ret = NULL

\* How many blocks InitMoreBlocks may still initialise: the last step is short.
BlocksToInit ==
  IF NumBlocks - m_num_blocks_initialized < InitStep
  THEN NumBlocks - m_num_blocks_initialized
  ELSE InitStep

\* The second half of AllocBlock, on a pool whose words are w and that has
\* init initialised and free free blocks: unlink the head, account for it.
\* The caller writes its node over the link at once.
TakeHead(w, init, free) ==
  /\ m_head' = w[m_head]
  /\ word' = [w EXCEPT ![m_head] = DATA]
  /\ m_high_mark' = IF m_high_mark < m_head THEN m_head ELSE m_high_mark
  /\ m_num_blocks_allocd' = m_num_blocks_allocd + 1
  /\ m_num_blocks_free' = free - 1
  /\ m_num_blocks_initialized' = init
  /\ in_use' = in_use \cup {m_head}
  /\ ret' = m_head

AllocInitialized ==
  /\ m_num_blocks_allocd < m_num_blocks_initialized
  /\ TakeHead(word, m_num_blocks_initialized, m_num_blocks_free)

AllocAfterInit ==
  /\ m_num_blocks_allocd >= m_num_blocks_initialized
  /\ m_num_blocks_initialized < NumBlocks
  /\ LET init == m_num_blocks_initialized + BlocksToInit
     IN TakeHead(Linked(word, m_num_blocks_initialized, init), init,
                 m_num_blocks_free + BlocksToInit)

\* Slip: refusing without a look at the blocks not initialised yet.
RefuseWhenListEmpty ==
  /\ m_num_blocks_allocd >= m_num_blocks_initialized
  /\ ret' = NULL
  /\ UNCHANGED <<m_head, word, m_num_blocks_allocd, m_num_blocks_free,
                 m_num_blocks_initialized, m_high_mark, in_use>>

AllocOutOfMemory ==
  /\ m_num_blocks_allocd >= m_num_blocks_initialized
  /\ m_num_blocks_initialized >= NumBlocks
  /\ ret' = NULL
  /\ UNCHANGED <<m_head, word, m_num_blocks_allocd, m_num_blocks_free,
                 m_num_blocks_initialized, m_high_mark, in_use>>

\* Slip: the freed block is not linked to the old head.
FreeUnlinked(b) ==
  /\ b \in in_use
  /\ m_head' = b
  /\ m_num_blocks_allocd' = m_num_blocks_allocd - 1
  /\ m_num_blocks_free' = m_num_blocks_free + 1
  /\ in_use' = in_use \ {b}
  /\ UNCHANGED <<word, m_num_blocks_initialized, m_high_mark, ret>>

\* Callers free what they hold: RBTree::deleteNode is called once per node.
FreeBlock(b) ==
  /\ b \in in_use
  /\ word' = [word EXCEPT ![b] = m_head]
  /\ m_head' = b
  /\ m_num_blocks_allocd' = m_num_blocks_allocd - 1
  /\ m_num_blocks_free' = m_num_blocks_free + 1
  /\ in_use' = in_use \ {b}
  /\ UNCHANGED <<m_num_blocks_initialized, m_high_mark, ret>>

Next == AllocInitialized \/ AllocAfterInit \/ AllocOutOfMemory
          \/ \E b \in Block : FreeBlock(b)

Spec == Init /\ [][Next]_vars
-----------------------------------------------------------------------------
\* Types of the pool header and of the block words.
TypeOK ==
  /\ m_head \in 0 .. NumBlocks
  /\ word \in [Block -> 0 .. NumBlocks \cup {DATA}]
  /\ m_num_blocks_allocd \in 0 .. NumBlocks
  /\ m_num_blocks_free \in 0 .. NumBlocks
  /\ m_num_blocks_initialized \in InitStep .. NumBlocks
  /\ m_high_mark \in 0 .. NumBlocks
  /\ in_use \in SUBSET Block
  /\ ret \in Block \cup {NULL}

\* From head, the links of w run through s[1] .. s[n], all different, and end
\* at init, the first block not initialised yet.
Links(s, head, w, init, n) ==
  /\ \A i, k \in 1 .. n : s[i] = s[k] => i = k
  /\ \A i \in 1 .. n - 1 : w[s[i]] = s[i + 1]
  /\ n > 0 => head = s[1] /\ w[s[n]] = init
  /\ n = 0 => head = init

\* The n links thread every block below init that is not held.
Threaded(head, w, init, held, n) ==
  \E s \in [1 .. n -> (0 .. init - 1) \ held] :
    /\ \A b \in (0 .. init - 1) \ held : \E i \in 1 .. n : s[i] = b
    /\ Links(s, head, w, init, n)

\* The free list threads every free initialised block once and ends at the
\* first uninitialised block, whatever the order of allocations and frees;
\* AllocBlock relies on it when it takes the head right after InitMoreBlocks
\* without looking at where m_head points.
FreeListSound ==
  Threaded(m_head, word, m_num_blocks_initialized, in_use, m_num_blocks_free)

\* The three counters agree with each other and with the blocks in use, and no
\* block past the high mark was ever handed out: the allocd >= initialized test
\* of AllocBlock therefore means "the free list is empty".
Accounting ==
  /\ m_num_blocks_allocd + m_num_blocks_free = m_num_blocks_initialized
  /\ Cardinality(in_use) = m_num_blocks_allocd
  /\ \A b \in in_use : b <= m_high_mark
  /\ m_high_mark < m_num_blocks_initialized

\* The pool keeps the promise of BlockAllocator: a granted block was free, and
\* NULL is returned only when all NumBlocks blocks are held, so the lazy
\* initialisation never loses a block and never grants one twice.
Allocator == INSTANCE BlockAllocator
ImplementsAllocator == Allocator!Spec
=============================================================================
