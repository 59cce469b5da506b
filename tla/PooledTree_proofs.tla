-------------------------- MODULE PooledTree_proofs --------------------------
(***************************************************************************)
(* The run tree of nivisor's fair scheduler and its pool, for every number *)
(* of blocks and every set of keys: MemPool keeps its free list threaded   *)
(* and implements BlockAllocator; RBTree keeps the rules of a red-black    *)
(* tree and its links and implements RunQueue; together they hold each     *)
(* block for as long as it is a node.                                      *)
(***************************************************************************)
EXTENDS MCPooledTree, FiniteSetTheorems, SequenceTheorems, WellFoundedInduction, TLAPS

-----------------------------------------------------------------------------
(* The pool.                                                                          *)

USE PoolAssumption

Word == 0 .. NumBlocks \cup {DATA}

\* Taking the head of a nonempty threaded list leaves the rest threaded.
LEMMA TakeThreaded ==
  ASSUME NEW head, NEW w \in [Block -> Word], NEW init \in 0 .. NumBlocks,
         NEW held \in SUBSET Block, NEW n \in Nat \ {0},
         Threaded(head, w, init, held, n)
  PROVE  /\ head \in (0 .. init - 1) \ held
         /\ w[head] \in 0 .. NumBlocks
         /\ Threaded(w[head], [w EXCEPT ![head] = DATA], init,
                     held \cup {head}, n - 1)
<1> DEFINE F == (0 .. init - 1) \ held
           G == (0 .. init - 1) \ (held \cup {head})
           v == [w EXCEPT ![head] = DATA]
<1>0. PICK s \in [1 .. n -> F] :
        /\ \A b \in F : \E i \in 1 .. n : s[i] = b
        /\ Links(s, head, w, init, n)
  BY Zenon DEF Threaded
<1>1. /\ \A b \in F : \E i \in 1 .. n : s[i] = b
      /\ \A i, k \in 1 .. n : s[i] = s[k] => i = k
      /\ \A i \in 1 .. n - 1 : w[s[i]] = s[i + 1]
      /\ head = s[1] /\ w[s[n]] = init
  BY <1>0 DEF Links
<1>2. head \in F /\ F \subseteq Block
  BY <1>1 DEF Block
<1>3. w[head] \in 0 .. NumBlocks
  <2>1. CASE n = 1
    BY <2>1, <1>1
  <2>2. CASE n > 1
    <3>1. 1 \in 1 .. n - 1 /\ 2 \in 1 .. n
      BY <2>2
    <3>2. w[s[1]] = s[2] /\ s[2] \in F
      BY <3>1, <1>1
    <3> QED
      BY <3>2, <1>1, <1>2 DEF Block
  <2> QED
    BY <2>1, <2>2
<1>4. Threaded(w[head], v, init, held \cup {head}, n - 1)
  <2> DEFINE r == [i \in 1 .. n - 1 |-> s[i + 1]]
  <2>1. \A i \in 1 .. n - 1 : i + 1 \in 1 .. n /\ s[i + 1] \in F /\ s[i + 1] # s[1]
    BY <1>1
  <2>2. r \in [1 .. n - 1 -> G]
    BY <2>1, <1>1
  <2>3. \A i, k \in 1 .. n - 1 : r[i] = r[k] => i = k
    BY <2>1, <1>1
  <2>4. ASSUME NEW b \in G PROVE \E i \in 1 .. n - 1 : r[i] = b
    <3>1. PICK j \in 1 .. n : s[j] = b
      BY <1>1
    <3>2. j # 1
      BY <3>1, <1>1
    <3>3. j - 1 \in 1 .. n - 1 /\ r[j - 1] = b
      BY <3>1, <3>2
    <3> QED
      BY <3>3
  <2>5. ASSUME NEW i \in 1 .. n - 2 PROVE v[r[i]] = r[i + 1]
    <3>1. i \in 1 .. n - 1 /\ i + 1 \in 1 .. n - 1
      OBVIOUS
    <3>2. r[i] = s[i + 1] /\ r[i + 1] = s[i + 2] /\ r[i] \in Block /\ r[i] # head
      BY <3>1, <2>1, <1>1, <1>2
    <3>3. w[s[i + 1]] = s[i + 2]
      BY <3>1, <1>1
    <3> QED
      BY <3>2, <3>3
  <2>6. n - 1 > 0 => w[head] = r[1] /\ v[r[n - 1]] = init
    <3> HAVE n - 1 > 0
    <3>1. 1 \in 1 .. n - 1 /\ n - 1 \in 1 .. n - 1
      OBVIOUS
    <3>2. r[1] = s[2] /\ w[s[1]] = s[2]
      BY <3>1, <1>1
    <3>3. r[n - 1] = s[n] /\ r[n - 1] \in Block /\ r[n - 1] # head
      BY <3>1, <2>1, <1>1, <1>2
    <3> QED
      BY <3>2, <3>3, <1>1
  <2>7. n - 1 = 0 => w[head] = init
    BY <1>1
  <2>8. (n - 1) - 1 = n - 2
    OBVIOUS
  <2> HIDE DEF r, v
  <2>9. Links(r, w[head], v, init, n - 1)
    BY <2>3, <2>5, <2>6, <2>7, <2>8 DEF Links
  <2> QED
    BY <2>2, <2>4, <2>9, Zenon DEF Threaded
<1> QED
  BY <1>2, <1>3, <1>4

\* On an exhausted free list the head is the first uninitialised block, and
\* initialising k more blocks threads exactly those.
LEMMA InitThreaded ==
  ASSUME NEW head, NEW w \in [Block -> Word], NEW init \in 0 .. NumBlocks,
         NEW held \in SUBSET (0 .. init - 1), NEW k \in 1 .. NumBlocks - init,
         Threaded(head, w, init, held, 0)
  PROVE  /\ Linked(w, init, init + k) \in [Block -> Word]
         /\ Threaded(head, Linked(w, init, init + k), init + k, held, k)
<1> DEFINE v == Linked(w, init, init + k)
           s == [i \in 1 .. k |-> init + i - 1]
           F == (0 .. init + k - 1) \ held
<1>0. PICK z \in [1 .. 0 -> (0 .. init - 1) \ held] :
        /\ \A b \in (0 .. init - 1) \ held : \E i \in 1 .. 0 : z[i] = b
        /\ Links(z, head, w, init, 0)
  BY Zenon DEF Threaded
<1>1. head = init /\ held = 0 .. init - 1
  <2>1. 1 .. 0 = {}
    OBVIOUS
  <2>2. (0 .. init - 1) \ held = {}
    BY <1>0, <2>1
  <2> QED
    BY <1>0, <2>2 DEF Links
<1>2. v \in [Block -> Word]
  BY DEF Linked, Word, Block
<1>3. F = init .. init + k - 1
  BY <1>1
<1>4. s \in [1 .. k -> F]
  BY <1>3
<1>5. \A i, j \in 1 .. k : s[i] = s[j] => i = j
  OBVIOUS
<1>6. ASSUME NEW b \in F PROVE \E i \in 1 .. k : s[i] = b
  <2>1. b - init + 1 \in 1 .. k /\ s[b - init + 1] = b
    BY <1>3
  <2> QED
    BY <2>1
<1>7. \A i \in 1 .. k : v[s[i]] = init + i
  BY DEF Linked, Block
<1>8. \A i \in 1 .. k - 1 : v[s[i]] = s[i + 1]
  BY <1>7
<1>10. k > 0 /\ head = s[1] /\ v[s[k]] = init + k
  BY <1>1, <1>7
<1> HIDE DEF v, s
<1>11. Links(s, head, v, init + k, k)
  BY <1>5, <1>8, <1>10 DEF Links
<1>9. Threaded(head, v, init + k, held, k)
  <2>1. \A b \in F : \E i \in 1 .. k : s[i] = b
    BY <1>6
  <2> QED
    BY <1>4, <1>11, <2>1, SMTT(30) DEF Threaded
<1> QED
  BY <1>2, <1>9 DEF v

\* Freeing a held block puts it in front of the threaded list.
LEMMA FreeThreaded ==
  ASSUME NEW head \in 0 .. NumBlocks, NEW w \in [Block -> Word],
         NEW init \in 0 .. NumBlocks, NEW held \in SUBSET (0 .. init - 1),
         NEW n \in Nat, NEW b \in held, Threaded(head, w, init, held, n)
  PROVE  Threaded(b, [w EXCEPT ![b] = head], init, held \ {b}, n + 1)
<1> DEFINE F == (0 .. init - 1) \ held
           G == (0 .. init - 1) \ (held \ {b})
           v == [w EXCEPT ![b] = head]
<1>0. PICK s \in [1 .. n -> F] :
        /\ \A c \in F : \E i \in 1 .. n : s[i] = c
        /\ Links(s, head, w, init, n)
  BY Zenon DEF Threaded
<1>1. /\ \A c \in F : \E i \in 1 .. n : s[i] = c
      /\ \A i, k \in 1 .. n : s[i] = s[k] => i = k
      /\ \A i \in 1 .. n - 1 : w[s[i]] = s[i + 1]
      /\ n > 0 => head = s[1] /\ w[s[n]] = init
      /\ n = 0 => head = init
  BY <1>0 DEF Links
<1> DEFINE r == [i \in 1 .. n + 1 |-> IF i = 1 THEN b ELSE s[i - 1]]
<1>2. G = F \cup {b} /\ b \notin F /\ b \in Block /\ F \subseteq Block
  BY DEF Block
<1>3. \A i \in 2 .. n + 1 : i - 1 \in 1 .. n /\ r[i] = s[i - 1] /\ r[i] \in F
  BY <1>1
<1>4. r \in [1 .. n + 1 -> G] /\ r[1] = b
  BY <1>2, <1>3
<1>5. \A i, k \in 1 .. n + 1 : r[i] = r[k] => i = k
  BY <1>1, <1>2, <1>3
<1>6. ASSUME NEW c \in G PROVE \E i \in 1 .. n + 1 : r[i] = c
  <2>1. CASE c = b
    BY <2>1, <1>4, SMTT(30)
  <2>2. CASE c # b
    <3>1. PICK j \in 1 .. n : s[j] = c
      BY <2>2, <1>1, <1>2
    <3>2. j + 1 \in 1 .. n + 1 /\ r[j + 1] = c
      BY <3>1
    <3> HIDE DEF r
    <3> QED
      BY <3>2
  <2> QED
    BY <2>1, <2>2
<1>7. \A c \in F : v[c] = w[c]
  BY <1>2
<1>8. v[b] = head
  BY <1>2
<1>9. ASSUME NEW i \in 1 .. n PROVE v[r[i]] = r[i + 1]
  <2>1. CASE i = 1
    <3>1. r[1] = b /\ r[2] = s[1] /\ head = s[1]
      BY <2>1, <1>1
    <3> QED
      BY <3>1, <2>1, <1>8
  <2>2. CASE i # 1
    <3>1. i - 1 \in 1 .. n - 1 /\ r[i] = s[i - 1] /\ r[i + 1] = s[i] /\ r[i] \in F
      BY <2>2, <1>3
    <3>2. w[s[i - 1]] = s[i]
      BY <3>1, <1>1, SMTT(30)
    <3> QED
      BY <3>1, <3>2, <1>7
  <2> QED
    BY <2>1, <2>2
<1>10. v[r[n + 1]] = init
  <2>1. CASE n = 0
    BY <2>1, <1>1, <1>4, <1>8
  <2>2. CASE n > 0
    <3>1. r[n + 1] = s[n] /\ s[n] \in F
      BY <2>2, <1>1
    <3> QED
      BY <3>1, <2>2, <1>1, <1>7
  <2> QED
    BY <2>1, <2>2
<1>11. (n + 1) - 1 = n /\ n + 1 > 0
  OBVIOUS
<1> HIDE DEF r, v
<1>12. Links(r, b, v, init, n + 1)
  BY <1>4, <1>5, <1>9, <1>10, <1>11 DEF Links
<1>13. Threaded(b, v, init, held \ {b}, n + 1)
  BY <1>4, <1>6, <1>12, Zenon DEF Threaded
<1> QED
  BY <1>13 DEF v
\* The inductive invariant: the types, the threaded free list, and counters
\* that say how many blocks are held and how many are threaded.
IInv ==
  /\ TypeOK
  /\ FreeListSound
  /\ Accounting
  /\ in_use \subseteq 0 .. m_num_blocks_initialized - 1

\* create_mempool leaves a pool that satisfies the invariant.
LEMMA InitIInv == Init => IInv
<1> SUFFICES ASSUME Init PROVE IInv
  OBVIOUS
<1> DEFINE w == Linked([b \in Block |-> DATA], 0, 0 + InitStep)
<1>1. Threaded(0, [b \in Block |-> DATA], 0, {}, 0)
  <2> DEFINE z == [i \in 1 .. 0 |-> 0]
  <2>1. 1 .. 0 = {} /\ (0 .. 0 - 1) \ {} = {}
    OBVIOUS
  <2>2. z \in [1 .. 0 -> (0 .. 0 - 1) \ {}]
    BY <2>1
  <2>3. Links(z, 0, [b \in Block |-> DATA], 0, 0)
    BY <2>1 DEF Links
  <2>4. \A b \in (0 .. 0 - 1) \ {} : \E i \in 1 .. 0 : z[i] = b
    BY <2>1
  <2> HIDE DEF z
  <2> QED
    BY <2>2, <2>3, <2>4, Zenon DEF Threaded
<1>2. [b \in Block |-> DATA] \in [Block -> Word]
  BY DEF Word
<1>3. w \in [Block -> Word] /\ Threaded(0, w, 0 + InitStep, {}, InitStep)
  <2>1. InitStep \in 1 .. NumBlocks - 0 /\ 0 \in 0 .. NumBlocks
    OBVIOUS
  <2> HIDE DEF w
  <2> QED
    BY <1>1, <1>2, <2>1, InitThreaded DEF w
<1>4. Cardinality({}) = 0
  BY FS_EmptySet
<1>5. 0 + InitStep = InitStep
  OBVIOUS
<1>6. TypeOK
  BY <1>3, <1>5 DEF Init, TypeOK, Word
<1>7. FreeListSound
  BY <1>3, <1>5 DEF Init, FreeListSound
<1> QED
  BY <1>4, <1>6, <1>7 DEF Init, IInv, Accounting

\* Both halves of AllocBlock that grant a block end in TakeHead, on a pool
\* whose free list is threaded and not empty.
LEMMA TakeHeadIInv ==
  ASSUME IInv, NEW w \in [Block -> Word],
         NEW init \in m_num_blocks_initialized .. NumBlocks,
         NEW free \in Nat \ {0},
         m_num_blocks_allocd + free = init,
         Threaded(m_head, w, init, in_use, free),
         TakeHead(w, init, free)
  PROVE  IInv' /\ m_head \in Block \ in_use
<1> USE DEF IInv
<1>1. init \in 0 .. NumBlocks /\ in_use \in SUBSET Block
  BY DEF TypeOK
<1>2. /\ m_head \in (0 .. init - 1) \ in_use
      /\ w[m_head] \in 0 .. NumBlocks
      /\ Threaded(w[m_head], [w EXCEPT ![m_head] = DATA], init,
                  in_use \cup {m_head}, free - 1)
  BY <1>1, TakeThreaded
<1>3. m_head \in Block
  BY <1>1, <1>2 DEF Block
<1>4. TypeOK'
  BY <1>1, <1>2, <1>3 DEF TypeOK, TakeHead, Word, Accounting
<1>5. FreeListSound'
  BY <1>2 DEF TakeHead, FreeListSound
<1>6. Cardinality(in_use') = Cardinality(in_use) + 1
  <2>1. IsFiniteSet(in_use)
    <3>1. 0 \in Int /\ NumBlocks - 1 \in Int
      OBVIOUS
    <3>2. IsFiniteSet(0 .. NumBlocks - 1)
      BY <3>1, FS_Interval
    <3> QED
      BY <1>1, <3>2, FS_Subset DEF Block
  <2> QED
    BY <1>2, <2>1, FS_AddElement DEF TakeHead
<1>7. Accounting'
  BY <1>2, <1>3, <1>6 DEF Accounting, TakeHead, TypeOK, Block
<1>8. (in_use \subseteq 0 .. m_num_blocks_initialized - 1)'
  BY <1>1, <1>2 DEF TakeHead, TypeOK
<1> QED
  BY <1>2, <1>3, <1>4, <1>5, <1>7, <1>8

\* AllocBlock with initialised blocks left keeps the invariant.
LEMMA AllocInitializedIInv ==
  ASSUME IInv, AllocInitialized
  PROVE  IInv' /\ m_head \in Block \ in_use
<1>1. /\ word \in [Block -> Word] /\ m_num_blocks_free \in Nat \ {0}
      /\ m_num_blocks_initialized \in m_num_blocks_initialized .. NumBlocks
  BY DEF IInv, TypeOK, Word, Accounting, AllocInitialized
<1> QED
  BY <1>1, TakeHeadIInv DEF IInv, Accounting, FreeListSound, AllocInitialized

\* AllocBlock after InitMoreBlocks, whose last step may be short, keeps the
\* invariant.
LEMMA AllocAfterInitIInv ==
  ASSUME IInv, AllocAfterInit
  PROVE  IInv' /\ m_head \in Block \ in_use
<1> DEFINE init == m_num_blocks_initialized + BlocksToInit
           w == Linked(word, m_num_blocks_initialized, init)
<1>1. /\ m_num_blocks_free = 0 /\ m_num_blocks_allocd = m_num_blocks_initialized
      /\ m_num_blocks_initialized \in 0 .. NumBlocks
      /\ word \in [Block -> Word]
  BY DEF IInv, TypeOK, Word, Accounting, AllocAfterInit
<1>2. BlocksToInit \in 1 .. NumBlocks - m_num_blocks_initialized
  BY <1>1 DEF BlocksToInit, AllocAfterInit
<1>3. in_use \in SUBSET (0 .. m_num_blocks_initialized - 1)
  BY DEF IInv
<1>4. Threaded(m_head, word, m_num_blocks_initialized, in_use, 0)
  BY <1>1 DEF IInv, FreeListSound
<1>5. w \in [Block -> Word] /\ Threaded(m_head, w, init, in_use, BlocksToInit)
  BY <1>1, <1>2, <1>3, <1>4, InitThreaded
<1>6. /\ init \in m_num_blocks_initialized .. NumBlocks
      /\ BlocksToInit \in Nat \ {0}
      /\ m_num_blocks_allocd + BlocksToInit = init
      /\ m_num_blocks_free + BlocksToInit = BlocksToInit
  BY <1>1, <1>2
<1>7. TakeHead(w, init, BlocksToInit)
  BY <1>6 DEF AllocAfterInit
<1> HIDE DEF w, init
<1> QED
  BY <1>5, <1>6, <1>7, TakeHeadIInv

\* FreeBlock keeps the invariant for every block that is held.
LEMMA FreeBlockIInv ==
  ASSUME IInv, NEW b \in Block, FreeBlock(b)
  PROVE  IInv'
<1> USE DEF IInv
<1>1. /\ word \in [Block -> Word] /\ m_head \in 0 .. NumBlocks
      /\ m_num_blocks_initialized \in 0 .. NumBlocks
      /\ m_num_blocks_free \in Nat /\ b \in in_use
      /\ in_use \in SUBSET (0 .. m_num_blocks_initialized - 1)
  BY DEF TypeOK, Word, FreeBlock
<1>2. Threaded(b, [word EXCEPT ![b] = m_head], m_num_blocks_initialized,
               in_use \ {b}, m_num_blocks_free + 1)
  BY <1>1, FreeThreaded DEF FreeListSound
<1>3. IsFiniteSet(in_use)
  <2>1. 0 \in Int /\ m_num_blocks_initialized - 1 \in Int
    BY <1>1
  <2>2. IsFiniteSet(0 .. m_num_blocks_initialized - 1)
    BY <2>1, FS_Interval
  <2> QED
    BY <1>1, <2>2, FS_Subset
<1>4. /\ Cardinality(in_use \ {b}) = Cardinality(in_use) - 1
      /\ Cardinality(in_use) \in Nat
  BY <1>1, <1>3, FS_RemoveElement, FS_CardinalityType
<1>5. Cardinality(in_use \ {b}) \in Nat
  BY <1>3, FS_RemoveElement, FS_CardinalityType, FS_Subset
<1>6. TypeOK'
  BY <1>1, <1>4, <1>5 DEF TypeOK, FreeBlock, Accounting, Block
<1>7. FreeListSound'
  BY <1>2 DEF FreeListSound, FreeBlock
<1>8. Accounting'
  BY <1>1, <1>4, <1>5 DEF Accounting, FreeBlock, TypeOK
<1> QED
  BY <1>1, <1>6, <1>7, <1>8 DEF FreeBlock

\* Every operation of the pool keeps the invariant, so it is inductive.
LEMMA NextIInv == IInv /\ [Next]_vars => IInv'
<1> SUFFICES ASSUME IInv, [Next]_vars PROVE IInv'
  OBVIOUS
<1>1. CASE AllocInitialized
  BY <1>1, AllocInitializedIInv
<1>2. CASE AllocAfterInit
  BY <1>2, AllocAfterInitIInv
<1>3. CASE AllocOutOfMemory
  BY <1>3 DEF AllocOutOfMemory, IInv, TypeOK, FreeListSound, Accounting
<1>4. ASSUME NEW b \in Block, FreeBlock(b) PROVE IInv'
  BY <1>4, FreeBlockIInv
<1>5. CASE UNCHANGED vars
  BY <1>5 DEF vars, IInv, TypeOK, FreeListSound, Accounting
<1> QED
  BY <1>1, <1>2, <1>3, <1>4, <1>5 DEF Next

\* The inductive invariant holds in every state of the pool.
THEOREM PoolInvariant == Spec => []IInv
  BY InitIInv, NextIInv, PTL DEF Spec

\* The header fields and the block words keep their types: m_head never leaves
\* 0 .. NumBlocks although AllocBlock copies it from block memory unchecked.
THEOREM TypeCorrect == Spec => []TypeOK
<1>1. IInv => TypeOK
  BY DEF IInv
<1> QED
  BY <1>1, PoolInvariant, PTL

\* The free list always threads exactly the free initialised blocks.
THEOREM FreeListCorrect == Spec => []FreeListSound
<1>1. IInv => FreeListSound
  BY DEF IInv
<1> QED
  BY <1>1, PoolInvariant, PTL

\* The counters AllocBlock tests say what they are named for.
THEOREM AccountingCorrect == Spec => []Accounting
<1>1. IInv => Accounting
  BY DEF IInv
<1> QED
  BY <1>1, PoolInvariant, PTL

\* Each grant is of a block nobody holds, and NULL is returned only when all
\* NumBlocks are held: the pool implements BlockAllocator.
THEOREM PoolImplementsAllocator == Spec => ImplementsAllocator
<1>1. Init => Allocator!Init
  BY DEF Init, Allocator!Init
<1>2. IInv /\ [Next]_vars => [Allocator!Next]_<<in_use, ret>>
  <2> SUFFICES ASSUME IInv, [Next]_vars
               PROVE  [Allocator!Next]_<<in_use, ret>>
    OBVIOUS
  <2> USE DEF Allocator!Next, Allocator!Block, Block
  <2>1. CASE AllocInitialized
    BY <2>1, AllocInitializedIInv DEF AllocInitialized, TakeHead, Allocator!Grant
  <2>2. CASE AllocAfterInit
    BY <2>2, AllocAfterInitIInv DEF AllocAfterInit, TakeHead, Allocator!Grant
  <2>3. CASE AllocOutOfMemory
    <3>1. m_num_blocks_free = 0 /\ m_num_blocks_initialized = NumBlocks
      BY <2>3 DEF AllocOutOfMemory, IInv, TypeOK, Accounting
    <3>2. Threaded(m_head, word, NumBlocks, in_use, 0)
      BY <3>1 DEF IInv, FreeListSound
    <3>3. PICK s \in [1 .. 0 -> (0 .. NumBlocks - 1) \ in_use] :
            \A b \in (0 .. NumBlocks - 1) \ in_use : \E i \in 1 .. 0 : s[i] = b
      BY <3>2, Zenon DEF Threaded
    <3>4. 1 .. 0 = {}
      OBVIOUS
    <3>5. in_use = 0 .. NumBlocks - 1
      BY <3>3, <3>4 DEF IInv, TypeOK
    <3> QED
      BY <2>3, <3>5 DEF AllocOutOfMemory, Allocator!Refuse
  <2>4. ASSUME NEW b \in Block, FreeBlock(b)
        PROVE  [Allocator!Next]_<<in_use, ret>>
    BY <2>4 DEF FreeBlock, Allocator!Release
  <2>5. CASE UNCHANGED vars
    BY <2>5 DEF vars
  <2> QED
    BY <2>1, <2>2, <2>3, <2>4, <2>5 DEF Next
<1> QED
  BY <1>1, <1>2, PoolInvariant, PTL DEF Spec, ImplementsAllocator, Allocator!Spec
-----------------------------------------------------------------------------
(* The tree.                                                                          *)

HIDE PoolAssumption
USE TreeAssumption

\* Induction over an interval, for a set of numbers.
LEMMA UpTo ==
  ASSUME NEW n \in Nat, NEW A, 0 \in A, \A k \in 0 .. n - 1 : k \in A => k + 1 \in A
  PROVE  n \in A
<1> DEFINE B == (0 .. n) \ A
<1> SUFFICES ASSUME n \notin A PROVE FALSE
  OBVIOUS
<1>1. B \subseteq Nat /\ B # {}
  OBVIOUS
<1>2. PICK m \in B : \A i \in B : ~(<<i, m>> \in OpToRel(<, Nat))
  <2> HIDE DEF B
  <2> QED
    BY <1>1, NatLessThanWellFounded, WFMin, Zenon
<1>3. m \in 1 .. n /\ m - 1 \in 0 .. n - 1
  OBVIOUS
<1>4. m - 1 \in A
  <2> SUFFICES ASSUME m - 1 \notin A PROVE FALSE
    OBVIOUS
  <2>1. m - 1 \in B /\ m - 1 \in Nat /\ m \in Nat /\ m - 1 < m
    BY <1>3
  <2> HIDE DEF B
  <2>2. <<m - 1, m>> \in OpToRel(<, Nat)
    BY <2>1 DEF OpToRel
  <2> QED
    BY <1>2, <2>1, <2>2
<1>5. (m - 1) + 1 \in A
  BY <1>3, <1>4
<1> QED
  BY <1>3, <1>5

\* g is what n turns from R on give.
IsIteration(g, n, S, R, turn) ==
  g \in [0 .. n -> S] /\ g[0] = R /\ \A k \in 1 .. n : g[k] = turn[g[k - 1]]

\* A turn can be made n times.
LEMMA Iterates ==
  ASSUME NEW n \in Nat, NEW S, NEW R \in S, NEW turn \in [S -> S]
  PROVE  \E g : IsIteration(g, n, S, R, turn)
<1> USE DEF IsIteration
<1> DEFINE A == {m \in 0 .. n : \E g \in [0 .. m -> S] :
                   g[0] = R /\ \A k \in 1 .. m : g[k] = turn[g[k - 1]]}
<1>1. 0 \in A
  <2> DEFINE g == [k \in 0 .. 0 |-> R]
  <2>1. g \in [0 .. 0 -> S] /\ g[0] = R /\ 1 .. 0 = {} /\ 0 \in 0 .. n
    OBVIOUS
  <2> HIDE DEF g
  <2> QED
    BY <2>1
<1>2. ASSUME NEW m \in 0 .. n - 1, m \in A
      PROVE  m + 1 \in A
  <2>1. PICK g \in [0 .. m -> S] : g[0] = R /\ \A k \in 1 .. m : g[k] = turn[g[k - 1]]
    BY <1>2
  <2> DEFINE last == turn[g[m]]
             h == [k \in 0 .. m + 1 |-> IF k = m + 1 THEN last ELSE g[k]]
  <2>2. last \in S
    BY <2>1
  <2> HIDE DEF last
  <2>3. h \in [0 .. m + 1 -> S] /\ h[0] = R
    BY <2>1, <2>2
  <2>4. \A k \in 1 .. m : h[k] = g[k] /\ h[k - 1] = g[k - 1]
    OBVIOUS
  <2>5. h[m + 1] = last /\ h[m] = g[m] /\ (m + 1) - 1 = m /\ m + 1 \in 0 .. n
    OBVIOUS
  <2>6. \A k \in 1 .. m + 1 : k = m + 1 \/ k \in 1 .. m
    OBVIOUS
  <2> HIDE DEF h
  <2>7. \A k \in 1 .. m + 1 : h[k] = turn[h[k - 1]]
    BY <2>1, <2>4, <2>5, <2>6 DEF last
  <2> QED
    BY <2>3, <2>5, <2>7
<1>3. n \in A
  <2> HIDE DEF A
  <2> QED
    BY <1>1, <1>2, UpTo
<1> QED
  BY <1>3

\* What n turns lead to, when each leads from one set of a family to the one below it.
LEMMA Descends ==
  ASSUME NEW n \in Nat, NEW S, NEW R, NEW turn, NEW g, NEW A,
         g[0] = R, \A k \in 1 .. n : g[k] = turn[g[k - 1]],
         R \in A[n],
         \A k \in 1 .. n : \A s \in A[k] : turn[s] \in A[k - 1]
  PROVE  g[n] \in A[0]
<1> DEFINE B == {k \in 0 .. n : g[k] \in A[n - k]}
<1>1. 0 \in B
  OBVIOUS
<1>2. ASSUME NEW k \in 0 .. n - 1, k \in B
      PROVE  k + 1 \in B
  <2>1. n - k \in 1 .. n /\ k + 1 \in 1 .. n /\ (k + 1) - 1 = k /\ (n - k) - 1 = n - (k + 1)
    OBVIOUS
  <2>2. g[k] \in A[n - k] /\ g[k + 1] = turn[g[k]]
    BY <1>2, <2>1
  <2>3. turn[g[k]] \in A[n - (k + 1)]
    BY <2>1, <2>2
  <2> QED
    BY <2>1, <2>2, <2>3
<1>3. n \in B
  <2> HIDE DEF B
  <2> QED
    BY <1>1, <1>2, UpTo
<1>4. n - n = 0
  OBVIOUS
<1> QED
  BY <1>3, <1>4
-----------------------------------------------------------------------------
(* Trees and rotations.                                                     *)

Trees == [root : Node \cup {NIL}, crashed : BOOLEAN, key : [Node -> Nat],
          child : [Side -> [Node -> Node \cup {NIL}]], parent : [Node -> Node \cup {NIL}],
          color : [Node -> {"RED", "BLACK"}], pos : [Node -> Side]]

\* What the fields of a tree hold.
LEMMA FieldTypes ==
  ASSUME NEW u \in Trees
  PROVE  /\ u.root \in Node \cup {NIL} /\ u.crashed \in BOOLEAN
         /\ \A z \in Node, e \in Side : u.child[e][z] \in Node \cup {NIL}
         /\ \A z \in Node : /\ u.key[z] \in Nat /\ u.parent[z] \in Node \cup {NIL}
                            /\ u.color[z] \in {"RED", "BLACK"} /\ u.pos[z] \in Side
BY DEF Trees

\* Every field of w at every node, but for colors, after u was rotated to side d at x.
Turned(u, w, d, x) ==
  LET o == Other(d)
      temp == u.child[o][x]
      y == u.child[d][temp]
      p == u.parent[x]
  IN /\ w \in Trees
     /\ w.root = IF p = NIL THEN temp ELSE u.root
     /\ w.crashed = u.crashed /\ w.key = u.key
     /\ \A e \in Side, z \in Node :
          w.child[e][z] = IF z = x /\ e = o THEN y
                          ELSE IF z = temp /\ e = d THEN x
                          ELSE IF z = p /\ e = u.pos[x] THEN temp
                          ELSE u.child[e][z]
     /\ \A z \in Node :
          w.parent[z] = IF z = x THEN temp ELSE IF z = temp THEN p
                        ELSE IF z = y THEN x ELSE u.parent[z]
     /\ \A z \in Node :
          w.pos[z] = IF z = x THEN d
                     ELSE IF z = temp /\ p # NIL THEN u.pos[x]
                     ELSE IF z = y THEN o ELSE u.pos[z]

\* There are two sides, each the other of the other.
LEMMA Sides ==
  /\ Side = {"LEFT", "RIGHT"}
  /\ \A d \in Side : Other(d) \in Side /\ Other(d) # d /\ Other(Other(d)) = d
  /\ Other("LEFT") = "RIGHT" /\ Other("RIGHT") = "LEFT"
  /\ \A d \in Side : d = "LEFT" \/ d = "RIGHT"
BY DEF Side, Other

\* Every field of w at every node, after c was hung below p.
Hung(u, w, d, p, c) ==
  /\ w \in Trees
  /\ w.root = u.root /\ w.crashed = u.crashed /\ w.key = u.key /\ w.color = u.color
  /\ \A e \in Side, z \in Node : w.child[e][z] = IF z = p /\ e = d THEN c ELSE u.child[e][z]
  /\ \A z \in Node : w.parent[z] = IF z = c THEN p ELSE u.parent[z]
  /\ \A z \in Node : w.pos[z] = IF z = c THEN d ELSE u.pos[z]

\* Hang, field by field.
LEMMA HangHangs ==
  ASSUME NEW u \in Trees, NEW d \in Side, NEW p \in Node, NEW c \in Node \cup {NIL}
  PROVE  Hung(u, Hang(u, d, p, c), d, p, c)
<1>1. CASE c = NIL
  <2> DEFINE w == [u EXCEPT !.child[d][p] = NIL]
  <2>1. Hang(u, d, p, c) = w
    BY <1>1 DEF Hang
  <2>2. w \in Trees
    BY DEF Trees
  <2>3. /\ w.root = u.root /\ w.crashed = u.crashed /\ w.key = u.key /\ w.color = u.color
        /\ w.parent = u.parent /\ w.pos = u.pos
        /\ \A e \in Side, z \in Node : w.child[e][z] = IF z = p /\ e = d THEN NIL ELSE u.child[e][z]
    BY DEF Trees
  <2> HIDE DEF w
  <2> QED
    BY <1>1, <2>1, <2>2, <2>3 DEF Hung
<1>2. CASE c # NIL
  <2> DEFINE w == [u EXCEPT !.child[d][p] = c, !.parent[c] = p, !.pos[c] = d]
  <2>1. Hang(u, d, p, c) = w
    BY <1>2 DEF Hang
  <2>2. w \in Trees
    BY <1>2 DEF Trees
  <2>3. /\ w.root = u.root /\ w.crashed = u.crashed /\ w.key = u.key /\ w.color = u.color
        /\ \A e \in Side, z \in Node : w.child[e][z] = IF z = p /\ e = d THEN c ELSE u.child[e][z]
        /\ \A z \in Node : w.parent[z] = IF z = c THEN p ELSE u.parent[z]
        /\ \A z \in Node : w.pos[z] = IF z = c THEN d ELSE u.pos[z]
    BY <1>2 DEF Trees
  <2> HIDE DEF w
  <2> QED
    BY <2>1, <2>2, <2>3 DEF Hung
<1> QED
  BY <1>1, <1>2

\* Rotate, field by field, where the nodes around x differ.
LEMMA RotateTurns ==
  ASSUME NEW u \in Trees, NEW d \in Side, NEW x \in Node,
         u.child[Other(d)][x] \in Node,
         u.child[Other(d)][x] # x, u.parent[x] # x, u.parent[x] # u.child[Other(d)][x],
         u.child[d][u.child[Other(d)][x]] \notin {x, u.child[Other(d)][x]}
  PROVE  /\ Turned(u, Rotate(u, d, x), d, x)
         /\ Rotate(u, d, x).color = IF u.parent[x] = NIL
                                    THEN [u.color EXCEPT ![u.child[Other(d)][x]] = "BLACK"]
                                    ELSE u.color
<1> DEFINE o == Other(d)
           temp == u.child[o][x]
           y == u.child[d][temp]
           p == u.parent[x]
           v1 == Hang(u, o, x, y)
           v2 == Hang(v1, d, temp, x)
           w == Rotate(u, d, x)
<1>0. o \in Side /\ o # d /\ temp \in Node /\ y \in Node \cup {NIL} /\ p \in Node \cup {NIL}
      /\ u.pos[x] \in Side
  BY Sides, FieldTypes
<1>1. Hung(u, v1, o, x, y)
  BY <1>0, HangHangs, Zenon
<1>2. v1 \in Trees
  BY <1>1 DEF Hung
<1>3. Hung(v1, v2, d, temp, x)
  BY <1>0, <1>2, HangHangs, Zenon
<1>4. CASE p = NIL
  <2>1. w = [v2 EXCEPT !.root = temp, !.parent[temp] = NIL, !.color[temp] = "BLACK"]
    BY <1>4, Zenon DEF Rotate
  <2> HIDE DEF v2, v1, w
  <2>2. v2 \in Trees
    BY <1>3 DEF Hung
  <2>3. /\ w \in Trees /\ w.root = temp /\ w.crashed = v2.crashed /\ w.key = v2.key
        /\ w.child = v2.child /\ w.pos = v2.pos
        /\ w.color = [v2.color EXCEPT ![temp] = "BLACK"]
        /\ \A z \in Node : w.parent[z] = IF z = temp THEN NIL ELSE v2.parent[z]
    <3> HIDE DEF temp
    <3> QED
    BY <1>0, <2>1, <2>2 DEF Trees
  <2> USE DEF Hung
  <2>4. w \in Trees /\ w.root = (IF p = NIL THEN temp ELSE u.root)
        /\ w.crashed = u.crashed /\ w.key = u.key
    BY <1>1, <1>3, <1>4, <2>3
  <2>5. \A e \in Side, z \in Node :
          w.child[e][z] = IF z = x /\ e = o THEN y
                          ELSE IF z = temp /\ e = d THEN x
                          ELSE IF z = p /\ e = u.pos[x] THEN temp
                          ELSE u.child[e][z]
    BY <1>0, <1>1, <1>3, <1>4, <2>3
  <2>6. \A z \in Node :
          w.parent[z] = IF z = x THEN temp ELSE IF z = temp THEN p
                        ELSE IF z = y THEN x ELSE u.parent[z]
    BY <1>0, <1>1, <1>3, <1>4, <2>3
  <2>7. \A z \in Node :
          w.pos[z] = IF z = x THEN d
                     ELSE IF z = temp /\ p # NIL THEN u.pos[x]
                     ELSE IF z = y THEN o ELSE u.pos[z]
    BY <1>0, <1>1, <1>3, <1>4, <2>3
  <2>8. w.color = IF p = NIL THEN [u.color EXCEPT ![temp] = "BLACK"] ELSE u.color
    BY <1>1, <1>3, <1>4, <2>3
  <2>9. Turned(u, w, d, x)
    BY <2>4, <2>5, <2>6, <2>7, Zenon DEF Turned
  <2> QED
    BY <2>8, <2>9, Zenon DEF w
<1>5. CASE p # NIL
  <2>1. w = Hang(v2, u.pos[x], p, temp)
    BY <1>5, Zenon DEF Rotate
  <2>2. v2 \in Trees /\ p \in Node
    BY <1>0, <1>3, <1>5 DEF Hung
  <2>3. Hung(v2, w, u.pos[x], p, temp)
    BY <1>0, <2>1, <2>2, HangHangs, Zenon
  <2> HIDE DEF v2, v1, w
  <2> USE DEF Hung
  <2>4. w \in Trees /\ w.root = (IF p = NIL THEN temp ELSE u.root)
        /\ w.crashed = u.crashed /\ w.key = u.key
    BY <1>1, <1>3, <1>5, <2>3
  <2>5. \A e \in Side, z \in Node :
          w.child[e][z] = IF z = x /\ e = o THEN y
                          ELSE IF z = temp /\ e = d THEN x
                          ELSE IF z = p /\ e = u.pos[x] THEN temp
                          ELSE u.child[e][z]
    BY <1>0, <1>1, <1>3, <1>5, <2>3
  <2>6. \A z \in Node :
          w.parent[z] = IF z = x THEN temp ELSE IF z = temp THEN p
                        ELSE IF z = y THEN x ELSE u.parent[z]
    BY <1>0, <1>1, <1>3, <1>5, <2>3
  <2>7. \A z \in Node :
          w.pos[z] = IF z = x THEN d
                     ELSE IF z = temp /\ p # NIL THEN u.pos[x]
                     ELSE IF z = y THEN o ELSE u.pos[z]
    BY <1>0, <1>1, <1>3, <1>5, <2>3
  <2>8. w.color = IF p = NIL THEN [u.color EXCEPT ![temp] = "BLACK"] ELSE u.color
    BY <1>1, <1>3, <1>5, <2>3
  <2>9. Turned(u, w, d, x)
    BY <2>4, <2>5, <2>6, <2>7, Zenon DEF Turned
  <2> QED
    BY <2>8, <2>9, Zenon DEF w
<1> QED
  BY <1>4, <1>5

-----------------------------------------------------------------------------
(* The shape of a tree.  The nodes of T are at the places 1 .. n of the walk, and     *)
(* those below a node y, with it, at the places lo[y] .. hi[y].                       *)

Placed(T, n, at, lo, hi) ==
  /\ T \subseteq Node /\ n \in Nat
  /\ at \in [T -> 1 .. n] /\ lo \in [T -> 1 .. n] /\ hi \in [T -> 1 .. n]
  /\ \A y \in T : lo[y] <= at[y] /\ at[y] <= hi[y]
  /\ \A y, z \in T : at[y] = at[z] => y = z
  /\ \A i \in 1 .. n : \E y \in T : at[y] = i

Rooted(u, T, n, lo, hi) ==
  IF T = {} THEN u.root = NIL
  ELSE u.root \in T /\ u.parent[u.root] = NIL /\ lo[u.root] = 1 /\ hi[u.root] = n

\* A child stands for the places on its side of its parent; where there are none, there
\* is no child.
Filled(u, T, at, lo, hi) ==
  \A y \in T :
    /\ IF u.child["LEFT"][y] = NIL THEN lo[y] = at[y]
       ELSE /\ u.child["LEFT"][y] \in T
            /\ lo[u.child["LEFT"][y]] = lo[y] /\ hi[u.child["LEFT"][y]] = at[y] - 1
            /\ u.parent[u.child["LEFT"][y]] = y /\ u.pos[u.child["LEFT"][y]] = "LEFT"
    /\ IF u.child["RIGHT"][y] = NIL THEN hi[y] = at[y]
       ELSE /\ u.child["RIGHT"][y] \in T
            /\ lo[u.child["RIGHT"][y]] = at[y] + 1 /\ hi[u.child["RIGHT"][y]] = hi[y]
            /\ u.parent[u.child["RIGHT"][y]] = y /\ u.pos[u.child["RIGHT"][y]] = "RIGHT"

Backed(u, T) ==
  \A y \in T : y # u.root => u.parent[y] \in T /\ u.child[u.pos[y]][u.parent[y]] = y

Shaped(u, T, n, at, lo, hi) ==
  /\ Placed(T, n, at, lo, hi) /\ Rooted(u, T, n, lo, hi)
  /\ Filled(u, T, at, lo, hi) /\ Backed(u, T)

\* The intervals after a rotation to side d at x, which temp comes above.
LoTurned(lo, at, d, x, temp) ==
  IF d = "LEFT" THEN [lo EXCEPT ![temp] = lo[x]] ELSE [lo EXCEPT ![x] = at[temp] + 1]
HiTurned(hi, at, d, x, temp) ==
  IF d = "LEFT" THEN [hi EXCEPT ![x] = at[temp] - 1] ELSE [hi EXCEPT ![temp] = hi[x]]

\* What is around a node that can be rotated to the left.
LEMMA AroundLeft ==
  ASSUME NEW u \in Trees, NEW T, NEW n, NEW at, NEW lo, NEW hi, Shaped(u, T, n, at, lo, hi),
         NEW x \in T, u.child["RIGHT"][x] # NIL,
         NEW temp, temp = u.child["RIGHT"][x],
         NEW y, y = u.child["LEFT"][temp],
         NEW p, p = u.parent[x]
  PROVE  /\ temp \in T /\ temp # x /\ lo[temp] = at[x] + 1 /\ hi[temp] = hi[x]
         /\ u.parent[temp] = x /\ u.pos[temp] = "RIGHT" /\ temp # u.root
         /\ y = NIL => lo[temp] = at[temp]
         /\ y # NIL => /\ y \in T /\ y # x /\ y # temp /\ y # p
                       /\ lo[y] = lo[temp] /\ hi[y] = at[temp] - 1
                       /\ u.parent[y] = temp /\ u.pos[y] = "LEFT" /\ y # u.root
         /\ p = NIL <=> x = u.root
         /\ p # NIL => /\ p \in T /\ p # x /\ p # temp /\ u.child[u.pos[x]][p] = x
                       /\ u.pos[x] = "LEFT" => lo[x] = lo[p] /\ hi[x] = at[p] - 1
                       /\ u.pos[x] = "RIGHT" => lo[x] = at[p] + 1 /\ hi[x] = hi[p]
<1> USE DEF Shaped
<1>0. /\ T \subseteq Node
      /\ \A z \in T : at[z] \in Nat /\ lo[z] \in Nat /\ hi[z] \in Nat /\ lo[z] <= at[z] /\ at[z] <= hi[z]
  BY DEF Placed
<1>1. /\ temp \in T /\ lo[temp] = at[x] + 1 /\ hi[temp] = hi[x]
      /\ u.parent[temp] = x /\ u.pos[temp] = "RIGHT"
  BY DEF Filled
<1>2. temp # x
  BY <1>0, <1>1
<1>3. u.root \in T /\ u.parent[u.root] = NIL /\ NIL \notin T
  <2>1. T # {} /\ NIL \notin T
    BY <1>0
  <2> QED
    BY <2>1 DEF Rooted
<1>4. temp # u.root
  BY <1>1, <1>3
<1>5. y = NIL => lo[temp] = at[temp]
  BY <1>1 DEF Filled
<1>6. ASSUME y # NIL
      PROVE  /\ y \in T /\ lo[y] = lo[temp] /\ hi[y] = at[temp] - 1
             /\ u.parent[y] = temp /\ u.pos[y] = "LEFT"
  BY <1>1, <1>6 DEF Filled
<1>7. p = NIL <=> x = u.root
  BY <1>0, <1>3 DEF Backed
<1>8. ASSUME p # NIL
      PROVE  /\ p \in T /\ u.child[u.pos[x]][p] = x
             /\ u.pos[x] = "LEFT" => lo[x] = lo[p] /\ hi[x] = at[p] - 1
             /\ u.pos[x] = "RIGHT" => lo[x] = at[p] + 1 /\ hi[x] = hi[p]
  <2>1. p \in T /\ u.child[u.pos[x]][p] = x
    BY <1>7, <1>8 DEF Backed
  <2> QED
    BY <2>1, <1>3 DEF Filled
<1>9. p # NIL => u.pos[x] \in {"LEFT", "RIGHT"}
  BY <1>0, FieldTypes, Sides
<1>10. p # NIL => p # x /\ p # temp
  BY <1>0, <1>1, <1>8, <1>9
<1>11. y # NIL => y # x /\ y # temp /\ y # u.root
  BY <1>0, <1>1, <1>3, <1>6
<1>12. y # NIL => y # p
  <2> SUFFICES ASSUME y # NIL, y = p PROVE FALSE
    OBVIOUS
  <2>1. p # NIL /\ lo[y] = lo[temp] /\ hi[y] = at[temp] - 1 /\ y \in T
    BY <1>6
  <2> QED
    BY <2>1, <1>0, <1>1, <1>8, <1>9
<1> QED
  BY <1>1, <1>2, <1>4, <1>5, <1>6, <1>7, <1>8, <1>10, <1>11, <1>12

\* The rotation to the left.
LEMMA LeftShaped ==
  ASSUME NEW u \in Trees, NEW T, NEW n, NEW at, NEW lo, NEW hi, Shaped(u, T, n, at, lo, hi),
         NEW x \in T, u.child["RIGHT"][x] # NIL, NEW w, Turned(u, w, "LEFT", x),
         NEW temp, temp = u.child["RIGHT"][x],
         NEW l2, l2 = [lo EXCEPT ![temp] = lo[x]],
         NEW h2, h2 = [hi EXCEPT ![x] = at[temp] - 1]
  PROVE  Shaped(w, T, n, at, l2, h2)
<1> DEFINE y == u.child["LEFT"][temp]
           p == u.parent[x]
<1> USE DEF Shaped
<1>1. /\ temp \in T /\ temp # x /\ lo[temp] = at[x] + 1 /\ hi[temp] = hi[x]
      /\ u.parent[temp] = x /\ u.pos[temp] = "RIGHT" /\ temp # u.root
      /\ y = NIL => lo[temp] = at[temp]
      /\ y # NIL => /\ y \in T /\ y # x /\ y # temp /\ y # p
                    /\ lo[y] = lo[temp] /\ hi[y] = at[temp] - 1
                    /\ u.parent[y] = temp /\ u.pos[y] = "LEFT" /\ y # u.root
      /\ p = NIL <=> x = u.root
      /\ p # NIL => /\ p \in T /\ p # x /\ p # temp /\ u.child[u.pos[x]][p] = x
                    /\ u.pos[x] = "LEFT" => lo[x] = lo[p] /\ hi[x] = at[p] - 1
                    /\ u.pos[x] = "RIGHT" => lo[x] = at[p] + 1 /\ hi[x] = hi[p]
  BY AroundLeft
<1>2. /\ T \subseteq Node /\ NIL \notin T /\ T # {}
      /\ n \in Nat /\ lo \in [T -> 1 .. n] /\ hi \in [T -> 1 .. n] /\ at \in [T -> 1 .. n]
      /\ \A z \in T : lo[z] <= at[z] /\ at[z] <= hi[z]
  BY DEF Placed
<1>3. /\ w.root = IF p = NIL THEN temp ELSE u.root
      /\ \A z \in Node :
          w.child["LEFT"][z] = IF z = temp THEN x
                               ELSE IF z = p /\ u.pos[x] = "LEFT" THEN temp
                               ELSE u.child["LEFT"][z]
      /\ \A z \in Node :
          w.child["RIGHT"][z] = IF z = x THEN y
                                ELSE IF z = p /\ u.pos[x] = "RIGHT" THEN temp
                                ELSE u.child["RIGHT"][z]
      /\ \A z \in Node :
          w.parent[z] = IF z = x THEN temp ELSE IF z = temp THEN p
                        ELSE IF z = y THEN x ELSE u.parent[z]
      /\ \A z \in Node :
          w.pos[z] = IF z = x THEN "LEFT"
                     ELSE IF z = temp /\ p # NIL THEN u.pos[x]
                     ELSE IF z = y THEN "RIGHT" ELSE u.pos[z]
  BY Sides DEF Turned
<1>4. /\ \A z \in T : at[z] \in Nat /\ lo[z] \in Nat /\ hi[z] \in Nat
      /\ \A z \in T : l2[z] = IF z = temp THEN lo[x] ELSE lo[z]
      /\ \A z \in T : h2[z] = IF z = x THEN at[temp] - 1 ELSE hi[z]
  BY <1>1, <1>2
<1>5. u.root \in T /\ u.parent[u.root] = NIL /\ lo[u.root] = 1 /\ hi[u.root] = n
  BY <1>2 DEF Rooted
<1>6. \A z \in T : u.pos[z] \in {"LEFT", "RIGHT"}
  BY <1>2, FieldTypes, Sides
<1> HIDE DEF y, p
<1>7. Placed(T, n, at, l2, h2)
  <2>1. at[temp] - 1 \in 1 .. n /\ lo[x] \in 1 .. n
    BY <1>1, <1>2, <1>4
  <2>2. l2 \in [T -> 1 .. n] /\ h2 \in [T -> 1 .. n]
    BY <1>2, <2>1
  <2>3. \A z \in T : l2[z] <= at[z] /\ at[z] <= h2[z]
    BY <1>1, <1>2, <1>4
  <2> QED
    BY <2>2, <2>3 DEF Placed
<1>8. Rooted(w, T, n, l2, h2)
  BY <1>1, <1>2, <1>3, <1>4, <1>5 DEF Rooted
<1>9. Filled(w, T, at, l2, h2)
  <2> SUFFICES ASSUME NEW z \in T
               PROVE  /\ IF w.child["LEFT"][z] = NIL THEN l2[z] = at[z]
                         ELSE /\ w.child["LEFT"][z] \in T
                              /\ l2[w.child["LEFT"][z]] = l2[z] /\ h2[w.child["LEFT"][z]] = at[z] - 1
                              /\ w.parent[w.child["LEFT"][z]] = z /\ w.pos[w.child["LEFT"][z]] = "LEFT"
                      /\ IF w.child["RIGHT"][z] = NIL THEN h2[z] = at[z]
                         ELSE /\ w.child["RIGHT"][z] \in T
                              /\ l2[w.child["RIGHT"][z]] = at[z] + 1 /\ h2[w.child["RIGHT"][z]] = h2[z]
                              /\ w.parent[w.child["RIGHT"][z]] = z /\ w.pos[w.child["RIGHT"][z]] = "RIGHT"
    BY DEF Filled
  <2> DEFINE a == u.child["LEFT"][z]
             b == u.child["RIGHT"][z]
  <2>1. /\ IF a = NIL THEN lo[z] = at[z]
           ELSE a \in T /\ lo[a] = lo[z] /\ hi[a] = at[z] - 1 /\ u.parent[a] = z /\ u.pos[a] = "LEFT"
        /\ IF b = NIL THEN hi[z] = at[z]
           ELSE b \in T /\ lo[b] = at[z] + 1 /\ hi[b] = hi[z] /\ u.parent[b] = z /\ u.pos[b] = "RIGHT"
    BY DEF Filled
  <2>2. z = temp => a = y
    BY DEF y
  <2>3. z = x => b = temp
    OBVIOUS
  <2>4. z = p /\ p # NIL => IF u.pos[x] = "LEFT" THEN a = x ELSE b = x
    BY <1>1, <1>2, <1>6
  <2>5. x \in Node /\ temp \in Node /\ z \in Node /\ (y # NIL => y \in Node) /\ u.parent[x] = p
        /\ (a # NIL => a \in Node) /\ (b # NIL => b \in Node)
    BY <1>1, <1>2, <2>1 DEF p
  <2> HIDE DEF a, b
  <2>6. CASE z = x
    BY <2>6, <1>1, <1>2, <1>3, <1>4, <2>1, <2>3, <2>5 DEF a, b
  <2>7. CASE z = temp
    <3>1. w.child["LEFT"][z] = x /\ w.child["RIGHT"][z] = b
      BY <2>7, <1>1, <1>2, <1>3, <2>5 DEF b
    <3>2. x \in T /\ x # NIL /\ l2[x] = l2[z] /\ h2[x] = at[z] - 1 /\ w.parent[x] = z /\ w.pos[x] = "LEFT"
      BY <2>7, <1>1, <1>2, <1>3, <1>4, <2>5
    <3>3. b # NIL => b # x /\ b # temp /\ b # y
      BY <2>7, <1>1, <2>1, <2>5
    <3>4. IF b = NIL THEN h2[z] = at[z]
          ELSE b \in T /\ l2[b] = at[z] + 1 /\ h2[b] = h2[z] /\ w.parent[b] = z /\ w.pos[b] = "RIGHT"
      BY <2>7, <3>3, <1>1, <1>3, <1>4, <2>1, <2>5
    <3> QED
      BY <3>1, <3>2, <3>4
  <2>8. CASE z = p /\ p # NIL
    BY <2>8, <1>1, <1>2, <1>3, <1>4, <1>6, <2>1, <2>4, <2>5 DEF a, b
  <2>9. CASE z # x /\ z # temp /\ z # p
    BY <2>9, <1>1, <1>2, <1>3, <1>4, <2>1, <2>5 DEF a, b
  <2>10. z = p => p # NIL
    BY <1>2
  <2> QED
    BY <2>6, <2>7, <2>8, <2>9, <2>10, Zenon
<1>10. Backed(w, T)
  <2> SUFFICES ASSUME NEW z \in T, z # w.root
               PROVE  w.parent[z] \in T /\ w.child[w.pos[z]][w.parent[z]] = z
    BY DEF Backed
  <2>1. z # u.root => u.parent[z] \in T /\ u.child[u.pos[z]][u.parent[z]] = z
    BY DEF Backed
  <2>2. u.parent[x] = p /\ u.child["LEFT"][temp] = y
    BY DEF p, y
  <2>3. CASE z = x
    BY <2>3, <1>1, <1>2, <1>3
  <2>4. CASE z = temp
    <3>1. p # NIL /\ temp \in Node /\ w.parent[temp] = p /\ w.pos[temp] = u.pos[x]
      BY <2>4, <1>1, <1>2, <1>3
    <3>2. p \in T /\ p \in Node /\ p # x /\ p # temp /\ u.pos[x] \in {"LEFT", "RIGHT"}
      BY <3>1, <1>1, <1>2, <1>6
    <3>3. w.child[u.pos[x]][p] = temp
      BY <3>2, <1>3
    <3> QED
      BY <2>4, <3>1, <3>2, <3>3
  <2>5. CASE z = y
    BY <2>5, <1>1, <1>2, <1>3
  <2>6. CASE z # x /\ z # temp /\ z # y
    <3>1. z # u.root
      BY <2>6, <1>1, <1>3
    <3>2. w.parent[z] = u.parent[z] /\ w.pos[z] = u.pos[z]
      BY <2>6, <1>2, <1>3
    <3>3. u.parent[z] \in T /\ u.child[u.pos[z]][u.parent[z]] = z
      BY <2>1, <3>1
    <3> QED
      BY <2>2, <2>6, <1>1, <1>2, <1>3, <1>6, <3>2, <3>3
  <2> QED
    BY <2>3, <2>4, <2>5, <2>6
<1> QED
  BY <1>7, <1>8, <1>9, <1>10

\* What is around a node that can be rotated to the right.
LEMMA AroundRight ==
  ASSUME NEW u \in Trees, NEW T, NEW n, NEW at, NEW lo, NEW hi, Shaped(u, T, n, at, lo, hi),
         NEW x \in T, u.child["LEFT"][x] # NIL,
         NEW temp, temp = u.child["LEFT"][x],
         NEW y, y = u.child["RIGHT"][temp],
         NEW p, p = u.parent[x]
  PROVE  /\ temp \in T /\ temp # x /\ hi[temp] = at[x] - 1 /\ lo[temp] = lo[x]
         /\ u.parent[temp] = x /\ u.pos[temp] = "LEFT" /\ temp # u.root
         /\ y = NIL => hi[temp] = at[temp]
         /\ y # NIL => /\ y \in T /\ y # x /\ y # temp /\ y # p
                       /\ hi[y] = hi[temp] /\ lo[y] = at[temp] + 1
                       /\ u.parent[y] = temp /\ u.pos[y] = "RIGHT" /\ y # u.root
         /\ p = NIL <=> x = u.root
         /\ p # NIL => /\ p \in T /\ p # x /\ p # temp /\ u.child[u.pos[x]][p] = x
                       /\ u.pos[x] = "RIGHT" => hi[x] = hi[p] /\ lo[x] = at[p] + 1
                       /\ u.pos[x] = "LEFT" => hi[x] = at[p] - 1 /\ lo[x] = lo[p]
<1> USE DEF Shaped
<1>0. /\ T \subseteq Node
      /\ \A z \in T : at[z] \in Nat /\ hi[z] \in Nat /\ lo[z] \in Nat /\ lo[z] <= at[z] /\ at[z] <= hi[z]
  BY DEF Placed
<1>1. /\ temp \in T /\ hi[temp] = at[x] - 1 /\ lo[temp] = lo[x]
      /\ u.parent[temp] = x /\ u.pos[temp] = "LEFT"
  BY DEF Filled
<1>2. temp # x
  BY <1>0, <1>1
<1>3. u.root \in T /\ u.parent[u.root] = NIL /\ NIL \notin T
  <2>1. T # {} /\ NIL \notin T
    BY <1>0
  <2> QED
    BY <2>1 DEF Rooted
<1>4. temp # u.root
  BY <1>1, <1>3
<1>5. y = NIL => hi[temp] = at[temp]
  BY <1>1 DEF Filled
<1>6. ASSUME y # NIL
      PROVE  /\ y \in T /\ hi[y] = hi[temp] /\ lo[y] = at[temp] + 1
             /\ u.parent[y] = temp /\ u.pos[y] = "RIGHT"
  BY <1>1, <1>6 DEF Filled
<1>7. p = NIL <=> x = u.root
  BY <1>0, <1>3 DEF Backed
<1>8. ASSUME p # NIL
      PROVE  /\ p \in T /\ u.child[u.pos[x]][p] = x
             /\ u.pos[x] = "RIGHT" => hi[x] = hi[p] /\ lo[x] = at[p] + 1
             /\ u.pos[x] = "LEFT" => hi[x] = at[p] - 1 /\ lo[x] = lo[p]
  <2>1. p \in T /\ u.child[u.pos[x]][p] = x
    BY <1>7, <1>8 DEF Backed
  <2> QED
    BY <2>1, <1>3 DEF Filled
<1>9. p # NIL => u.pos[x] \in {"RIGHT", "LEFT"}
  BY <1>0, FieldTypes, Sides
<1>10. p # NIL => p # x /\ p # temp
  BY <1>0, <1>1, <1>8, <1>9
<1>11. y # NIL => y # x /\ y # temp /\ y # u.root
  BY <1>0, <1>1, <1>3, <1>6
<1>12. y # NIL => y # p
  <2> SUFFICES ASSUME y # NIL, y = p PROVE FALSE
    OBVIOUS
  <2>1. p # NIL /\ hi[y] = hi[temp] /\ lo[y] = at[temp] + 1 /\ y \in T
    BY <1>6
  <2> QED
    BY <2>1, <1>0, <1>1, <1>8, <1>9
<1> QED
  BY <1>1, <1>2, <1>4, <1>5, <1>6, <1>7, <1>8, <1>10, <1>11, <1>12

\* The rotation to the right.
LEMMA RightShaped ==
  ASSUME NEW u \in Trees, NEW T, NEW n, NEW at, NEW lo, NEW hi, Shaped(u, T, n, at, lo, hi),
         NEW x \in T, u.child["LEFT"][x] # NIL, NEW w, Turned(u, w, "RIGHT", x),
         NEW temp, temp = u.child["LEFT"][x],
         NEW h2, h2 = [hi EXCEPT ![temp] = hi[x]],
         NEW l2, l2 = [lo EXCEPT ![x] = at[temp] + 1]
  PROVE  Shaped(w, T, n, at, l2, h2)
<1> DEFINE y == u.child["RIGHT"][temp]
           p == u.parent[x]
<1> USE DEF Shaped
<1>1. /\ temp \in T /\ temp # x /\ hi[temp] = at[x] - 1 /\ lo[temp] = lo[x]
      /\ u.parent[temp] = x /\ u.pos[temp] = "LEFT" /\ temp # u.root
      /\ y = NIL => hi[temp] = at[temp]
      /\ y # NIL => /\ y \in T /\ y # x /\ y # temp /\ y # p
                    /\ hi[y] = hi[temp] /\ lo[y] = at[temp] + 1
                    /\ u.parent[y] = temp /\ u.pos[y] = "RIGHT" /\ y # u.root
      /\ p = NIL <=> x = u.root
      /\ p # NIL => /\ p \in T /\ p # x /\ p # temp /\ u.child[u.pos[x]][p] = x
                    /\ u.pos[x] = "RIGHT" => hi[x] = hi[p] /\ lo[x] = at[p] + 1
                    /\ u.pos[x] = "LEFT" => hi[x] = at[p] - 1 /\ lo[x] = lo[p]
  BY AroundRight
<1>2. /\ T \subseteq Node /\ NIL \notin T /\ T # {}
      /\ n \in Nat /\ hi \in [T -> 1 .. n] /\ lo \in [T -> 1 .. n] /\ at \in [T -> 1 .. n]
      /\ \A z \in T : lo[z] <= at[z] /\ at[z] <= hi[z]
  BY DEF Placed
<1>3. /\ w.root = IF p = NIL THEN temp ELSE u.root
      /\ \A z \in Node :
          w.child["RIGHT"][z] = IF z = temp THEN x
                               ELSE IF z = p /\ u.pos[x] = "RIGHT" THEN temp
                               ELSE u.child["RIGHT"][z]
      /\ \A z \in Node :
          w.child["LEFT"][z] = IF z = x THEN y
                                ELSE IF z = p /\ u.pos[x] = "LEFT" THEN temp
                                ELSE u.child["LEFT"][z]
      /\ \A z \in Node :
          w.parent[z] = IF z = x THEN temp ELSE IF z = temp THEN p
                        ELSE IF z = y THEN x ELSE u.parent[z]
      /\ \A z \in Node :
          w.pos[z] = IF z = x THEN "RIGHT"
                     ELSE IF z = temp /\ p # NIL THEN u.pos[x]
                     ELSE IF z = y THEN "LEFT" ELSE u.pos[z]
  BY Sides DEF Turned
<1>4. /\ \A z \in T : at[z] \in Nat /\ hi[z] \in Nat /\ lo[z] \in Nat
      /\ \A z \in T : h2[z] = IF z = temp THEN hi[x] ELSE hi[z]
      /\ \A z \in T : l2[z] = IF z = x THEN at[temp] + 1 ELSE lo[z]
  BY <1>1, <1>2
<1>5. u.root \in T /\ u.parent[u.root] = NIL /\ lo[u.root] = 1 /\ hi[u.root] = n
  BY <1>2 DEF Rooted
<1>6. \A z \in T : u.pos[z] \in {"RIGHT", "LEFT"}
  BY <1>2, FieldTypes, Sides
<1> HIDE DEF y, p
<1>7. Placed(T, n, at, l2, h2)
  <2>1. at[temp] + 1 \in 1 .. n /\ hi[x] \in 1 .. n
    BY <1>1, <1>2, <1>4
  <2>2. h2 \in [T -> 1 .. n] /\ l2 \in [T -> 1 .. n]
    BY <1>2, <2>1
  <2>3. \A z \in T : l2[z] <= at[z] /\ at[z] <= h2[z]
    BY <1>1, <1>2, <1>4
  <2> QED
    BY <2>2, <2>3 DEF Placed
<1>8. Rooted(w, T, n, l2, h2)
  BY <1>1, <1>2, <1>3, <1>4, <1>5 DEF Rooted
<1>9. Filled(w, T, at, l2, h2)
  <2> SUFFICES ASSUME NEW z \in T
               PROVE  /\ IF w.child["RIGHT"][z] = NIL THEN h2[z] = at[z]
                         ELSE /\ w.child["RIGHT"][z] \in T
                              /\ h2[w.child["RIGHT"][z]] = h2[z] /\ l2[w.child["RIGHT"][z]] = at[z] + 1
                              /\ w.parent[w.child["RIGHT"][z]] = z /\ w.pos[w.child["RIGHT"][z]] = "RIGHT"
                      /\ IF w.child["LEFT"][z] = NIL THEN l2[z] = at[z]
                         ELSE /\ w.child["LEFT"][z] \in T
                              /\ h2[w.child["LEFT"][z]] = at[z] - 1 /\ l2[w.child["LEFT"][z]] = l2[z]
                              /\ w.parent[w.child["LEFT"][z]] = z /\ w.pos[w.child["LEFT"][z]] = "LEFT"
    BY DEF Filled
  <2> DEFINE a == u.child["RIGHT"][z]
             b == u.child["LEFT"][z]
  <2>1. /\ IF a = NIL THEN hi[z] = at[z]
           ELSE a \in T /\ hi[a] = hi[z] /\ lo[a] = at[z] + 1 /\ u.parent[a] = z /\ u.pos[a] = "RIGHT"
        /\ IF b = NIL THEN lo[z] = at[z]
           ELSE b \in T /\ hi[b] = at[z] - 1 /\ lo[b] = lo[z] /\ u.parent[b] = z /\ u.pos[b] = "LEFT"
    BY DEF Filled
  <2>2. z = temp => a = y
    BY DEF y
  <2>3. z = x => b = temp
    OBVIOUS
  <2>4. z = p /\ p # NIL => IF u.pos[x] = "RIGHT" THEN a = x ELSE b = x
    BY <1>1, <1>2, <1>6
  <2>5. x \in Node /\ temp \in Node /\ z \in Node /\ (y # NIL => y \in Node) /\ u.parent[x] = p
        /\ (a # NIL => a \in Node) /\ (b # NIL => b \in Node)
    BY <1>1, <1>2, <2>1 DEF p
  <2> HIDE DEF a, b
  <2>6. CASE z = x
    BY <2>6, <1>1, <1>2, <1>3, <1>4, <2>1, <2>3, <2>5 DEF a, b
  <2>7. CASE z = temp
    <3>1. w.child["RIGHT"][z] = x /\ w.child["LEFT"][z] = b
      BY <2>7, <1>1, <1>2, <1>3, <2>5 DEF b
    <3>2. x \in T /\ x # NIL /\ h2[x] = h2[z] /\ l2[x] = at[z] + 1 /\ w.parent[x] = z /\ w.pos[x] = "RIGHT"
      BY <2>7, <1>1, <1>2, <1>3, <1>4, <2>5
    <3>3. b # NIL => b # x /\ b # temp /\ b # y
      BY <2>7, <1>1, <2>1, <2>5
    <3>4. IF b = NIL THEN l2[z] = at[z]
          ELSE b \in T /\ h2[b] = at[z] - 1 /\ l2[b] = l2[z] /\ w.parent[b] = z /\ w.pos[b] = "LEFT"
      BY <2>7, <3>3, <1>1, <1>3, <1>4, <2>1, <2>5
    <3> QED
      BY <3>1, <3>2, <3>4
  <2>8. CASE z = p /\ p # NIL
    BY <2>8, <1>1, <1>2, <1>3, <1>4, <1>6, <2>1, <2>4, <2>5 DEF a, b
  <2>9. CASE z # x /\ z # temp /\ z # p
    BY <2>9, <1>1, <1>2, <1>3, <1>4, <2>1, <2>5 DEF a, b
  <2>10. z = p => p # NIL
    BY <1>2
  <2> QED
    BY <2>6, <2>7, <2>8, <2>9, <2>10, Zenon
<1>10. Backed(w, T)
  <2> SUFFICES ASSUME NEW z \in T, z # w.root
               PROVE  w.parent[z] \in T /\ w.child[w.pos[z]][w.parent[z]] = z
    BY DEF Backed
  <2>1. z # u.root => u.parent[z] \in T /\ u.child[u.pos[z]][u.parent[z]] = z
    BY DEF Backed
  <2>2. u.parent[x] = p /\ u.child["RIGHT"][temp] = y
    BY DEF p, y
  <2>3. CASE z = x
    BY <2>3, <1>1, <1>2, <1>3
  <2>4. CASE z = temp
    <3>1. p # NIL /\ temp \in Node /\ w.parent[temp] = p /\ w.pos[temp] = u.pos[x]
      BY <2>4, <1>1, <1>2, <1>3
    <3>2. p \in T /\ p \in Node /\ p # x /\ p # temp /\ u.pos[x] \in {"LEFT", "RIGHT"}
      BY <3>1, <1>1, <1>2, <1>6
    <3>3. w.child[u.pos[x]][p] = temp
      BY <3>2, <1>3
    <3> QED
      BY <2>4, <3>1, <3>2, <3>3
  <2>5. CASE z = y
    BY <2>5, <1>1, <1>2, <1>3
  <2>6. CASE z # x /\ z # temp /\ z # y
    <3>1. z # u.root
      BY <2>6, <1>1, <1>3
    <3>2. w.parent[z] = u.parent[z] /\ w.pos[z] = u.pos[z]
      BY <2>6, <1>2, <1>3
    <3>3. u.parent[z] \in T /\ u.child[u.pos[z]][u.parent[z]] = z
      BY <2>1, <3>1
    <3> QED
      BY <2>2, <2>6, <1>1, <1>2, <1>3, <1>6, <3>2, <3>3
  <2> QED
    BY <2>3, <2>4, <2>5, <2>6
<1> QED
  BY <1>7, <1>8, <1>9, <1>10

-----------------------------------------------------------------------------
(* Rotations of either side.                                                          *)

\* Around the node x that is rotated to side d.
LEMMA Around ==
  ASSUME NEW u \in Trees, NEW T, NEW n, NEW at, NEW lo, NEW hi, Shaped(u, T, n, at, lo, hi),
         NEW d \in Side, NEW x \in T, u.child[Other(d)][x] # NIL,
         NEW temp, temp = u.child[Other(d)][x],
         NEW y, y = u.child[d][temp],
         NEW p, p = u.parent[x]
  PROVE  /\ temp \in T /\ temp # x /\ temp # u.root
         /\ u.parent[temp] = x /\ u.pos[temp] = Other(d)
         /\ y # NIL => /\ y \in T /\ y # x /\ y # temp /\ y # p
                       /\ u.parent[y] = temp /\ u.pos[y] = d
         /\ p = NIL <=> x = u.root
         /\ p # NIL => p \in T /\ p # x /\ p # temp /\ u.child[u.pos[x]][p] = x
<1>1. CASE d = "LEFT"
  BY <1>1, AroundLeft, Sides
<1>2. CASE d = "RIGHT"
  BY <1>2, AroundRight, Sides
<1> QED
  BY <1>1, <1>2, Sides

\* A rotation of either side keeps the shape.
LEMMA TurnedShaped ==
  ASSUME NEW u \in Trees, NEW T, NEW n, NEW at, NEW lo, NEW hi, Shaped(u, T, n, at, lo, hi),
         NEW d \in Side, NEW x \in T, u.child[Other(d)][x] # NIL, NEW w, Turned(u, w, d, x),
         NEW temp, temp = u.child[Other(d)][x]
  PROVE  Shaped(w, T, n, at, LoTurned(lo, at, d, x, temp), HiTurned(hi, at, d, x, temp))
<1>1. CASE d = "LEFT"
  BY <1>1, LeftShaped, Sides DEF LoTurned, HiTurned
<1>2. CASE d = "RIGHT"
  BY <1>2, RightShaped, Sides DEF LoTurned, HiTurned
<1> QED
  BY <1>1, <1>2, Sides

\* Rotate at a node of a tree, field by field.
LEMMA RotateShaped ==
  ASSUME NEW u \in Trees, NEW T, NEW n, NEW at, NEW lo, NEW hi, Shaped(u, T, n, at, lo, hi),
         NEW d \in Side, NEW x \in T, NEW temp, temp = u.child[Other(d)][x], temp # NIL
  PROVE  /\ Turned(u, Rotate(u, d, x), d, x)
         /\ Rotate(u, d, x).color = IF u.parent[x] = NIL THEN [u.color EXCEPT ![temp] = "BLACK"]
                                    ELSE u.color
<1> DEFINE y == u.child[d][temp]
           p == u.parent[x]
<1>1. T \subseteq Node /\ NIL \notin T
  BY DEF Shaped, Placed
<1>2. /\ temp \in T /\ temp # x
      /\ y # NIL => y # x /\ y # temp
      /\ p # NIL => p # x /\ p # temp
  BY Around
<1>3. /\ x \in Node /\ u.child[Other(d)][x] \in Node /\ u.child[Other(d)][x] # x
      /\ u.parent[x] # x /\ u.parent[x] # u.child[Other(d)][x]
      /\ u.child[d][u.child[Other(d)][x]] \notin {x, u.child[Other(d)][x]}
  BY <1>1, <1>2
<1> HIDE DEF y, p
<1> QED
  BY <1>3, RotateTurns

\* Where the children of a node are.
LEMMA Kids ==
  ASSUME NEW u, NEW T, NEW n, NEW at, NEW lo, NEW hi, Shaped(u, T, n, at, lo, hi),
         NEW z \in T, NEW e \in Side
  PROVE  \/ u.child[e][z] = NIL
         \/ /\ u.child[e][z] \in T /\ u.parent[u.child[e][z]] = z /\ u.pos[u.child[e][z]] = e
            /\ u.child[e][z] # z
<1>1. \/ u.child[e][z] = NIL
      \/ u.child[e][z] \in T /\ u.parent[u.child[e][z]] = z /\ u.pos[u.child[e][z]] = e
  BY Sides DEF Shaped, Filled
<1>2. u.child[e][z] = NIL \/ u.child[e][z] # z
  <2>1. /\ \A y \in T : at[y] \in Nat /\ lo[y] <= at[y] /\ at[y] <= hi[y] /\ lo[y] \in Nat /\ hi[y] \in Nat
    BY DEF Shaped, Placed
  <2>2. \/ u.child[e][z] = NIL
        \/ u.child[e][z] \in T /\ (hi[u.child[e][z]] = at[z] - 1 \/ lo[u.child[e][z]] = at[z] + 1)
    BY Sides DEF Shaped, Filled
  <2> QED
    BY <2>1, <2>2
<1> QED
  BY <1>1, <1>2

\* u and v differ in colors only.
SameLinks(u, v) ==
  /\ v \in Trees /\ v.root = u.root /\ v.crashed = u.crashed /\ v.key = u.key
  /\ v.child = u.child /\ v.parent = u.parent /\ v.pos = u.pos

\* The shape is one of links: colors have no part in it.
LEMMA SameLinksShaped ==
  ASSUME NEW u, NEW v, SameLinks(u, v), NEW T, NEW n, NEW at, NEW lo, NEW hi,
         Shaped(u, T, n, at, lo, hi)
  PROVE  Shaped(v, T, n, at, lo, hi)
BY DEF SameLinks, Shaped, Rooted, Filled, Backed

\* Colors painted before a rotation change none of its links.
LEMMA SameLinksTurned ==
  ASSUME NEW u, NEW v, SameLinks(u, v), NEW d, NEW x, NEW w, Turned(v, w, d, x)
  PROVE  Turned(u, w, d, x)
BY DEF SameLinks, Turned

\* Colors painted after a rotation change none of its links.
LEMMA TurnedSameLinks ==
  ASSUME NEW u, NEW v, NEW d, NEW x, Turned(u, v, d, x), NEW w, SameLinks(v, w)
  PROVE  Turned(u, w, d, x)
BY DEF SameLinks, Turned

Weight(u, gone, c) == IF c = NIL \/ c = gone \/ u.color[c] = "RED" THEN 0 ELSE 1

Balanced(u, T, b, gone, short) ==
  /\ b \in [T \cup {NIL} -> Nat] /\ b[NIL] = 0
  /\ \A z \in T, e \in Side :
       b[z] = b[u.child[e][z]] + Weight(u, gone, u.child[e][z])
              + (IF u.child[e][z] # NIL /\ u.child[e][z] = short THEN 1 ELSE 0)

\* Only x may be red below a red parent.
RedsApart(u, T, x) ==
  \A z \in T, e \in Side : IsRed(u, z) /\ IsRed(u, u.child[e][z]) => u.child[e][z] = x

\* The colors after a rotation to side d at x that lets temp take the color of x.
Repainted(u, w, T, x, temp) ==
  \A z \in T : w.color[z] = IF z = temp THEN u.color[x] ELSE IF z = x THEN "RED" ELSE u.color[z]

\* A red node that comes above its parent and takes its color keeps the balance.
LEMMA TurnedBalanced ==
  ASSUME NEW u \in Trees, NEW T, NEW n, NEW at, NEW lo, NEW hi, Shaped(u, T, n, at, lo, hi),
         NEW d \in Side, NEW x \in T, u.child[Other(d)][x] # NIL, NEW w, Turned(u, w, d, x),
         NEW temp, temp = u.child[Other(d)][x], u.color[temp] = "RED",
         Repainted(u, w, T, x, temp),
         NEW b, NEW gone, NEW short, Balanced(u, T, b, gone, short),
         x \notin {gone, short}, temp \notin {gone, short}
  PROVE  Balanced(w, T, b, gone, short)
<1> DEFINE y == u.child[d][temp]
           p == u.parent[x]
           o == Other(d)
           Cnt(c) == b[c] + Weight(u, gone, c) + (IF c # NIL /\ c = short THEN 1 ELSE 0)
           NewCnt(c) == b[c] + Weight(w, gone, c) + (IF c # NIL /\ c = short THEN 1 ELSE 0)
<1>1. /\ temp \in T /\ temp # x /\ temp # u.root
      /\ u.parent[temp] = x /\ u.pos[temp] = o
      /\ y # NIL => y \in T /\ y # x /\ y # temp /\ y # p /\ u.parent[y] = temp /\ u.pos[y] = d
      /\ p = NIL <=> x = u.root
      /\ p # NIL => p \in T /\ p # x /\ p # temp /\ u.child[u.pos[x]][p] = x
  BY Around
<1>2. /\ T \subseteq Node /\ NIL \notin T /\ o \in Side /\ o # d /\ \A e \in Side : e = d \/ e = o
  BY Sides DEF Shaped, Placed
<1>3. \A e \in Side, z \in T :
        w.child[e][z] = IF z = x /\ e = o THEN y
                        ELSE IF z = temp /\ e = d THEN x
                        ELSE IF z = p /\ e = u.pos[x] THEN temp
                        ELSE u.child[e][z]
  BY <1>2 DEF Turned
<1>4. \A e \in Side, z \in T : b[z] = Cnt(u.child[e][z])
  BY DEF Balanced
<1>5. b \in [T \cup {NIL} -> Nat] /\ b[NIL] = 0
  BY DEF Balanced
<1>6. \A z \in T, e \in Side : u.child[e][z] = NIL \/ (u.child[e][z] \in T /\ u.parent[u.child[e][z]] = z
                                                     /\ u.pos[u.child[e][z]] = e)
  BY Sides DEF Shaped, Filled
<1>7. \A c \in T \cup {NIL} : c # x /\ c # temp => NewCnt(c) = Cnt(c)
  BY <1>1, <1>2 DEF Repainted, Weight
<1>8. NewCnt(x) = b[x] /\ NewCnt(temp) = b[temp] + Weight(u, gone, x) /\ Cnt(temp) = b[temp] /\ Cnt(x) = b[x] + Weight(u, gone, x)
  BY <1>1, <1>2, <1>5 DEF Repainted, Weight
<1> HIDE DEF Cnt, NewCnt
<1>9. b[x] = b[temp]
  BY <1>2, <1>4, <1>8
<1> HIDE DEF y, p, o
<1>10. ASSUME NEW z \in T, NEW e \in Side
       PROVE  b[z] = NewCnt(w.child[e][z])
  <2>1. CASE z = x /\ e = o
    <3>1. w.child[e][z] = y
      BY <1>3, <2>1
    <3>2. NewCnt(y) = Cnt(y)
      BY <1>1, <1>2, <1>7
    <3> QED
      BY <3>1, <3>2, <2>1, <1>1, <1>4, <1>9 DEF y
  <2>2. CASE z = temp /\ e = d
    BY <2>2, <1>1, <1>3, <1>8, <1>9
  <2>3. CASE z = p /\ e = u.pos[x]
    <3>1. w.child[e][z] = temp
      BY <1>1, <1>2, <1>3, <2>3
    <3>2. u.child[e][z] = x
      BY <2>3, <1>1, <1>2
    <3> QED
      BY <3>1, <3>2, <1>4, <1>8, <1>9
  <2>4. CASE ~(z = x /\ e = o) /\ ~(z = temp /\ e = d) /\ ~(z = p /\ e = u.pos[x])
    <3>1. w.child[e][z] = u.child[e][z]
      BY <1>3, <2>4
    <3>2. u.child[e][z] # x /\ u.child[e][z] # temp
      BY <1>1, <1>2, <1>6, <2>4 DEF p
    <3> QED
      BY <3>1, <3>2, <1>4, <1>6, <1>7
  <2> QED
    BY <2>1, <2>2, <2>3, <2>4
<1> QED
  BY <1>5, <1>10 DEF Balanced, NewCnt

\* The child of z on every side after the rotation, and whose child each node was.
LEMMA TurnedChildren ==
  ASSUME NEW u \in Trees, NEW T, NEW n, NEW at, NEW lo, NEW hi, Shaped(u, T, n, at, lo, hi),
         NEW d \in Side, NEW x \in T, u.child[Other(d)][x] # NIL, NEW w, Turned(u, w, d, x),
         NEW temp, temp = u.child[Other(d)][x]
  PROVE  /\ u.child[d][x] \notin {x, temp}
         /\ \A e \in Side : u.child[e][temp] \notin {x, temp}
         /\ w.child[Other(d)][x] = u.child[d][temp] /\ w.child[d][x] = u.child[d][x]
         /\ w.child[d][temp] = x /\ w.child[Other(d)][temp] = u.child[Other(d)][temp]
         /\ \A z \in T, e \in Side : z # x /\ z # temp =>
              IF u.child[e][z] = x THEN w.child[e][z] = temp
              ELSE w.child[e][z] = u.child[e][z] /\ u.child[e][z] # temp
<1> DEFINE y == u.child[d][temp]
           p == u.parent[x]
           o == Other(d)
<1>1. /\ temp \in T /\ temp # x /\ temp # u.root
      /\ u.parent[temp] = x /\ u.pos[temp] = o
      /\ y # NIL => y \in T /\ y # x /\ y # temp /\ y # p /\ u.parent[y] = temp /\ u.pos[y] = d
      /\ p = NIL <=> x = u.root
      /\ p # NIL => p \in T /\ p # x /\ p # temp /\ u.child[u.pos[x]][p] = x
  BY Around
<1>2. /\ T \subseteq Node /\ NIL \notin T /\ o \in Side /\ o # d /\ \A e \in Side : e = d \/ e = o
  BY Sides DEF Shaped, Placed
<1>3. \A e \in Side, z \in T :
        w.child[e][z] = IF z = x /\ e = o THEN y
                        ELSE IF z = temp /\ e = d THEN x
                        ELSE IF z = p /\ e = u.pos[x] THEN temp
                        ELSE u.child[e][z]
  BY <1>2 DEF Turned
<1>4. \A z \in T, e \in Side : u.child[e][z] = NIL \/ (u.child[e][z] \in T /\ u.parent[u.child[e][z]] = z
                                                     /\ u.pos[u.child[e][z]] = e)
  BY Sides DEF Shaped, Filled
<1>5. \A z \in T, e \in Side : z # x /\ z # temp =>
              IF u.child[e][z] = x THEN w.child[e][z] = temp
              ELSE w.child[e][z] = u.child[e][z] /\ u.child[e][z] # temp
  BY <1>1, <1>2, <1>3, <1>4
<1>6. u.child[d][x] \notin {x, temp} /\ \A e \in Side : u.child[e][temp] \notin {x, temp}
  BY <1>1, <1>2, <1>4
<1> QED
  BY <1>1, <1>2, <1>3, <1>5, <1>6

\* A red node that comes above a black one leaves no red node below a red one, if it
\* left none but below itself.
LEMMA TurnedApart ==
  ASSUME NEW u \in Trees, NEW T, NEW n, NEW at, NEW lo, NEW hi, Shaped(u, T, n, at, lo, hi),
         NEW d \in Side, NEW x \in T, u.child[Other(d)][x] # NIL, NEW w, Turned(u, w, d, x),
         NEW temp, temp = u.child[Other(d)][x],
         Repainted(u, w, T, x, temp), u.color[x] = "BLACK",
         ~IsRed(u, u.child[d][x]), ~IsRed(u, u.child[d][temp]),
         RedsApart(u, T, u.child[Other(d)][temp])
  PROVE  RedsApart(w, T, NIL)
<1> DEFINE o == Other(d)
<1>1. /\ u.child[d][x] \notin {x, temp} /\ \A e \in Side : u.child[e][temp] \notin {x, temp}
      /\ w.child[o][x] = u.child[d][temp] /\ w.child[d][x] = u.child[d][x]
      /\ w.child[d][temp] = x /\ w.child[o][temp] = u.child[o][temp]
      /\ \A z \in T, e \in Side : z # x /\ z # temp =>
           IF u.child[e][z] = x THEN w.child[e][z] = temp
           ELSE w.child[e][z] = u.child[e][z] /\ u.child[e][z] # temp
  BY TurnedChildren
<1>2. temp \in T /\ temp # x
  BY Around
<1>3. /\ NIL \notin T /\ o \in Side /\ o # d /\ \A e \in Side : e = d \/ e = o
  BY Sides DEF Shaped, Placed
<1>4. \A z \in T, e \in Side : u.child[e][z] = NIL \/ (u.child[e][z] \in T /\ u.parent[u.child[e][z]] = z)
  BY Sides DEF Shaped, Filled
<1>5. \A c \in T \cup {NIL} : c # x /\ c # temp => (IsRed(w, c) <=> IsRed(u, c))
  BY DEF Repainted, IsRed
<1>6. w.color[temp] = "BLACK" /\ ~IsRed(w, temp)
  BY <1>2 DEF Repainted, IsRed
<1>7. SUFFICES ASSUME NEW z \in T, NEW e \in Side, IsRed(w, z), IsRed(w, w.child[e][z])
               PROVE  FALSE
  BY DEF RedsApart
<1>8. z # temp
  BY <1>6, <1>7
<1>9. CASE z = x
  <2>1. w.child[e][z] = u.child[d][temp] \/ w.child[e][z] = u.child[d][x]
    BY <1>1, <1>3, <1>9
  <2>2. w.child[e][z] # NIL
    BY <1>7 DEF IsRed
  <2>3. w.child[e][z] # x /\ w.child[e][z] # temp /\ w.child[e][z] \in T
    BY <2>1, <2>2, <1>1, <1>2, <1>4
  <2> QED
    BY <2>1, <2>3, <1>5, <1>7
<1>10. CASE z # x
  <2>1. w.child[e][z] = u.child[e][z] /\ u.child[e][z] # temp /\ u.child[e][z] # x
    BY <1>1, <1>6, <1>7, <1>8, <1>10
  <2>2. IsRed(u, z) /\ IsRed(u, u.child[e][z])
    BY <2>1, <1>4, <1>5, <1>7, <1>8, <1>10
  <2>3. u.child[e][z] = u.child[o][temp]
    BY <2>2 DEF RedsApart
  <2>4. u.child[e][z] \in T /\ u.parent[u.child[e][z]] = z
    BY <2>2, <1>4 DEF IsRed
  <2> QED
    BY <2>3, <2>4, <1>2, <1>3, <1>4, <1>8
<1> QED
  BY <1>9, <1>10

\* A red node that comes above its red parent: the parent is the one that may be
\* below a red node now.
LEMMA TurnedBothRed ==
  ASSUME NEW u \in Trees, NEW T, NEW n, NEW at, NEW lo, NEW hi, Shaped(u, T, n, at, lo, hi),
         NEW d \in Side, NEW x \in T, u.child[Other(d)][x] # NIL, NEW w, Turned(u, w, d, x),
         NEW temp, temp = u.child[Other(d)][x],
         w.color = u.color, u.color[x] = "RED", u.color[temp] = "RED",
         RedsApart(u, T, temp)
  PROVE  RedsApart(w, T, x)
<1> DEFINE o == Other(d)
<1>1. /\ u.child[d][x] \notin {x, temp} /\ \A e \in Side : u.child[e][temp] \notin {x, temp}
      /\ w.child[o][x] = u.child[d][temp] /\ w.child[d][x] = u.child[d][x]
      /\ w.child[d][temp] = x /\ w.child[o][temp] = u.child[o][temp]
      /\ \A z \in T, e \in Side : z # x /\ z # temp =>
           IF u.child[e][z] = x THEN w.child[e][z] = temp
           ELSE w.child[e][z] = u.child[e][z] /\ u.child[e][z] # temp
  BY TurnedChildren
<1>2. temp \in T /\ temp # x
  BY Around
<1>3. /\ NIL \notin T /\ o \in Side /\ o # d /\ \A e \in Side : e = d \/ e = o
  BY Sides DEF Shaped, Placed
<1>4. \A c : IsRed(w, c) <=> IsRed(u, c)
  BY DEF IsRed
<1>5. IsRed(u, x) /\ IsRed(u, temp)
  BY <1>2, <1>3 DEF IsRed
<1>6. SUFFICES ASSUME NEW z \in T, NEW e \in Side, IsRed(u, z), IsRed(u, w.child[e][z])
               PROVE  w.child[e][z] = x
  BY <1>4 DEF RedsApart
<1>7. \A f \in Side : IsRed(u, u.child[f][temp]) => u.child[f][temp] = temp
  BY <1>2, <1>5 DEF RedsApart
<1>8. CASE z = x
  <2>1. w.child[e][z] = u.child[d][temp] \/ w.child[e][z] = u.child[d][x]
    BY <1>1, <1>3, <1>8
  <2>2. IsRed(u, u.child[d][x]) => u.child[d][x] = temp
    BY <1>5 DEF RedsApart
  <2> QED
    BY <2>1, <2>2, <1>1, <1>6, <1>7
<1>9. CASE z = temp
  BY <1>9, <1>1, <1>3, <1>6, <1>7
<1>10. CASE z # x /\ z # temp
  <2>1. u.child[e][z] # x
    <3> SUFFICES ASSUME u.child[e][z] = x PROVE FALSE
      OBVIOUS
    <3>1. x = temp
      BY <1>5, <1>6 DEF RedsApart
    <3> QED
      BY <3>1, <1>2
  <2>2. w.child[e][z] = u.child[e][z] /\ u.child[e][z] # temp
    BY <2>1, <1>1, <1>10
  <2> QED
    BY <2>2, <1>6 DEF RedsApart
<1> QED
  BY <1>8, <1>9, <1>10

\* What a rotation does to the numbers of nodes below: only x loses some.
LEMMA TurnedSizes ==
  ASSUME NEW u \in Trees, NEW T, NEW n, NEW at, NEW lo, NEW hi, Shaped(u, T, n, at, lo, hi),
         NEW d \in Side, NEW x \in T, u.child[Other(d)][x] # NIL,
         NEW temp, temp = u.child[Other(d)][x],
         NEW z \in T, z # x
  PROVE  /\ LoTurned(lo, at, d, x, temp)[z] <= lo[z]
         /\ HiTurned(hi, at, d, x, temp)[z] >= hi[z]
<1>1. /\ lo \in [T -> 1 .. n] /\ hi \in [T -> 1 .. n] /\ at \in [T -> 1 .. n] /\ n \in Nat
      /\ \A v \in T : lo[v] <= at[v] /\ at[v] <= hi[v]
  BY DEF Shaped, Placed
<1>2. CASE d = "LEFT"
  <2>1. temp \in T /\ temp # x /\ lo[temp] = at[x] + 1 /\ hi[temp] = hi[x]
    BY <1>2, AroundLeft, Sides
  <2> QED
    BY <1>1, <1>2, <2>1 DEF LoTurned, HiTurned
<1>3. CASE d = "RIGHT"
  <2>1. temp \in T /\ temp # x /\ hi[temp] = at[x] - 1 /\ lo[temp] = lo[x]
    BY <1>3, AroundRight, Sides
  <2> QED
    BY <1>1, <1>3, <2>1 DEF LoTurned, HiTurned
<1> QED
  BY <1>2, <1>3, Sides

\* Above every node there is one that has more below it.
LEMMA ParentBigger ==
  ASSUME NEW u \in Trees, NEW T, NEW n, NEW at, NEW lo, NEW hi, Shaped(u, T, n, at, lo, hi),
         NEW y \in T, y # u.root
  PROVE  /\ u.parent[y] \in T /\ u.parent[y] # y /\ u.parent[y] # NIL /\ u.pos[y] \in Side
         /\ u.child[u.pos[y]][u.parent[y]] = y
         /\ lo[u.parent[y]] <= lo[y] /\ hi[y] <= hi[u.parent[y]]
         /\ hi[u.parent[y]] - lo[u.parent[y]] >= hi[y] - lo[y] + 1
<1>1. /\ lo \in [T -> 1 .. n] /\ hi \in [T -> 1 .. n] /\ at \in [T -> 1 .. n] /\ n \in Nat
      /\ \A v \in T : lo[v] <= at[v] /\ at[v] <= hi[v]
      /\ T \subseteq Node /\ NIL \notin T
  BY DEF Shaped, Placed
<1>2. u.parent[y] \in T /\ u.child[u.pos[y]][u.parent[y]] = y
  BY DEF Shaped, Backed
<1>3. u.pos[y] \in {"LEFT", "RIGHT"}
  BY <1>1, FieldTypes, Sides
<1>4. \/ u.pos[y] = "LEFT" /\ lo[y] = lo[u.parent[y]] /\ hi[y] = at[u.parent[y]] - 1
      \/ u.pos[y] = "RIGHT" /\ lo[y] = at[u.parent[y]] + 1 /\ hi[y] = hi[u.parent[y]]
  BY <1>1, <1>2, <1>3 DEF Shaped, Filled
<1>5. /\ lo[u.parent[y]] <= lo[y] /\ hi[y] <= hi[u.parent[y]]
      /\ hi[u.parent[y]] - lo[u.parent[y]] >= hi[y] - lo[y] + 1
  <2> DEFINE p == u.parent[y]
  <2>1. p \in T /\ lo[p] \in Int /\ hi[p] \in Int /\ at[p] \in Int /\ lo[y] \in Int /\ hi[y] \in Int
        /\ lo[p] <= at[p] /\ at[p] <= hi[p]
    BY <1>1, <1>2
  <2> HIDE DEF p
  <2> QED
    BY <1>4, <2>1 DEF p
<1>6. u.parent[y] # y
  BY <1>1, <1>2, <1>5
<1> QED
  BY <1>1, <1>2, <1>3, <1>5, <1>6, Sides

-----------------------------------------------------------------------------
(* checkColor.                                                                        *)

\* The rules hold but that x may be red below a red parent.
Ruled(u, T, n, at, lo, hi, b, x) ==
  /\ Shaped(u, T, n, at, lo, hi) /\ Balanced(u, T, b, NIL, NIL)
  /\ RedsApart(u, T, x) /\ (IsRed(u, u.root) => RedsApart(u, T, NIL))

\* Where no node may be red below a red one, x may be.
LEMMA ApartNIL ==
  ASSUME NEW u, NEW T, RedsApart(u, T, NIL), NEW x
  PROVE  RedsApart(u, T, x)
BY DEF RedsApart, IsRed

\* y and its parent p are red; g is above them, and p on side d of it.
Conflict(u, T, y, p, g, d, o) ==
  /\ p \in T /\ g \in T /\ y # p /\ y # g /\ p # g /\ y # u.root /\ p # u.root
  /\ u.parent[y] = p /\ u.parent[p] = g
  /\ u.color[y] = "RED" /\ u.color[p] = "RED" /\ u.color[g] = "BLACK"
  /\ u.pos[y] \in Side /\ u.child[u.pos[y]][p] = y
  /\ d \in Side /\ u.pos[p] = d /\ u.child[d][g] = p
  /\ o \in Side /\ o = Other(d) /\ o # d /\ Other(o) = d
  /\ \A e \in Side : u.child[e][p] # y => ~IsRed(u, u.child[e][p])
  /\ \A e \in Side : ~IsRed(u, u.child[e][y])
  /\ u.root \in T /\ ~IsRed(u, u.root)

\* A red node below a red parent has a black grandparent.
LEMMA Family ==
  ASSUME NEW u \in Trees, NEW T, NEW n, NEW at, NEW lo, NEW hi, NEW b, NEW y \in T,
         Ruled(u, T, n, at, lo, hi, b, y), IsRed(u, y), IsRed(u, u.parent[y])
  PROVE  Conflict(u, T, y, u.parent[y], u.parent[u.parent[y]], u.pos[u.parent[y]],
                  Other(u.pos[u.parent[y]]))
<1> DEFINE p == u.parent[y]
           g == u.parent[p]
<1>1. T \subseteq Node /\ NIL \notin T /\ u.root \in T /\ u.parent[u.root] = NIL /\ lo \in [T -> 1 .. n]
      /\ hi \in [T -> 1 .. n] /\ n \in Nat
  BY DEF Ruled, Shaped, Placed, Rooted
<1>2. y # u.root
  BY <1>1 DEF IsRed
<1>3. /\ p \in T /\ p # y /\ u.pos[y] \in Side /\ u.child[u.pos[y]][p] = y
      /\ hi[p] - lo[p] >= hi[y] - lo[y] + 1
  BY <1>2, ParentBigger DEF Ruled
<1>4. p # u.root
  <2> SUFFICES ASSUME p = u.root PROVE FALSE
    OBVIOUS
  <2>1. RedsApart(u, T, NIL)
    BY DEF Ruled
  <2>2. y = NIL
    BY <2>1, <1>3 DEF RedsApart
  <2> QED
    BY <2>2, <1>1
<1>5. /\ g \in T /\ g # p /\ u.pos[p] \in Side /\ u.child[u.pos[p]][g] = p
      /\ hi[g] - lo[g] >= hi[p] - lo[p] + 1
  BY <1>3, <1>4, ParentBigger DEF Ruled
<1>6. y # g
  BY <1>1, <1>3, <1>5
<1>7. ~IsRed(u, g)
  BY <1>3, <1>5 DEF Ruled, RedsApart
<1>8. u.color[g] = "BLACK" /\ u.color[y] = "RED" /\ u.color[p] = "RED"
  BY <1>1, <1>5, <1>7, FieldTypes DEF IsRed
<1>9. \A e \in Side : u.child[e][p] # y => ~IsRed(u, u.child[e][p])
  BY <1>3 DEF Ruled, RedsApart
<1>10. \A e \in Side : ~IsRed(u, u.child[e][y])
  <2> SUFFICES ASSUME NEW e \in Side, IsRed(u, u.child[e][y]) PROVE FALSE
    OBVIOUS
  <2>1. u.child[e][y] = y
    BY DEF Ruled, RedsApart
  <2>2. u.parent[y] = y
    BY <2>1, <1>1, Sides DEF Ruled, Shaped, Filled
  <2> QED
    BY <2>2, <1>3
<1>11. ~IsRed(u, u.root)
  <2> SUFFICES ASSUME IsRed(u, u.root) PROVE FALSE
    OBVIOUS
  <2>1. y = NIL
    BY <1>3 DEF Ruled, RedsApart
  <2> QED
    BY <2>1, <1>1
<1>12. \A d \in Side : Other(d) \in Side /\ Other(d) # d /\ Other(Other(d)) = d
  BY Sides
<1> HIDE DEF p, g
<1>13. Conflict(u, T, y, p, g, u.pos[p], Other(u.pos[p]))
  BY <1>1, <1>2, <1>3, <1>4, <1>5, <1>6, <1>8, <1>9, <1>10, <1>11, <1>12 DEF Conflict, p, g
<1> QED
  BY <1>13 DEF p, g

\* v has the links of u, but the colors of g and of its children are exchanged.
FlippedColors(u, v, T, g, p, aunt) ==
  /\ SameLinks(u, v)
  /\ \A z \in T : v.color[z] = IF z = g THEN "RED" ELSE IF z = p \/ z = aunt THEN "BLACK" ELSE u.color[z]

\* A red aunt: the colors are flipped, and the grandparent is the one in question now.
LEMMA Flipped ==
  ASSUME NEW u \in Trees, NEW T, NEW n, NEW at, NEW lo, NEW hi, NEW b, NEW y \in T,
         Ruled(u, T, n, at, lo, hi, b, y),
         NEW p, NEW g, NEW d, NEW o, Conflict(u, T, y, p, g, d, o),
         NEW aunt \in T, u.child[o][g] = aunt, u.color[aunt] = "RED",
         NEW v, FlippedColors(u, v, T, g, p, aunt)
  PROVE  /\ ~IsRed(v, p)
         /\ Ruled(v, T, n, at, lo, hi, [b EXCEPT ![g] = b[g] + 1], g)
<1>1. /\ p \in T /\ g \in T /\ y # p /\ y # g /\ p # g /\ y # u.root /\ p # u.root
      /\ u.parent[y] = p /\ u.parent[p] = g
      /\ u.color[y] = "RED" /\ u.color[p] = "RED" /\ u.color[g] = "BLACK"
      /\ d \in Side /\ u.child[d][g] = p /\ o \in Side /\ o # d
      /\ u.root \in T /\ ~IsRed(u, u.root)
  BY DEF Conflict
<1>2. T \subseteq Node /\ NIL \notin T /\ u.parent[u.root] = NIL
  BY <1>1 DEF Ruled, Shaped, Placed, Rooted
<1>3. Shaped(u, T, n, at, lo, hi)
  BY DEF Ruled
<1>4. \A z \in T, e \in Side : u.child[e][z] = NIL \/ (u.child[e][z] \in T /\ u.parent[u.child[e][z]] = z
                                                     /\ u.pos[u.child[e][z]] = e)
  BY <1>3, Kids
<1>5. /\ \A e \in Side : u.child[e][g] = p \/ u.child[e][g] = aunt
      /\ u.parent[aunt] = g
  <2>1. \A e \in Side : e = d \/ e = o
    BY <1>1, Sides
  <2> QED
    BY <2>1, <1>1, <1>2, <1>4
<1>6. SameLinks(u, v)
  BY DEF FlippedColors
<1>7. \A z \in T : v.color[z] = IF z = g THEN "RED" ELSE IF z = p \/ z = aunt THEN "BLACK" ELSE u.color[z]
  BY DEF FlippedColors
<1>8. Shaped(v, T, n, at, lo, hi)
  BY <1>6, SameLinksShaped DEF Ruled
<1>9. ~IsRed(v, p) /\ ~IsRed(v, aunt) /\ (\A c \in T \cup {NIL} : c # g => (IsRed(v, c) => IsRed(u, c)))
  BY <1>1, <1>7 DEF IsRed
<1>10. v.child = u.child /\ v.root = u.root /\ v.parent = u.parent
  BY <1>6 DEF SameLinks
<1>11. RedsApart(v, T, g)
  <2> SUFFICES ASSUME NEW z \in T, NEW e \in Side, IsRed(v, z), IsRed(v, u.child[e][z]), u.child[e][z] # g
               PROVE  FALSE
    BY <1>10 DEF RedsApart
  <2>1. u.child[e][z] \in T /\ u.parent[u.child[e][z]] = z
    BY <1>4 DEF IsRed
  <2>2. CASE z = g
    BY <2>2, <1>5, <1>9
  <2>3. CASE z # g
    <3>1. IsRed(u, z) /\ IsRed(u, u.child[e][z])
      BY <2>1, <2>3, <1>9
    <3>2. u.child[e][z] = y
      BY <3>1 DEF Ruled, RedsApart
    <3> QED
      BY <3>2, <2>1, <1>1, <1>9
  <2> QED
    BY <2>2, <2>3
<1>12. ASSUME IsRed(v, v.root) PROVE RedsApart(v, T, NIL)
  <2>1. g = u.root
    BY <1>1, <1>9, <1>10, <1>12
  <2> SUFFICES ASSUME NEW z \in T, NEW e \in Side, IsRed(v, z), IsRed(v, u.child[e][z])
               PROVE  FALSE
    BY <1>10 DEF RedsApart
  <2>2. u.child[e][z] = g
    BY <1>10, <1>11 DEF RedsApart
  <2>3. u.parent[g] = z
    BY <2>2, <1>1, <1>2, <1>4
  <2> QED
    BY <2>1, <2>3, <1>2
<1>13. Balanced(v, T, [b EXCEPT ![g] = b[g] + 1], NIL, NIL)
  <2> DEFINE b2 == [b EXCEPT ![g] = b[g] + 1]
             Cnt(c) == b[c] + Weight(u, NIL, c)
             NewCnt(c) == b2[c] + Weight(v, NIL, c)
  <2>1. b \in [T \cup {NIL} -> Nat] /\ b[NIL] = 0
    BY DEF Ruled, Balanced
  <2>2. \A z \in T, e \in Side : b[z] = Cnt(u.child[e][z])
    <3> SUFFICES ASSUME NEW z \in T, NEW e \in Side PROVE b[z] = Cnt(u.child[e][z])
      OBVIOUS
    <3>1. b[z] = b[u.child[e][z]] + Weight(u, NIL, u.child[e][z]) + 0
      BY DEF Ruled, Balanced
    <3>2. b[u.child[e][z]] \in Nat /\ Weight(u, NIL, u.child[e][z]) \in Nat
      BY <2>1, <1>4 DEF Weight
    <3> QED
      BY <3>1, <3>2
  <2>3. b2 \in [T \cup {NIL} -> Nat] /\ b2[NIL] = 0 /\ b2[g] = b[g] + 1
        /\ \A z \in T \cup {NIL} : z # g => b2[z] = b[z]
    BY <2>1, <1>1, <1>2
  <2> HIDE DEF b2
  <2>4. \A c \in T \cup {NIL} : c # p /\ c # aunt => NewCnt(c) = Cnt(c)
    BY <1>1, <1>2, <1>7, <2>1, <2>3 DEF Weight
  <2>5. NewCnt(p) = Cnt(p) + 1 /\ NewCnt(aunt) = Cnt(aunt) + 1
    BY <1>1, <1>2, <1>7, <2>1, <2>3 DEF Weight
  <2> HIDE DEF Cnt, NewCnt
  <2>6. ASSUME NEW z \in T, NEW e \in Side
        PROVE  b2[z] = NewCnt(u.child[e][z])
    <3>1. CASE z = g
      BY <3>1, <1>5, <2>2, <2>3, <2>5
    <3>2. CASE z # g
      <4>1. u.child[e][z] # p /\ u.child[e][z] # aunt /\ u.child[e][z] \in T \cup {NIL}
        BY <3>2, <1>1, <1>2, <1>4
      <4> QED
        BY <4>1, <3>2, <2>2, <2>3, <2>4
    <3> QED
      BY <3>1, <3>2
  <2>7. \A z \in T, e \in Side : NewCnt(u.child[e][z]) \in Nat /\ NewCnt(u.child[e][z]) =
          b2[u.child[e][z]] + Weight(v, NIL, u.child[e][z])
          + (IF u.child[e][z] # NIL /\ u.child[e][z] = NIL THEN 1 ELSE 0)
    BY <1>4, <2>3 DEF NewCnt, Weight
  <2>8. Balanced(v, T, b2, NIL, NIL)
    BY <1>10, <2>3, <2>6, <2>7 DEF Balanced
  <2> QED
    BY <2>8 DEF b2
<1> QED
  BY <1>8, <1>9, <1>11, <1>12, <1>13 DEF Ruled

\* Painting three nodes one after the other.
Colored(u, v, x1, c1, x2, c2, x3, c3) ==
  /\ SameLinks(u, v)
  /\ \A z \in Node : v.color[z] = IF z = x3 THEN c3 ELSE IF z = x2 THEN c2
                                  ELSE IF z = x1 THEN c1 ELSE u.color[z]

\* Three nodes painted, node by node.
LEMMA Painting ==
  ASSUME NEW u \in Trees, NEW x1 \in Node, NEW x2 \in Node, NEW x3 \in Node,
         NEW c1 \in {"RED", "BLACK"}, NEW c2 \in {"RED", "BLACK"}, NEW c3 \in {"RED", "BLACK"}
  PROVE  Colored(u, [u EXCEPT !.color[x1] = c1, !.color[x2] = c2, !.color[x3] = c3],
                 x1, c1, x2, c2, x3, c3)
BY DEF Colored, SameLinks, Trees

\* u and w have the same colors, but for one node.
SameColorsBut(u, w, T, x) == \A z \in T : z # x => w.color[z] = u.color[z]

\* A single rotation at the grandparent.
LEMMA SingleTurn ==
  ASSUME NEW u \in Trees, NEW T, NEW n, NEW at, NEW lo, NEW hi, NEW b, NEW y \in T,
         Ruled(u, T, n, at, lo, hi, b, y),
         NEW p, NEW g, NEW d, NEW o, Conflict(u, T, y, p, g, d, o),
         u.pos[y] = d, ~IsRed(u, u.child[o][g]),
         NEW single, Turned(u, single, o, g),
         SameColorsBut(u, single, T, p),
         NEW v, Colored(single, v, y, "RED", p, "BLACK", g, "RED")
  PROVE  \E lo2, hi2 : /\ lo2[y] <= lo[y] /\ hi2[y] >= hi[y]
                       /\ Ruled(v, T, n, at, lo2, hi2, b, NIL) /\ ~IsRed(v, v.root)
<1> DEFINE lo2 == LoTurned(lo, at, o, g, p)
           hi2 == HiTurned(hi, at, o, g, p)
<1> HIDE DEF lo2, hi2
<1>1. /\ p \in T /\ g \in T /\ y # p /\ y # g /\ p # g
      /\ u.color[y] = "RED" /\ u.color[p] = "RED" /\ u.color[g] = "BLACK"
      /\ d \in Side /\ o \in Side /\ o # d /\ Other(o) = d /\ u.child[d][p] = y /\ u.child[d][g] = p
      /\ \A e \in Side : u.child[e][p] # y => ~IsRed(u, u.child[e][p])
      /\ u.root \in T /\ ~IsRed(u, u.root)
  BY DEF Conflict
<1>2. /\ T \subseteq Node /\ NIL \notin T
      /\ Shaped(u, T, n, at, lo, hi) /\ Balanced(u, T, b, NIL, NIL) /\ RedsApart(u, T, y)
  BY DEF Ruled, Shaped, Placed
<1>3. p = u.child[Other(o)][g] /\ u.child[Other(o)][g] # NIL /\ y = u.child[Other(o)][p]
  BY <1>1, <1>2
<1>4. Turned(u, v, o, g)
  BY TurnedSameLinks DEF Colored
<1>5. \A z \in T : v.color[z] = IF z = p THEN "BLACK" ELSE IF z = g THEN "RED" ELSE u.color[z]
  BY <1>1, <1>2 DEF Colored, SameColorsBut
<1>6. Repainted(u, v, T, g, p)
  BY <1>1, <1>5 DEF Repainted
<1>7. Shaped(v, T, n, at, lo2, hi2)
  BY <1>1, <1>2, <1>3, <1>4, TurnedShaped DEF lo2, hi2
<1>8. Balanced(v, T, b, NIL, NIL)
  BY <1>1, <1>2, <1>3, <1>4, <1>6, TurnedBalanced
<1>9. RedsApart(v, T, NIL)
  <2>1. ~IsRed(u, u.child[o][p])
    <3>1. u.child[o][p] = NIL \/ u.pos[u.child[o][p]] = o
      BY <1>1, <1>2, Kids
    <3>2. u.child[o][p] # y
      BY <3>1, <1>1, <1>2
    <3> QED
      BY <3>2, <1>1
  <2> QED
    BY <2>1, <1>1, <1>2, <1>3, <1>4, <1>6, TurnedApart
<1>10. lo2[y] <= lo[y] /\ hi2[y] >= hi[y]
  BY <1>1, <1>2, <1>3, TurnedSizes DEF lo2, hi2
<1>11. ~IsRed(v, v.root)
  <2>1. v.root = IF u.parent[g] = NIL THEN p ELSE u.root
    BY <1>3, <1>4 DEF Turned
  <2>2. u.root # g => u.color[u.root] # "RED" /\ v.color[u.root] # "RED"
    BY <1>1, <1>2, <1>5 DEF IsRed
  <2>3. u.root = g => u.parent[g] = NIL
    BY <1>1, <1>2 DEF Shaped, Rooted
  <2>4. v.color[p] = "BLACK"
    BY <1>1, <1>5
  <2> QED
    BY <2>1, <2>2, <2>3, <2>4 DEF IsRed
<1>12. Ruled(v, T, n, at, lo2, hi2, b, NIL)
  BY <1>7, <1>8, <1>9, <1>11 DEF Ruled
<1> QED
  BY <1>10, <1>11, <1>12

\* A double rotation: y above its parent first, and then above its grandparent.
LEMMA DoubleTurn ==
  ASSUME NEW u \in Trees, NEW T, NEW n, NEW at, NEW lo, NEW hi, NEW b, NEW y \in T,
         Ruled(u, T, n, at, lo, hi, b, y),
         NEW p, NEW g, NEW d, NEW o, Conflict(u, T, y, p, g, d, o),
         u.pos[y] = o, ~IsRed(u, u.child[o][g]),
         NEW r1, Turned(u, r1, d, p), r1.color = u.color,
         NEW r2, Turned(r1, r2, o, g), SameColorsBut(r1, r2, T, y),
         NEW p1, NEW p2, (p1 = p /\ p2 = g) \/ (p1 = g /\ p2 = p),
         NEW v, Colored(r2, v, y, "BLACK", p1, "RED", p2, "RED")
  PROVE  \E lo2, hi2 : /\ lo2[y] <= lo[y] /\ hi2[y] >= hi[y]
                       /\ Ruled(v, T, n, at, lo2, hi2, b, NIL) /\ ~IsRed(v, v.root)
<1> DEFINE lo1 == LoTurned(lo, at, d, p, y)
           hi1 == HiTurned(hi, at, d, p, y)
           lo2 == LoTurned(lo1, at, o, g, y)
           hi2 == HiTurned(hi1, at, o, g, y)
<1>1. /\ p \in T /\ g \in T /\ y # p /\ y # g /\ p # g /\ u.parent[p] = g /\ p # u.root
      /\ u.color[y] = "RED" /\ u.color[p] = "RED" /\ u.color[g] = "BLACK"
      /\ d \in Side /\ o \in Side /\ o # d /\ Other(o) = d /\ Other(d) = o
      /\ u.child[o][p] = y /\ u.child[d][g] = p
      /\ \A e \in Side : ~IsRed(u, u.child[e][y])
      /\ u.root \in T /\ ~IsRed(u, u.root)
  BY DEF Conflict
<1>2. /\ T \subseteq Node /\ NIL \notin T
      /\ Shaped(u, T, n, at, lo, hi) /\ Balanced(u, T, b, NIL, NIL) /\ RedsApart(u, T, y)
  BY DEF Ruled, Shaped, Placed
<1>3. y = u.child[Other(d)][p] /\ u.child[Other(d)][p] # NIL
  BY <1>1, <1>2
<1>4. Repainted(u, r1, T, p, y)
  BY <1>1 DEF Repainted
<1>5. r1 \in Trees /\ r1.root = u.root
  BY <1>1, <1>2 DEF Turned
<1> HIDE DEF lo1, hi1, lo2, hi2
<1>6. Shaped(r1, T, n, at, lo1, hi1)
  BY <1>1, <1>2, <1>3, TurnedShaped DEF lo1, hi1
<1>7. Balanced(r1, T, b, NIL, NIL)
  BY <1>1, <1>2, <1>3, <1>4, TurnedBalanced
<1>8. RedsApart(r1, T, p)
  BY <1>1, <1>2, <1>3, TurnedBothRed
<1>9. /\ r1.child[d][y] = p /\ r1.child[Other(d)][y] = u.child[Other(d)][y]
      /\ \A z \in T, e \in Side : z # p /\ z # y =>
              IF u.child[e][z] = p THEN r1.child[e][z] = y
              ELSE r1.child[e][z] = u.child[e][z] /\ u.child[e][z] # y
  BY <1>1, <1>2, <1>3, TurnedChildren
<1>10. /\ r1.child[d][g] = y /\ r1.child[o][g] = u.child[o][g] /\ r1.child[o][y] = u.child[o][y]
  <2>1. u.child[o][g] # p
    BY <1>1, <1>2, Kids
  <2> QED
    BY <2>1, <1>1, <1>9
<1>11. y = r1.child[Other(o)][g] /\ r1.child[Other(o)][g] # NIL /\ p = r1.child[Other(o)][y]
  BY <1>1, <1>2, <1>9, <1>10
<1>12. Turned(r1, v, o, g)
  BY TurnedSameLinks DEF Colored
<1>13. \A z \in T : v.color[z] = IF z = y THEN "BLACK" ELSE IF z = g THEN "RED" ELSE u.color[z]
  BY <1>1, <1>2 DEF Colored, SameColorsBut
<1>14. Repainted(r1, v, T, g, y)
  BY <1>1, <1>13 DEF Repainted
<1>15. Shaped(v, T, n, at, lo2, hi2)
  BY <1>1, <1>5, <1>6, <1>11, <1>12, TurnedShaped DEF lo2, hi2
<1>16. Balanced(v, T, b, NIL, NIL)
  BY <1>1, <1>2, <1>5, <1>6, <1>7, <1>11, <1>12, <1>14, TurnedBalanced
<1>17. RedsApart(v, T, NIL)
  <2>1. \A c : IsRed(r1, c) <=> IsRed(u, c)
    BY DEF IsRed
  <2>2. ~IsRed(r1, r1.child[o][g]) /\ ~IsRed(r1, r1.child[o][y]) /\ r1.color[g] = "BLACK"
    BY <2>1, <1>1, <1>10
  <2> QED
    BY <2>2, <1>1, <1>5, <1>6, <1>8, <1>11, <1>12, <1>14, TurnedApart
<1>18. lo2[y] <= lo[y] /\ hi2[y] >= hi[y]
  <2>1. lo1[y] <= lo[y] /\ hi1[y] >= hi[y]
    BY <1>1, <1>2, <1>3, TurnedSizes DEF lo1, hi1
  <2>2. lo2[y] <= lo1[y] /\ hi2[y] >= hi1[y]
    BY <1>1, <1>5, <1>6, <1>11, TurnedSizes DEF lo2, hi2
  <2>3. /\ lo[y] \in Int /\ hi[y] \in Int /\ lo1[y] \in Int /\ hi1[y] \in Int
        /\ lo2[y] \in Int /\ hi2[y] \in Int
    BY <1>2, <1>6, <1>15 DEF Shaped, Placed
  <2> QED
    BY <2>1, <2>2, <2>3
<1>19. ~IsRed(v, v.root)
  <2>1. v.root = IF r1.parent[g] = NIL THEN y ELSE r1.root
    BY <1>11, <1>12, ZenonT(60) DEF Turned
  <2>2. u.root # g => u.color[u.root] # "RED" /\ v.color[u.root] # "RED"
    BY <1>1, <1>2, <1>13 DEF IsRed
  <2>3. u.root = g => r1.parent[g] = NIL
    BY <1>1, <1>5, <1>6 DEF Shaped, Rooted
  <2>4. v.color[y] = "BLACK"
    BY <1>1, <1>13
  <2> QED
    BY <2>1, <2>2, <2>3, <2>4, <1>5 DEF IsRed
<1>20. Ruled(v, T, n, at, lo2, hi2, b, NIL)
  BY <1>15, <1>16, <1>17, <1>19 DEF Ruled
<1> QED
  BY <1>18, <1>19, <1>20

\* What a correction at y leaves: the rules hold, or hold but for the node two above y;
\* and y has not fewer nodes below it than before.
Fixed(u, v, T, n, at, lo, hi, y) ==
  /\ v \in Trees /\ v.key = u.key /\ v.crashed = u.crashed
  /\ \E lo2, hi2, b2 :
       /\ lo2[y] <= lo[y] /\ hi2[y] >= hi[y]
       /\ \/ /\ Ruled(v, T, n, at, lo2, hi2, b2, v.parent[v.parent[y]])
             /\ y # v.root /\ ~IsRed(v, v.parent[y])
          \/ Ruled(v, T, n, at, lo2, hi2, b2, NIL) /\ ~IsRed(v, v.root)

\* rotate(y), single or double, corrects y where its aunt is black.
LEMMA RotateAboveFixes ==
  ASSUME NEW u \in Trees, NEW T, NEW n, NEW at, NEW lo, NEW hi, NEW b, NEW y \in T,
         Ruled(u, T, n, at, lo, hi, b, y),
         NEW p, NEW g, NEW d, NEW o, Conflict(u, T, y, p, g, d, o), ~IsRed(u, u.child[o][g])
  PROVE  Fixed(u, RotateAbove(u, y), T, n, at, lo, hi, y)
<1>1. /\ p \in T /\ g \in T /\ y # p /\ y # g /\ p # g
      /\ u.parent[y] = p /\ u.parent[p] = g /\ u.pos[p] = d
      /\ d \in Side /\ o \in Side /\ o # d /\ Other(o) = d /\ Other(d) = o
      /\ u.child[u.pos[y]][p] = y /\ u.child[d][g] = p /\ u.pos[y] \in Side
  BY DEF Conflict
<1>2. /\ T \subseteq Node /\ NIL \notin T /\ Shaped(u, T, n, at, lo, hi)
      /\ "RED" \in {"RED", "BLACK"} /\ "BLACK" \in {"RED", "BLACK"}
  BY DEF Ruled, Shaped, Placed
<1> DEFINE v == RotateAbove(u, y)
<1>3. CASE u.pos[y] = d
  <2> DEFINE single == Rotate(u, o, g)
  <2>1. v = [single EXCEPT !.color[y] = "RED", !.color[p] = "BLACK",
                           !.color[single.child[o][p]] = "RED"]
    BY <1>1, <1>3, Zenon DEF RotateAbove
  <2>2. p = u.child[Other(o)][g] /\ u.child[Other(o)][g] # NIL /\ p # NIL
    BY <1>1, <1>2
  <2>3. /\ Turned(u, single, o, g)
        /\ single.color = IF u.parent[g] = NIL THEN [u.color EXCEPT ![p] = "BLACK"] ELSE u.color
    BY <1>1, <1>2, <2>2, RotateShaped
  <2> HIDE DEF single, v
  <2>4. single.child[o][p] = g
    BY <1>1, <1>2, <2>2, <2>3, TurnedChildren
  <2>5. single \in Trees /\ single.key = u.key /\ single.crashed = u.crashed
    BY <2>3 DEF Turned
  <2>6. Colored(single, v, y, "RED", p, "BLACK", g, "RED")
    <3>1. /\ y \in Node /\ p \in Node /\ g \in Node
          /\ v = [single EXCEPT !.color[y] = "RED", !.color[p] = "BLACK", !.color[g] = "RED"]
      BY <1>1, <1>2, <2>1, <2>4
    <3> QED
      BY <1>2, <2>5, <3>1, Painting, Zenon
  <2>7. SameColorsBut(u, single, T, p)
    BY <1>2, <2>3 DEF Trees, SameColorsBut
  <2>8. \E lo2, hi2 : /\ lo2[y] <= lo[y] /\ hi2[y] >= hi[y]
                      /\ Ruled(v, T, n, at, lo2, hi2, b, NIL) /\ ~IsRed(v, v.root)
    BY <1>3, <2>3, <2>6, <2>7, SingleTurn, Zenon
  <2>9. v \in Trees /\ v.key = u.key /\ v.crashed = u.crashed
    BY <2>5, <2>6 DEF SameLinks, Colored
  <2> QED
    BY <2>8, <2>9, Zenon DEF Fixed, v
<1>4. CASE u.pos[y] = o
  <2> DEFINE r1 == Rotate(u, d, p)
             r2 == Rotate(r1, o, g)
  <2>1. v = [r2 EXCEPT !.color[y] = "BLACK", !.color[r2.child["LEFT"][y]] = "RED",
                       !.color[r2.child["RIGHT"][y]] = "RED"]
    BY <1>1, <1>4, Zenon DEF RotateAbove
  <2>2. y = u.child[Other(d)][p] /\ u.child[Other(d)][p] # NIL /\ y # NIL
    BY <1>1, <1>2, <1>4
  <2>3. Turned(u, r1, d, p) /\ r1.color = u.color
    <3>1. /\ Turned(u, r1, d, p)
          /\ r1.color = IF u.parent[p] = NIL THEN [u.color EXCEPT ![y] = "BLACK"] ELSE u.color
      BY <1>1, <1>2, <2>2, RotateShaped
    <3>2. u.parent[p] # NIL
      BY <1>1, <1>2
    <3> QED
      BY <3>1, <3>2
  <2> HIDE DEF r1
  <2>4. Shaped(r1, T, n, at, LoTurned(lo, at, d, p, y), HiTurned(hi, at, d, p, y))
    BY <1>1, <1>2, <2>2, <2>3, TurnedShaped
  <2>5. r1 \in Trees /\ r1.key = u.key /\ r1.crashed = u.crashed
    BY <2>3 DEF Turned
  <2>6. r1.child[d][g] = y /\ r1.child[d][y] = p
    <3>1. r1.child[d][y] = p
      BY <1>1, <1>2, <2>2, <2>3, TurnedChildren
    <3>2. r1.child[d][g] = y
      BY <1>1, <1>2, <2>2, <2>3, TurnedChildren
    <3> QED
      BY <3>1, <3>2
  <2>7. y = r1.child[Other(o)][g] /\ r1.child[Other(o)][g] # NIL
    BY <1>1, <1>2, <2>2, <2>6
  <2>8. /\ Turned(r1, r2, o, g)
        /\ r2.color = IF r1.parent[g] = NIL THEN [r1.color EXCEPT ![y] = "BLACK"] ELSE r1.color
    BY <1>1, <2>4, <2>5, <2>7, RotateShaped
  <2> HIDE DEF r2, v
  <2>9. r2.child[o][y] = g /\ r2.child[d][y] = p
    <3>1. r2.child[o][y] = g /\ r2.child[Other(o)][y] = r1.child[Other(o)][y]
      BY <1>1, <2>4, <2>5, <2>7, <2>8, TurnedChildren
    <3> QED
      BY <3>1, <1>1, <2>6
  <2>10. r2 \in Trees /\ r2.key = u.key /\ r2.crashed = u.crashed
    BY <2>5, <2>8 DEF Turned
  <2>11. \/ r2.child["LEFT"][y] = g /\ r2.child["RIGHT"][y] = p
         \/ r2.child["LEFT"][y] = p /\ r2.child["RIGHT"][y] = g
    BY <1>1, <2>9, Sides
  <2> DEFINE p1 == r2.child["LEFT"][y]
             p2 == r2.child["RIGHT"][y]
  <2>12. p1 \in Node /\ p2 \in Node /\ ((p1 = p /\ p2 = g) \/ (p1 = g /\ p2 = p))
    BY <2>11, <1>1, <1>2
  <2> HIDE DEF p1, p2
  <2>13. Colored(r2, v, y, "BLACK", p1, "RED", p2, "RED")
    <3>1. y \in Node /\ v = [r2 EXCEPT !.color[y] = "BLACK", !.color[p1] = "RED", !.color[p2] = "RED"]
      BY <1>2, <2>1 DEF p1, p2
    <3> QED
      BY <1>2, <2>10, <2>12, <3>1, Painting, Zenon
  <2>14. \E lo2, hi2 : /\ lo2[y] <= lo[y] /\ hi2[y] >= hi[y]
                       /\ Ruled(v, T, n, at, lo2, hi2, b, NIL) /\ ~IsRed(v, v.root)
    <3>1. SameColorsBut(r1, r2, T, y)
      BY <1>2, <2>5, <2>8 DEF Trees, SameColorsBut
    <3> QED
      BY <1>4, <2>3, <2>8, <2>12, <2>13, <3>1, DoubleTurn, Zenon
  <2>15. v \in Trees /\ v.key = u.key /\ v.crashed = u.crashed
    BY <2>10, <2>13 DEF SameLinks, Colored
  <2> QED
    BY <2>14, <2>15, Zenon DEF Fixed, v
<1> QED
  BY <1>1, <1>3, <1>4, Sides

\* correctTree.
LEMMA CorrectTreeFixes ==
  ASSUME NEW u \in Trees, NEW T, NEW n, NEW at, NEW lo, NEW hi, NEW b, NEW y \in T,
         Ruled(u, T, n, at, lo, hi, b, y), IsRed(u, y), IsRed(u, u.parent[y])
  PROVE  Fixed(u, CorrectTree(u, y), T, n, at, lo, hi, y)
<1>1. PICK p, g, d, o : Conflict(u, T, y, p, g, d, o)
  BY Family
<1>2. /\ p \in T /\ g \in T /\ u.parent[y] = p /\ u.parent[p] = g /\ u.pos[p] = d
      /\ o = Other(d) /\ o \in Side /\ y # u.root
  BY <1>1 DEF Conflict
<1>3. /\ T \subseteq Node /\ NIL \notin T /\ Shaped(u, T, n, at, lo, hi)
      /\ "RED" \in {"RED", "BLACK"} /\ "BLACK" \in {"RED", "BLACK"}
      /\ \A z \in T : lo[z] \in Nat /\ hi[z] \in Nat
  BY DEF Ruled, Shaped, Placed
<1> DEFINE aunt == u.child[o][g]
           v == CorrectTree(u, y)
<1>4. CASE IsRed(u, aunt)
  <2>1. v = [u EXCEPT !.color[p] = "BLACK", !.color[g] = "RED", !.color[aunt] = "BLACK"]
    BY <1>2, <1>4, Zenon DEF CorrectTree
  <2>2. aunt \in T /\ aunt # g /\ u.color[aunt] = "RED"
    BY <1>2, <1>3, <1>4, Kids DEF IsRed
  <2> HIDE DEF v
  <2>3. Colored(u, v, p, "BLACK", g, "RED", aunt, "BLACK")
    <3>1. p \in Node /\ g \in Node /\ aunt \in Node
      BY <1>2, <1>3, <2>2
    <3> HIDE DEF aunt
    <3> QED
      BY <1>3, <2>1, <3>1, Painting, Zenon
  <2>4. FlippedColors(u, v, T, g, p, aunt)
    BY <1>2, <1>3, <2>2, <2>3 DEF FlippedColors, Colored
  <2>5. /\ ~IsRed(v, p) /\ Ruled(v, T, n, at, lo, hi, [b EXCEPT ![g] = b[g] + 1], g)
    BY <1>1, <2>2, <2>4, Flipped
  <2>6. /\ v.parent[y] = p /\ v.parent[p] = g /\ y # v.root
        /\ v \in Trees /\ v.key = u.key /\ v.crashed = u.crashed
    BY <1>2, <2>3 DEF SameLinks, Colored
  <2>7. lo[y] <= lo[y] /\ hi[y] >= hi[y]
    BY <1>3
  <2>8. Fixed(u, v, T, n, at, lo, hi, y)
    BY <2>5, <2>6, <2>7 DEF Fixed
  <2> QED
    BY <2>8 DEF v
<1>5. CASE ~IsRed(u, aunt)
  <2>1. v = RotateAbove(u, y)
    BY <1>2, <1>5, Zenon DEF CorrectTree
  <2> QED
    BY <1>1, <1>5, <2>1, RotateAboveFixes
<1> QED
  BY <1>4, <1>5

-----------------------------------------------------------------------------
(* The loop of checkColor.                                                            *)

Corrected(v, y) ==
  IF IsRed(v, y) /\ IsRed(v, v.parent[y]) THEN CorrectTree(v, y) ELSE v
ColorCall(s) ==
  LET v == Corrected(s.tree, s.node)
  IN IF s.node = NIL THEN s
     ELSE IF s.node = s.tree.root
     THEN [tree |-> [s.tree EXCEPT !.color[s.node] = "BLACK"], node |-> NIL]
     ELSE [tree |-> v, node |-> IF s.node = v.root THEN NIL ELSE v.parent[s.node]]
ColorCalls(u, x) ==
  LET after[n \in 0 .. Height] ==
        IF n = 0 THEN [tree |-> u, node |-> x] ELSE ColorCall(after[n - 1])
  IN after

\* The recursive function in CheckColor is ColorCalls.
LEMMA CheckColorIs ==
  ASSUME NEW u, NEW x
  PROVE  CheckColor(u, x) = ColorCalls(u, x)[Height].tree
BY Zenon DEF CheckColor, ColorCalls, ColorCall, Corrected

LoopState == [tree : Trees, node : Node \cup {NIL}]

\* The node that may be red below a red one, when checkColor is at y.
Suspect(u, y) == IF IsRed(u, y) THEN y ELSE u.parent[y]

\* The tree that u becomes is in order.
Kept(u, v, T, n, at) ==
  /\ v \in Trees /\ v.key = u.key /\ v.crashed = u.crashed
  /\ \E lo, hi, b : Ruled(v, T, n, at, lo, hi, b, NIL) /\ ~IsRed(v, v.root)

\* checkColor is at y, which has m nodes besides it below it at least.
Checking(u, v, y, T, n, at, m) ==
  /\ v \in Trees /\ v.key = u.key /\ v.crashed = u.crashed
  /\ y \in T
  /\ \E lo, hi, b : Ruled(v, T, n, at, lo, hi, b, Suspect(v, y)) /\ hi[y] - lo[y] >= m

\* The states of the loop with k calls to go.
ColorLevel(u, T, n, at, k) ==
  {s \in LoopState : \/ s.node = NIL /\ Kept(u, s.tree, T, n, at)
                     \/ s.node # NIL /\ Checking(u, s.tree, s.node, T, n, at, Height - k)}

\* At the root checkColor paints it black and ends.
LEMMA AtRoot ==
  ASSUME NEW u \in Trees, NEW T, NEW n, NEW at, NEW lo, NEW hi, NEW b, NEW y \in T,
         Ruled(u, T, n, at, lo, hi, b, Suspect(u, y)), y = u.root,
         NEW v, SameLinks(u, v), \A z \in Node : v.color[z] = IF z = y THEN "BLACK" ELSE u.color[z]
  PROVE  Ruled(v, T, n, at, lo, hi, b, NIL) /\ ~IsRed(v, v.root)
<1>1. /\ T \subseteq Node /\ NIL \notin T /\ Shaped(u, T, n, at, lo, hi) /\ Balanced(u, T, b, NIL, NIL)
      /\ u.parent[y] = NIL
  <2>1. T \subseteq Node /\ NIL \notin T /\ Shaped(u, T, n, at, lo, hi) /\ Balanced(u, T, b, NIL, NIL)
    BY DEF Ruled, Shaped, Placed
  <2>2. T # {}
    OBVIOUS
  <2> QED
    BY <2>1, <2>2 DEF Shaped, Rooted
<1>2. RedsApart(u, T, NIL)
  <2>1. CASE IsRed(u, y)
    BY <2>1 DEF Ruled
  <2>2. CASE ~IsRed(u, y)
    BY <2>2, <1>1 DEF Ruled, Suspect
  <2> QED
    BY <2>1, <2>2
<1>3. v.root = u.root /\ v.child = u.child
  BY DEF SameLinks
<1>4. \A z \in T, e \in Side : u.child[e][z] # y
  BY <1>1, Kids
<1>5. \A c \in T \cup {NIL} : c # y => (IsRed(v, c) <=> IsRed(u, c)) /\ Weight(v, NIL, c) = Weight(u, NIL, c)
  BY <1>1 DEF IsRed, Weight
<1>6. ~IsRed(v, y)
  BY <1>1 DEF IsRed
<1>7. \A z \in T, e \in Side : u.child[e][z] \in T \cup {NIL}
  BY <1>1, Kids
<1>8. RedsApart(v, T, NIL)
  BY <1>2, <1>3, <1>4, <1>5, <1>6, <1>7 DEF RedsApart
<1>9. Balanced(v, T, b, NIL, NIL)
  BY <1>1, <1>3, <1>4, <1>5, <1>7 DEF Balanced
<1>10. Shaped(v, T, n, at, lo, hi)
  BY <1>1, SameLinksShaped
<1> QED
  BY <1>3, <1>6, <1>8, <1>9, <1>10 DEF Ruled

\* Nothing is wrong at y: what may be wrong is further up.
LEMMA StepUp ==
  ASSUME NEW u \in Trees, NEW T, NEW n, NEW at, NEW lo, NEW hi, NEW b, NEW y \in T,
         Ruled(u, T, n, at, lo, hi, b, Suspect(u, y)), y # u.root,
         ~(IsRed(u, y) /\ IsRed(u, u.parent[y]))
  PROVE  Ruled(u, T, n, at, lo, hi, b, Suspect(u, u.parent[y]))
<1>1. /\ NIL \notin T /\ Shaped(u, T, n, at, lo, hi)
  BY DEF Ruled, Shaped, Placed
<1>2. \A z \in T, e \in Side : u.child[e][z] # NIL => u.parent[u.child[e][z]] = z
  BY <1>1, Kids
<1>3. RedsApart(u, T, Suspect(u, y))
  BY DEF Ruled
<1>4. CASE IsRed(u, y)
  <2>1. RedsApart(u, T, NIL)
    BY <1>2, <1>3, <1>4 DEF RedsApart, Suspect, IsRed
  <2> QED
    BY <2>1, ApartNIL DEF Ruled
<1>5. CASE ~IsRed(u, y) /\ IsRed(u, u.parent[y])
  BY <1>5 DEF Suspect
<1>6. CASE ~IsRed(u, y) /\ ~IsRed(u, u.parent[y])
  <2>1. RedsApart(u, T, NIL)
    BY <1>3, <1>6 DEF RedsApart, Suspect
  <2> QED
    BY <2>1, ApartNIL DEF Ruled
<1> QED
  BY <1>4, <1>5, <1>6

\* A call leads one level down.
LEMMA ColorCallDescends ==
  ASSUME NEW u, NEW T, NEW n, NEW at, NEW k \in 1 .. Height,
         NEW s \in ColorLevel(u, T, n, at, k)
  PROVE  ColorCall(s) \in ColorLevel(u, T, n, at, k - 1)
<1>1. s.tree \in Trees /\ s.node \in Node \cup {NIL} /\ s \in LoopState
  BY DEF ColorLevel, LoopState
<1>2. CASE s.node = NIL
  BY <1>1, <1>2 DEF ColorLevel, ColorCall
<1>3. CASE s.node # NIL
  <2> DEFINE w == s.tree
             y == s.node
  <2>1. /\ w \in Trees /\ w.key = u.key /\ w.crashed = u.crashed /\ y \in T
    BY <1>3 DEF ColorLevel, Checking
  <2>2. PICK lo, hi, b : Ruled(w, T, n, at, lo, hi, b, Suspect(w, y)) /\ hi[y] - lo[y] >= Height - k
    BY <1>3 DEF ColorLevel, Checking
  <2>3. T \subseteq Node /\ NIL \notin T /\ lo \in [T -> 1 .. n] /\ hi \in [T -> 1 .. n]
    BY <2>2 DEF Ruled, Shaped, Placed
  <2>4. CASE y = w.root
    <3> DEFINE v == [w EXCEPT !.color[y] = "BLACK"]
    <3>1. ColorCall(s) = [tree |-> v, node |-> NIL]
      BY <1>3, <2>4 DEF ColorCall
    <3>2. SameLinks(w, v) /\ \A z \in Node : v.color[z] = IF z = y THEN "BLACK" ELSE w.color[z]
      <4> HIDE DEF w, y
      <4> QED
        BY <2>1, <2>3 DEF SameLinks, Trees
    <3> HIDE DEF v
    <3>3. Ruled(v, T, n, at, lo, hi, b, NIL) /\ ~IsRed(v, v.root)
      BY <2>1, <2>2, <2>4, <3>2, AtRoot
    <3>4. v \in Trees /\ v.key = u.key /\ v.crashed = u.crashed
      BY <2>1, <3>2 DEF SameLinks
    <3>5. Kept(u, v, T, n, at)
      BY <3>3, <3>4 DEF Kept
    <3> QED
      BY <3>1, <3>4, <3>5 DEF ColorLevel, LoopState
  <2>5. CASE y # w.root /\ IsRed(w, y) /\ IsRed(w, w.parent[y])
    <3> DEFINE v == CorrectTree(w, y)
    <3>1. ColorCall(s) = [tree |-> v, node |-> IF y = v.root THEN NIL ELSE v.parent[y]]
      BY <1>3, <2>5, Zenon DEF ColorCall, Corrected
    <3>2. Ruled(w, T, n, at, lo, hi, b, y)
      BY <2>2, <2>5 DEF Suspect
    <3>3. Fixed(w, v, T, n, at, lo, hi, y)
      BY <2>1, <2>5, <3>2, CorrectTreeFixes
    <3> HIDE DEF v, w, y
    <3>4. v \in Trees /\ v.key = u.key /\ v.crashed = u.crashed
      BY <2>1, <3>3 DEF Fixed
    <3>5. PICK lo2, hi2, b2 :
            /\ lo2[y] <= lo[y] /\ hi2[y] >= hi[y]
            /\ \/ /\ Ruled(v, T, n, at, lo2, hi2, b2, v.parent[v.parent[y]])
                  /\ y # v.root /\ ~IsRed(v, v.parent[y])
               \/ Ruled(v, T, n, at, lo2, hi2, b2, NIL) /\ ~IsRed(v, v.root)
      BY <3>3 DEF Fixed
    <3>6. CASE y = v.root
      <4>1. Kept(u, v, T, n, at)
        BY <3>4, <3>5, <3>6 DEF Kept
      <4> QED
        BY <3>1, <3>4, <3>6, <4>1 DEF ColorLevel, LoopState
    <3>7. CASE y # v.root
      <4> DEFINE p == v.parent[y]
      <4>1. Shaped(v, T, n, at, lo2, hi2)
        BY <3>5 DEF Ruled
      <4>2. p \in T /\ hi2[p] - lo2[p] >= hi2[y] - lo2[y] + 1
        BY <2>1, <3>4, <3>7, <4>1, ParentBigger
      <4> HIDE DEF p
      <4>3. lo2 \in [T -> 1 .. n] /\ hi2 \in [T -> 1 .. n] /\ n \in Nat
        BY <4>1 DEF Shaped, Placed
      <4>4. hi2[p] - lo2[p] >= Height - (k - 1)
        <5>1. /\ lo[y] \in Int /\ hi[y] \in Int /\ lo2[y] \in Int /\ hi2[y] \in Int
              /\ lo2[p] \in Int /\ hi2[p] \in Int
          BY <2>1, <2>3, <4>2, <4>3
        <5>2. Height \in Int
          BY FS_CardinalityType DEF Height
        <5>3. hi[y] - lo[y] >= Height - k /\ lo2[y] <= lo[y] /\ hi2[y] >= hi[y]
          BY <2>2, <3>5 DEF w, y
        <5> HIDE DEF Height
        <5> QED
          BY <4>2, <5>1, <5>2, <5>3
      <4>5. Ruled(v, T, n, at, lo2, hi2, b2, Suspect(v, p))
        <5>1. CASE Ruled(v, T, n, at, lo2, hi2, b2, NIL)
          BY <5>1, ApartNIL DEF Ruled
        <5>2. CASE Ruled(v, T, n, at, lo2, hi2, b2, v.parent[p]) /\ ~IsRed(v, p)
          BY <5>2 DEF Suspect
        <5> QED
          BY <3>5, <5>1, <5>2 DEF p
      <4>6. Checking(u, v, p, T, n, at, Height - (k - 1))
        BY <3>4, <4>2, <4>4, <4>5 DEF Checking
      <4>7. ColorCall(s) = [tree |-> v, node |-> p]
        BY <3>1, <3>7 DEF p
      <4>8. p \in Node /\ p # NIL
        BY <2>3, <4>2
      <4> QED
        BY <3>4, <4>6, <4>7, <4>8 DEF ColorLevel, LoopState
    <3> QED
      BY <3>6, <3>7
  <2>6. CASE y # w.root /\ ~(IsRed(w, y) /\ IsRed(w, w.parent[y]))
    <3> DEFINE p == w.parent[y]
    <3>1. ColorCall(s) = [tree |-> w, node |-> p]
      BY <1>3, <2>6, Zenon DEF ColorCall, Corrected
    <3>2. Ruled(w, T, n, at, lo, hi, b, Suspect(w, p))
      BY <2>1, <2>2, <2>6, StepUp
    <3>3. Shaped(w, T, n, at, lo, hi)
      BY <2>2 DEF Ruled
    <3>4. p \in T /\ hi[p] - lo[p] >= hi[y] - lo[y] + 1
      BY <2>1, <2>6, <3>3, ParentBigger
    <3> HIDE DEF p, w, y
    <3>5. hi[p] - lo[p] >= Height - (k - 1)
      <4>1. lo[y] \in Int /\ hi[y] \in Int /\ lo[p] \in Int /\ hi[p] \in Int
        BY <2>1, <2>3, <3>4
      <4>2. Height \in Int
        BY FS_CardinalityType DEF Height
      <4>3. hi[y] - lo[y] >= Height - k
        BY <2>2 DEF w, y
      <4> HIDE DEF Height
      <4> QED
        BY <3>4, <4>1, <4>2, <4>3
    <3>6. Checking(u, w, p, T, n, at, Height - (k - 1))
      BY <2>1, <3>2, <3>4, <3>5 DEF Checking
    <3>7. p \in Node /\ p # NIL
      BY <2>3, <3>4
    <3> QED
      BY <2>1, <3>1, <3>6, <3>7 DEF ColorLevel, LoopState
  <2> QED
    BY <2>4, <2>5, <2>6
<1> QED
  BY <1>2, <1>3

\* A set of nodes has Height members at most.
LEMMA HeightNat == Height \in Nat /\ \A T \in SUBSET Node : IsFiniteSet(T) /\ Cardinality(T) <= Height
BY FS_Subset, FS_CardinalityType DEF Height

\* As many nodes are in the tree as there are places, and not more than there are nodes.
LEMMA PlacesFit ==
  ASSUME NEW T, NEW n, NEW at, NEW lo, NEW hi, Placed(T, n, at, lo, hi)
  PROVE  IsFiniteSet(T) /\ Cardinality(T) = n /\ n <= Height
<1>1. T \subseteq Node /\ n \in Nat /\ at \in [T -> 1 .. n]
  BY DEF Placed
<1>2. at \in Bijection(T, 1 .. n)
  BY <1>1 DEF Placed, Bijection, Injection, Surjection, IsInjective
<1>3. IsFiniteSet(T) /\ Cardinality(T) <= Height
  BY <1>1, HeightNat
<1>4. IsFiniteSet(1 .. n) /\ Cardinality(1 .. n) = n
  BY <1>1, FS_Interval
<1>5. Cardinality(T) = Cardinality(1 .. n)
  <2>1. ExistsBijection(T, 1 .. n)
    BY <1>2 DEF ExistsBijection
  <2> QED
    BY <2>1, <1>3, FS_Bijection, Zenon
<1> QED
  BY <1>3, <1>4, <1>5

\* What checkColor's loop computes, as long as every call stays in S.
LEMMA ColorCallsAre ==
  ASSUME NEW u, NEW x, NEW S, [tree |-> u, node |-> x] \in S, \A s \in S : ColorCall(s) \in S
  PROVE  /\ ColorCalls(u, x)[0] = [tree |-> u, node |-> x]
         /\ \A k \in 1 .. Height : ColorCalls(u, x)[k] = ColorCall(ColorCalls(u, x)[k - 1])
<1> DEFINE R == [tree |-> u, node |-> x]
           turn == [s \in S |-> ColorCall(s)]
           F(f) == [k \in 0 .. Height |-> IF k = 0 THEN R ELSE ColorCall(f[k - 1])]
<1>1. Height \in Nat
  BY HeightNat
<1>2. turn \in [S -> S]
  OBVIOUS
<1> HIDE DEF turn, R
<1>3. PICK g : IsIteration(g, Height, S, R, turn)
  BY <1>1, <1>2, Iterates DEF R
<1>4. g \in [0 .. Height -> S] /\ g[0] = R /\ \A k \in 1 .. Height : g[k] = turn[g[k - 1]]
  BY <1>3 DEF IsIteration
<1>5. \A k \in 1 .. Height : g[k] = ColorCall(g[k - 1])
  <2> SUFFICES ASSUME NEW k \in 1 .. Height PROVE g[k] = ColorCall(g[k - 1])
    OBVIOUS
  <2>1. k - 1 \in 0 .. Height
    BY <1>1
  <2>2. g[k] = turn[g[k - 1]] /\ g[k - 1] \in S
    BY <1>4, <2>1
  <2> QED
    BY <2>2, Zenon DEF turn
<1>6. g = F(g)
  BY <1>1, <1>4, <1>5
<1>7. ColorCalls(u, x) = CHOOSE f : f = F(f)
  BY DEF ColorCalls, R
<1>8. ColorCalls(u, x) = F(ColorCalls(u, x))
  <2> HIDE DEF F
  <2> QED
    BY <1>6, <1>7
<1> QED
  BY <1>1, <1>8 DEF R

\* checkColor puts in order what is wrong at x at most.
LEMMA CheckColorKeeps ==
  ASSUME NEW u \in Trees, NEW T, NEW n, NEW at, NEW lo, NEW hi, NEW b, NEW x \in T,
         Ruled(u, T, n, at, lo, hi, b, Suspect(u, x))
  PROVE  Kept(u, CheckColor(u, x), T, n, at)
<1> DEFINE A == [k \in 0 .. Height |-> ColorLevel(u, T, n, at, k)]
           S == UNION {A[k] : k \in 0 .. Height}
           R == [tree |-> u, node |-> x]
           c == ColorCalls(u, x)
           turn == [s \in S \cup {c[k] : k \in 0 .. Height} |-> ColorCall(s)]
<1>1. Height \in Nat
  BY HeightNat
<1>2. /\ T \subseteq Node /\ n \in Nat /\ n <= Height
      /\ lo \in [T -> 1 .. n] /\ hi \in [T -> 1 .. n] /\ lo[x] <= hi[x]
  <2>1. Placed(T, n, at, lo, hi)
    BY DEF Ruled, Shaped
  <2>2. n <= Height
    BY <2>1, PlacesFit
  <2>3. /\ T \subseteq Node /\ n \in Nat /\ at \in [T -> 1 .. n]
        /\ lo \in [T -> 1 .. n] /\ hi \in [T -> 1 .. n] /\ lo[x] <= at[x] /\ at[x] <= hi[x]
    BY <2>1 DEF Placed
  <2> QED
    BY <2>2, <2>3
<1>3. R \in A[Height]
  <2>1. hi[x] - lo[x] >= Height - Height
    BY <1>1, <1>2
  <2>2. x \in Node /\ x # NIL
    BY <1>2
  <2>3. Checking(u, u, x, T, n, at, Height - Height)
    BY <2>1 DEF Checking
  <2>4. R \in ColorLevel(u, T, n, at, Height)
    BY <2>2, <2>3 DEF ColorLevel, LoopState
  <2> QED
    BY <1>1, <2>4
<1>4. \A k \in 1 .. Height : \A s \in A[k] : ColorCall(s) \in A[k - 1]
  BY <1>1, ColorCallDescends
<1>5. ASSUME NEW s \in A[0]
      PROVE  s.node = NIL /\ Kept(u, s.tree, T, n, at) /\ ColorCall(s) = s
  <2>1. s \in ColorLevel(u, T, n, at, 0)
    BY <1>1
  <2>2. s.node = NIL
    <3> SUFFICES ASSUME s.node # NIL PROVE FALSE
      OBVIOUS
    <3>1. Checking(u, s.tree, s.node, T, n, at, Height - 0)
      BY <2>1 DEF ColorLevel
    <3>2. PICK l2, h2, b2 : Ruled(s.tree, T, n, at, l2, h2, b2, Suspect(s.tree, s.node)) /\ h2[s.node] - l2[s.node] >= Height - 0
      BY <3>1 DEF Checking
    <3>3. s.node \in T /\ l2 \in [T -> 1 .. n] /\ h2 \in [T -> 1 .. n]
      BY <3>1, <3>2 DEF Checking, Ruled, Shaped, Placed
    <3>4. l2[s.node] \in 1 .. n /\ h2[s.node] \in 1 .. n
      BY <3>3
    <3> HIDE DEF S, A, R
    <3> QED
      BY <1>1, <1>2, <3>2, <3>4
  <2>3. Kept(u, s.tree, T, n, at)
    BY <2>1, <2>2 DEF ColorLevel
  <2> QED
    BY <2>2, <2>3 DEF ColorCall
<1> HIDE DEF A, R
<1>6. \A s \in S : ColorCall(s) \in S
  <2> SUFFICES ASSUME NEW k \in 0 .. Height, NEW s \in A[k] PROVE ColorCall(s) \in S
    OBVIOUS
  <2>1. CASE k = 0
    BY <1>1, <1>5, <2>1
  <2>2. CASE k # 0
    <3>1. k \in 1 .. Height /\ k - 1 \in 0 .. Height
      BY <1>1, <2>2
    <3>2. ColorCall(s) \in A[k - 1]
      BY <1>4, <3>1
    <3> QED
      BY <3>1, <3>2
  <2> QED
    BY <2>1, <2>2
<1>7. R \in S
  BY <1>1, <1>3
<1> HIDE DEF S
<1>8. c[0] = R /\ \A k \in 1 .. Height : c[k] = ColorCall(c[k - 1])
  BY <1>6, <1>7, ColorCallsAre DEF R
<1> HIDE DEF c
<1>9. \A k \in 1 .. Height : c[k] = turn[c[k - 1]]
  BY <1>1, <1>8
<1>10. \A k \in 1 .. Height : \A s \in A[k] : turn[s] \in A[k - 1]
  <2>1. \A k \in 1 .. Height : \A s \in A[k] : s \in S
    BY <1>1 DEF S
  <2> QED
    BY <1>4, <2>1
<1> HIDE DEF turn
<1>11. c[Height] \in A[0]
  BY <1>1, <1>3, <1>8, <1>9, <1>10, Descends
<1> QED
  BY <1>5, <1>11, CheckColorIs DEF c

-----------------------------------------------------------------------------
(* Insertion.  A new node x gets the place after the first k, next to the place q of  *)
(* the node that it is hung below.                                                    *)

AtGrown(T, at, k, x) ==
  [z \in T \cup {x} |-> IF z = x THEN k + 1 ELSE IF at[z] > k THEN at[z] + 1 ELSE at[z]]
LoGrown(T, lo, k, q, x) ==
  [z \in T \cup {x} |-> IF z = x THEN k + 1 ELSE IF lo[z] > q THEN lo[z] + 1 ELSE lo[z]]
HiGrown(T, hi, k, q, x) ==
  [z \in T \cup {x} |-> IF z = x THEN k + 1 ELSE IF hi[z] >= q THEN hi[z] + 1 ELSE hi[z]]

\* A new node gets a place of its own, and those behind it move on by one.
LEMMA GrownPlaced ==
  ASSUME NEW T, NEW n, NEW at, NEW lo, NEW hi, Placed(T, n, at, lo, hi),
         NEW x \in Node \ T, NEW k \in 0 .. n, NEW q \in 1 .. n, q = k \/ q = k + 1
  PROVE  Placed(T \cup {x}, n + 1, AtGrown(T, at, k, x), LoGrown(T, lo, k, q, x), HiGrown(T, hi, k, q, x))
<1> DEFINE a == AtGrown(T, at, k, x)
           l == LoGrown(T, lo, k, q, x)
           h == HiGrown(T, hi, k, q, x)
           U == T \cup {x}
<1>1. /\ T \subseteq Node /\ n \in Nat
      /\ at \in [T -> 1 .. n] /\ lo \in [T -> 1 .. n] /\ hi \in [T -> 1 .. n]
      /\ \A y \in T : lo[y] <= at[y] /\ at[y] <= hi[y]
      /\ \A y, z \in T : at[y] = at[z] => y = z
      /\ \A i \in 1 .. n : \E y \in T : at[y] = i
  BY DEF Placed
<1>2. /\ a[x] = k + 1 /\ \A z \in T : a[z] = IF at[z] > k THEN at[z] + 1 ELSE at[z]
      /\ l[x] = k + 1 /\ \A z \in T : l[z] = IF lo[z] > q THEN lo[z] + 1 ELSE lo[z]
      /\ h[x] = k + 1 /\ \A z \in T : h[z] = IF hi[z] >= q THEN hi[z] + 1 ELSE hi[z]
      /\ a = [z \in U |-> a[z]] /\ l = [z \in U |-> l[z]] /\ h = [z \in U |-> h[z]]
  BY DEF AtGrown, LoGrown, HiGrown
<1> HIDE DEF a, l, h
<1>3. \A z \in T : at[z] \in 1 .. n /\ lo[z] \in 1 .. n /\ hi[z] \in 1 .. n
  BY <1>1
<1>4. \A z \in U : a[z] \in 1 .. n + 1 /\ l[z] \in 1 .. n + 1 /\ h[z] \in 1 .. n + 1
  BY <1>1, <1>2, <1>3, SMTT(30)
<1>5. a \in [U -> 1 .. n + 1] /\ l \in [U -> 1 .. n + 1] /\ h \in [U -> 1 .. n + 1]
  BY <1>2, <1>4
<1>6. \A z \in U : l[z] <= a[z] /\ a[z] <= h[z]
  <2>1. \A o, i, p \in 1 .. n : o <= i /\ i <= p =>
          /\ (IF o > q THEN o + 1 ELSE o) <= (IF i > k THEN i + 1 ELSE i)
          /\ (IF i > k THEN i + 1 ELSE i) <= (IF p >= q THEN p + 1 ELSE p)
    OBVIOUS
  <2>2. ASSUME NEW z \in T PROVE l[z] <= a[z] /\ a[z] <= h[z]
    <3>1. /\ a[z] = IF at[z] > k THEN at[z] + 1 ELSE at[z]
          /\ l[z] = IF lo[z] > q THEN lo[z] + 1 ELSE lo[z]
          /\ h[z] = IF hi[z] >= q THEN hi[z] + 1 ELSE hi[z]
      BY <1>2
    <3>2. lo[z] <= at[z] /\ at[z] <= hi[z]
      BY <1>1
    <3> QED
      BY <1>3, <2>1, <3>1, <3>2
  <2>3. l[x] <= a[x] /\ a[x] <= h[x]
    BY <1>2
  <2> QED
    BY <2>2, <2>3
<1>7. \A y, z \in U : a[y] = a[z] => y = z
  <2> SUFFICES ASSUME NEW y \in U, NEW z \in U, a[y] = a[z] PROVE y = z
    OBVIOUS
  <2>0. \A i, j \in Nat : (IF i > k THEN i + 1 ELSE i) = (IF j > k THEN j + 1 ELSE j) => i = j
    OBVIOUS
  <2>4. \A i \in Nat : (IF i > k THEN i + 1 ELSE i) # k + 1
    OBVIOUS
  <2>5. \A w \in T : at[w] \in Nat
    BY <1>3
  <2>1. CASE y \in T /\ z \in T
    <3>1. at[y] = at[z]
      BY <2>0, <2>1, <2>5, <1>2
    <3> QED
      BY <3>1, <2>1, <1>1
  <2>2. CASE y = x /\ z \in T
    BY <2>2, <2>4, <2>5, <1>2
  <2>3. CASE y \in T /\ z = x
    BY <2>3, <2>4, <2>5, <1>2
  <2> QED
    BY <2>1, <2>2, <2>3
<1>8. ASSUME NEW i \in 1 .. n + 1
      PROVE  \E y \in U : a[y] = i
  <2>1. CASE i = k + 1
    BY <2>1, <1>2
  <2>2. CASE i < k + 1
    <3>1. i \in 1 .. n
      BY <2>2, <1>1
    <3>2. PICK y \in T : at[y] = i
      BY <3>1, <1>1
    <3> QED
      BY <3>2, <2>2, <1>2
  <2>3. CASE i > k + 1
    <3>1. i - 1 \in 1 .. n
      BY <2>3, <1>1
    <3>2. PICK y \in T : at[y] = i - 1
      BY <3>1, <1>1
    <3>3. a[y] = i
      BY <3>2, <2>3, <1>2
    <3> QED
      BY <3>3
  <2> QED
    BY <2>1, <2>2, <2>3
<1>9. U \subseteq Node /\ n + 1 \in Nat
  BY <1>1
<1> QED
  BY <1>5, <1>6, <1>7, <1>8, <1>9 DEF Placed, a, l, h

\* x was hung below p, where p had no child.
LEMMA HungShaped ==
  ASSUME NEW u \in Trees, NEW T, NEW n, NEW at, NEW lo, NEW hi, Shaped(u, T, n, at, lo, hi),
         NEW x \in Node \ T, \A e \in Side : u.child[e][x] = NIL,
         NEW p \in T, NEW d \in Side, u.child[d][p] = NIL, NEW v, Hung(u, v, d, p, x),
         NEW k, k = IF d = "LEFT" THEN at[p] - 1 ELSE at[p]
  PROVE  Shaped(v, T \cup {x}, n + 1, AtGrown(T, at, k, x), LoGrown(T, lo, k, at[p], x),
                HiGrown(T, hi, k, at[p], x))
<1> DEFINE a == AtGrown(T, at, k, x)
           l == LoGrown(T, lo, k, at[p], x)
           h == HiGrown(T, hi, k, at[p], x)
           U == T \cup {x}
           q == at[p]
<1>1. /\ Placed(T, n, at, lo, hi) /\ T \subseteq Node /\ n \in Nat /\ NIL \notin T /\ NIL \notin U
      /\ at \in [T -> 1 .. n] /\ lo \in [T -> 1 .. n] /\ hi \in [T -> 1 .. n]
      /\ \A y, z \in T : at[y] = at[z] => y = z
      /\ \A y \in T : lo[y] <= at[y] /\ at[y] <= hi[y]
  BY DEF Shaped, Placed
<1>2. \A z \in T : at[z] \in 1 .. n /\ lo[z] \in 1 .. n /\ hi[z] \in 1 .. n
  BY <1>1
<1>3. /\ u.root \in T /\ u.parent[u.root] = NIL /\ lo[u.root] = 1 /\ hi[u.root] = n
  BY DEF Shaped, Rooted
<1>4. q \in 1 .. n /\ k \in 0 .. n /\ (q = k \/ q = k + 1)
  <2>1. q \in 1 .. n
    BY <1>2
  <2>2. k = q - 1 \/ k = q
    OBVIOUS
  <2> HIDE DEF q
  <2> QED
    BY <2>1, <2>2, <1>1
<1>5. Placed(U, n + 1, a, l, h)
  BY <1>1, <1>4, GrownPlaced
<1>6. /\ a[x] = k + 1 /\ \A z \in T : a[z] = IF at[z] > k THEN at[z] + 1 ELSE at[z]
      /\ l[x] = k + 1 /\ \A z \in T : l[z] = IF lo[z] > q THEN lo[z] + 1 ELSE lo[z]
      /\ h[x] = k + 1 /\ \A z \in T : h[z] = IF hi[z] >= q THEN hi[z] + 1 ELSE hi[z]
  BY <1>1 DEF AtGrown, LoGrown, HiGrown
<1>7. /\ v.root = u.root
      /\ \A e \in Side, z \in Node : v.child[e][z] = IF z = p /\ e = d THEN x ELSE u.child[e][z]
      /\ \A z \in Node : v.parent[z] = IF z = x THEN p ELSE u.parent[z]
      /\ \A z \in Node : v.pos[z] = IF z = x THEN d ELSE u.pos[z]
  BY DEF Hung
<1> HIDE DEF a, l, h
<1>8. Rooted(v, U, n + 1, l, h)
  BY <1>1, <1>2, <1>3, <1>4, <1>6, <1>7 DEF Rooted
<1>9. Backed(v, U)
  <2> SUFFICES ASSUME NEW y \in U, y # v.root
               PROVE  v.parent[y] \in U /\ v.child[v.pos[y]][v.parent[y]] = y
    BY DEF Backed
  <2>1. CASE y = x
    BY <2>1, <1>1, <1>7
  <2>2. CASE y # x
    <3>1. y \in T /\ u.parent[y] \in T /\ u.child[u.pos[y]][u.parent[y]] = y /\ u.pos[y] \in Side
      BY <2>2, <1>1, <1>7, FieldTypes DEF Shaped, Backed
    <3>2. ~(u.parent[y] = p /\ u.pos[y] = d)
      BY <3>1, <1>1
    <3>3. v.parent[y] = u.parent[y] /\ v.pos[y] = u.pos[y]
      BY <2>2, <3>1, <1>1, <1>7
    <3> QED
      BY <3>1, <3>2, <3>3, <1>1, <1>7
  <2> QED
    BY <2>1, <2>2
<1>10. Filled(v, U, a, l, h)
  <2>1. ASSUME NEW y \in T, y # p
        PROVE  /\ v.child["LEFT"][y] = u.child["LEFT"][y] /\ v.child["RIGHT"][y] = u.child["RIGHT"][y]
               /\ at[y] # q
    <3>1. \A e \in Side : v.child[e][y] = u.child[e][y]
      BY <2>1, <1>1, <1>7
    <3>2. at[y] # q
      BY <2>1, <1>1
    <3> QED
      BY <3>1, <3>2, Sides
  <2>2. ASSUME NEW c \in T
        PROVE  v.parent[c] = u.parent[c] /\ v.pos[c] = u.pos[c]
    BY <1>1, <1>7
  <2>3. ASSUME NEW y \in T
        PROVE  /\ IF u.child["LEFT"][y] = NIL THEN lo[y] = at[y]
                  ELSE /\ u.child["LEFT"][y] \in T
                       /\ lo[u.child["LEFT"][y]] = lo[y] /\ hi[u.child["LEFT"][y]] = at[y] - 1
                       /\ u.parent[u.child["LEFT"][y]] = y /\ u.pos[u.child["LEFT"][y]] = "LEFT"
               /\ IF u.child["RIGHT"][y] = NIL THEN hi[y] = at[y]
                  ELSE /\ u.child["RIGHT"][y] \in T
                       /\ lo[u.child["RIGHT"][y]] = at[y] + 1 /\ hi[u.child["RIGHT"][y]] = hi[y]
                       /\ u.parent[u.child["RIGHT"][y]] = y /\ u.pos[u.child["RIGHT"][y]] = "RIGHT"
    BY DEF Shaped, Filled
  <2> SUFFICES ASSUME NEW y \in U
               PROVE  /\ IF v.child["LEFT"][y] = NIL THEN l[y] = a[y]
                         ELSE /\ v.child["LEFT"][y] \in U
                              /\ l[v.child["LEFT"][y]] = l[y] /\ h[v.child["LEFT"][y]] = a[y] - 1
                              /\ v.parent[v.child["LEFT"][y]] = y /\ v.pos[v.child["LEFT"][y]] = "LEFT"
                      /\ IF v.child["RIGHT"][y] = NIL THEN h[y] = a[y]
                         ELSE /\ v.child["RIGHT"][y] \in U
                              /\ l[v.child["RIGHT"][y]] = a[y] + 1 /\ h[v.child["RIGHT"][y]] = h[y]
                              /\ v.parent[v.child["RIGHT"][y]] = y /\ v.pos[v.child["RIGHT"][y]] = "RIGHT"
    BY DEF Filled
  <2>4. CASE y = x
    <3>1. v.child["LEFT"][y] = NIL /\ v.child["RIGHT"][y] = NIL
      BY <2>4, <1>7, Sides
    <3> QED
      BY <3>1, <2>4, <1>6
  <2>5. CASE y \in T /\ y # p
    <3>1. IF v.child["LEFT"][y] = NIL THEN l[y] = a[y]
          ELSE /\ v.child["LEFT"][y] \in U
               /\ l[v.child["LEFT"][y]] = l[y] /\ h[v.child["LEFT"][y]] = a[y] - 1
               /\ v.parent[v.child["LEFT"][y]] = y /\ v.pos[v.child["LEFT"][y]] = "LEFT"
      BY <2>1, <2>2, <2>3, <2>5, <1>2, <1>4, <1>6, SMTT(30)
    <3>2. IF v.child["RIGHT"][y] = NIL THEN h[y] = a[y]
          ELSE /\ v.child["RIGHT"][y] \in U
               /\ l[v.child["RIGHT"][y]] = a[y] + 1 /\ h[v.child["RIGHT"][y]] = h[y]
               /\ v.parent[v.child["RIGHT"][y]] = y /\ v.pos[v.child["RIGHT"][y]] = "RIGHT"
      BY <2>1, <2>2, <2>3, <2>5, <1>2, <1>4, <1>6
    <3> QED
      BY <3>1, <3>2
  <2>6. CASE y = p /\ d = "LEFT"
    <3>1. v.child["LEFT"][p] = x /\ v.child["RIGHT"][p] = u.child["RIGHT"][p]
      BY <2>6, <1>1, <1>7, Sides
    <3>2. lo[p] = q /\ k = q - 1
      BY <2>3, <2>6
    <3>3. v.parent[x] = p /\ v.pos[x] = "LEFT" /\ x # NIL
      BY <1>7, <2>6
    <3>4. /\ v.child["LEFT"][y] \in U
          /\ l[v.child["LEFT"][y]] = l[y] /\ h[v.child["LEFT"][y]] = a[y] - 1
          /\ v.parent[v.child["LEFT"][y]] = y /\ v.pos[v.child["LEFT"][y]] = "LEFT"
      BY <2>6, <3>1, <3>2, <3>3, <1>2, <1>4, <1>6
    <3>5. IF v.child["RIGHT"][y] = NIL THEN h[y] = a[y]
          ELSE /\ v.child["RIGHT"][y] \in U
               /\ l[v.child["RIGHT"][y]] = a[y] + 1 /\ h[v.child["RIGHT"][y]] = h[y]
               /\ v.parent[v.child["RIGHT"][y]] = y /\ v.pos[v.child["RIGHT"][y]] = "RIGHT"
      BY <2>2, <2>3, <2>6, <3>1, <3>2, <1>1, <1>2, <1>4, <1>6
    <3> QED
      BY <3>1, <3>3, <3>4, <3>5, <2>6
  <2>7. CASE y = p /\ d = "RIGHT"
    <3>1. v.child["RIGHT"][p] = x /\ v.child["LEFT"][p] = u.child["LEFT"][p]
      BY <2>7, <1>1, <1>7, Sides
    <3>2. hi[p] = q /\ k = q
      BY <2>3, <2>7
    <3>3. v.parent[x] = p /\ v.pos[x] = "RIGHT" /\ x # NIL
      BY <1>7, <2>7
    <3>4. /\ v.child["RIGHT"][y] \in U
          /\ l[v.child["RIGHT"][y]] = a[y] + 1 /\ h[v.child["RIGHT"][y]] = h[y]
          /\ v.parent[v.child["RIGHT"][y]] = y /\ v.pos[v.child["RIGHT"][y]] = "RIGHT"
      BY <2>7, <3>1, <3>2, <3>3, <1>2, <1>4, <1>6
    <3>5. IF v.child["LEFT"][y] = NIL THEN l[y] = a[y]
          ELSE /\ v.child["LEFT"][y] \in U
               /\ l[v.child["LEFT"][y]] = l[y] /\ h[v.child["LEFT"][y]] = a[y] - 1
               /\ v.parent[v.child["LEFT"][y]] = y /\ v.pos[v.child["LEFT"][y]] = "LEFT"
      BY <2>2, <2>3, <2>7, <3>1, <3>2, <1>1, <1>2, <1>4, <1>6
    <3> QED
      BY <3>1, <3>3, <3>4, <3>5, <2>7
  <2> QED
    BY <2>4, <2>5, <2>6, <2>7, Sides
<1> QED
  BY <1>5, <1>8, <1>9, <1>10 DEF Shaped, a, l, h

\* The new red leaf is all that may be wrong.
LEMMA HungRuled ==
  ASSUME NEW u \in Trees, NEW T, NEW n, NEW at, NEW lo, NEW hi, NEW b,
         Ruled(u, T, n, at, lo, hi, b, NIL), ~IsRed(u, u.root),
         NEW x \in Node \ T, \A e \in Side : u.child[e][x] = NIL, u.color[x] = "RED",
         NEW p \in T, NEW d \in Side, u.child[d][p] = NIL, NEW v, Hung(u, v, d, p, x),
         NEW k, k = IF d = "LEFT" THEN at[p] - 1 ELSE at[p]
  PROVE  Ruled(v, T \cup {x}, n + 1, AtGrown(T, at, k, x), LoGrown(T, lo, k, at[p], x),
               HiGrown(T, hi, k, at[p], x), [z \in T \cup {x, NIL} |-> IF z = x THEN 0 ELSE b[z]], x)
<1> DEFINE U == T \cup {x}
           c == [z \in T \cup {x, NIL} |-> IF z = x THEN 0 ELSE b[z]]
<1>1. Shaped(u, T, n, at, lo, hi)
  BY DEF Ruled
<1>2. Shaped(v, U, n + 1, AtGrown(T, at, k, x), LoGrown(T, lo, k, at[p], x), HiGrown(T, hi, k, at[p], x))
  BY <1>1, HungShaped
<1>3. T \subseteq Node /\ NIL \notin T /\ x # NIL /\ x \notin T
  BY <1>1 DEF Shaped, Placed
<1>4. u.root \in T
  BY <1>1 DEF Shaped, Rooted
<1>5. /\ v.root = u.root /\ v.color = u.color
      /\ \A e \in Side, z \in U : v.child[e][z] = IF z = p /\ e = d THEN x ELSE u.child[e][z]
  BY <1>3 DEF Hung
<1>6. /\ b \in [T \cup {NIL} -> Nat] /\ b[NIL] = 0
      /\ \A z \in T, e \in Side : b[z] = b[u.child[e][z]] + Weight(u, NIL, u.child[e][z])
  <2>1. /\ b \in [T \cup {NIL} -> Nat] /\ b[NIL] = 0
        /\ \A z \in T, e \in Side : b[z] = b[u.child[e][z]] + Weight(u, NIL, u.child[e][z]) + 0
    BY DEF Ruled, Balanced
  <2>2. \A z \in T, e \in Side : u.child[e][z] \in T \cup {NIL}
    BY <1>1, Kids
  <2>3. \A z \in T \cup {NIL} : b[z] \in Nat /\ Weight(u, NIL, z) \in Nat
    BY <2>1 DEF Weight
  <2> QED
    BY <2>1, <2>2, <2>3
<1>7. \A z : Weight(v, NIL, z) = Weight(u, NIL, z) /\ (IsRed(v, z) <=> IsRed(u, z))
  BY <1>5 DEF Weight, IsRed
<1>8. Weight(u, NIL, NIL) = 0 /\ Weight(u, NIL, x) = 0 /\ ~IsRed(u, NIL)
  BY DEF Weight, IsRed
<1>9. /\ c[x] = 0 /\ c[NIL] = 0 /\ \A z \in T \cup {NIL} : c[z] = b[z] /\ c[z] \in Nat
      /\ c \in [U \cup {NIL} -> Nat]
  BY <1>3, <1>6
<1> HIDE DEF c
<1>10. \A z \in T, e \in Side : u.child[e][z] \in T \cup {NIL}
  BY <1>1, Kids
<1>11. \A z \in T \cup {NIL} : Weight(u, NIL, z) \in Nat
  BY DEF Weight
<1>12. Balanced(v, U, c, NIL, NIL)
  <2> SUFFICES ASSUME NEW z \in U, NEW e \in Side
               PROVE  c[z] = c[v.child[e][z]] + Weight(v, NIL, v.child[e][z])
                             + (IF v.child[e][z] # NIL /\ v.child[e][z] = NIL THEN 1 ELSE 0)
    BY <1>9, Zenon DEF Balanced
  <2>1. c[z] = c[v.child[e][z]] + Weight(u, NIL, v.child[e][z])
    <3>1. CASE z = x
      <4>1. v.child[e][z] = NIL
        BY <3>1, <1>3, <1>5
      <4> QED
        BY <4>1, <3>1, <1>8, <1>9
    <3>2. CASE z = p /\ e = d
      <4>1. v.child[e][z] = x /\ b[p] = 0
        BY <3>2, <1>5, <1>6, <1>8
      <4> QED
        BY <4>1, <3>2, <1>8, <1>9
    <3>3. CASE z \in T /\ ~(z = p /\ e = d)
      <4>1. v.child[e][z] = u.child[e][z]
        BY <3>3, <1>5
      <4> QED
        BY <4>1, <3>3, <1>6, <1>9, <1>10
    <3> QED
      BY <3>1, <3>2, <3>3
  <2>2. c[v.child[e][z]] + Weight(u, NIL, v.child[e][z]) \in Nat
    BY <2>1, <1>9
  <2> QED
    BY <2>1, <2>2, <1>7
<1>13. RedsApart(v, U, x)
  <2>1. RedsApart(u, T, NIL)
    BY DEF Ruled
  <2> SUFFICES ASSUME NEW z \in U, NEW e \in Side, IsRed(u, z), IsRed(u, v.child[e][z]), v.child[e][z] # x
               PROVE  FALSE
    BY <1>7 DEF RedsApart
  <2>2. z \in T
    BY <1>3, <1>5, <1>8
  <2>3. IsRed(u, u.child[e][z])
    BY <1>5, <2>2
  <2>4. u.child[e][z] = NIL
    BY <2>1, <2>2, <2>3 DEF RedsApart
  <2> QED
    BY <2>3, <2>4, <1>8
<1>14. ~IsRed(v, v.root)
  BY <1>5, <1>7
<1> QED
  BY <1>2, <1>12, <1>13, <1>14 DEF Ruled, c

\* A set of numbers has a smallest one.
LEMMA Smallest ==
  ASSUME NEW A, A \subseteq Nat, A # {}
  PROVE  \E m \in A : \A i \in A : m <= i
<1>1. PICK m \in A : \A i \in A : ~(<<i, m>> \in OpToRel(<, Nat))
  BY NatLessThanWellFounded, WFMin, Zenon
<1>2. \A i \in A : i \in Nat /\ m \in Nat /\ ~(i < m)
  BY <1>1 DEF OpToRel
<1>3. \A i \in A : m <= i
  BY <1>2
<1> QED
  BY <1>3

\* The least member of a set of numbers is in it.
LEMMA MinIs ==
  ASSUME NEW A, A \subseteq Nat, A # {}
  PROVE  Min(A) \in A
<1>1. \E m \in A : \A i \in A : m <= i
  BY Smallest
<1> QED
  BY <1>1, Zenon DEF Min

\* A set of numbers from 1 on without gaps.
LEMMA Prefix ==
  ASSUME NEW n \in Nat, NEW A, A \subseteq 1 .. n, \A i \in A, j \in 1 .. n : j <= i => j \in A
  PROVE  Cardinality(A) \in 0 .. n /\ A = 1 .. Cardinality(A)
<1> DEFINE B == {m \in 0 .. n : m + 1 \notin A}
<1>1. n \in B
  OBVIOUS
<1>2. PICK m \in B : \A i \in B : m <= i
  <2>1. B \subseteq Nat /\ B # {}
    BY <1>1
  <2> HIDE DEF B
  <2> QED
    BY <2>1, Smallest
<1>3. m \in 0 .. n /\ m + 1 \notin A
  OBVIOUS
<1>4. ASSUME NEW i \in A
      PROVE  i \in 1 .. m
  <2>1. i \in 1 .. n
    OBVIOUS
  <2>2. ~(i >= m + 1)
    <3> SUFFICES ASSUME i >= m + 1 PROVE FALSE
      OBVIOUS
    <3>1. m + 1 \in 1 .. n /\ m + 1 <= i
      BY <2>1, <1>3
    <3>2. m + 1 \in A
      BY <3>1
    <3> QED
      BY <3>2, <1>3
  <2> QED
    BY <2>1, <2>2, <1>3
<1>5. ASSUME NEW i \in 1 .. m
      PROVE  i \in A
  <2>1. i - 1 \in 0 .. n /\ ~(m <= i - 1)
    BY <1>3
  <2>2. (i - 1) + 1 \in A
    BY <1>2, <2>1
  <2> QED
    BY <2>2
<1>6. A = 1 .. m
  BY <1>4, <1>5
<1>7. Cardinality(1 .. m) = m
  BY <1>3, FS_Interval
<1> QED
  BY <1>3, <1>6, <1>7

-----------------------------------------------------------------------------
(* add(root, x): the way down and the way back.                                       *)

AddDown(u, x, p) == LET c == u.child[SideOf(u, p, x)][p] IN IF c = NIL THEN p ELSE c
AddPath(u, x) ==
  LET path[n \in 0 .. Height + 1] == IF n = 0 THEN u.root ELSE AddDown(u, x, path[n - 1]) IN path
AddLevels(u, x) == Min({n \in 0 .. Height : AddPath(u, x)[n + 1] = AddPath(u, x)[n]})
AddBack(u, x, p, levels) ==
  LET back[n \in 0 .. levels] ==
        IF n = 0 THEN Hang(u, SideOf(u, p, x), p, x) ELSE CheckColor(back[n - 1], x)
  IN back

\* The recursive functions in AddBelowRoot are AddPath and AddBack.
LEMMA AddBelowRootIs ==
  ASSUME NEW u, NEW x
  PROVE  AddBelowRoot(u, x) = AddBack(u, x, AddPath(u, x)[AddLevels(u, x)], AddLevels(u, x))[AddLevels(u, x)]
BY Zenon DEF AddBelowRoot, AddPath, AddLevels, AddBack, AddDown

\* The nodes on the way to the place after the first k.
OnTheWay(T, lo, hi, k) == {y \in T : lo[y] - 1 <= k /\ k <= hi[y]}

\* A step down stays on the way to where x belongs, or has arrived there.
LEMMA AddDownStays ==
  ASSUME NEW u \in Trees, NEW T, NEW n, NEW at, NEW lo, NEW hi, Shaped(u, T, n, at, lo, hi),
         NEW x \in Node, NEW k \in 0 .. n, \A z \in T : u.key[x] > u.key[z] <=> at[z] <= k,
         NEW y \in OnTheWay(T, lo, hi, k)
  PROVE  /\ AddDown(u, x, y) \in OnTheWay(T, lo, hi, k)
         /\ SideOf(u, y, x) \in Side
         /\ IF u.child[SideOf(u, y, x)][y] = NIL
            THEN AddDown(u, x, y) = y /\ k = IF SideOf(u, y, x) = "LEFT" THEN at[y] - 1 ELSE at[y]
            ELSE AddDown(u, x, y) # y /\ hi[AddDown(u, x, y)] - lo[AddDown(u, x, y)] < hi[y] - lo[y]
<1> DEFINE c == u.child[SideOf(u, y, x)][y]
<1>1. y \in T /\ lo[y] - 1 <= k /\ k <= hi[y]
  BY DEF OnTheWay
<1>2. /\ T \subseteq Node /\ n \in Nat /\ NIL \notin T
      /\ at \in [T -> 1 .. n] /\ lo \in [T -> 1 .. n] /\ hi \in [T -> 1 .. n]
      /\ \A z \in T : lo[z] <= at[z] /\ at[z] <= hi[z]
  BY DEF Shaped, Placed
<1>3. \A z \in T : at[z] \in Nat /\ lo[z] \in Nat /\ hi[z] \in Nat
  BY <1>2
<1>4. CASE at[y] <= k
  <2>1. SideOf(u, y, x) = "RIGHT"
    BY <1>1, <1>4 DEF SideOf
  <2>2. IF c = NIL THEN hi[y] = at[y] ELSE c \in T /\ lo[c] = at[y] + 1 /\ hi[c] = hi[y]
    BY <2>1, <1>1 DEF Shaped, Filled
  <2>3. CASE c = NIL
    <3>1. AddDown(u, x, y) = y
      BY <2>3 DEF AddDown
    <3>2. k = at[y]
      BY <2>2, <2>3, <1>1, <1>3, <1>4
    <3> QED
      BY <3>1, <3>2, <2>1, <2>3, Sides
  <2>4. CASE c # NIL
    <3>1. AddDown(u, x, y) = c
      BY <2>4 DEF AddDown
    <3> HIDE DEF c
    <3>2. c \in T /\ lo[c] = at[y] + 1 /\ hi[c] = hi[y]
      BY <2>2, <2>4
    <3>3. lo[c] - 1 <= k /\ k <= hi[c] /\ hi[c] - lo[c] < hi[y] - lo[y] /\ c # y
      BY <3>2, <1>1, <1>2, <1>3, <1>4
    <3> QED
      BY <3>1, <3>2, <3>3, <2>1, <2>4, Sides DEF OnTheWay, c
  <2> QED
    BY <2>3, <2>4
<1>5. CASE ~(at[y] <= k)
  <2>1. SideOf(u, y, x) = "LEFT"
    BY <1>1, <1>5 DEF SideOf
  <2>2. IF c = NIL THEN lo[y] = at[y] ELSE c \in T /\ lo[c] = lo[y] /\ hi[c] = at[y] - 1
    BY <2>1, <1>1 DEF Shaped, Filled
  <2>3. CASE c = NIL
    <3>1. AddDown(u, x, y) = y
      BY <2>3 DEF AddDown
    <3>2. k = at[y] - 1
      BY <2>2, <2>3, <1>1, <1>3, <1>5
    <3> QED
      BY <3>1, <3>2, <2>1, <2>3, Sides
  <2>4. CASE c # NIL
    <3>1. AddDown(u, x, y) = c
      BY <2>4 DEF AddDown
    <3> HIDE DEF c
    <3>2. c \in T /\ lo[c] = lo[y] /\ hi[c] = at[y] - 1
      BY <2>2, <2>4
    <3>3. lo[c] - 1 <= k /\ k <= hi[c] /\ hi[c] - lo[c] < hi[y] - lo[y] /\ c # y
      BY <3>2, <1>1, <1>2, <1>3, <1>5
    <3> QED
      BY <3>1, <3>2, <3>3, <2>1, <2>4, Sides DEF OnTheWay, c
  <2> QED
    BY <2>3, <2>4
<1> QED
  BY <1>4, <1>5

\* What the way down computes, as long as every step stays in S.
LEMMA AddPathIs ==
  ASSUME NEW u, NEW x, NEW S, u.root \in S, \A y \in S : AddDown(u, x, y) \in S
  PROVE  /\ AddPath(u, x) \in [0 .. Height + 1 -> S]
         /\ AddPath(u, x)[0] = u.root
         /\ \A k \in 1 .. Height + 1 : AddPath(u, x)[k] = AddDown(u, x, AddPath(u, x)[k - 1])
<1> DEFINE R == u.root
           N == Height + 1
           turn == [s \in S |-> AddDown(u, x, s)]
           F(f) == [k \in 0 .. N |-> IF k = 0 THEN R ELSE AddDown(u, x, f[k - 1])]
<1>1. N \in Nat
  BY HeightNat
<1>2. turn \in [S -> S]
  OBVIOUS
<1> HIDE DEF turn, R, N
<1>3. PICK g : IsIteration(g, N, S, R, turn)
  BY <1>1, <1>2, Iterates DEF R
<1>4. g \in [0 .. N -> S] /\ g[0] = R /\ \A k \in 1 .. N : g[k] = turn[g[k - 1]]
  BY <1>3 DEF IsIteration
<1>5. \A k \in 1 .. N : g[k] = AddDown(u, x, g[k - 1])
  <2> SUFFICES ASSUME NEW k \in 1 .. N PROVE g[k] = AddDown(u, x, g[k - 1])
    OBVIOUS
  <2>1. k - 1 \in 0 .. N
    BY <1>1
  <2>2. g[k] = turn[g[k - 1]] /\ g[k - 1] \in S
    BY <1>4, <2>1
  <2> QED
    BY <2>2, Zenon DEF turn
<1>6. g = F(g)
  BY <1>1, <1>4, <1>5
<1>7. AddPath(u, x) = CHOOSE f : f = F(f)
  BY DEF AddPath, R, N
<1> DEFINE c == AddPath(u, x)
<1>8. c = F(c)
  <2> HIDE DEF F
  <2> QED
    BY <1>6, <1>7
<1> HIDE DEF c
<1>9. c[0] = R /\ \A k \in 1 .. N : c[k] = AddDown(u, x, c[k - 1])
  BY <1>1, <1>8
<1>10. \A k \in 0 .. N : c[k] \in S
  <2> SUFFICES ASSUME NEW k \in 0 .. N PROVE c[k] \in S
    OBVIOUS
  <2> DEFINE A == {i \in 0 .. k : c[i] \in S}
  <2>1. 0 \in A
    BY <1>9 DEF R
  <2>2. \A i \in 0 .. k - 1 : i \in A => i + 1 \in A
    <3> SUFFICES ASSUME NEW i \in 0 .. k - 1, i \in A PROVE i + 1 \in A
      OBVIOUS
    <3>1. i + 1 \in 1 .. N /\ i + 1 \in 0 .. k /\ (i + 1) - 1 = i
      BY <1>1
    <3>2. c[i + 1] = AddDown(u, x, c[i]) /\ c[i] \in S
      BY <3>1, <1>9
    <3> QED
      BY <3>1, <3>2
  <2> HIDE DEF A
  <2>3. k \in A
    BY <2>1, <2>2, UpTo
  <2> QED
    BY <2>3 DEF A
<1>11. c \in [0 .. N -> S]
  BY <1>8, <1>10
<1> QED
  BY <1>9, <1>11 DEF c, R, N

\* What the way back computes, as long as every checkColor stays in S.
LEMMA AddBackIs ==
  ASSUME NEW u, NEW x, NEW p, NEW levels \in Nat,
         NEW S, Hang(u, SideOf(u, p, x), p, x) \in S, \A v \in S : CheckColor(v, x) \in S
  PROVE  /\ AddBack(u, x, p, levels) \in [0 .. levels -> S]
         /\ AddBack(u, x, p, levels)[0] = Hang(u, SideOf(u, p, x), p, x)
         /\ \A k \in 1 .. levels : AddBack(u, x, p, levels)[k] = CheckColor(AddBack(u, x, p, levels)[k - 1], x)
<1> DEFINE R == Hang(u, SideOf(u, p, x), p, x)
           N == levels
           turn == [s \in S |-> CheckColor(s, x)]
           F(f) == [k \in 0 .. N |-> IF k = 0 THEN R ELSE CheckColor(f[k - 1], x)]
<1>1. N \in Nat
  OBVIOUS
<1>2. turn \in [S -> S]
  OBVIOUS
<1> HIDE DEF turn, R, N
<1>3. PICK g : IsIteration(g, N, S, R, turn)
  BY <1>1, <1>2, Iterates DEF R
<1>4. g \in [0 .. N -> S] /\ g[0] = R /\ \A k \in 1 .. N : g[k] = turn[g[k - 1]]
  BY <1>3 DEF IsIteration
<1>5. \A k \in 1 .. N : g[k] = CheckColor(g[k - 1], x)
  <2> SUFFICES ASSUME NEW k \in 1 .. N PROVE g[k] = CheckColor(g[k - 1], x)
    OBVIOUS
  <2>1. k - 1 \in 0 .. N
    BY <1>1
  <2>2. g[k] = turn[g[k - 1]] /\ g[k - 1] \in S
    BY <1>4, <2>1
  <2> QED
    BY <2>2, Zenon DEF turn
<1>6. g = F(g)
  BY <1>1, <1>4, <1>5
<1>7. AddBack(u, x, p, levels) = CHOOSE f : f = F(f)
  BY DEF AddBack, R, N
<1> DEFINE c == AddBack(u, x, p, levels)
<1>8. c = F(c)
  <2> HIDE DEF F
  <2> QED
    BY <1>6, <1>7
<1> HIDE DEF c
<1>9. c[0] = R /\ \A k \in 1 .. N : c[k] = CheckColor(c[k - 1], x)
  BY <1>1, <1>8
<1>10. \A k \in 0 .. N : c[k] \in S
  <2> SUFFICES ASSUME NEW k \in 0 .. N PROVE c[k] \in S
    OBVIOUS
  <2> DEFINE A == {i \in 0 .. k : c[i] \in S}
  <2>1. 0 \in A
    BY <1>9 DEF R
  <2>2. \A i \in 0 .. k - 1 : i \in A => i + 1 \in A
    <3> SUFFICES ASSUME NEW i \in 0 .. k - 1, i \in A PROVE i + 1 \in A
      OBVIOUS
    <3>1. i + 1 \in 1 .. N /\ i + 1 \in 0 .. k /\ (i + 1) - 1 = i
      BY <1>1
    <3>2. c[i + 1] = CheckColor(c[i], x) /\ c[i] \in S
      BY <3>1, <1>9
    <3> QED
      BY <3>1, <3>2
  <2> HIDE DEF A
  <2>3. k \in A
    BY <2>1, <2>2, UpTo
  <2> QED
    BY <2>3 DEF A
<1>11. c \in [0 .. N -> S]
  BY <1>8, <1>10
<1> QED
  BY <1>9, <1>11 DEF c, R, N

\* checkColor leaves a tree in order as it is in order.
LEMMA CheckColorAgain ==
  ASSUME NEW u, NEW v, NEW T, NEW n, NEW at, Kept(u, v, T, n, at), NEW x \in T
  PROVE  Kept(u, CheckColor(v, x), T, n, at)
<1>1. /\ v \in Trees /\ v.key = u.key /\ v.crashed = u.crashed
      /\ \E lo, hi, b : Ruled(v, T, n, at, lo, hi, b, NIL)
  BY DEF Kept
<1>2. PICK lo, hi, b : Ruled(v, T, n, at, lo, hi, b, NIL)
  BY <1>1
<1>3. Ruled(v, T, n, at, lo, hi, b, Suspect(v, x))
  BY <1>2, ApartNIL DEF Ruled
<1>4. Kept(v, CheckColor(v, x), T, n, at)
  BY <1>1, <1>3, CheckColorKeeps
<1> QED
  BY <1>1, <1>4 DEF Kept

\* The way down ends where x belongs.
LEMMA AddPathEnds ==
  ASSUME NEW u \in Trees, NEW T, NEW n, NEW at, NEW lo, NEW hi, Shaped(u, T, n, at, lo, hi), T # {},
         NEW x \in Node, NEW k \in 0 .. n, \A z \in T : u.key[x] > u.key[z] <=> at[z] <= k,
         NEW levels, levels = AddLevels(u, x), NEW p, p = AddPath(u, x)[levels]
  PROVE  /\ levels \in Nat /\ p \in T /\ (levels = 0 => p = u.root)
         /\ SideOf(u, p, x) \in Side /\ u.child[SideOf(u, p, x)][p] = NIL
         /\ k = IF SideOf(u, p, x) = "LEFT" THEN at[p] - 1 ELSE at[p]
<1> DEFINE S == OnTheWay(T, lo, hi, k)
           c == AddPath(u, x)
           A == [j \in 0 .. Height |-> {y \in S : AddDown(u, x, y) = y \/ hi[y] - lo[y] < j}]
           turn == [y \in S |-> AddDown(u, x, y)]
           L == {i \in 0 .. Height : c[i + 1] = c[i]}
<1>1. Height \in Nat
  BY HeightNat
<1>2. /\ n \in Nat /\ at \in [T -> 1 .. n] /\ lo \in [T -> 1 .. n] /\ hi \in [T -> 1 .. n] /\ n <= Height
      /\ \A y \in T : lo[y] <= at[y] /\ at[y] <= hi[y]
  BY PlacesFit DEF Shaped, Placed
<1>3. u.root \in T /\ lo[u.root] = 1 /\ hi[u.root] = n
  BY DEF Shaped, Rooted
<1>4. u.root \in S
  BY <1>2, <1>3 DEF OnTheWay
<1>5. ASSUME NEW y \in S
      PROVE  /\ AddDown(u, x, y) \in S /\ SideOf(u, y, x) \in Side
             /\ IF u.child[SideOf(u, y, x)][y] = NIL
                THEN AddDown(u, x, y) = y /\ k = IF SideOf(u, y, x) = "LEFT" THEN at[y] - 1 ELSE at[y]
                ELSE AddDown(u, x, y) # y /\ hi[AddDown(u, x, y)] - lo[AddDown(u, x, y)] < hi[y] - lo[y]
  BY <1>5, AddDownStays
<1>6. \A y \in S : y \in T /\ lo[y] \in 1 .. n /\ hi[y] \in 1 .. n /\ lo[y] <= hi[y]
  BY <1>2 DEF OnTheWay
<1> HIDE DEF S
<1>7. /\ c \in [0 .. Height + 1 -> S] /\ c[0] = u.root
      /\ \A i \in 1 .. Height + 1 : c[i] = AddDown(u, x, c[i - 1])
  BY <1>4, <1>5, AddPathIs
<1> HIDE DEF c
<1>8. ASSUME NEW j \in 1 .. Height, NEW y \in A[j]
      PROVE  turn[y] \in A[j - 1]
  <2> DEFINE z == AddDown(u, x, y)
  <2>1. y \in S /\ (z = y \/ hi[y] - lo[y] < j) /\ j - 1 \in 0 .. Height
    BY <1>1
  <2>2. z \in S /\ turn[y] = z
    BY <2>1, <1>5
  <2>3. CASE z = y
    BY <2>1, <2>2, <2>3
  <2>4. CASE z # y
    <3>1. hi[z] - lo[z] < hi[y] - lo[y]
      BY <2>1, <2>4, <1>5
    <3>2. /\ lo[y] \in Int /\ hi[y] \in Int /\ lo[z] \in Int /\ hi[z] \in Int
          /\ hi[y] - lo[y] < j
      BY <2>1, <2>2, <2>4, <1>6, <1>2
    <3>3. hi[z] - lo[z] < j - 1
      <4> HIDE DEF z
      <4> QED
        BY <3>1, <3>2
    <3> HIDE DEF z, turn
    <3> QED
      BY <2>1, <2>2, <3>3
  <2> QED
    BY <2>3, <2>4
<1>9. u.root \in A[Height]
  <2>1. hi[u.root] - lo[u.root] < Height /\ Height \in 0 .. Height
    BY <1>1, <1>2, <1>3
  <2> QED
    BY <2>1, <1>4
<1>10. \A i \in 1 .. Height : c[i] = turn[c[i - 1]]
  <2> SUFFICES ASSUME NEW i \in 1 .. Height PROVE c[i] = turn[c[i - 1]]
    OBVIOUS
  <2>1. i \in 1 .. Height + 1 /\ i - 1 \in 0 .. Height + 1
    BY <1>1
  <2> QED
    BY <2>1, <1>7
<1>11. c[Height] \in A[0]
  <2> HIDE DEF A, turn
  <2> QED
    BY <1>1, <1>7, <1>8, <1>9, <1>10, Descends
<1>12. AddDown(u, x, c[Height]) = c[Height]
  <2>1. 0 \in 0 .. Height /\ c[Height] \in S /\ (AddDown(u, x, c[Height]) = c[Height] \/ hi[c[Height]] - lo[c[Height]] < 0)
    BY <1>1, <1>11
  <2>2. ~(hi[c[Height]] - lo[c[Height]] < 0)
    <3>1. lo[c[Height]] \in 1 .. n /\ hi[c[Height]] \in 1 .. n /\ lo[c[Height]] <= hi[c[Height]]
      BY <2>1, <1>6
    <3> QED
      BY <3>1, <1>2
  <2> QED
    BY <2>1, <2>2
<1> HIDE DEF A, turn
<1>13. Height \in L
  <2>1. Height + 1 \in 1 .. Height + 1 /\ (Height + 1) - 1 = Height /\ Height \in 0 .. Height
    BY <1>1
  <2> QED
    BY <2>1, <1>7, <1>12
<1>14. levels = Min(L)
  BY DEF AddLevels, c
<1>15. levels \in L
  <2>1. L \subseteq Nat /\ L # {}
    BY <1>13
  <2> HIDE DEF L
  <2> QED
    BY <2>1, <1>14, MinIs
<1>16. levels \in 0 .. Height /\ c[levels + 1] = c[levels]
  BY <1>15
<1>17. p = c[levels]
  BY DEF c
<1>18. p \in S /\ AddDown(u, x, p) = p
  <2>1. levels \in 0 .. Height + 1 /\ levels + 1 \in 1 .. Height + 1 /\ (levels + 1) - 1 = levels
    BY <1>1, <1>16
  <2> QED
    BY <2>1, <1>7, <1>16, <1>17
<1>19. levels = 0 => p = u.root
  BY <1>7, <1>17
<1> HIDE DEF L
<1> QED
  BY <1>5, <1>6, <1>16, <1>18, <1>19

\* add puts x behind the first k nodes.
LEMMA AddKeeps ==
  ASSUME NEW u \in Trees, NEW T, NEW n, NEW at, NEW lo, NEW hi, NEW b, T # {},
         Ruled(u, T, n, at, lo, hi, b, NIL), ~IsRed(u, u.root),
         NEW x \in Node \ T, \A e \in Side : u.child[e][x] = NIL, u.color[x] = "RED",
         NEW k \in 0 .. n, \A z \in T : u.key[x] > u.key[z] <=> at[z] <= k
  PROVE  Kept(u, AddBelowRoot(u, x), T \cup {x}, n + 1, AtGrown(T, at, k, x))
<1> DEFINE U == T \cup {x}
           a == AtGrown(T, at, k, x)
           levels == AddLevels(u, x)
           p == AddPath(u, x)[levels]
           d == SideOf(u, p, x)
           v == Hang(u, d, p, x)
           back == AddBack(u, x, p, levels)
<1>1. Shaped(u, T, n, at, lo, hi) /\ T \subseteq Node
  BY DEF Ruled, Shaped, Placed
<1>2. /\ levels \in Nat /\ p \in T /\ (levels = 0 => p = u.root)
      /\ d \in Side /\ u.child[d][p] = NIL
      /\ k = IF d = "LEFT" THEN at[p] - 1 ELSE at[p]
  <2> HIDE DEF p
  <2>1. p = AddPath(u, x)[levels]
    BY DEF p
  <2> HIDE DEF levels
  <2>2. levels = AddLevels(u, x)
    BY DEF levels
  <2> QED
    BY <1>1, <2>1, <2>2, AddPathEnds
<1>3. AddBelowRoot(u, x) = back[levels]
  BY AddBelowRootIs
<1> HIDE DEF levels, p
<1>4. Hung(u, v, d, p, x)
  BY <1>1, <1>2, HangHangs
<1> HIDE DEF d, v
<1>5. PICK l2, h2, b2 : Ruled(v, U, n + 1, a, l2, h2, b2, x)
  BY <1>2, <1>4, HungRuled
<1>6. v \in Trees /\ v.key = u.key /\ v.crashed = u.crashed /\ v.color = u.color /\ v.root = u.root
  BY <1>4 DEF Hung
<1>7. x \in U /\ x # NIL
  OBVIOUS
<1>8. Kept(u, CheckColor(v, x), U, n + 1, a)
  <2>1. Suspect(v, x) = x
    BY <1>6, <1>7 DEF Suspect, IsRed
  <2>2. Kept(v, CheckColor(v, x), U, n + 1, a)
    BY <1>5, <1>6, <1>7, <2>1, CheckColorKeeps
  <2> QED
    BY <1>6, <2>2 DEF Kept
<1>9. CASE levels = 0
  <2>1. p = u.root /\ ~IsRed(v, v.root)
    BY <1>2, <1>6, <1>9 DEF IsRed
  <2>2. RedsApart(v, U, NIL)
    <3>1. RedsApart(v, U, x)
      BY <1>5 DEF Ruled
    <3>2. \A z \in U, e \in Side : v.child[e][z] = x => z = p
      <4>1. Shaped(v, U, n + 1, a, l2, h2)
        BY <1>5 DEF Ruled
      <4>2. \A z \in U, e \in Side : v.child[e][z] = x => v.parent[x] = z
        BY <4>1, <1>7, Kids
      <4>3. v.parent[x] = p
        BY <1>4 DEF Hung
      <4> QED
        BY <4>2, <4>3
    <3> QED
      BY <3>1, <3>2, <2>1, <1>6 DEF RedsApart
  <2>3. Ruled(v, U, n + 1, a, l2, h2, b2, NIL)
    BY <2>2, <1>5 DEF Ruled
  <2>4. Kept(u, v, U, n + 1, a)
    BY <2>1, <2>3, <1>6 DEF Kept
  <2> DEFINE S == {w \in Trees : Kept(u, w, U, n + 1, a)}
  <2>5. v \in S /\ \A w \in S : CheckColor(w, x) \in S
    <3>1. \A w \in S : Kept(u, CheckColor(w, x), U, n + 1, a)
      BY <1>7, CheckColorAgain
    <3>2. \A w \in S : CheckColor(w, x) \in Trees
      BY <3>1 DEF Kept
    <3> QED
      BY <2>4, <1>6, <3>1, <3>2
  <2> HIDE DEF S
  <2>6. back[0] = v
    BY <2>5, <1>2, AddBackIs DEF v, d
  <2> QED
    BY <1>3, <1>9, <2>4, <2>6
<1>10. CASE levels # 0
  <2> DEFINE S == {w \in Trees : w = v \/ Kept(u, w, U, n + 1, a)}
  <2>1. \A w \in S : Kept(u, CheckColor(w, x), U, n + 1, a)
    BY <1>7, <1>8, CheckColorAgain
  <2>2. v \in S /\ \A w \in S : CheckColor(w, x) \in S
    <3>1. \A w \in S : CheckColor(w, x) \in Trees
      BY <2>1 DEF Kept
    <3> QED
      BY <1>6, <2>1, <3>1
  <2> HIDE DEF S
  <2>3. /\ back \in [0 .. levels -> S]
        /\ \A j \in 1 .. levels : back[j] = CheckColor(back[j - 1], x)
    BY <2>2, <1>2, AddBackIs DEF v, d
  <2>4. levels \in 1 .. levels /\ levels - 1 \in 0 .. levels
    BY <1>2, <1>10
  <2>5. back[levels] = CheckColor(back[levels - 1], x) /\ back[levels - 1] \in S
    BY <2>3, <2>4
  <2> QED
    BY <1>3, <2>1, <2>5
<1> QED
  BY <1>9, <1>10

-----------------------------------------------------------------------------
(* Removal.  The leftmost node x0 is a black leaf that does not count any more, and   *)
(* what is below y is one black node short, where y is a node: it is x0 or above it.  *)

Short(u, T, n, at, lo, hi, b, x0, y) ==
  /\ Shaped(u, T, n, at, lo, hi) /\ Balanced(u, T, b, x0, y)
  /\ RedsApart(u, T, NIL) /\ ~IsRed(u, u.root)
  /\ x0 \in T /\ lo[x0] = 1 /\ hi[x0] = 1
  /\ y \in T \cup {NIL} /\ (y # NIL => lo[y] = 1 /\ ~IsRed(u, y))

\* Who is around y: p above it, s to the right of it, and below s near and far.
Kin(u, T, x0, y, p, s, near, far) ==
  /\ p \in T /\ s \in T /\ y \in T /\ y # p /\ s # p /\ s # y
  /\ p # x0 /\ s # x0 /\ s # u.root /\ y # u.root /\ u.root \in T
  /\ u.child["LEFT"][p] = y /\ u.child["RIGHT"][p] = s
  /\ u.parent[y] = p /\ u.parent[s] = p /\ u.pos[y] = "LEFT" /\ u.pos[s] = "RIGHT"
  /\ near = u.child["LEFT"][s] /\ far = u.child["RIGHT"][s]
  /\ near \in T \cup {NIL} /\ far \in T \cup {NIL}
  /\ near \notin {p, s, y, x0, u.root} /\ far \notin {p, s, y, x0, u.root}
  /\ near # NIL => near # far
  /\ u.parent[p] = NIL <=> p = u.root

\* A node that is one black node short, and is not the root, has a sibling: fixDB never
\* asks for the colors of a sibling that is not there.
LEMMA ShortKin ==
  ASSUME NEW u \in Trees, NEW T, NEW n, NEW at, NEW lo, NEW hi, NEW b, NEW x0, NEW y \in T,
         Short(u, T, n, at, lo, hi, b, x0, y), y # u.root,
         NEW p, p = u.parent[y], NEW s, s = u.child["RIGHT"][p],
         NEW near, near = u.child["LEFT"][s], NEW far, far = u.child["RIGHT"][s]
  PROVE  /\ Kin(u, T, x0, y, p, s, near, far) /\ Sibling(u, y) = s
         /\ lo[p] = 1 /\ hi[p] - lo[p] >= hi[y] - lo[y] + 1
<1>1. /\ Shaped(u, T, n, at, lo, hi) /\ Balanced(u, T, b, x0, y) /\ x0 \in T /\ lo[x0] = 1 /\ hi[x0] = 1
      /\ lo[y] = 1
  <2>1. Shaped(u, T, n, at, lo, hi)
    BY DEF Short
  <2>2. y # NIL
    BY <2>1 DEF Shaped, Placed
  <2> QED
    BY <2>2 DEF Short
<1>2. /\ T \subseteq Node /\ NIL \notin T /\ n \in Nat
      /\ at \in [T -> 1 .. n] /\ lo \in [T -> 1 .. n] /\ hi \in [T -> 1 .. n]
      /\ \A z \in T : lo[z] <= at[z] /\ at[z] <= hi[z]
  BY <1>1 DEF Shaped, Placed
<1>3. \A z \in T : at[z] \in Nat /\ lo[z] \in Nat /\ hi[z] \in Nat /\ lo[z] >= 1
  BY <1>2
<1>4. /\ u.root \in T /\ u.parent[u.root] = NIL
  BY <1>1 DEF Shaped, Rooted
<1>5. /\ p \in T /\ p # y /\ p # NIL /\ u.pos[y] \in Side /\ u.child[u.pos[y]][p] = y
      /\ hi[p] - lo[p] >= hi[y] - lo[y] + 1
  BY <1>1, ParentBigger
<1>6. \A z \in T : /\ u.child["LEFT"][z] # NIL =>
                        /\ u.child["LEFT"][z] \in T /\ lo[u.child["LEFT"][z]] = lo[z]
                        /\ hi[u.child["LEFT"][z]] = at[z] - 1
                        /\ u.parent[u.child["LEFT"][z]] = z /\ u.pos[u.child["LEFT"][z]] = "LEFT"
                   /\ u.child["RIGHT"][z] # NIL =>
                        /\ u.child["RIGHT"][z] \in T /\ lo[u.child["RIGHT"][z]] = at[z] + 1
                        /\ u.parent[u.child["RIGHT"][z]] = z /\ u.pos[u.child["RIGHT"][z]] = "RIGHT"
  BY <1>1 DEF Shaped, Filled
<1>7. \A z \in T : u.child["RIGHT"][z] # NIL => lo[u.child["RIGHT"][z]] >= 2
  BY <1>2, <1>3, <1>6
<1>8. u.pos[y] = "LEFT"
  BY <1>1, <1>2, <1>5, <1>7, Sides
<1>9. u.child["LEFT"][p] = y /\ lo[p] = 1
  BY <1>1, <1>2, <1>5, <1>6, <1>8
<1>10. s # NIL
  <2> SUFFICES ASSUME s = NIL PROVE FALSE
    OBVIOUS
  <2>1. b \in [T \cup {NIL} -> Nat] /\ b[NIL] = 0
    BY <1>1 DEF Balanced
  <2>2. \A e \in Side : b[p] = b[u.child[e][p]] + Weight(u, x0, u.child[e][p])
                               + (IF u.child[e][p] # NIL /\ u.child[e][p] = y THEN 1 ELSE 0)
    BY <1>1, <1>5 DEF Balanced
  <2>3. b[p] = b[y] + Weight(u, x0, y) + 1
    BY <2>2, <1>2, <1>9, Sides
  <2>4. b[p] = b[NIL] + Weight(u, x0, NIL) + 0
    BY <2>2, Sides
  <2>5. Weight(u, x0, NIL) = 0 /\ Weight(u, x0, y) \in Nat
    BY DEF Weight
  <2> QED
    BY <2>1, <2>3, <2>4, <2>5
<1>11. /\ s \in T /\ lo[s] = at[p] + 1 /\ u.parent[s] = p /\ u.pos[s] = "RIGHT" /\ lo[s] >= 2
  BY <1>5, <1>6, <1>7, <1>10
<1>12. s # p /\ s # y /\ s # x0 /\ s # u.root
  BY <1>1, <1>2, <1>4, <1>5, <1>8, <1>9, <1>11
<1>13. hi[y] = at[p] - 1 /\ p # x0
  <2>1. hi[y] = at[p] - 1
    BY <1>2, <1>5, <1>6, <1>9
  <2>2. at[p] <= hi[p] /\ at[p] \in Nat /\ hi[p] \in Nat /\ hi[y] \in Nat /\ lo[y] <= hi[y]
    BY <1>2, <1>3, <1>5
  <2> QED
    BY <2>1, <2>2, <1>1
<1>14. near # NIL => /\ near \in T /\ lo[near] = lo[s] /\ u.parent[near] = s /\ u.pos[near] = "LEFT"
  BY <1>6, <1>11
<1>15. far # NIL => /\ far \in T /\ lo[far] >= 2 /\ u.parent[far] = s /\ u.pos[far] = "RIGHT"
  BY <1>6, <1>7, <1>11
<1>16. near # NIL => near \notin {p, s, y, x0, u.root}
  <2> SUFFICES ASSUME near # NIL PROVE near \notin {p, s, y, x0, u.root}
    OBVIOUS
  <2>1. near # x0 /\ near # y /\ near # p
    <3>1. lo[near] # 1
      <4>1. lo[near] = lo[s] /\ lo[s] >= 2 /\ lo[s] \in Nat
        BY <1>3, <1>11, <1>14
      <4>2. \A i \in Nat : i >= 2 => i # 1
        OBVIOUS
      <4> QED
        BY <4>1, <4>2, Zenon
    <3> QED
      BY <3>1, <1>1, <1>9
  <2>2. near # u.root /\ near # s
    BY <1>4, <1>11, <1>12, <1>14, <1>2
  <2> QED
    BY <2>1, <2>2
<1>17. far # NIL => far \notin {p, s, y, x0, u.root}
  <2> SUFFICES ASSUME far # NIL PROVE far \notin {p, s, y, x0, u.root}
    OBVIOUS
  <2>1. far # x0 /\ far # y /\ far # p
    BY <1>1, <1>9, <1>15
  <2>2. far # u.root /\ far # s
    BY <1>4, <1>11, <1>12, <1>15, <1>2
  <2> QED
    BY <2>1, <2>2
<1>18. NIL \notin {p, s, y, x0, u.root}
  BY <1>1, <1>2, <1>4, <1>5, <1>11
<1>19. near # NIL => near # far
  BY <1>14, <1>15
<1>20. u.parent[p] = NIL <=> p = u.root
  BY <1>1, <1>2, <1>4, <1>5 DEF Shaped, Backed
<1>21. Sibling(u, y) = s
  BY <1>8, Sides DEF Sibling
<1>22. Kin(u, T, x0, y, p, s, near, far)
  BY <1>4, <1>5, <1>8, <1>9, <1>11, <1>12, <1>13, <1>14, <1>15, <1>16, <1>17, <1>18, <1>19, <1>20 DEF Kin
<1> QED
  BY <1>5, <1>9, <1>21, <1>22

\* A rotation that brings a red node above a black one leaves y as short as it is.
LEMMA ShortTurned ==
  ASSUME NEW u \in Trees, NEW T, NEW n, NEW at, NEW lo, NEW hi, NEW b, NEW x0, NEW y \in T,
         Short(u, T, n, at, lo, hi, b, x0, y),
         NEW d \in Side, NEW x \in T, u.child[Other(d)][x] # NIL, NEW w, Turned(u, w, d, x),
         NEW temp, temp = u.child[Other(d)][x],
         x # x0, x # y, temp # x0, temp # y, u.color[x] = "BLACK", u.color[temp] = "RED",
         ~IsRed(u, u.child[d][x]), ~IsRed(u, u.child[d][temp]),
         Repainted(u, w, T, x, temp)
  PROVE  /\ Short(w, T, n, at, LoTurned(lo, at, d, x, temp), HiTurned(hi, at, d, x, temp), b, x0, y)
         /\ LoTurned(lo, at, d, x, temp)[y] = lo[y] /\ HiTurned(hi, at, d, x, temp)[y] = hi[y]
<1> DEFINE l2 == LoTurned(lo, at, d, x, temp)
           h2 == HiTurned(hi, at, d, x, temp)
<1>1. /\ Shaped(u, T, n, at, lo, hi) /\ Balanced(u, T, b, x0, y) /\ RedsApart(u, T, NIL)
      /\ ~IsRed(u, u.root) /\ x0 \in T /\ lo[x0] = 1 /\ hi[x0] = 1
  BY DEF Short
<1>2. NIL \notin T /\ lo \in [T -> 1 .. n] /\ hi \in [T -> 1 .. n]
  BY <1>1 DEF Shaped, Placed
<1>3. lo[y] = 1 /\ ~IsRed(u, y)
  BY <1>2 DEF Short
<1>4. Shaped(w, T, n, at, l2, h2)
  BY <1>1, TurnedShaped
<1>5. x \notin {x0, y} /\ temp \notin {x0, y}
  OBVIOUS
<1>6. Balanced(w, T, b, x0, y)
  BY <1>1, <1>5, TurnedBalanced
<1>7. RedsApart(w, T, NIL)
  <2>1. RedsApart(u, T, u.child[Other(d)][temp])
    BY <1>1, ApartNIL
  <2> QED
    BY <2>1, <1>1, TurnedApart
<1>8. \A z \in T : z # x /\ z # temp => l2[z] = lo[z] /\ h2[z] = hi[z]
  <2>1. CASE d = "LEFT"
    BY <2>1, <1>2 DEF LoTurned, HiTurned
  <2>2. CASE d = "RIGHT"
    BY <2>2, <1>2 DEF LoTurned, HiTurned
  <2> QED
    BY <2>1, <2>2, Sides
<1>9. ~IsRed(w, w.root)
  <2>1. /\ u.root \in T /\ temp \in T /\ (u.parent[x] = NIL <=> x = u.root) /\ temp # u.root
    <3>1. u.root \in T
      BY <1>1 DEF Shaped, Rooted
    <3> QED
      BY <3>1, <1>1, Around
  <2>2. w.root = IF u.parent[x] = NIL THEN temp ELSE u.root
    BY DEF Turned
  <2> QED
    BY <2>1, <2>2, <1>1 DEF IsRed, Repainted
<1>10. ~IsRed(w, y)
  BY <1>3 DEF IsRed, Repainted
<1> HIDE DEF l2, h2
<1>11. l2[y] = lo[y] /\ h2[y] = hi[y] /\ l2[x0] = 1 /\ h2[x0] = 1
  BY <1>1, <1>8
<1> QED
  BY <1>1, <1>3, <1>4, <1>6, <1>7, <1>9, <1>10, <1>11 DEF Short, l2, h2

\* A red node and its black parent exchange their colors as the node comes above.
Swapped(u, v, x, temp) ==
  /\ SameLinks(u, v)
  /\ \A z \in Node : v.color[z] = IF z = x THEN "RED" ELSE IF z = temp THEN u.color[x] ELSE u.color[z]

\* The colors exchanged first, then the rotation.
LEMMA SwapThenRotate ==
  ASSUME NEW u \in Trees, NEW T, NEW n, NEW at, NEW lo, NEW hi, Shaped(u, T, n, at, lo, hi),
         NEW d \in Side, NEW x \in T, NEW temp, temp = u.child[Other(d)][x], temp # NIL, temp # x,
         u.color[x] = "BLACK", NEW v, Swapped(u, v, x, temp)
  PROVE  Turned(u, Rotate(v, d, x), d, x) /\ Repainted(u, Rotate(v, d, x), T, x, temp)
<1>1. /\ v \in Trees /\ v.child = u.child /\ v.parent = u.parent /\ SameLinks(u, v)
      /\ \A z \in Node : v.color[z] = IF z = x THEN "RED" ELSE IF z = temp THEN u.color[x] ELSE u.color[z]
  BY DEF Swapped, SameLinks
<1>2. Shaped(v, T, n, at, lo, hi) /\ T \subseteq Node
  BY <1>1, SameLinksShaped DEF Shaped, Placed
<1>3. temp = v.child[Other(d)][x]
  BY <1>1
<1>4. /\ Turned(v, Rotate(v, d, x), d, x)
      /\ Rotate(v, d, x).color = IF v.parent[x] = NIL THEN [v.color EXCEPT ![temp] = "BLACK"] ELSE v.color
  BY <1>1, <1>2, <1>3, RotateShaped
<1>5. Turned(u, Rotate(v, d, x), d, x)
  BY <1>1, <1>4, SameLinksTurned
<1>6. v.color \in [Node -> {"RED", "BLACK"}]
  BY <1>1 DEF Trees
<1> DEFINE cw == Rotate(v, d, x).color
<1>7. \A z \in T : cw[z] = v.color[z]
  BY <1>1, <1>2, <1>4, <1>6
<1> HIDE DEF cw
<1>8. \A z \in T : cw[z] = IF z = temp THEN u.color[x] ELSE IF z = x THEN "RED" ELSE u.color[z]
  BY <1>1, <1>2, <1>7
<1> QED
  BY <1>5, <1>8 DEF Repainted, cw

-----------------------------------------------------------------------------
(* The cases of fixDB.                                                                *)

\* A red sibling: it comes above p, and near is the new, black sibling.
LEMMA FixRedSibling ==
  ASSUME NEW u \in Trees, NEW T, NEW n, NEW at, NEW lo, NEW hi, NEW b, NEW x0, NEW y \in T,
         Short(u, T, n, at, lo, hi, b, x0, y),
         NEW p, NEW s, NEW near, NEW far, Kin(u, T, x0, y, p, s, near, far),
         IsRed(u, s), NEW v, Swapped(u, v, p, s), NEW w, w = Rotate(v, "LEFT", p)
  PROVE  /\ w \in Trees /\ w.key = u.key /\ w.crashed = u.crashed
         /\ \E l2, h2 : Short(w, T, n, at, l2, h2, b, x0, y) /\ l2[y] = lo[y] /\ h2[y] = hi[y]
         /\ y # w.root /\ w.parent[y] = p /\ w.child["RIGHT"][p] = near
         /\ IsRed(w, p) /\ ~IsRed(w, near)
<1>1. /\ Shaped(u, T, n, at, lo, hi) /\ RedsApart(u, T, NIL)
  BY DEF Short
<1>2. T \subseteq Node /\ NIL \notin T
  BY <1>1 DEF Shaped, Placed
<1>3. /\ p \in T /\ s \in T /\ y # p /\ s # p /\ s # y /\ p # x0 /\ s # x0 /\ y # u.root
      /\ u.child["LEFT"][p] = y /\ u.child["RIGHT"][p] = s /\ u.parent[y] = p
      /\ near = u.child["LEFT"][s] /\ near \in T \cup {NIL} /\ near \notin {p, s, y}
  BY DEF Kin
<1>4. "LEFT" \in Side /\ "RIGHT" \in Side /\ Other("LEFT") = "RIGHT"
  BY Sides
<1>5. u.color[p] = "BLACK" /\ u.color[s] = "RED"
  <2>1. ~IsRed(u, p)
    BY <1>1, <1>2, <1>3, <1>4 DEF RedsApart
  <2> QED
    BY <2>1, <1>2, <1>3, FieldTypes DEF IsRed
<1>6. ~IsRed(u, near)
  BY <1>1, <1>2, <1>3, <1>4 DEF RedsApart, IsRed
<1>7. s = u.child[Other("LEFT")][p] /\ u.child[Other("LEFT")][p] # NIL /\ s # NIL
  BY <1>2, <1>3, <1>4
<1>8. Turned(u, w, "LEFT", p) /\ Repainted(u, w, T, p, s)
  BY <1>1, <1>3, <1>4, <1>5, <1>7, SwapThenRotate
<1>9. ~IsRed(u, u.child["LEFT"][p]) /\ ~IsRed(u, u.child["LEFT"][s])
  BY <1>2, <1>3, <1>6 DEF Short
<1>10. /\ Short(w, T, n, at, LoTurned(lo, at, "LEFT", p, s), HiTurned(hi, at, "LEFT", p, s), b, x0, y)
       /\ LoTurned(lo, at, "LEFT", p, s)[y] = lo[y] /\ HiTurned(hi, at, "LEFT", p, s)[y] = hi[y]
  BY <1>3, <1>4, <1>5, <1>7, <1>8, <1>9, ShortTurned
<1>11. /\ w \in Trees /\ w.key = u.key /\ w.crashed = u.crashed
       /\ y # w.root /\ w.parent[y] = p /\ w.child["RIGHT"][p] = near
  <2>1. /\ w \in Trees /\ w.key = u.key /\ w.crashed = u.crashed
        /\ w.root = IF u.parent[p] = NIL THEN s ELSE u.root
        /\ w.child["RIGHT"][p] = u.child["LEFT"][s]
        /\ w.parent[y] = IF y = p THEN s ELSE IF y = s THEN u.parent[p]
                         ELSE IF y = u.child["LEFT"][s] THEN p ELSE u.parent[y]
    BY <1>2, <1>3, <1>4, <1>7, <1>8 DEF Turned
  <2> QED
    BY <2>1, <1>3
<1>12. IsRed(w, p) /\ ~IsRed(w, near)
  BY <1>2, <1>3, <1>6, <1>8 DEF Repainted, IsRed
<1> QED
  BY <1>10, <1>11, <1>12

\* A red nephew on the near side: it comes above the sibling, which is the red nephew on
\* the far side then.
LEMMA FixNearRed ==
  ASSUME NEW u \in Trees, NEW T, NEW n, NEW at, NEW lo, NEW hi, NEW b, NEW x0, NEW y \in T,
         Short(u, T, n, at, lo, hi, b, x0, y),
         NEW p, NEW s, NEW near, NEW far, Kin(u, T, x0, y, p, s, near, far),
         ~IsRed(u, s), ~IsRed(u, far), IsRed(u, near),
         NEW v, Swapped(u, v, s, near), NEW w, w = Rotate(v, "RIGHT", s)
  PROVE  /\ w \in Trees /\ w.key = u.key /\ w.crashed = u.crashed
         /\ \E l2, h2 : Short(w, T, n, at, l2, h2, b, x0, y) /\ l2[y] = lo[y] /\ h2[y] = hi[y]
         /\ y # w.root /\ w.parent[y] = p /\ w.child["RIGHT"][p] = near
         /\ ~IsRed(w, near) /\ IsRed(w, w.child["RIGHT"][near])
<1>1. /\ Shaped(u, T, n, at, lo, hi) /\ RedsApart(u, T, NIL)
  BY DEF Short
<1>2. T \subseteq Node /\ NIL \notin T
  BY <1>1 DEF Shaped, Placed
<1>3. /\ p \in T /\ s \in T /\ y # p /\ s # p /\ s # y /\ p # x0 /\ s # x0 /\ y # u.root
      /\ u.child["RIGHT"][p] = s /\ u.parent[y] = p /\ u.parent[s] = p /\ u.pos[s] = "RIGHT"
      /\ near = u.child["LEFT"][s] /\ near \in T \cup {NIL} /\ near \notin {p, s, y, x0}
      /\ far = u.child["RIGHT"][s]
  BY DEF Kin
<1>4. "LEFT" \in Side /\ "RIGHT" \in Side /\ Other("RIGHT") = "LEFT"
  BY Sides
<1>5. near \in T /\ near # NIL /\ u.color[near] = "RED" /\ u.color[s] = "BLACK"
  BY <1>2, <1>3, FieldTypes DEF IsRed
<1>6. ~IsRed(u, u.child["RIGHT"][near])
  BY <1>1, <1>4, <1>5 DEF RedsApart, IsRed
<1>7. near = u.child[Other("RIGHT")][s] /\ u.child[Other("RIGHT")][s] # NIL /\ near # s
  BY <1>3, <1>4, <1>5
<1>8. Turned(u, w, "RIGHT", s) /\ Repainted(u, w, T, s, near)
  BY <1>1, <1>3, <1>4, <1>5, <1>7, SwapThenRotate
<1>9. near # x0 /\ near # y /\ ~IsRed(u, u.child["RIGHT"][s])
  BY <1>3
<1>10. /\ Short(w, T, n, at, LoTurned(lo, at, "RIGHT", s, near), HiTurned(hi, at, "RIGHT", s, near), b, x0, y)
       /\ LoTurned(lo, at, "RIGHT", s, near)[y] = lo[y] /\ HiTurned(hi, at, "RIGHT", s, near)[y] = hi[y]
  BY <1>3, <1>4, <1>5, <1>6, <1>7, <1>8, <1>9, ShortTurned
<1>11. /\ w \in Trees /\ w.key = u.key /\ w.crashed = u.crashed
       /\ y # w.root /\ w.parent[y] = p /\ w.child["RIGHT"][p] = near
       /\ w.child["RIGHT"][near] = s
  <2>1. /\ w \in Trees /\ w.key = u.key /\ w.crashed = u.crashed
        /\ w.root = IF u.parent[s] = NIL THEN near ELSE u.root
        /\ w.child["RIGHT"][near] = s
        /\ w.child["RIGHT"][p] = IF p = u.parent[s] /\ "RIGHT" = u.pos[s] THEN near ELSE u.child["RIGHT"][p]
        /\ w.parent[y] = IF y = s THEN near ELSE IF y = near THEN u.parent[s]
                         ELSE IF y = u.child["RIGHT"][near] THEN s ELSE u.parent[y]
    BY <1>2, <1>3, <1>4, <1>5, <1>7, <1>8 DEF Turned
  <2>2. y # u.child["RIGHT"][near]
    BY <1>1, <1>2, <1>3, <1>4, <1>5, Kids
  <2> QED
    BY <2>1, <2>2, <1>2, <1>3
<1>12. ~IsRed(w, near) /\ IsRed(w, s)
  BY <1>2, <1>3, <1>5, <1>8 DEF Repainted, IsRed
<1> QED
  BY <1>10, <1>11, <1>12

\* The sibling is painted red: the paths through p are one black node short, unless p
\* was red and is black now.
LEMMA FixRecolored ==
  ASSUME NEW u \in Trees, NEW T, NEW n, NEW at, NEW lo, NEW hi, NEW b, NEW x0, NEW y \in T,
         Short(u, T, n, at, lo, hi, b, x0, y),
         NEW p, NEW s, NEW near, NEW far, Kin(u, T, x0, y, p, s, near, far), lo[p] = 1,
         ~IsRed(u, s), ~IsRed(u, far), ~IsRed(u, near),
         NEW w, SameLinks(u, w),
         \A z \in Node : w.color[z] = IF z = s THEN "RED" ELSE IF z = p THEN "BLACK" ELSE u.color[z],
         NEW z0, z0 = IF IsRed(u, p) THEN NIL ELSE p
  PROVE  Short(w, T, n, at, lo, hi, [b EXCEPT ![p] = b[p] - 1], x0, z0)
<1> DEFINE c == [b EXCEPT ![p] = b[p] - 1]
<1>1. /\ Shaped(u, T, n, at, lo, hi) /\ RedsApart(u, T, NIL) /\ Balanced(u, T, b, x0, y)
      /\ ~IsRed(u, u.root) /\ x0 \in T /\ lo[x0] = 1 /\ hi[x0] = 1
  BY DEF Short
<1>2. T \subseteq Node /\ NIL \notin T
  BY <1>1 DEF Shaped, Placed
<1>3. /\ p \in T /\ s \in T /\ y # p /\ s # p /\ s # y /\ p # x0 /\ s # x0 /\ s # u.root /\ u.root \in T
      /\ u.child["LEFT"][p] = y /\ u.child["RIGHT"][p] = s /\ u.parent[y] = p /\ u.parent[s] = p
      /\ near = u.child["LEFT"][s] /\ far = u.child["RIGHT"][s]
  BY DEF Kin
<1>4. /\ w.root = u.root /\ w.child = u.child
  BY DEF SameLinks
<1>5. Shaped(w, T, n, at, lo, hi)
  BY <1>1, SameLinksShaped
<1>6. \A z \in T, e \in Side : \/ u.child[e][z] = NIL
                               \/ u.child[e][z] \in T /\ u.parent[u.child[e][z]] = z
  BY <1>1, Kids
<1>7. /\ b \in [T \cup {NIL} -> Nat] /\ b[NIL] = 0
      /\ \A z \in T, e \in Side :
           b[z] = b[u.child[e][z]] + Weight(u, x0, u.child[e][z])
                  + (IF u.child[e][z] # NIL /\ u.child[e][z] = y THEN 1 ELSE 0)
  BY <1>1 DEF Balanced
<1>8. \A z : Weight(u, x0, z) \in {0, 1} /\ Weight(w, x0, z) \in {0, 1}
  BY DEF Weight
<1>9. /\ Weight(w, x0, s) = 0 /\ Weight(u, x0, s) = 1 /\ Weight(w, x0, p) = 1
      /\ Weight(u, x0, p) = IF IsRed(u, p) THEN 0 ELSE 1
      /\ \A z \in T \cup {NIL} : z # s /\ z # p => Weight(w, x0, z) = Weight(u, x0, z)
  BY <1>2, <1>3, FieldTypes DEF Weight, IsRed
<1>10. /\ b[p] = b[y] + Weight(u, x0, y) + 1 /\ b[p] = b[s] + 1
  <2>1. b[p] = b[y] + Weight(u, x0, y) + (IF y # NIL /\ y = y THEN 1 ELSE 0)
    BY <1>3, <1>7, Sides
  <2>2. b[p] = b[s] + Weight(u, x0, s) + (IF s # NIL /\ s = y THEN 1 ELSE 0)
    BY <1>3, <1>7, Sides
  <2>3. b[s] \in Nat /\ y # NIL
    BY <1>2, <1>3, <1>7
  <2> QED
    BY <2>1, <2>2, <2>3, <1>3, <1>9
<1>11. b[y] \in Nat /\ b[s] \in Nat /\ b[p] \in Nat /\ b[p] - 1 \in Nat
  <2>1. b[y] \in Nat /\ b[s] \in Nat /\ b[p] \in Nat
    BY <1>3, <1>7
  <2> QED
    BY <2>1, <1>10
<1>12. /\ c \in [T \cup {NIL} -> Nat] /\ c[NIL] = 0 /\ c[p] = b[p] - 1
       /\ \A z \in T \cup {NIL} : z # p => c[z] = b[z]
  BY <1>2, <1>3, <1>7, <1>11
<1> HIDE DEF c
<1>13. ASSUME NEW z \in T, NEW e \in Side
       PROVE  c[z] = c[w.child[e][z]] + Weight(w, x0, w.child[e][z])
                     + (IF w.child[e][z] # NIL /\ w.child[e][z] = z0 THEN 1 ELSE 0)
  <2> DEFINE k == u.child[e][z]
  <2>0. w.child[e][z] = k /\ (k = NIL \/ (k \in T /\ u.parent[k] = z))
    BY <1>4, <1>6
  <2>1. b[z] = b[k] + Weight(u, x0, k) + (IF k # NIL /\ k = y THEN 1 ELSE 0)
    BY <1>7
  <2> HIDE DEF k
  <2>2. b[z] \in Nat /\ b[k] \in Nat /\ y # NIL /\ p # NIL /\ s # NIL
    BY <2>0, <1>2, <1>3, <1>7
  <2>3. c[z] = c[k] + Weight(w, x0, k) + (IF k # NIL /\ k = z0 THEN 1 ELSE 0)
    <3>1. CASE z = p /\ k = y
      <4>1. y # z0
        BY <2>2, <1>3
      <4>2. c[y] = b[y] /\ Weight(w, x0, y) = Weight(u, x0, y)
        BY <1>3, <1>9, <1>12
      <4> QED
        BY <3>1, <4>1, <4>2, <1>8, <1>10, <1>11, <1>12
    <3>2. CASE z = p /\ k # y
      <4>1. k = s
        BY <3>2, <1>3, <1>4, Sides DEF k
      <4>2. s # z0 /\ c[s] = b[s]
        BY <2>2, <1>3, <1>12
      <4> QED
        BY <3>2, <4>1, <4>2, <1>9, <1>10, <1>11, <1>12
    <3>3. CASE z # p /\ k = p
      <4>1. c[z] = b[z]
        BY <3>3, <1>12
      <4>2. b[z] = b[p] + Weight(u, x0, p)
        BY <2>1, <2>2, <3>3, <1>3, <1>8
      <4>3. (IF k # NIL /\ k = z0 THEN 1 ELSE 0) = Weight(u, x0, p)
        BY <3>3, <2>2, <1>9
      <4> QED
        BY <3>3, <4>1, <4>2, <4>3, <1>8, <1>9, <1>11, <1>12
    <3>4. CASE z # p /\ k # p
      <4>1. k # y /\ k # s
        BY <2>0, <2>2, <3>4, <1>3
      <4>2. c[z] = b[z] /\ c[k] = b[k] /\ Weight(w, x0, k) = Weight(u, x0, k)
        BY <3>4, <4>1, <2>0, <1>9, <1>12
      <4>3. (IF k # NIL /\ k = z0 THEN 1 ELSE 0) = 0 /\ (IF k # NIL /\ k = y THEN 1 ELSE 0) = 0
        BY <4>1, <3>4
      <4> QED
        BY <4>2, <4>3, <2>1
    <3> QED
      BY <3>1, <3>2, <3>3, <3>4
  <2> QED
    BY <2>0, <2>3
<1>14. Balanced(w, T, c, x0, z0)
  BY <1>12, <1>13, Zenon DEF Balanced
<1>15. /\ IsRed(w, s) /\ ~IsRed(w, p)
       /\ \A z \in T \cup {NIL} : z # s /\ z # p => (IsRed(w, z) <=> IsRed(u, z))
  BY <1>2, <1>3 DEF IsRed
<1>16. RedsApart(w, T, NIL)
  <2> SUFFICES ASSUME NEW z \in T, NEW e \in Side, IsRed(w, z), IsRed(w, u.child[e][z]) PROVE FALSE
    BY <1>4 DEF RedsApart
  <2>1. u.child[e][z] \in T /\ u.parent[u.child[e][z]] = z /\ u.child[e][z] # NIL
    BY <1>2, <1>6 DEF IsRed
  <2>2. z # p /\ u.child[e][z] # p /\ u.child[e][z] # s
    BY <2>1, <1>3, <1>15
  <2>3. z # s
    <3> SUFFICES ASSUME z = s PROVE FALSE
      OBVIOUS
    <3>1. ~IsRed(u, u.child[e][s])
      BY <1>3, Sides
    <3> QED
      BY <3>1, <2>1, <2>2, <1>15
  <2>4. IsRed(u, z) /\ IsRed(u, u.child[e][z])
    BY <2>1, <2>2, <2>3, <1>15
  <2> QED
    BY <2>1, <2>4, <1>1 DEF RedsApart
<1>17. ~IsRed(w, w.root)
  BY <1>1, <1>3, <1>4, <1>15
<1>18. z0 \in T \cup {NIL} /\ (z0 # NIL => lo[z0] = 1 /\ ~IsRed(w, z0))
  BY <1>3, <1>15
<1> QED
  BY <1>1, <1>5, <1>14, <1>16, <1>17, <1>18 DEF Short, c

\* The colors when the sibling came above p: it has p's color, and p and far are black.
FarColors(u, w, T, p, s, far) ==
  \A z \in T : w.color[z] = IF z = far \/ z = p THEN "BLACK" ELSE IF z = s THEN u.color[p] ELSE u.color[z]

\* The children after a rotation to the left.
LEMMA LeftTurnedChildren ==
  ASSUME NEW u \in Trees, NEW T, NEW n, NEW at, NEW lo, NEW hi, Shaped(u, T, n, at, lo, hi),
         NEW x \in T, NEW temp, temp = u.child["RIGHT"][x], temp # NIL, NEW w, Turned(u, w, "LEFT", x)
  PROVE  /\ w.child["RIGHT"][x] = u.child["LEFT"][temp] /\ w.child["LEFT"][x] = u.child["LEFT"][x]
         /\ w.child["LEFT"][temp] = x /\ w.child["RIGHT"][temp] = u.child["RIGHT"][temp]
         /\ \A z \in T, e \in Side : z # x /\ z # temp =>
              IF u.child[e][z] = x THEN w.child[e][z] = temp
              ELSE w.child[e][z] = u.child[e][z] /\ u.child[e][z] # temp
<1>1. "LEFT" \in Side /\ Other("LEFT") = "RIGHT"
  BY Sides
<1>2. temp = u.child[Other("LEFT")][x] /\ u.child[Other("LEFT")][x] # NIL
  BY <1>1
<1>3. /\ w.child[Other("LEFT")][x] = u.child["LEFT"][temp] /\ w.child["LEFT"][x] = u.child["LEFT"][x]
      /\ w.child["LEFT"][temp] = x /\ w.child[Other("LEFT")][temp] = u.child[Other("LEFT")][temp]
      /\ \A z \in T, e \in Side : z # x /\ z # temp =>
              IF u.child[e][z] = x THEN w.child[e][z] = temp
              ELSE w.child[e][z] = u.child[e][z] /\ u.child[e][z] # temp
  BY <1>1, <1>2, TurnedChildren
<1> QED
  BY <1>1, <1>3

\* After the rotation with a red nephew on the far side nothing is short any more.
LEMMA FarTurned ==
  ASSUME NEW u \in Trees, NEW T, NEW n, NEW at, NEW lo, NEW hi, NEW b, NEW x0, NEW y \in T,
         Short(u, T, n, at, lo, hi, b, x0, y),
         NEW p, NEW s, NEW near, NEW far, Kin(u, T, x0, y, p, s, near, far),
         ~IsRed(u, s), IsRed(u, far), NEW w, Turned(u, w, "LEFT", p), FarColors(u, w, T, p, s, far)
  PROVE  \E l2, h2, b2 : Short(w, T, n, at, l2, h2, b2, x0, NIL)
<1> DEFINE c == [b EXCEPT ![p] = b[p] - 1, ![s] = b[p]]
           l2 == LoTurned(lo, at, "LEFT", p, s)
           h2 == HiTurned(hi, at, "LEFT", p, s)
<1>1. /\ Shaped(u, T, n, at, lo, hi) /\ RedsApart(u, T, NIL) /\ Balanced(u, T, b, x0, y)
      /\ ~IsRed(u, u.root) /\ x0 \in T /\ lo[x0] = 1 /\ hi[x0] = 1
  BY DEF Short
<1>2. T \subseteq Node /\ NIL \notin T /\ lo \in [T -> 1 .. n] /\ hi \in [T -> 1 .. n]
  BY <1>1 DEF Shaped, Placed
<1>3. /\ p \in T /\ s \in T /\ y # p /\ s # p /\ s # y /\ p # x0 /\ s # x0 /\ s # u.root /\ u.root \in T
      /\ u.child["LEFT"][p] = y /\ u.child["RIGHT"][p] = s /\ u.parent[y] = p /\ u.parent[s] = p
      /\ near = u.child["LEFT"][s] /\ far = u.child["RIGHT"][s]
      /\ near \in T \cup {NIL} /\ far \in T \cup {NIL}
      /\ near \notin {p, s, y, x0, u.root} /\ far \notin {p, s, y, x0, u.root}
      /\ (near # NIL => near # far) /\ (u.parent[p] = NIL <=> p = u.root)
  BY DEF Kin
<1>4. far \in T /\ far # NIL /\ u.color[far] = "RED" /\ u.color[s] = "BLACK" /\ ~IsRed(u, y)
  BY <1>2, <1>3, FieldTypes DEF IsRed, Short
<1>5. /\ "LEFT" \in Side /\ "RIGHT" \in Side /\ Other("LEFT") = "RIGHT"
      /\ \A e \in Side : e = "LEFT" \/ e = "RIGHT"
  BY Sides
<1>6. s = u.child[Other("LEFT")][p] /\ u.child[Other("LEFT")][p] # NIL
  BY <1>2, <1>3, <1>5
<1>7. Shaped(w, T, n, at, l2, h2)
  BY <1>1, <1>3, <1>5, <1>6, TurnedShaped
<1>8. l2[x0] = 1 /\ h2[x0] = 1
  BY <1>1, <1>2, <1>3, <1>5 DEF LoTurned, HiTurned
<1>9. /\ w.child["RIGHT"][p] = near /\ w.child["LEFT"][p] = y
      /\ w.child["LEFT"][s] = p /\ w.child["RIGHT"][s] = far
      /\ \A z \in T, e \in Side : z # p /\ z # s =>
           IF u.child[e][z] = p THEN w.child[e][z] = s
           ELSE w.child[e][z] = u.child[e][z] /\ u.child[e][z] # s
  <2>1. s # NIL
    BY <1>2, <1>3
  <2> QED
    BY <2>1, <1>1, <1>3, LeftTurnedChildren
<1>10. \A z \in T, e \in Side : \/ u.child[e][z] = NIL
                                \/ (u.child[e][z] \in T /\ u.parent[u.child[e][z]] = z)
  BY <1>1, Kids
<1>11. u.parent[far] = s /\ (near # NIL => u.parent[near] = s)
  BY <1>3, <1>4, <1>5, <1>10
<1>12. /\ b \in [T \cup {NIL} -> Nat] /\ b[NIL] = 0
       /\ \A z \in T, e \in Side :
            b[z] = b[u.child[e][z]] + Weight(u, x0, u.child[e][z])
                   + (IF u.child[e][z] # NIL /\ u.child[e][z] = y THEN 1 ELSE 0)
  BY <1>1 DEF Balanced
<1>13. \A z : Weight(u, x0, z) \in {0, 1} /\ Weight(w, x0, z) \in {0, 1}
  BY DEF Weight
<1>14. /\ Weight(w, x0, far) = 1 /\ Weight(w, x0, p) = 1 /\ Weight(w, x0, s) = Weight(u, x0, p)
       /\ Weight(u, x0, far) = 0 /\ Weight(u, x0, s) = 1
       /\ \A z \in T \cup {NIL} : z # s /\ z # p /\ z # far => Weight(w, x0, z) = Weight(u, x0, z)
  BY <1>2, <1>3, <1>4 DEF Weight, FarColors
<1>15. /\ b[p] = b[y] + Weight(u, x0, y) + 1 /\ b[p] = b[s] + 1
       /\ b[s] = b[far] /\ b[s] = b[near] + Weight(u, x0, near)
       /\ b[y] \in Nat /\ b[s] \in Nat /\ b[p] \in Nat /\ b[far] \in Nat /\ b[near] \in Nat
  <2>0. b[y] \in Nat /\ b[s] \in Nat /\ b[p] \in Nat /\ b[far] \in Nat /\ b[near] \in Nat /\ y # NIL
    BY <1>2, <1>3, <1>12
  <2>1. b[p] = b[y] + Weight(u, x0, y) + (IF y # NIL /\ y = y THEN 1 ELSE 0)
    BY <1>3, <1>5, <1>12
  <2>2. b[p] = b[s] + Weight(u, x0, s) + (IF s # NIL /\ s = y THEN 1 ELSE 0)
    BY <1>3, <1>5, <1>12
  <2>3. b[s] = b[far] + Weight(u, x0, far) + (IF far # NIL /\ far = y THEN 1 ELSE 0)
    BY <1>3, <1>5, <1>12
  <2>4. b[s] = b[near] + Weight(u, x0, near) + (IF near # NIL /\ near = y THEN 1 ELSE 0)
    BY <1>3, <1>5, <1>12
  <2>5. s # y /\ far # y /\ near # y
    BY <1>3
  <2>6. b[p] = b[y] + Weight(u, x0, y) + 1
    BY <2>0, <2>1
  <2>7. b[p] = b[s] + 1
    BY <2>0, <2>2, <2>5, <1>14
  <2>8. b[s] = b[far]
    BY <2>0, <2>3, <2>5, <1>14
  <2>9. b[s] = b[near] + Weight(u, x0, near)
    BY <2>0, <2>4, <2>5, <1>13
  <2> QED
    BY <2>0, <2>6, <2>7, <2>8, <2>9
<1>16. b[p] - 1 \in Nat
  BY <1>15
<1>17. /\ c \in [T \cup {NIL} -> Nat] /\ c[NIL] = 0 /\ c[p] = b[p] - 1 /\ c[s] = b[p]
       /\ \A z \in T \cup {NIL} : z # p /\ z # s => c[z] = b[z]
  BY <1>2, <1>3, <1>12, <1>15, <1>16
<1> HIDE DEF c
<1>18. ASSUME NEW z \in T, NEW e \in Side
       PROVE  c[z] = c[w.child[e][z]] + Weight(w, x0, w.child[e][z])
  <2>1. CASE z = p /\ e = "RIGHT"
    <3>1. c[near] = b[near] /\ Weight(w, x0, near) = Weight(u, x0, near)
      BY <1>3, <1>4, <1>14, <1>17
    <3>2. c[p] = c[near] + Weight(w, x0, near)
      BY <3>1, <1>13, <1>15, <1>17
    <3> QED
      BY <2>1, <3>2, <1>9
  <2>2. CASE z = p /\ e = "LEFT"
    <3>1. c[y] = b[y] /\ Weight(w, x0, y) = Weight(u, x0, y)
      BY <1>3, <1>14, <1>17
    <3>2. c[p] = c[y] + Weight(w, x0, y)
      BY <3>1, <1>13, <1>15, <1>17
    <3> QED
      BY <2>2, <3>2, <1>9
  <2>3. CASE z = s /\ e = "LEFT"
    <3>1. c[s] = c[p] + Weight(w, x0, p)
      BY <1>14, <1>15, <1>17
    <3> QED
      BY <2>3, <3>1, <1>9
  <2>4. CASE z = s /\ e = "RIGHT"
    <3>1. c[far] = b[far]
      BY <1>3, <1>17
    <3>2. c[s] = c[far] + Weight(w, x0, far)
      BY <3>1, <1>14, <1>15, <1>17
    <3> QED
      BY <2>4, <3>2, <1>9
  <2>5. CASE z # p /\ z # s
    <3> DEFINE k == u.child[e][z]
    <3>1. /\ b[z] = b[k] + Weight(u, x0, k) + (IF k # NIL /\ k = y THEN 1 ELSE 0)
          /\ k = NIL \/ (k \in T /\ u.parent[k] = z)
          /\ IF k = p THEN w.child[e][z] = s ELSE w.child[e][z] = k /\ k # s
      BY <2>5, <1>9, <1>10, <1>12
    <3> HIDE DEF k
    <3>2. k # y /\ b[k] \in Nat /\ b[z] \in Nat /\ c[z] = b[z] /\ (k # NIL => k # far)
      BY <2>5, <3>1, <1>2, <1>3, <1>11, <1>12, <1>17
    <3>3. b[z] = b[k] + Weight(u, x0, k)
      BY <3>1, <3>2, <1>13
    <3>4. CASE k = p
      <4>1. c[z] = c[s] + Weight(w, x0, s)
        BY <3>2, <3>3, <3>4, <1>14, <1>17
      <4> QED
        BY <3>1, <3>4, <4>1
    <3>5. CASE k # p
      <4>1. w.child[e][z] = k /\ k # s /\ k # far
        BY <3>1, <3>2, <3>5, <1>4
      <4>2. c[k] = b[k] /\ Weight(w, x0, k) = Weight(u, x0, k)
        BY <3>1, <3>5, <4>1, <1>14, <1>17
      <4> QED
        BY <3>2, <3>3, <4>1, <4>2
    <3> QED
      BY <3>4, <3>5
  <2> QED
    BY <2>1, <2>2, <2>3, <2>4, <2>5, <1>5
<1>19. \A z \in T, e \in Side :
         c[z] = c[w.child[e][z]] + Weight(w, x0, w.child[e][z])
                + (IF w.child[e][z] # NIL /\ w.child[e][z] = NIL THEN 1 ELSE 0)
  <2> SUFFICES ASSUME NEW z \in T, NEW e \in Side
               PROVE  c[z] = c[w.child[e][z]] + Weight(w, x0, w.child[e][z])
                             + (IF w.child[e][z] # NIL /\ w.child[e][z] = NIL THEN 1 ELSE 0)
    OBVIOUS
  <2>1. c[z] = c[w.child[e][z]] + Weight(w, x0, w.child[e][z]) /\ c[z] \in Nat
    BY <1>17, <1>18
  <2> QED
    BY <2>1
<1>20. Balanced(w, T, c, x0, NIL)
  BY <1>17, <1>19, Zenon DEF Balanced
<1>21. /\ ~IsRed(w, p) /\ ~IsRed(w, far) /\ (IsRed(w, s) <=> IsRed(u, p))
       /\ \A z \in T \cup {NIL} : z # s /\ z # p /\ z # far => (IsRed(w, z) <=> IsRed(u, z))
  BY <1>2, <1>3, <1>4 DEF IsRed, FarColors
<1>22. RedsApart(w, T, NIL)
  <2> SUFFICES ASSUME NEW z \in T, NEW e \in Side, IsRed(w, z), IsRed(w, w.child[e][z]) PROVE FALSE
    BY DEF RedsApart
  <2>1. z # p /\ z # far
    BY <1>21
  <2>2. z # s
    BY <1>5, <1>9, <1>21
  <2> DEFINE k == u.child[e][z]
  <2>3. /\ k = NIL \/ (k \in T /\ u.parent[k] = z)
        /\ IF k = p THEN w.child[e][z] = s ELSE w.child[e][z] = k /\ k # s
    BY <2>1, <2>2, <1>9, <1>10
  <2>4. IsRed(u, z)
    BY <2>1, <2>2, <1>21
  <2>5. k # NIL /\ IsRed(u, k) => FALSE
    BY <2>4, <1>1 DEF RedsApart
  <2>6. ~IsRed(u, NIL) /\ ~IsRed(w, NIL)
    BY DEF IsRed
  <2> HIDE DEF k
  <2>7. IsRed(u, k)
    BY <2>1, <2>2, <2>3, <2>6, <1>2, <1>21
  <2> QED
    BY <2>5, <2>6, <2>7
<1>23. ~IsRed(w, w.root)
  <2>1. w.root = IF u.parent[p] = NIL THEN s ELSE u.root
    BY <1>6 DEF Turned
  <2> QED
    BY <2>1, <1>1, <1>3, <1>21
<1>24. Short(w, T, n, at, l2, h2, c, x0, NIL)
  <2> HIDE DEF l2, h2
  <2> QED
    BY <1>1, <1>7, <1>8, <1>20, <1>22, <1>23 DEF Short
<1> QED
  BY <1>24

-----------------------------------------------------------------------------
(* The loop of fixDB.                                                                 *)

FixCall(c) ==
  LET v == c.tree
      y == c.node
      p == v.parent[y]
      s == Sibling(v, y)
      d == v.pos[s]
      far == v.child[d][s]
      near == v.child[Other(d)][s]
      Case5 == [v EXCEPT !.color[near] = v.color[s], !.color[s] = "RED"]
      Case6 == [v EXCEPT !.color[s] = v.color[p], !.color[p] = "BLACK"]
      RedSibling == [v EXCEPT !.color[s] = v.color[p], !.color[p] = "RED"]
      With(w, z) == [tree |-> w, node |-> z]
  IN IF y = NIL \/ y = v.root THEN With(v, NIL)
     ELSE IF s = NIL THEN With([v EXCEPT !.crashed = TRUE], NIL)
     ELSE IF IsRed(v, s) THEN With(Rotate(RedSibling, Other(d), p), y)
     ELSE IF IsRed(v, far)
     THEN With([Rotate(Case6, Other(d), p) EXCEPT !.color[y] = "BLACK",
                                                  !.color[far] = "BLACK"], NIL)
     ELSE IF IsRed(v, near) THEN With(Rotate(Case5, d, s), y)
     ELSE IF IsRed(v, p)
     THEN With([v EXCEPT !.color[s] = "RED", !.color[p] = "BLACK"], NIL)
     ELSE With([v EXCEPT !.color[s] = "RED"], p)
FixCalls(u, x) ==
  LET after[n \in 0 .. Height + 2] ==
        IF n = 0 THEN [tree |-> u, node |-> x] ELSE FixCall(after[n - 1])
  IN after

\* The recursive function in FixDB is FixCalls.
LEMMA FixDBIs ==
  ASSUME NEW u, NEW x
  PROVE  FixDB(u, x) = FixCalls(u, x)[Height + 2].tree
BY Zenon DEF FixDB, FixCalls, FixCall

\* What a call does to y, which hangs on the left of p.
RedSiblingUp(v, p, s) == Rotate([v EXCEPT !.color[s] = v.color[p], !.color[p] = "RED"], "LEFT", p)
FarRedUp(v, y, p, s, far) ==
  [Rotate([v EXCEPT !.color[s] = v.color[p], !.color[p] = "BLACK"], "LEFT", p)
     EXCEPT !.color[y] = "BLACK", !.color[far] = "BLACK"]
NearRedUp(v, s, near) == Rotate([v EXCEPT !.color[near] = v.color[s], !.color[s] = "RED"], "RIGHT", s)
ParentBlack(v, p, s) == [v EXCEPT !.color[s] = "RED", !.color[p] = "BLACK"]
SiblingRed(v, s) == [v EXCEPT !.color[s] = "RED"]

Calls(c, v, y, p, s, near, far) ==
  /\ IsRed(v, s) => FixCall(c) = [tree |-> RedSiblingUp(v, p, s), node |-> y]
  /\ ~IsRed(v, s) /\ IsRed(v, far) => FixCall(c) = [tree |-> FarRedUp(v, y, p, s, far), node |-> NIL]
  /\ ~IsRed(v, s) /\ ~IsRed(v, far) /\ IsRed(v, near) =>
       FixCall(c) = [tree |-> NearRedUp(v, s, near), node |-> y]
  /\ ~IsRed(v, s) /\ ~IsRed(v, far) /\ ~IsRed(v, near) /\ IsRed(v, p) =>
       FixCall(c) = [tree |-> ParentBlack(v, p, s), node |-> NIL]
  /\ ~IsRed(v, s) /\ ~IsRed(v, far) /\ ~IsRed(v, near) /\ ~IsRed(v, p) =>
       FixCall(c) = [tree |-> SiblingRed(v, s), node |-> p]

\* A call of fixDB, by the colors around y.
LEMMA FixCallIs ==
  ASSUME NEW v, NEW y, NEW p, NEW s, NEW near, NEW far, NEW c,
         c.tree = v, c.node = y, v.parent[y] = p, Sibling(v, y) = s, v.pos[s] = "RIGHT",
         v.child["RIGHT"][s] = far, v.child["LEFT"][s] = near, y # NIL, y # v.root, s # NIL
  PROVE  Calls(c, v, y, p, s, near, far)
<1>1. Other("RIGHT") = "LEFT"
  BY Sides
<1>2. ASSUME IsRed(v, s)
      PROVE  FixCall(c) = [tree |-> RedSiblingUp(v, p, s), node |-> y]
  BY <1>1, <1>2, Zenon DEF FixCall, RedSiblingUp
<1>3. ASSUME ~IsRed(v, s), IsRed(v, far)
      PROVE  FixCall(c) = [tree |-> FarRedUp(v, y, p, s, far), node |-> NIL]
  BY <1>1, <1>3, Zenon DEF FixCall, FarRedUp
<1>4. ASSUME ~IsRed(v, s), ~IsRed(v, far), IsRed(v, near)
      PROVE  FixCall(c) = [tree |-> NearRedUp(v, s, near), node |-> y]
  BY <1>1, <1>4, Zenon DEF FixCall, NearRedUp
<1>5. ASSUME ~IsRed(v, s), ~IsRed(v, far), ~IsRed(v, near), IsRed(v, p)
      PROVE  FixCall(c) = [tree |-> ParentBlack(v, p, s), node |-> NIL]
  BY <1>1, <1>5, Zenon DEF FixCall, ParentBlack
<1>6. ASSUME ~IsRed(v, s), ~IsRed(v, far), ~IsRed(v, near), ~IsRed(v, p)
      PROVE  FixCall(c) = [tree |-> SiblingRed(v, s), node |-> p]
  BY <1>1, <1>6, Zenon DEF FixCall, SiblingRed
<1> QED
  BY <1>2, <1>3, <1>4, <1>5, <1>6, Zenon DEF Calls

\* How many calls there are at most.
Turns(v, y, lo, hi) ==
  LET p == v.parent[y]
      s == v.child["RIGHT"][p]
      far == v.child["RIGHT"][s]
      near == v.child["LEFT"][s]
  IN IF y = v.root THEN 1
     ELSE IF IsRed(v, s) THEN 3
     ELSE IF IsRed(v, far) THEN 1
     ELSE IF IsRed(v, near) THEN 2
     ELSE IF IsRed(v, p) THEN 1
     ELSE Height + 3 - ((hi[y] - lo[y]) + 1)

\* The number of calls to go, by cases.
LEMMA TurnsBound ==
  ASSUME NEW v, NEW y, NEW lo, NEW hi
  PROVE  \/ Turns(v, y, lo, hi) \in 1 .. 3
         \/ Turns(v, y, lo, hi) = Height + 3 - ((hi[y] - lo[y]) + 1)
BY DEF Turns

FixLevel(u, T, n, at, x0, j) ==
  {c \in LoopState :
     /\ c.tree.key = u.key /\ c.tree.crashed = u.crashed
     /\ \E lo, hi, b : /\ Short(c.tree, T, n, at, lo, hi, b, x0, c.node)
                       /\ c.node # NIL => Turns(c.tree, c.node, lo, hi) <= j}

\* No call to go is no node to go on with.
LEMMA LevelZero ==
  ASSUME NEW u, NEW T, NEW n, NEW at, NEW x0, NEW c \in FixLevel(u, T, n, at, x0, 0)
  PROVE  c.node = NIL
<1> SUFFICES ASSUME c.node # NIL PROVE FALSE
  OBVIOUS
<1>1. PICK lo, hi, b : /\ Short(c.tree, T, n, at, lo, hi, b, x0, c.node)
                       /\ Turns(c.tree, c.node, lo, hi) <= 0
  BY DEF FixLevel
<1> DEFINE y == c.node
<1>2. y \in T /\ Placed(T, n, at, lo, hi)
  BY <1>1 DEF Short, Shaped
<1>3. n <= Height /\ n \in Nat /\ lo[y] \in 1 .. n /\ hi[y] \in 1 .. n
  BY <1>2, PlacesFit DEF Placed
<1>4. Height \in Nat
  BY HeightNat
<1> HIDE DEF y
<1>5. Height + 3 - ((hi[y] - lo[y]) + 1) > 0
  BY <1>3, <1>4
<1>6. \/ Turns(c.tree, y, lo, hi) \in 1 .. 3
      \/ Turns(c.tree, y, lo, hi) = Height + 3 - ((hi[y] - lo[y]) + 1)
  BY TurnsBound
<1>7. Turns(c.tree, y, lo, hi) <= 0
  BY <1>1 DEF y
<1> QED
  BY <1>3, <1>4, <1>5, <1>6, <1>7

\* One node painted, node by node.
LEMMA OnePaint ==
  ASSUME NEW u \in Trees, NEW x \in Node, NEW c \in {"RED", "BLACK"},
         NEW v, v = [u EXCEPT !.color[x] = c]
  PROVE  SameLinks(u, v) /\ \A z \in Node : v.color[z] = IF z = x THEN c ELSE u.color[z]
BY DEF SameLinks, Trees

\* Two nodes painted, node by node.
LEMMA SwapPaints ==
  ASSUME NEW u \in Trees, NEW x \in Node, NEW temp \in Node, x # temp,
         NEW v, v = [u EXCEPT !.color[temp] = u.color[x], !.color[x] = "RED"]
  PROVE  Swapped(u, v, x, temp)
<1>1. u.color[x] \in {"RED", "BLACK"}
  BY FieldTypes
<1>2. SameLinks(u, v)
  BY <1>1 DEF SameLinks, Trees
<1>3. \A z \in Node : v.color[z] = IF z = x THEN "RED" ELSE IF z = temp THEN u.color[x] ELSE u.color[z]
  BY <1>1 DEF Trees
<1> QED
  BY <1>2, <1>3 DEF Swapped

\* The rotation with a red nephew on the far side.
LEMMA FixFarRed ==
  ASSUME NEW u \in Trees, NEW T, NEW n, NEW at, NEW lo, NEW hi, NEW b, NEW x0, NEW y \in T,
         Short(u, T, n, at, lo, hi, b, x0, y),
         NEW p, NEW s, NEW near, NEW far, Kin(u, T, x0, y, p, s, near, far),
         ~IsRed(u, s), IsRed(u, far),
         NEW v, SameLinks(u, v),
         \A z \in Node : v.color[z] = IF z = p THEN "BLACK" ELSE IF z = s THEN u.color[p] ELSE u.color[z],
         NEW w, SameLinks(Rotate(v, "LEFT", p), w),
         \A z \in Node : w.color[z] = IF z = far \/ z = y THEN "BLACK" ELSE Rotate(v, "LEFT", p).color[z]
  PROVE  /\ w \in Trees /\ w.key = u.key /\ w.crashed = u.crashed
         /\ \E l2, h2, b2 : Short(w, T, n, at, l2, h2, b2, x0, NIL)
<1> DEFINE r == Rotate(v, "LEFT", p)
<1>1. Shaped(u, T, n, at, lo, hi) /\ ~IsRed(u, u.root) /\ ~IsRed(u, y)
  <2>1. Shaped(u, T, n, at, lo, hi) /\ ~IsRed(u, u.root)
    BY DEF Short
  <2>2. y # NIL
    BY <2>1 DEF Shaped, Placed
  <2> QED
    BY <2>1, <2>2 DEF Short
<1>2. T \subseteq Node /\ NIL \notin T
  BY <1>1 DEF Shaped, Placed
<1>3. /\ p \in T /\ s \in T /\ y # p /\ s # p /\ s # y /\ u.child["RIGHT"][p] = s
      /\ far \notin {p, s, y} /\ (u.parent[p] = NIL <=> p = u.root)
  BY DEF Kin
<1>4. v \in Trees /\ v.child = u.child /\ v.parent = u.parent
  BY DEF SameLinks
<1>5. Shaped(v, T, n, at, lo, hi)
  BY <1>1, SameLinksShaped
<1>6. "LEFT" \in Side /\ Other("LEFT") = "RIGHT"
  BY Sides
<1>7. s = v.child[Other("LEFT")][p] /\ s # NIL
  BY <1>2, <1>3, <1>4, <1>6
<1>8. /\ Turned(v, r, "LEFT", p)
      /\ r.color = IF v.parent[p] = NIL THEN [v.color EXCEPT ![s] = "BLACK"] ELSE v.color
  BY <1>3, <1>4, <1>5, <1>6, <1>7, RotateShaped
<1>9. v.color \in [Node -> {"RED", "BLACK"}] /\ u.color[p] \in {"RED", "BLACK"}
  BY <1>2, <1>3, <1>4, FieldTypes DEF Trees
<1> HIDE DEF r
<1>10. Turned(u, w, "LEFT", p)
  BY <1>8, SameLinksTurned, TurnedSameLinks DEF r
<1>11. \A z \in Node : r.color[z] = v.color[z]
  <2>1. CASE v.parent[p] = NIL
    <3>1. p = u.root /\ u.color[p] = "BLACK"
      BY <2>1, <1>1, <1>2, <1>3, <1>4, <1>9 DEF IsRed
    <3>2. v.color[s] = "BLACK"
      BY <3>1, <1>2, <1>3
    <3> QED
      BY <2>1, <3>2, <1>8, <1>9
  <2>2. CASE v.parent[p] # NIL
    BY <2>2, <1>8
  <2> QED
    BY <2>1, <2>2
<1>12. u.color[y] = "BLACK"
  BY <1>1, <1>2, FieldTypes DEF IsRed
<1>13. FarColors(u, w, T, p, s, far)
  <2>1. \A z \in T : w.color[z] = IF z = far \/ z = y THEN "BLACK" ELSE IF z = p THEN "BLACK"
                                  ELSE IF z = s THEN u.color[p] ELSE u.color[z]
    BY <1>2, <1>11 DEF r
  <2> QED
    BY <2>1, <1>3, <1>12 DEF FarColors
<1>14. \E l2, h2, b2 : Short(w, T, n, at, l2, h2, b2, x0, NIL)
  BY <1>10, <1>13, FarTurned
<1> QED
  BY <1>10, <1>14 DEF Turned

\* A call that ends the loop, and one that goes on at z.
LEMMA InLevel ==
  ASSUME NEW u, NEW T, NEW n, NEW at, NEW x0, NEW j,
         NEW w \in Trees, w.key = u.key, w.crashed = u.crashed, NEW z \in Node \cup {NIL},
         NEW lo, NEW hi, NEW b, Short(w, T, n, at, lo, hi, b, x0, z),
         z # NIL => Turns(w, z, lo, hi) <= j
  PROVE  [tree |-> w, node |-> z] \in FixLevel(u, T, n, at, x0, j)
<1> DEFINE c == [tree |-> w, node |-> z]
<1>1. c \in LoopState /\ c.tree = w /\ c.node = z
  BY DEF LoopState
<1> HIDE DEF c
<1>2. c \in FixLevel(u, T, n, at, x0, j)
  BY <1>1 DEF FixLevel
<1> QED
  BY <1>2 DEF c

\* At the root or where nothing is short there is nothing to do.
LEMMA FixCallEnds ==
  ASSUME NEW u, NEW T, NEW n, NEW at, NEW x0, NEW j,
         NEW c \in FixLevel(u, T, n, at, x0, j), c.node = NIL \/ c.node = c.tree.root, NEW i
  PROVE  FixCall(c) \in FixLevel(u, T, n, at, x0, i)
<1> DEFINE v == c.tree
           y == c.node
<1>1. v \in Trees /\ v.key = u.key /\ v.crashed = u.crashed
  BY DEF FixLevel, LoopState
<1>2. PICK lo, hi, b : Short(v, T, n, at, lo, hi, b, x0, y)
  BY DEF FixLevel
<1>3. FixCall(c) = [tree |-> v, node |-> NIL]
  BY Zenon DEF FixCall
<1>4. Shaped(v, T, n, at, lo, hi) /\ Balanced(v, T, b, x0, y)
  BY <1>2 DEF Short
<1>5. Balanced(v, T, b, x0, NIL)
  <2>1. CASE y = NIL
    BY <2>1, <1>4
  <2>2. CASE y # NIL
    <3>1. y = v.root /\ y \in T
      BY <2>2, <1>2 DEF Short
    <3>2. v.parent[y] = NIL /\ NIL \notin T
      BY <3>1, <1>4 DEF Shaped, Rooted, Placed
    <3>3. \A z \in T, e \in Side : v.child[e][z] # y
      BY <2>2, <3>2, <1>4, Kids
    <3> HIDE DEF v, y
    <3>4. \A z \in T, e \in Side :
            (IF v.child[e][z] # NIL /\ v.child[e][z] = y THEN 1 ELSE 0)
            = (IF v.child[e][z] # NIL /\ v.child[e][z] = NIL THEN 1 ELSE 0)
      BY <3>3
    <3> QED
      BY <3>4, <1>4 DEF Balanced
  <2> QED
    BY <2>1, <2>2
<1>6. Short(v, T, n, at, lo, hi, b, x0, NIL)
  BY <1>2, <1>5 DEF Short
<1> HIDE DEF v, y
<1>7. [tree |-> v, node |-> NIL] \in FixLevel(u, T, n, at, x0, i)
  BY <1>1, <1>6, InLevel
<1> QED
  BY <1>3, <1>7

\* The number of calls by the colors around y.
LEMMA TurnsAre ==
  ASSUME NEW v, NEW y, NEW lo, NEW hi, y # v.root, NEW p, v.parent[y] = p,
         NEW s, v.child["RIGHT"][p] = s
  PROVE  /\ IsRed(v, s) => Turns(v, y, lo, hi) = 3
         /\ ~IsRed(v, s) /\ IsRed(v, v.child["RIGHT"][s]) => Turns(v, y, lo, hi) = 1
         /\ ~IsRed(v, s) /\ ~IsRed(v, v.child["RIGHT"][s]) /\ IsRed(v, v.child["LEFT"][s]) =>
              Turns(v, y, lo, hi) = 2
         /\ ~IsRed(v, s) /\ IsRed(v, p) => Turns(v, y, lo, hi) \in 1 .. 2
         /\ ~IsRed(v, s) /\ ~IsRed(v, v.child["RIGHT"][s]) /\ ~IsRed(v, v.child["LEFT"][s]) /\ ~IsRed(v, p) =>
              Turns(v, y, lo, hi) = Height + 3 - ((hi[y] - lo[y]) + 1)
BY DEF Turns

\* The case of a red sibling leads one level down.
LEMMA DescendRedSibling ==
  ASSUME NEW u, NEW v \in Trees, v.key = u.key, v.crashed = u.crashed,
         NEW T, NEW n, NEW at, NEW lo, NEW hi, NEW b, NEW x0, NEW y \in T,
         Short(v, T, n, at, lo, hi, b, x0, y),
         NEW p, NEW s, NEW near, NEW far, Kin(v, T, x0, y, p, s, near, far), IsRed(v, s),
         NEW j \in Nat, 3 <= j
  PROVE  [tree |-> RedSiblingUp(v, p, s), node |-> y]
           \in FixLevel(u, T, n, at, x0, j - 1)
<1> DEFINE v1 == [v EXCEPT !.color[s] = v.color[p], !.color[p] = "RED"]
           w == Rotate(v1, "LEFT", p)
<1>1. p \in Node /\ s \in Node /\ p # s /\ y \in Node
  <2>1. T \subseteq Node
    BY DEF Short, Shaped, Placed
  <2> QED
    BY <2>1 DEF Kin
<1>2. Swapped(v, v1, p, s)
  BY <1>1, SwapPaints
<1> HIDE DEF v1
<1>3. w = Rotate(v1, "LEFT", p)
  OBVIOUS
<1>9. RedSiblingUp(v, p, s) = w
  BY DEF RedSiblingUp, v1, w
<1> HIDE DEF w
<1>4. /\ w \in Trees /\ w.key = v.key /\ w.crashed = v.crashed
      /\ \E l2, h2 : Short(w, T, n, at, l2, h2, b, x0, y) /\ l2[y] = lo[y] /\ h2[y] = hi[y]
      /\ y # w.root /\ w.parent[y] = p /\ w.child["RIGHT"][p] = near
      /\ IsRed(w, p) /\ ~IsRed(w, near)
  BY <1>2, <1>3, FixRedSibling
<1>5. PICK l2, h2 : Short(w, T, n, at, l2, h2, b, x0, y)
  BY <1>4
<1>6. Turns(w, y, l2, h2) \in 1 .. 2
  BY <1>4, TurnsAre
<1>7. Turns(w, y, l2, h2) <= j - 1
  BY <1>6
<1>8. [tree |-> w, node |-> y] \in FixLevel(u, T, n, at, x0, j - 1)
  BY <1>1, <1>4, <1>5, <1>7, InLevel
<1> QED
  BY <1>8, <1>9

\* The case of a red nephew on the near side leads one level down.
LEMMA DescendNearRed ==
  ASSUME NEW u, NEW v \in Trees, v.key = u.key, v.crashed = u.crashed,
         NEW T, NEW n, NEW at, NEW lo, NEW hi, NEW b, NEW x0, NEW y \in T,
         Short(v, T, n, at, lo, hi, b, x0, y),
         NEW p, NEW s, NEW near, NEW far, Kin(v, T, x0, y, p, s, near, far),
         ~IsRed(v, s), ~IsRed(v, far), IsRed(v, near),
         NEW j \in Nat, 2 <= j
  PROVE  [tree |-> NearRedUp(v, s, near), node |-> y]
           \in FixLevel(u, T, n, at, x0, j - 1)
<1> DEFINE v1 == [v EXCEPT !.color[near] = v.color[s], !.color[s] = "RED"]
           w == Rotate(v1, "RIGHT", s)
<1>1. near \in Node /\ s \in Node /\ near # s /\ y \in Node
  <2>1. T \subseteq Node /\ near # NIL
    BY DEF Short, Shaped, Placed, IsRed
  <2> QED
    BY <2>1 DEF Kin
<1>2. Swapped(v, v1, s, near)
  BY <1>1, SwapPaints
<1> HIDE DEF v1
<1>3. w = Rotate(v1, "RIGHT", s)
  OBVIOUS
<1>9. NearRedUp(v, s, near) = w
  BY DEF NearRedUp, v1, w
<1> HIDE DEF w
<1>4. /\ w \in Trees /\ w.key = v.key /\ w.crashed = v.crashed
      /\ \E l2, h2 : Short(w, T, n, at, l2, h2, b, x0, y) /\ l2[y] = lo[y] /\ h2[y] = hi[y]
      /\ y # w.root /\ w.parent[y] = p /\ w.child["RIGHT"][p] = near
      /\ ~IsRed(w, near) /\ IsRed(w, w.child["RIGHT"][near])
  BY <1>2, <1>3, FixNearRed
<1>5. PICK l2, h2 : Short(w, T, n, at, l2, h2, b, x0, y)
  BY <1>4
<1>6. Turns(w, y, l2, h2) = 1
  BY <1>4, TurnsAre
<1>7. Turns(w, y, l2, h2) <= j - 1
  BY <1>6
<1>8. [tree |-> w, node |-> y] \in FixLevel(u, T, n, at, x0, j - 1)
  BY <1>1, <1>4, <1>5, <1>7, InLevel
<1> QED
  BY <1>8, <1>9

\* The case of a red nephew on the far side ends the loop.
LEMMA DescendFarRed ==
  ASSUME NEW u, NEW v \in Trees, v.key = u.key, v.crashed = u.crashed,
         NEW T, NEW n, NEW at, NEW lo, NEW hi, NEW b, NEW x0, NEW y \in T,
         Short(v, T, n, at, lo, hi, b, x0, y),
         NEW p, NEW s, NEW near, NEW far, Kin(v, T, x0, y, p, s, near, far),
         ~IsRed(v, s), IsRed(v, far), NEW j
  PROVE  [tree |-> FarRedUp(v, y, p, s, far), node |-> NIL]
           \in FixLevel(u, T, n, at, x0, j)
<1> DEFINE v1 == [v EXCEPT !.color[s] = v.color[p], !.color[p] = "BLACK"]
           r == Rotate(v1, "LEFT", p)
           w == [r EXCEPT !.color[y] = "BLACK", !.color[far] = "BLACK"]
<1>9. FarRedUp(v, y, p, s, far) = w
  BY DEF FarRedUp
<1>1. /\ p \in T /\ s \in T /\ p # s /\ far \in T /\ T \subseteq Node /\ NIL \notin T
      /\ Shaped(v, T, n, at, lo, hi) /\ v.child["RIGHT"][p] = s
  <2>1. T \subseteq Node /\ far # NIL /\ NIL \notin T /\ Shaped(v, T, n, at, lo, hi)
    BY DEF Short, Shaped, Placed, IsRed
  <2> QED
    BY <2>1 DEF Kin
<1>2. /\ SameLinks(v, v1)
      /\ \A z \in Node : v1.color[z] = IF z = p THEN "BLACK" ELSE IF z = s THEN v.color[p] ELSE v.color[z]
  <2>1. v.color[p] \in {"RED", "BLACK"} /\ p \in Node /\ s \in Node
    BY <1>1, FieldTypes
  <2>2. SameLinks(v, v1)
    BY <2>1 DEF SameLinks, Trees
  <2>3. \A z \in Node : v1.color[z] = IF z = p THEN "BLACK" ELSE IF z = s THEN v.color[p] ELSE v.color[z]
    BY <2>1 DEF Trees
  <2> QED
    BY <2>2, <2>3
<1> HIDE DEF v1
<1>3. r \in Trees
  <2>1. v1 \in Trees /\ v1.child = v.child
    BY <1>2 DEF SameLinks
  <2>2. Shaped(v1, T, n, at, lo, hi)
    BY <1>1, <1>2, SameLinksShaped
  <2>3. "LEFT" \in Side /\ s = v1.child[Other("LEFT")][p] /\ s # NIL
    BY <1>1, <2>1, Sides
  <2>4. Turned(v1, r, "LEFT", p)
    BY <1>1, <2>1, <2>2, <2>3, RotateShaped
  <2> QED
    BY <2>4 DEF Turned
<1> HIDE DEF r
<1>4. /\ SameLinks(r, w)
      /\ \A z \in Node : w.color[z] = IF z = far THEN "BLACK" ELSE IF z = y THEN "BLACK" ELSE r.color[z]
  <2>1. y \in Node /\ far \in Node
    BY <1>1
  <2>2. SameLinks(r, w)
    BY <1>3, <2>1 DEF SameLinks, Trees
  <2>3. \A z \in Node : w.color[z] = IF z = far THEN "BLACK" ELSE IF z = y THEN "BLACK" ELSE r.color[z]
    BY <1>3, <2>1 DEF Trees
  <2> QED
    BY <2>2, <2>3
<1> HIDE DEF w
<1>5. \A z \in Node : w.color[z] = IF z = far \/ z = y THEN "BLACK" ELSE r.color[z]
  BY <1>4
<1>6. /\ w \in Trees /\ w.key = v.key /\ w.crashed = v.crashed
      /\ \E l2, h2, b2 : Short(w, T, n, at, l2, h2, b2, x0, NIL)
  BY <1>2, <1>4, <1>5, FixFarRed DEF r
<1>7. PICK l2, h2, b2 : Short(w, T, n, at, l2, h2, b2, x0, NIL)
  BY <1>6
<1>8. [tree |-> w, node |-> NIL] \in FixLevel(u, T, n, at, x0, j)
  BY <1>6, <1>7, InLevel
<1> QED
  BY <1>8, <1>9

\* The two cases without a red nephew end the loop or lead one level down.
LEMMA DescendRecolored ==
  ASSUME NEW u, NEW v \in Trees, v.key = u.key, v.crashed = u.crashed,
         NEW T, NEW n, NEW at, NEW lo, NEW hi, NEW b, NEW x0, NEW y \in T,
         Short(v, T, n, at, lo, hi, b, x0, y),
         NEW p, NEW s, NEW near, NEW far, Kin(v, T, x0, y, p, s, near, far), lo[p] = 1,
         hi[p] - lo[p] >= hi[y] - lo[y] + 1,
         ~IsRed(v, s), ~IsRed(v, far), ~IsRed(v, near),
         NEW j \in Nat, ~IsRed(v, p) => Height + 3 - ((hi[y] - lo[y]) + 1) <= j
  PROVE  /\ IsRed(v, p) =>
              [tree |-> ParentBlack(v, p, s), node |-> NIL]
                \in FixLevel(u, T, n, at, x0, j - 1)
         /\ ~IsRed(v, p) =>
              [tree |-> SiblingRed(v, s), node |-> p] \in FixLevel(u, T, n, at, x0, j - 1)
<1>1. /\ p \in T /\ s \in T /\ p # s /\ T \subseteq Node /\ NIL \notin T /\ p \in Node /\ s \in Node
      /\ Shaped(v, T, n, at, lo, hi) /\ n <= Height
  <2>1. T \subseteq Node /\ NIL \notin T /\ Shaped(v, T, n, at, lo, hi)
    BY DEF Short, Shaped, Placed
  <2>2. n <= Height
    BY <2>1, PlacesFit DEF Shaped
  <2> QED
    BY <2>1, <2>2 DEF Kin
<1>2. CASE IsRed(v, p)
  <2> DEFINE w == [v EXCEPT !.color[s] = "RED", !.color[p] = "BLACK"]
  <2>1. /\ SameLinks(v, w)
        /\ \A z \in Node : w.color[z] = IF z = p THEN "BLACK" ELSE IF z = s THEN "RED" ELSE v.color[z]
    <3>1. SameLinks(v, w)
      BY <1>1 DEF SameLinks, Trees
    <3>2. \A z \in Node : w.color[z] = IF z = p THEN "BLACK" ELSE IF z = s THEN "RED" ELSE v.color[z]
      BY <1>1 DEF Trees
    <3> QED
      BY <3>1, <3>2
  <2> HIDE DEF w
  <2>2. \A z \in Node : w.color[z] = IF z = s THEN "RED" ELSE IF z = p THEN "BLACK" ELSE v.color[z]
    BY <1>1, <2>1
  <2> DEFINE c == [b EXCEPT ![p] = b[p] - 1]
  <2> HIDE DEF c
  <2>3. Short(w, T, n, at, lo, hi, c, x0, NIL)
    BY <1>2, <2>1, <2>2, FixRecolored DEF c
  <2>4. w \in Trees /\ w.key = u.key /\ w.crashed = u.crashed
    BY <2>1 DEF SameLinks
  <2>5. [tree |-> w, node |-> NIL] \in FixLevel(u, T, n, at, x0, j - 1)
    BY <2>3, <2>4, InLevel
  <2> QED
    BY <1>2, <2>5 DEF w, ParentBlack
<1>3. CASE ~IsRed(v, p)
  <2> DEFINE w == [v EXCEPT !.color[s] = "RED"]
  <2>1. SameLinks(v, w) /\ \A z \in Node : w.color[z] = IF z = s THEN "RED" ELSE v.color[z]
    BY <1>1, OnePaint
  <2> HIDE DEF w
  <2>2. \A z \in Node : w.color[z] = IF z = s THEN "RED" ELSE IF z = p THEN "BLACK" ELSE v.color[z]
    <3>1. v.color[p] = "BLACK"
      BY <1>1, <1>3, FieldTypes DEF IsRed
    <3> QED
      BY <1>1, <2>1, <3>1
  <2> DEFINE c == [b EXCEPT ![p] = b[p] - 1]
  <2> HIDE DEF c
  <2>3. Short(w, T, n, at, lo, hi, c, x0, p)
    BY <1>3, <2>1, <2>2, FixRecolored DEF c
  <2>4. w \in Trees /\ w.key = u.key /\ w.crashed = u.crashed
    BY <2>1 DEF SameLinks
  <2>5. Turns(w, p, lo, hi) <= j - 1
    <3>1. /\ lo[y] \in 1 .. n /\ hi[y] \in 1 .. n /\ lo[p] \in 1 .. n /\ hi[p] \in 1 .. n /\ n \in Nat
      BY <1>1 DEF Shaped, Placed
    <3>2. Height \in Nat
      BY HeightNat
    <3>3. \/ Turns(w, p, lo, hi) \in 1 .. 3
          \/ Turns(w, p, lo, hi) = Height + 3 - ((hi[p] - lo[p]) + 1)
      BY TurnsBound
    <3>4. Height + 3 - ((hi[y] - lo[y]) + 1) <= j
      BY <1>3
    <3>5. Height + 3 - ((hi[p] - lo[p]) + 1) <= j - 1 /\ 3 <= j - 1
      BY <3>1, <3>2, <3>4, <1>1
    <3> QED
      BY <3>1, <3>2, <3>3, <3>5
  <2>6. [tree |-> w, node |-> p] \in FixLevel(u, T, n, at, x0, j - 1)
    BY <1>1, <2>3, <2>4, <2>5, InLevel
  <2> QED
    BY <1>3, <2>6 DEF w, SiblingRed
<1> QED
  BY <1>2, <1>3

\* A call of fixDB leads one level down.
LEMMA FixCallDescends ==
  ASSUME NEW u, NEW T, NEW n, NEW at, NEW x0, NEW j \in Nat \ {0},
         NEW c \in FixLevel(u, T, n, at, x0, j)
  PROVE  FixCall(c) \in FixLevel(u, T, n, at, x0, j - 1)
<1>1. CASE c.node = NIL \/ c.node = c.tree.root
  BY <1>1, FixCallEnds
<1>2. CASE c.node # NIL /\ c.node # c.tree.root
  <2> DEFINE v == c.tree
             y == c.node
             p == v.parent[y]
             s == v.child["RIGHT"][p]
             near == v.child["LEFT"][s]
             far == v.child["RIGHT"][s]
  <2>1. v \in Trees /\ v.key = u.key /\ v.crashed = u.crashed
    BY DEF FixLevel, LoopState
  <2>2. PICK lo, hi, b : Short(v, T, n, at, lo, hi, b, x0, y) /\ Turns(v, y, lo, hi) <= j
    BY <1>2 DEF FixLevel
  <2>3. y \in T /\ y # v.root
    BY <1>2, <2>2 DEF Short
  <2>4. c.tree = v /\ c.node = y /\ v.parent[y] = p /\ v.child["RIGHT"][p] = s
        /\ v.child["LEFT"][s] = near /\ v.child["RIGHT"][s] = far
    OBVIOUS
  <2> HIDE DEF far, near, s, p, y, v
  <2>5. /\ Kin(v, T, x0, y, p, s, near, far) /\ Sibling(v, y) = s
        /\ lo[p] = 1 /\ hi[p] - lo[p] >= hi[y] - lo[y] + 1
    BY <2>1, <2>2, <2>3, <2>4, ShortKin
  <2>6. v.pos[s] = "RIGHT" /\ s # NIL /\ y # NIL
    <3>1. NIL \notin T
      BY <2>2 DEF Short, Shaped, Placed
    <3> QED
      BY <3>1, <2>3, <2>5 DEF Kin
  <2>7. Calls(c, v, y, p, s, near, far)
    BY <2>3, <2>4, <2>5, <2>6, FixCallIs, Zenon
  <2>8. /\ IsRed(v, s) => Turns(v, y, lo, hi) = 3
        /\ ~IsRed(v, s) /\ ~IsRed(v, far) /\ IsRed(v, near) => Turns(v, y, lo, hi) = 2
        /\ ~IsRed(v, s) /\ ~IsRed(v, far) /\ ~IsRed(v, near) /\ ~IsRed(v, p) =>
             Turns(v, y, lo, hi) = Height + 3 - ((hi[y] - lo[y]) + 1)
    BY <2>3, <2>4, TurnsAre
  <2>9. j \in Nat
    OBVIOUS
  <2>10. CASE IsRed(v, s)
    <3>1. 3 <= j
      BY <2>2, <2>8, <2>10
    <3>2. [tree |-> RedSiblingUp(v, p, s), node |-> y] \in FixLevel(u, T, n, at, x0, j - 1)
      BY <3>1, <2>1, <2>2, <2>3, <2>5, <2>9, <2>10, DescendRedSibling
    <3> QED
      BY <3>2, <2>7, <2>10, Zenon DEF Calls
  <2>11. CASE ~IsRed(v, s) /\ IsRed(v, far)
    <3>1. [tree |-> FarRedUp(v, y, p, s, far), node |-> NIL] \in FixLevel(u, T, n, at, x0, j - 1)
      BY <2>1, <2>2, <2>3, <2>5, <2>11, DescendFarRed
    <3> QED
      BY <3>1, <2>7, <2>11, Zenon DEF Calls
  <2>12. CASE ~IsRed(v, s) /\ ~IsRed(v, far) /\ IsRed(v, near)
    <3>1. 2 <= j
      BY <2>2, <2>8, <2>12
    <3>2. [tree |-> NearRedUp(v, s, near), node |-> y] \in FixLevel(u, T, n, at, x0, j - 1)
      BY <3>1, <2>1, <2>2, <2>3, <2>5, <2>9, <2>12, DescendNearRed
    <3> QED
      BY <3>2, <2>7, <2>12, Zenon DEF Calls
  <2>13. CASE ~IsRed(v, s) /\ ~IsRed(v, far) /\ ~IsRed(v, near)
    <3>1. ~IsRed(v, p) => Height + 3 - ((hi[y] - lo[y]) + 1) <= j
      BY <2>2, <2>8, <2>13
    <3>2. /\ IsRed(v, p) =>
              [tree |-> ParentBlack(v, p, s), node |-> NIL] \in FixLevel(u, T, n, at, x0, j - 1)
          /\ ~IsRed(v, p) =>
              [tree |-> SiblingRed(v, s), node |-> p] \in FixLevel(u, T, n, at, x0, j - 1)
      BY <3>1, <2>1, <2>2, <2>3, <2>5, <2>9, <2>13, DescendRecolored
    <3> QED
      BY <3>2, <2>7, <2>13, Zenon DEF Calls
  <2> QED
    BY <2>10, <2>11, <2>12, <2>13
<1> QED
  BY <1>1, <1>2

\* What fixDB's loop computes, as long as every call stays in S.
LEMMA FixCallsAre ==
  ASSUME NEW u, NEW x, NEW S, [tree |-> u, node |-> x] \in S, \A s \in S : FixCall(s) \in S
  PROVE  /\ FixCalls(u, x)[0] = [tree |-> u, node |-> x]
         /\ \A k \in 1 .. Height + 2 : FixCalls(u, x)[k] = FixCall(FixCalls(u, x)[k - 1])
<1> DEFINE R == [tree |-> u, node |-> x]
           N == Height + 2
           turn == [s \in S |-> FixCall(s)]
           F(f) == [k \in 0 .. N |-> IF k = 0 THEN R ELSE FixCall(f[k - 1])]
<1>1. N \in Nat
  BY HeightNat
<1>2. turn \in [S -> S]
  OBVIOUS
<1>7. FixCalls(u, x) = CHOOSE f : f = F(f)
  BY DEF FixCalls
<1> HIDE DEF turn, R, N
<1>3. PICK g : IsIteration(g, N, S, R, turn)
  BY <1>1, <1>2, Iterates DEF R
<1>4. g \in [0 .. N -> S] /\ g[0] = R /\ \A k \in 1 .. N : g[k] = turn[g[k - 1]]
  BY <1>3 DEF IsIteration
<1>5. \A k \in 1 .. N : g[k] = FixCall(g[k - 1])
  <2> SUFFICES ASSUME NEW k \in 1 .. N PROVE g[k] = FixCall(g[k - 1])
    OBVIOUS
  <2>1. k - 1 \in 0 .. N
    BY <1>1
  <2>2. g[k] = turn[g[k - 1]] /\ g[k - 1] \in S
    BY <1>4, <2>1
  <2> QED
    BY <2>2, Zenon DEF turn
<1>6. g = F(g)
  BY <1>1, <1>4, <1>5
<1>8. FixCalls(u, x) = F(FixCalls(u, x))
  <2> HIDE DEF F
  <2> QED
    BY <1>6, <1>7
<1> QED
  BY <1>1, <1>8 DEF R, N

\* fixDB leaves a tree in which only x0 does not count.
LEMMA FixDBFixes ==
  ASSUME NEW u \in Trees, NEW T, NEW n, NEW at, NEW lo, NEW hi, NEW b, NEW x0,
         Short(u, T, n, at, lo, hi, b, x0, x0), NEW v, v = FixDB(u, x0)
  PROVE  /\ v \in Trees /\ v.key = u.key /\ v.crashed = u.crashed
         /\ \E l2, h2, b2 : Short(v, T, n, at, l2, h2, b2, x0, NIL)
<1> DEFINE N == Height + 2
           A == [k \in 0 .. N |-> FixLevel(u, T, n, at, x0, k)]
           S == UNION {A[k] : k \in 0 .. N}
           R == [tree |-> u, node |-> x0]
           c == FixCalls(u, x0)
           turn == [s \in S \cup {c[k] : k \in 0 .. N} |-> FixCall(s)]
<1>1. N \in Nat /\ Height \in Nat
  BY HeightNat
<1>2. R \in A[N]
  <2>1. /\ x0 \in T /\ Placed(T, n, at, lo, hi) /\ lo[x0] = 1 /\ hi[x0] = 1
    BY DEF Short, Shaped
  <2>2. x0 \in Node /\ n <= Height /\ n \in Nat /\ at[x0] \in 1 .. n
    BY <2>1, PlacesFit DEF Placed
  <2>3. \/ Turns(u, x0, lo, hi) \in 1 .. 3
        \/ Turns(u, x0, lo, hi) = Height + 3 - ((hi[x0] - lo[x0]) + 1)
    BY TurnsBound
  <2>4. Turns(u, x0, lo, hi) <= N
    <3>1. Height >= 1
      BY <2>2, <1>1
    <3> QED
      BY <3>1, <2>1, <2>3, <1>1
  <2>5. R \in FixLevel(u, T, n, at, x0, N)
    <3> HIDE DEF N
    <3> QED
      BY <2>2, <2>4, InLevel
  <2> QED
    BY <1>1, <2>5
<1>3. \A k \in 1 .. N : \A s \in A[k] : FixCall(s) \in A[k - 1]
  <2> SUFFICES ASSUME NEW k \in 1 .. N, NEW s \in A[k] PROVE FixCall(s) \in A[k - 1]
    OBVIOUS
  <2>1. k \in Nat \ {0} /\ k \in 0 .. N /\ k - 1 \in 0 .. N
    BY <1>1
  <2>2. s \in FixLevel(u, T, n, at, x0, k)
    BY <2>1
  <2>3. FixCall(s) \in FixLevel(u, T, n, at, x0, k - 1)
    BY <2>1, <2>2, FixCallDescends
  <2> QED
    BY <2>1, <2>3
<1>4. ASSUME NEW s \in A[0]
      PROVE  /\ FixCall(s) \in A[0]
             /\ s.tree \in Trees /\ s.tree.key = u.key /\ s.tree.crashed = u.crashed
             /\ \E l2, h2, b2 : Short(s.tree, T, n, at, l2, h2, b2, x0, NIL)
  <2>1. s \in FixLevel(u, T, n, at, x0, 0)
    BY <1>1
  <2>2. s.node = NIL
    BY <2>1, LevelZero
  <2>3. FixCall(s) \in FixLevel(u, T, n, at, x0, 0)
    BY <2>1, <2>2, FixCallEnds
  <2>4. FixCall(s) \in A[0]
    BY <2>3, <1>1
  <2> QED
    BY <2>1, <2>2, <2>4 DEF FixLevel, LoopState
<1>5. v = c[N].tree
  BY FixDBIs
<1> HIDE DEF A, R
<1>6. \A s \in S : FixCall(s) \in S
  <2> SUFFICES ASSUME NEW k \in 0 .. N, NEW s \in A[k] PROVE FixCall(s) \in S
    OBVIOUS
  <2>1. CASE k = 0
    BY <1>1, <1>4, <2>1
  <2>2. CASE k # 0
    <3> HIDE DEF N
    <3>1. k \in 1 .. N /\ k - 1 \in 0 .. N
      BY <1>1, <2>2
    <3>2. FixCall(s) \in A[k - 1]
      BY <1>3, <3>1
    <3> QED
      BY <3>1, <3>2
  <2> QED
    BY <2>1, <2>2
<1>7. R \in S
  BY <1>1, <1>2
<1> HIDE DEF S
<1>8. c[0] = R /\ \A k \in 1 .. N : c[k] = FixCall(c[k - 1])
  BY <1>6, <1>7, FixCallsAre DEF R
<1> HIDE DEF c, N
<1>9. \A k \in 1 .. N : c[k] = turn[c[k - 1]]
  BY <1>1, <1>8
<1>10. \A k \in 1 .. N : \A s \in A[k] : turn[s] \in A[k - 1]
  <2>1. \A k \in 1 .. N : \A s \in A[k] : s \in S
    BY <1>1 DEF S
  <2> QED
    BY <1>3, <2>1
<1> HIDE DEF turn
<1>11. c[N] \in A[0]
  BY <1>1, <1>2, <1>8, <1>9, <1>10, Descends
<1> QED
  BY <1>4, <1>5, <1>11

-----------------------------------------------------------------------------
(* The first node leaves the walk.                                                    *)

AtShrunk(T, at, x0) == [z \in T \ {x0} |-> at[z] - 1]
LoShrunk(T, lo, x0) == [z \in T \ {x0} |-> IF lo[z] = 1 THEN 1 ELSE lo[z] - 1]
HiShrunk(T, hi, x0) == [z \in T \ {x0} |-> hi[z] - 1]

\* The first node gives up its place, and the others move back by one.
LEMMA ShrunkPlaced ==
  ASSUME NEW T, NEW n, NEW at, NEW lo, NEW hi, Placed(T, n, at, lo, hi), NEW x0 \in T, at[x0] = 1
  PROVE  Placed(T \ {x0}, n - 1, AtShrunk(T, at, x0), LoShrunk(T, lo, x0), HiShrunk(T, hi, x0))
<1> DEFINE a == AtShrunk(T, at, x0)
           l == LoShrunk(T, lo, x0)
           h == HiShrunk(T, hi, x0)
           U == T \ {x0}
<1>1. /\ T \subseteq Node /\ n \in Nat
      /\ at \in [T -> 1 .. n] /\ lo \in [T -> 1 .. n] /\ hi \in [T -> 1 .. n]
      /\ \A y \in T : lo[y] <= at[y] /\ at[y] <= hi[y]
      /\ \A y, z \in T : at[y] = at[z] => y = z
      /\ \A i \in 1 .. n : \E y \in T : at[y] = i
  BY DEF Placed
<1>2. /\ \A z \in U : a[z] = at[z] - 1 /\ l[z] = (IF lo[z] = 1 THEN 1 ELSE lo[z] - 1) /\ h[z] = hi[z] - 1
      /\ a = [z \in U |-> a[z]] /\ l = [z \in U |-> l[z]] /\ h = [z \in U |-> h[z]]
  BY DEF AtShrunk, LoShrunk, HiShrunk
<1> HIDE DEF a, l, h
<1>3. \A z \in T : at[z] \in 1 .. n /\ lo[z] \in 1 .. n /\ hi[z] \in 1 .. n
  BY <1>1
<1>4. \A z \in U : at[z] # 1
  BY <1>1
<1>5. \A z \in U : a[z] \in 1 .. n - 1 /\ l[z] \in 1 .. n - 1 /\ h[z] \in 1 .. n - 1
                   /\ l[z] <= a[z] /\ a[z] <= h[z]
  <2> SUFFICES ASSUME NEW z \in U
               PROVE  a[z] \in 1 .. n - 1 /\ l[z] \in 1 .. n - 1 /\ h[z] \in 1 .. n - 1
                      /\ l[z] <= a[z] /\ a[z] <= h[z]
    OBVIOUS
  <2>1. at[z] \in 1 .. n /\ lo[z] \in 1 .. n /\ hi[z] \in 1 .. n /\ at[z] # 1
        /\ lo[z] <= at[z] /\ at[z] <= hi[z]
    BY <1>1, <1>3, <1>4
  <2>2. a[z] = at[z] - 1 /\ l[z] = (IF lo[z] = 1 THEN 1 ELSE lo[z] - 1) /\ h[z] = hi[z] - 1
    BY <1>2
  <2> QED
    BY <2>1, <2>2, <1>1
<1>6. a \in [U -> 1 .. n - 1] /\ l \in [U -> 1 .. n - 1] /\ h \in [U -> 1 .. n - 1]
  BY <1>2, <1>5
<1>7. \A y, z \in U : a[y] = a[z] => y = z
  <2> SUFFICES ASSUME NEW y \in U, NEW z \in U, a[y] = a[z] PROVE y = z
    OBVIOUS
  <2>1. at[y] = at[z]
    BY <1>2, <1>3
  <2> QED
    BY <2>1, <1>1
<1>8. ASSUME NEW i \in 1 .. n - 1
      PROVE  \E y \in U : a[y] = i
  <2>1. i + 1 \in 1 .. n /\ i + 1 # 1
    BY <1>1
  <2>2. PICK y \in T : at[y] = i + 1
    BY <2>1, <1>1
  <2>3. y \in U /\ a[y] = i
    BY <2>1, <2>2, <1>2
  <2> QED
    BY <2>3
<1>9. U \subseteq Node /\ n - 1 \in Nat
  <2>1. 1 <= n
    BY <1>1, <1>3
  <2> QED
    BY <2>1, <1>1
<1> QED
  BY <1>5, <1>6, <1>7, <1>8, <1>9 DEF Placed, a, l, h

\* x0 was taken out of u, and c, which may be no node, hangs where it hung.
TakenOut(u, v, T, x0, c) ==
  /\ v \in Trees /\ v.root = (IF u.root = x0 THEN c ELSE u.root)
  /\ v.key = u.key /\ v.crashed = u.crashed
  /\ \A z \in T \ {x0}, e \in Side : v.child[e][z] = IF u.child[e][z] = x0 THEN c ELSE u.child[e][z]
  /\ \A z \in T \ {x0} : v.parent[z] = IF z = c THEN u.parent[x0] ELSE u.parent[z]
  /\ \A z \in T \ {x0} : v.pos[z] = IF z = c /\ x0 # u.root THEN u.pos[x0] ELSE u.pos[z]

\* The shape without the first node, whose right child hangs where it hung.
LEMMA TakenOutShaped ==
  ASSUME NEW u \in Trees, NEW T, NEW n, NEW at, NEW lo, NEW hi, Shaped(u, T, n, at, lo, hi),
         NEW x0 \in T, at[x0] = 1, u.child["LEFT"][x0] = NIL, NEW c, u.child["RIGHT"][x0] = c,
         NEW v, TakenOut(u, v, T, x0, c)
  PROVE  Shaped(v, T \ {x0}, n - 1, AtShrunk(T, at, x0), LoShrunk(T, lo, x0), HiShrunk(T, hi, x0))
<1> DEFINE a == AtShrunk(T, at, x0)
           l == LoShrunk(T, lo, x0)
           h == HiShrunk(T, hi, x0)
           U == T \ {x0}
<1>1. /\ Placed(T, n, at, lo, hi) /\ T \subseteq Node /\ n \in Nat /\ NIL \notin T
      /\ at \in [T -> 1 .. n] /\ lo \in [T -> 1 .. n] /\ hi \in [T -> 1 .. n]
      /\ \A y, z \in T : at[y] = at[z] => y = z
      /\ \A y \in T : lo[y] <= at[y] /\ at[y] <= hi[y]
  BY DEF Shaped, Placed
<1>2. \A z \in T : at[z] \in 1 .. n /\ lo[z] \in 1 .. n /\ hi[z] \in 1 .. n
  BY <1>1
<1>3. /\ u.root \in T /\ u.parent[u.root] = NIL /\ lo[u.root] = 1 /\ hi[u.root] = n
  BY DEF Shaped, Rooted
<1>4. Placed(U, n - 1, a, l, h)
  BY <1>1, ShrunkPlaced
<1>5. \A z \in U : a[z] = at[z] - 1 /\ l[z] = (IF lo[z] = 1 THEN 1 ELSE lo[z] - 1) /\ h[z] = hi[z] - 1
  BY DEF AtShrunk, LoShrunk, HiShrunk
<1>6. /\ v.root = (IF u.root = x0 THEN c ELSE u.root)
      /\ \A z \in U, e \in Side : v.child[e][z] = IF u.child[e][z] = x0 THEN c ELSE u.child[e][z]
      /\ \A z \in U : v.parent[z] = IF z = c THEN u.parent[x0] ELSE u.parent[z]
      /\ \A z \in U : v.pos[z] = IF z = c /\ x0 # u.root THEN u.pos[x0] ELSE u.pos[z]
  BY DEF TakenOut
<1> HIDE DEF a, l, h
<1>7. \A y \in T :
        /\ IF u.child["LEFT"][y] = NIL THEN lo[y] = at[y]
           ELSE /\ u.child["LEFT"][y] \in T
                /\ lo[u.child["LEFT"][y]] = lo[y] /\ hi[u.child["LEFT"][y]] = at[y] - 1
                /\ u.parent[u.child["LEFT"][y]] = y /\ u.pos[u.child["LEFT"][y]] = "LEFT"
        /\ IF u.child["RIGHT"][y] = NIL THEN hi[y] = at[y]
           ELSE /\ u.child["RIGHT"][y] \in T
                /\ lo[u.child["RIGHT"][y]] = at[y] + 1 /\ hi[u.child["RIGHT"][y]] = hi[y]
                /\ u.parent[u.child["RIGHT"][y]] = y /\ u.pos[u.child["RIGHT"][y]] = "RIGHT"
  BY DEF Shaped, Filled
<1>8. /\ lo[x0] = 1
      /\ IF c = NIL THEN hi[x0] = 1
         ELSE c \in U /\ lo[c] = 2 /\ hi[c] = hi[x0] /\ u.parent[c] = x0
  <2>1. lo[x0] = 1
    BY <1>7
  <2>2. CASE c = NIL
    BY <2>1, <2>2, <1>7
  <2>3. CASE c # NIL
    <3>1. c \in T /\ lo[c] = at[x0] + 1 /\ hi[c] = hi[x0] /\ u.parent[c] = x0
      BY <2>3, <1>7
    <3>2. lo[c] = 2
      BY <3>1
    <3> QED
      BY <2>1, <2>3, <3>1, <3>2
  <2> QED
    BY <2>1, <2>2, <2>3
<1>9. \A z \in U : at[z] # 1
  BY <1>1
<1>10. Rooted(v, U, n - 1, l, h)
  <2>1. CASE u.root = x0 /\ c = NIL
    <3>1. n = 1
      BY <2>1, <1>3, <1>8
    <3>2. \A z \in T : at[z] = 1
      BY <3>1, <1>2
    <3>3. U = {}
      BY <3>2, <1>9
    <3> QED
      BY <3>3, <2>1, <1>6 DEF Rooted
  <2>2. CASE u.root = x0 /\ c # NIL
    <3>1. c \in U /\ v.root = c /\ v.parent[c] = NIL
      BY <2>2, <1>3, <1>6, <1>8
    <3>2. l[c] = 1 /\ h[c] = n - 1
      <4>1. l[c] = (IF lo[c] = 1 THEN 1 ELSE lo[c] - 1) /\ h[c] = hi[c] - 1 /\ lo[c] = 2 /\ hi[c] = n
        BY <3>1, <2>2, <1>3, <1>5, <1>8
      <4> QED
        BY <4>1
    <3> QED
      BY <3>1, <3>2 DEF Rooted
  <2>3. CASE u.root # x0
    <3>1. u.root \in U /\ v.root = u.root /\ u.root # c
      BY <2>3, <1>1, <1>3, <1>6, <1>8
    <3>2. l[u.root] = 1 /\ h[u.root] = n - 1 /\ v.parent[u.root] = NIL
      BY <3>1, <1>3, <1>5, <1>6
    <3> QED
      BY <3>1, <3>2 DEF Rooted
  <2> QED
    BY <2>1, <2>2, <2>3
<1>11. Backed(v, U)
  <2> SUFFICES ASSUME NEW y \in U, y # v.root
               PROVE  v.parent[y] \in U /\ v.child[v.pos[y]][v.parent[y]] = y
    BY DEF Backed
  <2>0. \A z \in T : z # u.root => u.parent[z] \in T /\ u.child[u.pos[z]][u.parent[z]] = z
    BY DEF Shaped, Backed
  <2>1. CASE y = c
    <3>1. x0 # u.root
      BY <2>1, <1>6
    <3>2. u.parent[x0] \in T /\ u.child[u.pos[x0]][u.parent[x0]] = x0 /\ u.pos[x0] \in Side
      BY <3>1, <2>0, <1>1, FieldTypes
    <3>3. u.parent[x0] # x0
      BY <3>2, <2>1, <1>1, Sides
    <3>4. v.parent[y] = u.parent[x0] /\ v.pos[y] = u.pos[x0]
      BY <2>1, <3>1, <1>6
    <3> QED
      BY <2>1, <3>2, <3>3, <3>4, <1>6
  <2>2. CASE y # c
    <3>1. y # u.root
      BY <2>2, <1>6
    <3>2. u.parent[y] \in T /\ u.child[u.pos[y]][u.parent[y]] = y /\ u.pos[y] \in Side
      BY <3>1, <2>0, <1>1, FieldTypes
    <3>3. u.parent[y] # x0
      BY <3>2, <2>2, <1>1, Sides
    <3>4. v.parent[y] = u.parent[y] /\ v.pos[y] = u.pos[y]
      BY <2>2, <1>6
    <3> QED
      BY <3>2, <3>3, <3>4, <1>6
  <2> QED
    BY <2>1, <2>2
<1>12. Filled(v, U, a, l, h)
  <2> SUFFICES ASSUME NEW y \in U
               PROVE  /\ IF v.child["LEFT"][y] = NIL THEN l[y] = a[y]
                         ELSE /\ v.child["LEFT"][y] \in U
                              /\ l[v.child["LEFT"][y]] = l[y] /\ h[v.child["LEFT"][y]] = a[y] - 1
                              /\ v.parent[v.child["LEFT"][y]] = y /\ v.pos[v.child["LEFT"][y]] = "LEFT"
                      /\ IF v.child["RIGHT"][y] = NIL THEN h[y] = a[y]
                         ELSE /\ v.child["RIGHT"][y] \in U
                              /\ l[v.child["RIGHT"][y]] = a[y] + 1 /\ h[v.child["RIGHT"][y]] = h[y]
                              /\ v.parent[v.child["RIGHT"][y]] = y /\ v.pos[v.child["RIGHT"][y]] = "RIGHT"
    BY DEF Filled
  <2>1. /\ y \in T /\ y # x0 /\ at[y] # 1
        /\ a[y] = at[y] - 1 /\ l[y] = (IF lo[y] = 1 THEN 1 ELSE lo[y] - 1) /\ h[y] = hi[y] - 1
        /\ at[y] \in 1 .. n /\ lo[y] \in 1 .. n /\ hi[y] \in 1 .. n
    BY <1>2, <1>5, <1>9
  <2> DEFINE k == u.child["RIGHT"][y]
             j == u.child["LEFT"][y]
  <2>2. /\ v.child["RIGHT"][y] = (IF k = x0 THEN c ELSE k)
        /\ v.child["LEFT"][y] = (IF j = x0 THEN c ELSE j)
    BY <1>6, Sides
  <2>3. IF k = NIL THEN hi[y] = at[y]
        ELSE k \in T /\ lo[k] = at[y] + 1 /\ hi[k] = hi[y] /\ u.parent[k] = y /\ u.pos[k] = "RIGHT"
    BY <2>1, <1>7
  <2>4. IF j = NIL THEN lo[y] = at[y]
        ELSE j \in T /\ lo[j] = lo[y] /\ hi[j] = at[y] - 1 /\ u.parent[j] = y /\ u.pos[j] = "LEFT"
    BY <2>1, <1>7
  <2> HIDE DEF j, k
  <2>5. k # x0
    <3> SUFFICES ASSUME k = x0 PROVE FALSE
      OBVIOUS
    <3>1. lo[x0] = at[y] + 1
      BY <2>3, <1>1
    <3> QED
      BY <3>1, <2>1, <1>8
  <2>6. IF v.child["RIGHT"][y] = NIL THEN h[y] = a[y]
        ELSE /\ v.child["RIGHT"][y] \in U
             /\ l[v.child["RIGHT"][y]] = a[y] + 1 /\ h[v.child["RIGHT"][y]] = h[y]
             /\ v.parent[v.child["RIGHT"][y]] = y /\ v.pos[v.child["RIGHT"][y]] = "RIGHT"
    <3>1. v.child["RIGHT"][y] = k
      BY <2>2, <2>5
    <3>2. CASE k = NIL
      BY <3>1, <3>2, <2>1, <2>3
    <3>3. CASE k # NIL
      <4>1. k \in U /\ lo[k] = at[y] + 1 /\ hi[k] = hi[y] /\ u.parent[k] = y /\ u.pos[k] = "RIGHT"
        BY <3>3, <2>3, <2>5
      <4>2. k # c
        BY <4>1, <3>3, <2>1, <1>8
      <4>3. v.parent[k] = y /\ v.pos[k] = "RIGHT"
        BY <4>1, <4>2, <1>6
      <4>4. l[k] = (IF lo[k] = 1 THEN 1 ELSE lo[k] - 1) /\ h[k] = hi[k] - 1
        BY <4>1, <1>5
      <4>5. l[k] = a[y] + 1 /\ h[k] = h[y]
        BY <4>1, <4>4, <2>1
      <4> QED
        BY <3>1, <3>3, <4>1, <4>3, <4>5
    <3> QED
      BY <3>2, <3>3
  <2>7. IF v.child["LEFT"][y] = NIL THEN l[y] = a[y]
        ELSE /\ v.child["LEFT"][y] \in U
             /\ l[v.child["LEFT"][y]] = l[y] /\ h[v.child["LEFT"][y]] = a[y] - 1
             /\ v.parent[v.child["LEFT"][y]] = y /\ v.pos[v.child["LEFT"][y]] = "LEFT"
    <3>1. CASE j = NIL
      <4>1. v.child["LEFT"][y] = NIL
        BY <3>1, <2>2, <1>1
      <4> QED
        BY <4>1, <3>1, <2>1, <2>4
    <3>2. CASE j = x0
      <4>1. /\ v.child["LEFT"][y] = c /\ lo[y] = 1 /\ hi[x0] = at[y] - 1
            /\ u.parent[x0] = y /\ u.pos[x0] = "LEFT" /\ x0 # u.root
        BY <3>2, <2>1, <2>2, <2>4, <1>1, <1>3, <1>8
      <4>2. l[y] = 1
        BY <4>1, <2>1
      <4>3. CASE c = NIL
        <5>1. hi[x0] = 1
          BY <4>3, <1>8
        <5>2. a[y] = 1
          BY <4>1, <5>1, <2>1
        <5> QED
          BY <4>1, <4>2, <4>3, <5>2
      <4>4. CASE c # NIL
        <5>1. c \in U /\ lo[c] = 2 /\ hi[c] = hi[x0]
          BY <4>4, <1>8
        <5>2. l[c] = (IF lo[c] = 1 THEN 1 ELSE lo[c] - 1) /\ h[c] = hi[c] - 1
          BY <5>1, <1>5
        <5>3. l[c] = 1 /\ h[c] = a[y] - 1
          BY <5>1, <5>2, <4>1, <2>1
        <5>4. v.parent[c] = y /\ v.pos[c] = "LEFT"
          BY <5>1, <4>1, <1>6
        <5> QED
          BY <4>1, <4>2, <4>4, <5>1, <5>3, <5>4
      <4> QED
        BY <4>3, <4>4
    <3>3. CASE j # NIL /\ j # x0
      <4>1. j \in U /\ lo[j] = lo[y] /\ hi[j] = at[y] - 1 /\ u.parent[j] = y /\ u.pos[j] = "LEFT"
            /\ v.child["LEFT"][y] = j
        BY <3>3, <2>2, <2>4
      <4>2. j # c
        BY <4>1, <3>3, <2>1, <1>8
      <4>3. v.parent[j] = y /\ v.pos[j] = "LEFT"
        BY <4>1, <4>2, <1>6
      <4>4. l[j] = (IF lo[j] = 1 THEN 1 ELSE lo[j] - 1) /\ h[j] = hi[j] - 1
        BY <4>1, <1>5
      <4>5. l[j] = l[y] /\ h[j] = a[y] - 1
        BY <4>1, <4>4, <2>1
      <4> QED
        BY <3>3, <4>1, <4>3, <4>5
    <3> QED
      BY <3>1, <3>2, <3>3
  <2> QED
    BY <2>6, <2>7
<1> QED
  BY <1>4, <1>10, <1>11, <1>12 DEF Shaped, a, l, h

\* The colors that stay: only c is painted.
Darkened(u, v, T, x0, c) ==
  \A z \in T \ {x0} : v.color[z] = IF z = c THEN "BLACK" ELSE u.color[z]

\* A leftmost node that does not count, or that its child makes up for, can be taken out.
LEMMA TakenOutRuled ==
  ASSUME NEW u \in Trees, NEW T, NEW n, NEW at, NEW lo, NEW hi, Shaped(u, T, n, at, lo, hi),
         NEW x0 \in T, at[x0] = 1, u.child["LEFT"][x0] = NIL, NEW c, u.child["RIGHT"][x0] = c,
         NEW v, TakenOut(u, v, T, x0, c), Darkened(u, v, T, x0, c),
         NEW b, NEW gone \in {x0, NIL}, Balanced(u, T, b, gone, NIL),
         b[c] = b[x0], Weight(u, gone, x0) = Weight(v, NIL, c),
         RedsApart(u, T, NIL), ~IsRed(u, u.root)
  PROVE  /\ Ruled(v, T \ {x0}, n - 1, AtShrunk(T, at, x0), LoShrunk(T, lo, x0), HiShrunk(T, hi, x0),
                  [z \in (T \ {x0}) \cup {NIL} |-> b[z]], NIL)
         /\ ~IsRed(v, v.root)
<1> DEFINE U == T \ {x0}
           b2 == [z \in U \cup {NIL} |-> b[z]]
<1>1. Shaped(v, U, n - 1, AtShrunk(T, at, x0), LoShrunk(T, lo, x0), HiShrunk(T, hi, x0))
  BY TakenOutShaped
<1>2. /\ v.root = (IF u.root = x0 THEN c ELSE u.root)
      /\ \A z \in U, e \in Side : v.child[e][z] = IF u.child[e][z] = x0 THEN c ELSE u.child[e][z]
      /\ \A z \in U : v.color[z] = IF z = c THEN "BLACK" ELSE u.color[z]
  BY DEF TakenOut, Darkened
<1>3. /\ b \in [T \cup {NIL} -> Nat] /\ b[NIL] = 0
      /\ \A z \in T, e \in Side : b[z] = b[u.child[e][z]] + Weight(u, gone, u.child[e][z])
  <2>1. b \in [T \cup {NIL} -> Nat] /\ b[NIL] = 0
    BY Zenon DEF Balanced
  <2> SUFFICES ASSUME NEW z \in T, NEW e \in Side
               PROVE  b[z] = b[u.child[e][z]] + Weight(u, gone, u.child[e][z])
    BY <2>1
  <2>2. b[z] = b[u.child[e][z]] + Weight(u, gone, u.child[e][z])
              + (IF u.child[e][z] # NIL /\ u.child[e][z] = NIL THEN 1 ELSE 0)
    BY Zenon DEF Balanced
  <2>3. u.child[e][z] \in T \cup {NIL}
    BY Kids
  <2>4. b[u.child[e][z]] \in Nat /\ Weight(u, gone, u.child[e][z]) \in Nat
    BY <2>1, <2>3 DEF Weight
  <2> QED
    BY <2>2, <2>4
<1>4. /\ T \subseteq Node /\ NIL \notin T /\ u.root \in T
  BY DEF Shaped, Placed, Rooted
<1>5. c = NIL \/ (c \in U /\ u.parent[c] = x0)
  BY Kids, Sides
\* What hangs below another node still does, in its color.
<1>6. ASSUME NEW z \in U, NEW e \in Side, NEW k, k = u.child[e][z], k # x0
      PROVE  /\ v.child[e][z] = k /\ k \in U \cup {NIL}
             /\ k # NIL => k # c /\ v.color[k] = u.color[k]
  <2>1. k = NIL \/ (k \in T /\ u.parent[k] = z)
    BY <1>6, Kids
  <2>2. k # NIL => k # c
    BY <2>1, <1>5
  <2> QED
    BY <2>1, <2>2, <1>2, <1>6
<1>7. ASSUME NEW z \in U, NEW e \in Side, u.child[e][z] = x0
      PROVE  v.child[e][z] = c
  BY <1>2, <1>7
<1>8. \A z \in U \cup {NIL} : b2[z] = b[z] /\ b[z] \in Nat
  BY <1>3
<1>9. b2 \in [U \cup {NIL} -> Nat] /\ b2[NIL] = 0
  BY <1>3, <1>8
<1> HIDE DEF b2, U
<1>10. Balanced(v, U, b2, NIL, NIL)
  <2> SUFFICES ASSUME NEW z \in U, NEW e \in Side
               PROVE  b2[z] = b2[v.child[e][z]] + Weight(v, NIL, v.child[e][z])
                              + (IF v.child[e][z] # NIL /\ v.child[e][z] = NIL THEN 1 ELSE 0)
    BY <1>9 DEF Balanced
  <2>0. z \in T /\ v.child[e][z] \in U \cup {NIL} /\ Weight(v, NIL, v.child[e][z]) \in Nat
    BY <1>5, <1>6, <1>7 DEF U, Weight
  <2>1. CASE u.child[e][z] = x0
    <3>1. b[z] = b[x0] + Weight(u, gone, x0) /\ v.child[e][z] = c
      BY <2>0, <2>1, <1>3, <1>7
    <3>2. b2[z] = b2[c] + Weight(v, NIL, c)
      BY <3>1, <2>0, <1>8
    <3> QED
      BY <3>1, <3>2, <2>0, <1>8
  <2>2. CASE u.child[e][z] # x0
    <3> DEFINE k == u.child[e][z]
    <3>1. v.child[e][z] = k /\ k \in U \cup {NIL} /\ (k # NIL => v.color[k] = u.color[k])
      BY <2>2, <1>6
    <3>2. k # gone \/ k = NIL
      BY <2>2
    <3>3. Weight(u, gone, k) = Weight(v, NIL, k)
      BY <3>1, <3>2 DEF Weight
    <3>4. b[z] = b[k] + Weight(u, gone, k)
      BY <2>0, <1>3
    <3> HIDE DEF k
    <3>5. b2[z] = b2[k] + Weight(v, NIL, k)
      BY <3>1, <3>3, <3>4, <1>8
    <3> QED
      BY <3>1, <3>5, <2>0, <1>8
  <2> QED
    BY <2>1, <2>2
<1>11. ASSUME NEW z \in U, NEW e \in Side
       PROVE  ~(IsRed(v, z) /\ IsRed(v, v.child[e][z]))
  <2>0. z \in T /\ v.color[z] = IF z = c THEN "BLACK" ELSE u.color[z]
    BY <1>2 DEF U
  <2>1. CASE u.child[e][z] = x0
    <3>1. c # NIL => v.color[c] = "BLACK"
      BY <1>2, <1>5 DEF U
    <3> QED
      BY <3>1, <2>1, <1>7 DEF IsRed
  <2>2. CASE u.child[e][z] # x0
    <3> DEFINE k == u.child[e][z]
    <3>1. v.child[e][z] = k /\ (k # NIL => v.color[k] = u.color[k])
      BY <2>2, <1>6
    <3>2. IsRed(u, z) /\ IsRed(u, k) => k = NIL
      BY <2>0 DEF RedsApart
    <3> HIDE DEF k
    <3> QED
      BY <2>0, <3>1, <3>2 DEF IsRed
  <2> QED
    BY <2>1, <2>2
<1>12. RedsApart(v, U, NIL)
  BY <1>11 DEF RedsApart
<1>13. ~IsRed(v, v.root)
  <2>1. CASE u.root = x0
    BY <2>1, <1>2, <1>5 DEF IsRed, U
  <2>2. CASE u.root # x0
    BY <2>2, <1>2, <1>4 DEF IsRed, U
  <2> QED
    BY <2>1, <2>2
<1> QED
  BY <1>1, <1>10, <1>12, <1>13 DEF Ruled, U, b2

-----------------------------------------------------------------------------
(* getLeftmostNode.                                                                   *)

LeftDown(u, y) == LET c == u.child["LEFT"][y] IN IF c = NIL THEN y ELSE c
LeftPath(u) ==
  LET cur[n \in 0 .. Height] == IF n = 0 THEN u.root ELSE LeftDown(u, cur[n - 1]) IN cur

\* The recursive function in getLeftmostNode is LeftPath.
LEMMA LeftmostIs ==
  ASSUME NEW u
  PROVE  getLeftmostNode(u) = LeftPath(u)[Height]
BY Zenon DEF getLeftmostNode, LeftPath, LeftDown

\* What the way to the left computes, as long as every step stays in S.
LEMMA LeftPathIs ==
  ASSUME NEW u, NEW S, u.root \in S, \A y \in S : LeftDown(u, y) \in S
  PROVE  /\ LeftPath(u)[0] = u.root
         /\ \A k \in 1 .. Height : LeftPath(u)[k] = LeftDown(u, LeftPath(u)[k - 1])
         /\ \A k \in 0 .. Height : LeftPath(u)[k] \in S
<1> DEFINE R == u.root
           N == Height
           turn == [s \in S |-> LeftDown(u, s)]
           F(f) == [k \in 0 .. N |-> IF k = 0 THEN R ELSE LeftDown(u, f[k - 1])]
           c == LeftPath(u)
<1>1. N \in Nat
  BY HeightNat
<1>2. turn \in [S -> S]
  OBVIOUS
<1> HIDE DEF turn, R, N
<1>3. PICK g : IsIteration(g, N, S, R, turn)
  BY <1>1, <1>2, Iterates DEF R
<1>4. g \in [0 .. N -> S] /\ g[0] = R /\ \A k \in 1 .. N : g[k] = turn[g[k - 1]]
  BY <1>3 DEF IsIteration
<1>5. \A k \in 1 .. N : g[k] = LeftDown(u, g[k - 1])
  <2> SUFFICES ASSUME NEW k \in 1 .. N PROVE g[k] = LeftDown(u, g[k - 1])
    OBVIOUS
  <2>1. k - 1 \in 0 .. N
    BY <1>1
  <2>2. g[k] = turn[g[k - 1]] /\ g[k - 1] \in S
    BY <1>4, <2>1
  <2> QED
    BY <2>2, Zenon DEF turn
<1>6. g = F(g)
  BY <1>1, <1>4, <1>5
<1>7. c = CHOOSE f : f = F(f)
  BY DEF LeftPath, R, N
<1>8. c = F(c)
  <2> HIDE DEF F, c
  <2> QED
    BY <1>6, <1>7
<1> HIDE DEF c
<1>9. c[0] = R /\ \A k \in 1 .. N : c[k] = LeftDown(u, c[k - 1])
  BY <1>1, <1>8
<1>10. \A k \in 0 .. N : c[k] \in S
  <2> SUFFICES ASSUME NEW k \in 0 .. N PROVE c[k] \in S
    OBVIOUS
  <2> DEFINE A == {i \in 0 .. k : c[i] \in S}
  <2>1. 0 \in A
    BY <1>9 DEF R
  <2>2. \A i \in 0 .. k - 1 : i \in A => i + 1 \in A
    <3> SUFFICES ASSUME NEW i \in 0 .. k - 1, i \in A PROVE i + 1 \in A
      OBVIOUS
    <3>1. i + 1 \in 1 .. N /\ i + 1 \in 0 .. k /\ (i + 1) - 1 = i
      BY <1>1
    <3>2. c[i + 1] = LeftDown(u, c[i]) /\ c[i] \in S
      BY <3>1, <1>9
    <3> QED
      BY <3>1, <3>2
  <2> HIDE DEF A
  <2>3. k \in A
    BY <2>1, <2>2, UpTo
  <2> QED
    BY <2>3 DEF A
<1> QED
  BY <1>9, <1>10 DEF c, R, N

\* The node at the first place has no left child, and the way down ends there.
LEMMA LeftmostIsFirst ==
  ASSUME NEW u \in Trees, NEW T, NEW n, NEW at, NEW lo, NEW hi, Shaped(u, T, n, at, lo, hi), T # {},
         NEW x, x = getLeftmostNode(u)
  PROVE  x \in T /\ at[x] = 1 /\ lo[x] = 1 /\ u.child["LEFT"][x] = NIL
<1> DEFINE S == {y \in T : lo[y] = 1}
           c == LeftPath(u)
           Down(y) == LeftDown(u, y)
           Ends(y) == u.child["LEFT"][y] = NIL
           A == {k \in 0 .. Height : Ends(c[k]) \/ hi[c[k]] <= n - k}
<1>1. /\ T \subseteq Node /\ n \in Nat /\ NIL \notin T
      /\ at \in [T -> 1 .. n] /\ lo \in [T -> 1 .. n] /\ hi \in [T -> 1 .. n]
      /\ \A z \in T : lo[z] <= at[z] /\ at[z] <= hi[z]
  BY DEF Shaped, Placed
<1>2. Height \in Nat /\ n <= Height
  <2>1. Placed(T, n, at, lo, hi)
    BY DEF Shaped
  <2> QED
    BY <2>1, PlacesFit, HeightNat
<1>3. u.root \in S /\ hi[u.root] = n
  BY DEF Shaped, Rooted
<1>4. ASSUME NEW y \in S
      PROVE  /\ Down(y) \in S
             /\ IF Ends(y) THEN Down(y) = y /\ at[y] = 1 ELSE hi[Down(y)] <= hi[y] - 1
  <2>1. y \in T /\ lo[y] = 1
    OBVIOUS
  <2>2. CASE Ends(y)
    <3>1. lo[y] = at[y]
      BY <2>1, <2>2 DEF Shaped, Filled
    <3> QED
      BY <2>1, <2>2, <3>1 DEF LeftDown
  <2>3. CASE ~Ends(y)
    <3>1. Down(y) \in T /\ lo[Down(y)] = lo[y] /\ hi[Down(y)] = at[y] - 1
      BY <2>1, <2>3 DEF Shaped, Filled, LeftDown
    <3>2. at[y] \in 1 .. n /\ hi[y] \in 1 .. n /\ at[y] <= hi[y]
      BY <1>1, <2>1
    <3> HIDE DEF Down
    <3> QED
      BY <2>1, <2>3, <3>1, <3>2
  <2> QED
    BY <2>2, <2>3
<1>5. /\ c[0] = u.root /\ \A k \in 1 .. Height : c[k] = Down(c[k - 1])
      /\ \A k \in 0 .. Height : c[k] \in S
  <2> HIDE DEF S
  <2> QED
    BY <1>3, <1>4, LeftPathIs
<1> HIDE DEF c, Down
<1>6. 0 \in A
  BY <1>1, <1>2, <1>3, <1>5
<1>7. ASSUME NEW k \in 0 .. Height - 1, k \in A
      PROVE  k + 1 \in A
  <2>1. k + 1 \in 1 .. Height /\ k + 1 \in 0 .. Height /\ (k + 1) - 1 = k /\ k \in 0 .. Height
    BY <1>2
  <2>2. c[k + 1] = Down(c[k]) /\ c[k] \in S /\ c[k + 1] \in S
    BY <2>1, <1>5
  <2>3. CASE Ends(c[k])
    <3>1. c[k + 1] = c[k]
      BY <2>2, <2>3, <1>4
    <3> QED
      BY <3>1, <2>1, <2>3
  <2>4. CASE ~Ends(c[k])
    <3>1. hi[c[k + 1]] <= hi[c[k]] - 1 /\ hi[c[k]] <= n - k
      BY <2>2, <2>4, <1>4, <1>7
    <3>2. hi[c[k + 1]] \in 1 .. n /\ hi[c[k]] \in 1 .. n
      BY <1>1, <2>2
    <3>3. hi[c[k + 1]] <= n - (k + 1)
      BY <3>1, <3>2, <1>1
    <3> QED
      BY <3>3, <2>1
  <2> QED
    BY <2>3, <2>4
<1> HIDE DEF A
<1>8. Height \in A
  BY <1>2, <1>6, <1>7, UpTo
<1>9. c[Height] \in S
  BY <1>2, <1>5
<1>10. Ends(c[Height])
  <2> SUFFICES ASSUME ~Ends(c[Height]) PROVE FALSE
    OBVIOUS
  <2>1. hi[c[Height]] <= n - Height
    BY <1>8 DEF A
  <2>2. hi[c[Height]] \in 1 .. n
    BY <1>1, <1>9
  <2> QED
    BY <2>1, <2>2, <1>1, <1>2
<1>11. x = c[Height]
  BY LeftmostIs DEF c
<1>12. at[x] = 1
  BY <1>4, <1>9, <1>10, <1>11
<1> QED
  BY <1>9, <1>10, <1>11, <1>12

-----------------------------------------------------------------------------
(* removeLeftmostNode.                                                                *)

\* v is w but for what is left in x, which is no node of the tree any more, and for colors.
Unhooked(w, v, x) ==
  /\ v \in Trees /\ v.root = w.root /\ v.key = w.key /\ v.crashed = w.crashed
  /\ \A z \in Node \ {x} : v.parent[z] = w.parent[z] /\ v.pos[z] = w.pos[z]
  /\ \A z \in Node \ {x}, e \in Side : v.child[e][z] = w.child[e][z]

\* A node below the root is taken out when its parent gets c in its place.
LEMMA ReplacedTakenOut ==
  ASSUME NEW u \in Trees, NEW T, NEW n, NEW at, NEW lo, NEW hi, Shaped(u, T, n, at, lo, hi),
         NEW x \in T, x # u.root, NEW c,
         NEW w, Hung(u, w, u.pos[x], u.parent[x], c), NEW v, Unhooked(w, v, x)
  PROVE  TakenOut(u, v, T, x, c)
<1>1. /\ T \subseteq Node /\ u.parent[x] \in T /\ u.child[u.pos[x]][u.parent[x]] = x /\ u.pos[x] \in Side
  BY FieldTypes DEF Shaped, Placed, Backed
<1>2. /\ w.root = u.root /\ w.crashed = u.crashed /\ w.key = u.key
      /\ \A e \in Side, z \in Node : w.child[e][z] = IF z = u.parent[x] /\ e = u.pos[x] THEN c ELSE u.child[e][z]
      /\ \A z \in Node : w.parent[z] = IF z = c THEN u.parent[x] ELSE u.parent[z]
      /\ \A z \in Node : w.pos[z] = IF z = c THEN u.pos[x] ELSE u.pos[z]
  BY Zenon DEF Hung
<1>3. /\ v \in Trees /\ v.root = w.root /\ v.key = w.key /\ v.crashed = w.crashed
      /\ \A z \in Node \ {x} : v.parent[z] = w.parent[z] /\ v.pos[z] = w.pos[z]
      /\ \A z \in Node \ {x}, e \in Side : v.child[e][z] = w.child[e][z]
  BY Zenon DEF Unhooked
<1>4. ASSUME NEW z \in T, NEW e \in Side
      PROVE  u.child[e][z] = x <=> z = u.parent[x] /\ e = u.pos[x]
  <2>1. u.child[e][z] = x => u.parent[x] = z /\ u.pos[x] = e
    BY Kids, <1>1
  <2> QED
    BY <2>1, <1>1
<1>5. \A z \in T \ {x} : z \in Node \ {x}
  BY <1>1
<1>6. ASSUME NEW z \in T \ {x}, NEW e \in Side
      PROVE  v.child[e][z] = IF u.child[e][z] = x THEN c ELSE u.child[e][z]
  <2>1. v.child[e][z] = IF z = u.parent[x] /\ e = u.pos[x] THEN c ELSE u.child[e][z]
    BY <1>2, <1>3, <1>5
  <2> QED
    BY <2>1, <1>4
<1>7. ASSUME NEW z \in T \ {x}
      PROVE  /\ v.parent[z] = IF z = c THEN u.parent[x] ELSE u.parent[z]
             /\ v.pos[z] = IF z = c /\ x # u.root THEN u.pos[x] ELSE u.pos[z]
  BY <1>2, <1>3, <1>5
<1> QED
  BY <1>2, <1>3, <1>6, <1>7 DEF TakenOut

\* What the four ways to unlink a node do, field by field.
LEMMA RedLeafUnhooked ==
  ASSUME NEW u \in Trees, NEW x \in Node, u.parent[x] \in Node
  PROVE  \E w : /\ Hung(u, w, u.pos[x], u.parent[x], NIL) /\ Unhooked(w, RemoveRedLeaf(u, x), x)
                /\ RemoveRedLeaf(u, x).color = u.color
<1> DEFINE w == Hang(u, u.pos[x], u.parent[x], NIL)
           v == RemoveRedLeaf(u, x)
<1>1. u.pos[x] \in Side
  BY FieldTypes
<1>2. Hung(u, w, u.pos[x], u.parent[x], NIL)
  BY <1>1, HangHangs
<1>3. w \in Trees /\ w.color = u.color
  BY <1>2 DEF Hung
<1>4. v = [w EXCEPT !.parent[x] = NIL]
  BY DEF RemoveRedLeaf, Replace
<1> HIDE DEF w, v
<1>5. Unhooked(w, v, x)
  BY <1>3, <1>4 DEF Unhooked, Trees
<1>6. v.color = u.color
  BY <1>3, <1>4 DEF Trees
<1> QED
  BY <1>2, <1>5, <1>6 DEF v

\* RemoveAboveRed below the root, field by field.
LEMMA AboveRedUnhooked ==
  ASSUME NEW u \in Trees, NEW x \in Node, u.parent[x] \in Node, x # u.root,
         NEW c \in Node, c = u.child["RIGHT"][x]
  PROVE  \E w : /\ Hung(u, w, u.pos[x], u.parent[x], c) /\ Unhooked(w, RemoveAboveRed(u, x), x)
                /\ \A z \in Node : RemoveAboveRed(u, x).color[z] = IF z = c THEN "BLACK" ELSE u.color[z]
<1> DEFINE w == Hang(u, u.pos[x], u.parent[x], c)
           v == RemoveAboveRed(u, x)
<1>1. u.pos[x] \in Side
  BY FieldTypes
<1>2. Hung(u, w, u.pos[x], u.parent[x], c)
  BY <1>1, HangHangs
<1>3. w \in Trees /\ w.color = u.color
  BY <1>2 DEF Hung
<1>4. v = [w EXCEPT !.color[c] = "BLACK", !.parent[x] = NIL]
  BY DEF RemoveAboveRed, Replace
<1> HIDE DEF w, v
<1>5. Unhooked(w, v, x)
  BY <1>3, <1>4 DEF Unhooked, Trees
<1>6. \A z \in Node : v.color[z] = IF z = c THEN "BLACK" ELSE u.color[z]
  BY <1>3, <1>4 DEF Trees
<1> QED
  BY <1>2, <1>5, <1>6 DEF v

\* RemoveAboveRed at the root, whose child becomes the root.
LEMMA RootAboveRed ==
  ASSUME NEW u \in Trees, NEW T, NEW n, NEW at, NEW lo, NEW hi, Shaped(u, T, n, at, lo, hi),
         NEW x \in T, x = u.root, NEW c \in T, c = u.child["RIGHT"][x]
  PROVE  TakenOut(u, RemoveAboveRed(u, x), T, x, c) /\ Darkened(u, RemoveAboveRed(u, x), T, x, c)
<1> DEFINE v == RemoveAboveRed(u, x)
<1>1. T \subseteq Node /\ u.parent[x] = NIL /\ NIL \notin T
  BY DEF Shaped, Placed, Rooted
<1>2. v = [u EXCEPT !.root = c, !.color[c] = "BLACK", !.parent[c] = NIL, !.child["RIGHT"][x] = NIL]
  BY DEF RemoveAboveRed
<1>3. x \in Node /\ c \in Node
  BY <1>1
<1> HIDE DEF v
<1>4. v \in Trees /\ v.root = c /\ v.key = u.key /\ v.crashed = u.crashed /\ v.pos = u.pos
  BY <1>2, <1>3 DEF Trees, Side
<1>5. /\ \A z \in Node : v.parent[z] = IF z = c THEN NIL ELSE u.parent[z]
      /\ \A z \in Node : v.color[z] = IF z = c THEN "BLACK" ELSE u.color[z]
  BY <1>2, <1>3 DEF Trees
<1>6. \A z \in Node \ {x}, e \in Side : v.child[e][z] = u.child[e][z]
  BY <1>2, <1>3 DEF Trees
<1>7. ASSUME NEW z \in T, NEW e \in Side
      PROVE  u.child[e][z] # x
  BY Kids, <1>1
<1>8. \A z \in T \ {x} : z \in Node \ {x}
  BY <1>1
<1>9. Darkened(u, v, T, x, c)
  BY <1>5, <1>8 DEF Darkened
<1>10. \A z \in T \ {x}, e \in Side : v.child[e][z] = IF u.child[e][z] = x THEN c ELSE u.child[e][z]
  BY <1>6, <1>7, <1>8
<1> QED
  BY <1>1, <1>4, <1>5, <1>8, <1>9, <1>10 DEF TakenOut, v

\* The last node leaves an empty tree.
LEMMA RootLeaf ==
  ASSUME NEW u \in Trees, NEW T, NEW n, NEW at, NEW lo, NEW hi, Shaped(u, T, n, at, lo, hi),
         NEW x \in T, x = u.root, NEW v, v = [u EXCEPT !.root = NIL]
  PROVE  TakenOut(u, v, T, x, NIL) /\ Darkened(u, v, T, x, NIL)
<1>1. T \subseteq Node /\ u.parent[x] = NIL /\ NIL \notin T
  BY DEF Shaped, Placed, Rooted
<1>2. v \in Trees /\ v.root = NIL /\ v.key = u.key /\ v.crashed = u.crashed /\ v.pos = u.pos
      /\ v.child = u.child /\ v.color = u.color /\ v.parent = u.parent
  BY DEF Trees
<1>3. \A z \in T, e \in Side : u.child[e][z] # x
  BY Kids, <1>1
<1> QED
  BY <1>1, <1>2, <1>3 DEF TakenOut, Darkened

\* Replace with no node, field by field.
LEMMA BlackLeafUnhooked ==
  ASSUME NEW u \in Trees, NEW x \in Node, u.parent[x] \in Node
  PROVE  \E w : /\ Hung(u, w, u.pos[x], u.parent[x], NIL) /\ Unhooked(w, Replace(u, x, NIL), x)
                /\ Replace(u, x, NIL).color = u.color
<1> DEFINE w == Hang(u, u.pos[x], u.parent[x], NIL)
<1>1. u.pos[x] \in Side
  BY FieldTypes
<1>2. Hung(u, w, u.pos[x], u.parent[x], NIL)
  BY <1>1, HangHangs
<1>3. w \in Trees /\ w.color = u.color
  BY <1>2 DEF Hung
<1>4. Replace(u, x, NIL) = w
  BY DEF Replace
<1> HIDE DEF w
<1>5. Unhooked(w, w, x)
  BY <1>3 DEF Unhooked
<1> QED
  BY <1>2, <1>3, <1>4, <1>5

\* The node at the first place has no left child, and at most a red right one.
LEMMA FirstNode ==
  ASSUME NEW u \in Trees, NEW T, NEW n, NEW at, NEW lo, NEW hi, NEW b,
         Ruled(u, T, n, at, lo, hi, b, NIL), NEW x \in T, u.child["LEFT"][x] = NIL,
         NEW c, c = u.child["RIGHT"][x]
  PROVE  /\ b[x] = 0 /\ b[c] = 0 /\ c \in T \cup {NIL}
         /\ c # NIL => u.color[c] = "RED" /\ u.color[x] = "BLACK"
<1>1. Shaped(u, T, n, at, lo, hi) /\ Balanced(u, T, b, NIL, NIL) /\ RedsApart(u, T, NIL)
  BY DEF Ruled
<1>2. T \subseteq Node /\ NIL \notin T
  BY <1>1 DEF Shaped, Placed
<1>3. c \in T \cup {NIL}
  BY <1>1, Kids, Sides
<1>4. /\ b \in [T \cup {NIL} -> Nat] /\ b[NIL] = 0
      /\ b[x] = b[NIL] + Weight(u, NIL, NIL) + 0
      /\ b[x] = b[c] + Weight(u, NIL, c) + 0
  BY <1>1, Sides DEF Balanced
<1>5. b[c] \in Nat /\ Weight(u, NIL, c) \in {0, 1} /\ Weight(u, NIL, NIL) = 0
  BY <1>3, <1>4 DEF Weight
<1>6. b[x] = 0 /\ b[c] = 0 /\ Weight(u, NIL, c) = 0
  BY <1>4, <1>5
<1>7. c # NIL => u.color[c] = "RED"
  BY <1>6 DEF Weight
<1>8. c # NIL => u.color[x] = "BLACK"
  <2> SUFFICES ASSUME c # NIL PROVE u.color[x] = "BLACK"
    OBVIOUS
  <2>1. IsRed(u, c)
    BY <1>7 DEF IsRed
  <2>2. ~(IsRed(u, x) /\ IsRed(u, c))
    BY <1>1, Sides DEF RedsApart
  <2>3. x \in Node /\ x # NIL
    BY <1>2
  <2>4. u.color[x] \in {"RED", "BLACK"}
    BY <2>3, FieldTypes
  <2> QED
    BY <2>1, <2>2, <2>3, <2>4 DEF IsRed
<1> QED
  BY <1>3, <1>6, <1>7, <1>8

\* A red leaf goes without a trace.
LEMMA RedLeafRemoved ==
  ASSUME NEW u \in Trees, NEW T, NEW n, NEW at, NEW lo, NEW hi, NEW b,
         Ruled(u, T, n, at, lo, hi, b, NIL), ~IsRed(u, u.root),
         NEW x \in T, at[x] = 1, u.child["LEFT"][x] = NIL, u.child["RIGHT"][x] = NIL, IsRed(u, x)
  PROVE  Kept(u, RemoveRedLeaf(u, x), T \ {x}, n - 1, AtShrunk(T, at, x))
<1> DEFINE v == RemoveRedLeaf(u, x)
<1>1. Shaped(u, T, n, at, lo, hi) /\ Balanced(u, T, b, NIL, NIL) /\ RedsApart(u, T, NIL)
  BY DEF Ruled
<1>2. T \subseteq Node /\ x # u.root /\ u.parent[x] \in T /\ NIL \notin T
  BY <1>1 DEF Shaped, Placed, Backed
<1>3. PICK w : /\ Hung(u, w, u.pos[x], u.parent[x], NIL) /\ Unhooked(w, v, x) /\ v.color = u.color
  BY <1>2, RedLeafUnhooked
<1> HIDE DEF v
<1>4. TakenOut(u, v, T, x, NIL)
  BY <1>1, <1>2, <1>3, ReplacedTakenOut
<1>5. Darkened(u, v, T, x, NIL)
  BY <1>2, <1>3 DEF Darkened
<1>6. b[x] = 0 /\ b[NIL] = 0
  BY FirstNode
<1>7. Weight(u, NIL, x) = Weight(v, NIL, NIL)
  BY DEF Weight, IsRed
<1>8. /\ Ruled(v, T \ {x}, n - 1, AtShrunk(T, at, x), LoShrunk(T, lo, x), HiShrunk(T, hi, x),
               [z \in (T \ {x}) \cup {NIL} |-> b[z]], NIL)
      /\ ~IsRed(v, v.root)
  BY <1>1, <1>4, <1>5, <1>6, <1>7, TakenOutRuled
<1>9. v \in Trees /\ v.key = u.key /\ v.crashed = u.crashed
  BY <1>4 DEF TakenOut
<1> QED
  BY <1>8, <1>9 DEF Kept, v

\* The red child of a black node takes its place and its color.
LEMMA AboveRedRemoved ==
  ASSUME NEW u \in Trees, NEW T, NEW n, NEW at, NEW lo, NEW hi, NEW b,
         Ruled(u, T, n, at, lo, hi, b, NIL), ~IsRed(u, u.root),
         NEW x \in T, at[x] = 1, u.child["LEFT"][x] = NIL, u.child["RIGHT"][x] # NIL
  PROVE  Kept(u, RemoveAboveRed(u, x), T \ {x}, n - 1, AtShrunk(T, at, x))
<1> DEFINE v == RemoveAboveRed(u, x)
           c == u.child["RIGHT"][x]
<1>1. Shaped(u, T, n, at, lo, hi) /\ Balanced(u, T, b, NIL, NIL) /\ RedsApart(u, T, NIL)
  BY DEF Ruled
<1>2. T \subseteq Node /\ (x # u.root => u.parent[x] \in T) /\ NIL \notin T
  BY <1>1 DEF Shaped, Placed, Backed
<1>3. c \in T /\ c # x /\ b[x] = 0 /\ b[c] = 0 /\ u.color[x] = "BLACK"
  <2>1. c # x
    BY <1>1, Kids, Sides
  <2> QED
    BY <2>1, FirstNode
<1> HIDE DEF v
<1>4. TakenOut(u, v, T, x, c) /\ Darkened(u, v, T, x, c)
  <2>1. CASE x = u.root
    <3>1. c = u.child["RIGHT"][x]
      OBVIOUS
    <3> HIDE DEF c
    <3> QED
      BY <2>1, <3>1, <1>1, <1>3, RootAboveRed DEF v
  <2>2. CASE x # u.root
    <3>1. x \in Node /\ c \in Node /\ u.parent[x] \in Node /\ c = u.child["RIGHT"][x]
      BY <2>2, <1>2, <1>3
    <3> HIDE DEF c
    <3>2. PICK w : /\ Hung(u, w, u.pos[x], u.parent[x], c) /\ Unhooked(w, v, x)
                   /\ \A z \in Node : v.color[z] = IF z = c THEN "BLACK" ELSE u.color[z]
      BY <2>2, <3>1, AboveRedUnhooked DEF v
    <3>3. TakenOut(u, v, T, x, c)
      BY <2>2, <3>2, <1>1, ReplacedTakenOut
    <3>4. Darkened(u, v, T, x, c)
      BY <3>2, <1>2 DEF Darkened
    <3> QED
      BY <3>3, <3>4
  <2> QED
    BY <2>1, <2>2
<1>5. v.color[c] = "BLACK"
  BY <1>3, <1>4 DEF Darkened
<1>6. Weight(u, NIL, x) = Weight(v, NIL, c)
  BY <1>2, <1>3, <1>5 DEF Weight
<1>7. c = u.child["RIGHT"][x]
  OBVIOUS
<1> HIDE DEF c
<1>8. /\ Ruled(v, T \ {x}, n - 1, AtShrunk(T, at, x), LoShrunk(T, lo, x), HiShrunk(T, hi, x),
               [z \in (T \ {x}) \cup {NIL} |-> b[z]], NIL)
      /\ ~IsRed(v, v.root)
  BY <1>1, <1>3, <1>4, <1>6, <1>7, TakenOutRuled
<1>9. v \in Trees /\ v.key = u.key /\ v.crashed = u.crashed
  BY <1>4 DEF TakenOut
<1> QED
  BY <1>8, <1>9 DEF Kept, v

\* A leaf that does not count can be unlinked.
LEMMA Uncounted ==
  ASSUME NEW u \in Trees, NEW T, NEW n, NEW at, NEW lo, NEW hi, NEW b, NEW x,
         Short(u, T, n, at, lo, hi, b, x, NIL),
         NEW v, v = IF x = u.root THEN [u EXCEPT !.root = NIL] ELSE Replace(u, x, NIL)
  PROVE  Kept(u, v, T \ {x}, n - 1, AtShrunk(T, at, x))
<1>1. /\ Shaped(u, T, n, at, lo, hi) /\ Balanced(u, T, b, x, NIL) /\ RedsApart(u, T, NIL)
      /\ ~IsRed(u, u.root) /\ x \in T /\ lo[x] = 1 /\ hi[x] = 1
  BY DEF Short
<1>2. /\ T \subseteq Node /\ (x # u.root => u.parent[x] \in T) /\ NIL \notin T /\ n \in Nat
      /\ at \in [T -> 1 .. n] /\ lo \in [T -> 1 .. n] /\ hi \in [T -> 1 .. n]
      /\ \A y \in T : lo[y] <= at[y] /\ at[y] <= hi[y]
  BY <1>1 DEF Shaped, Placed, Backed
<1>3. at[x] = 1
  <2>1. lo[x] <= at[x] /\ at[x] <= hi[x] /\ at[x] \in 1 .. n
    BY <1>1, <1>2
  <2> QED
    BY <2>1, <1>1
<1>4. u.child["LEFT"][x] = NIL
  <2> SUFFICES ASSUME u.child["LEFT"][x] # NIL PROVE FALSE
    OBVIOUS
  <2>1. u.child["LEFT"][x] \in T /\ hi[u.child["LEFT"][x]] = 1 - 1
    BY <1>1, <1>3 DEF Shaped, Filled
  <2>2. hi[u.child["LEFT"][x]] \in 1 .. n
    BY <2>1, <1>2
  <2> QED
    BY <2>1, <2>2
<1>5. u.child["RIGHT"][x] = NIL
  <2> SUFFICES ASSUME u.child["RIGHT"][x] # NIL PROVE FALSE
    OBVIOUS
  <2> DEFINE c == u.child["RIGHT"][x]
  <2>1. c \in T /\ lo[c] = 1 + 1 /\ hi[c] = 1
    BY <1>1, <1>3 DEF Shaped, Filled
  <2>2. lo[c] <= at[c] /\ at[c] <= hi[c] /\ at[c] \in 1 .. n
    BY <2>1, <1>2
  <2> HIDE DEF c
  <2> QED
    BY <2>1, <2>2
<1>6. b[NIL] = 0 /\ b[x] = 0
  <2>1. b[NIL] = 0 /\ b[x] = b[NIL] + Weight(u, x, NIL) + 0
    BY <1>1, <1>4, Sides DEF Balanced
  <2>2. Weight(u, x, NIL) = 0
    BY DEF Weight
  <2> QED
    BY <2>1, <2>2
<1>7. TakenOut(u, v, T, x, NIL) /\ Darkened(u, v, T, x, NIL)
  <2>1. CASE x = u.root
    BY <2>1, <1>1, RootLeaf
  <2>2. CASE x # u.root
    <3>1. x \in Node /\ u.parent[x] \in Node /\ v = Replace(u, x, NIL)
      BY <2>2, <1>1, <1>2
    <3>2. PICK w : /\ Hung(u, w, u.pos[x], u.parent[x], NIL) /\ Unhooked(w, v, x) /\ v.color = u.color
      BY <3>1, BlackLeafUnhooked
    <3>3. TakenOut(u, v, T, x, NIL)
      BY <2>2, <3>2, <1>1, ReplacedTakenOut
    <3>4. Darkened(u, v, T, x, NIL)
      BY <3>2, <1>2 DEF Darkened
    <3> QED
      BY <3>3, <3>4
  <2> QED
    BY <2>1, <2>2
<1>8. Weight(u, x, x) = Weight(v, NIL, NIL)
  BY DEF Weight
<1>9. /\ Ruled(v, T \ {x}, n - 1, AtShrunk(T, at, x), LoShrunk(T, lo, x), HiShrunk(T, hi, x),
               [z \in (T \ {x}) \cup {NIL} |-> b[z]], NIL)
      /\ ~IsRed(v, v.root)
  <2>1. b[NIL] = b[x] /\ x \in {x, NIL}
    BY <1>6
  <2> QED
    BY <2>1, <1>1, <1>3, <1>4, <1>5, <1>7, <1>8, TakenOutRuled
<1>10. v \in Trees /\ v.key = u.key /\ v.crashed = u.crashed
  BY <1>7 DEF TakenOut
<1> QED
  BY <1>9, <1>10 DEF Kept

\* What is kept from v is kept from u, where v has the keys of u.
LEMMA KeptFrom ==
  ASSUME NEW u, NEW v, NEW w, NEW T, NEW n, NEW at, Kept(v, w, T, n, at),
         v.key = u.key, v.crashed = u.crashed
  PROVE  Kept(u, w, T, n, at)
BY Zenon DEF Kept

\* A black leaf that stops counting leaves everything above it one black node short.
LEMMA LeafShort ==
  ASSUME NEW u \in Trees, NEW T, NEW n, NEW at, NEW lo, NEW hi, NEW b,
         Ruled(u, T, n, at, lo, hi, b, NIL), ~IsRed(u, u.root),
         NEW x \in T, at[x] = 1, u.child["LEFT"][x] = NIL, u.child["RIGHT"][x] = NIL, ~IsRed(u, x)
  PROVE  Short(u, T, n, at, lo, hi, b, x, x)
<1>1. Shaped(u, T, n, at, lo, hi) /\ Balanced(u, T, b, NIL, NIL) /\ RedsApart(u, T, NIL)
  BY DEF Ruled
<1>2. T \subseteq Node /\ NIL \notin T
  BY <1>1 DEF Shaped, Placed
<1>3. lo[x] = 1 /\ hi[x] = 1
  BY <1>1 DEF Shaped, Filled
<1>4. b \in [T \cup {NIL} -> Nat] /\ b[NIL] = 0
  BY <1>1, Zenon DEF Balanced
<1>5. ASSUME NEW z \in T, NEW e \in Side, NEW k, k = u.child[e][z]
      PROVE  b[z] = b[k] + Weight(u, x, k) + (IF k # NIL /\ k = x THEN 1 ELSE 0)
  <2>1. b[z] = b[k] + Weight(u, NIL, k) + (IF k # NIL /\ k = NIL THEN 1 ELSE 0)
    BY <1>1, <1>5, Zenon DEF Balanced
  <2>2. k \in T \cup {NIL}
    BY <1>1, <1>5, Kids
  <2>3. b[k] \in Nat
    BY <1>4, <2>2
  <2>4. Weight(u, NIL, x) = 1 /\ Weight(u, x, x) = 0 /\ x # NIL
    BY <1>2 DEF Weight, IsRed
  <2>5. k # x => Weight(u, x, k) = Weight(u, NIL, k)
    BY DEF Weight
  <2>6. Weight(u, NIL, k) \in {0, 1}
    BY DEF Weight
  <2>7. CASE k = x
    BY <2>1, <2>3, <2>4, <2>7
  <2>8. CASE k # x
    BY <2>1, <2>3, <2>5, <2>6, <2>8
  <2> QED
    BY <2>7, <2>8
<1>6. Balanced(u, T, b, x, x)
  BY <1>4, <1>5 DEF Balanced
<1> QED
  BY <1>1, <1>3, <1>6 DEF Short

\* A black leaf is unlinked after fixDB made up for it.
LEMMA BlackLeafRemoved ==
  ASSUME NEW u \in Trees, NEW T, NEW n, NEW at, NEW lo, NEW hi, NEW b,
         Ruled(u, T, n, at, lo, hi, b, NIL), ~IsRed(u, u.root),
         NEW x \in T, at[x] = 1, u.child["LEFT"][x] = NIL, u.child["RIGHT"][x] = NIL, ~IsRed(u, x)
  PROVE  Kept(u, RemoveBlackLeaf(u, x), T \ {x}, n - 1, AtShrunk(T, at, x))
<1> DEFINE v == FixDB(u, x)
<1>1. Short(u, T, n, at, lo, hi, b, x, x)
  BY LeafShort
<1>2. /\ v \in Trees /\ v.key = u.key /\ v.crashed = u.crashed
      /\ \E l2, h2, b2 : Short(v, T, n, at, l2, h2, b2, x, NIL)
  BY <1>1, FixDBFixes
<1>3. RemoveBlackLeaf(u, x) = IF x = v.root THEN [v EXCEPT !.root = NIL] ELSE Replace(v, x, NIL)
  BY DEF RemoveBlackLeaf
<1> HIDE DEF v
<1>4. PICK l2, h2, b2 : Short(v, T, n, at, l2, h2, b2, x, NIL)
  BY <1>2
<1>5. Kept(v, RemoveBlackLeaf(u, x), T \ {x}, n - 1, AtShrunk(T, at, x))
  BY <1>2, <1>3, <1>4, Uncounted
<1> QED
  BY <1>2, <1>5, KeptFrom

\* removeLeftmostNode takes out the first node, and leaves a tree in order.
LEMMA RemoveKeeps ==
  ASSUME NEW u \in Trees, NEW T, NEW n, NEW at, NEW lo, NEW hi, NEW b, T # {},
         Ruled(u, T, n, at, lo, hi, b, NIL), ~IsRed(u, u.root),
         NEW x, x = getLeftmostNode(u)
  PROVE  /\ x \in T /\ at[x] = 1
         /\ Kept(u, RemoveNode(u, x), T \ {x}, n - 1, AtShrunk(T, at, x))
<1>1. x \in T /\ at[x] = 1 /\ u.child["LEFT"][x] = NIL
  <2>1. Shaped(u, T, n, at, lo, hi)
    BY DEF Ruled
  <2> QED
    BY <2>1, LeftmostIsFirst
<1>2. CASE u.child["RIGHT"][x] = NIL /\ IsRed(u, x)
  <2>1. RemoveNode(u, x) = RemoveRedLeaf(u, x)
    BY <1>1, <1>2 DEF RemoveNode
  <2> QED
    BY <1>1, <1>2, <2>1, RedLeafRemoved
<1>3. CASE u.child["RIGHT"][x] = NIL /\ ~IsRed(u, x)
  <2>1. RemoveNode(u, x) = RemoveBlackLeaf(u, x)
    BY <1>1, <1>3 DEF RemoveNode
  <2> QED
    BY <1>1, <1>3, <2>1, BlackLeafRemoved
<1>4. CASE u.child["RIGHT"][x] # NIL
  <2>1. u.color[u.child["RIGHT"][x]] = "RED"
    BY <1>1, <1>4, FirstNode
  <2>2. RemoveNode(u, x) = RemoveAboveRed(u, x)
    BY <1>4, <2>1 DEF RemoveNode, IsRed
  <2> QED
    BY <1>1, <1>4, <2>2, AboveRedRemoved
<1> QED
  BY <1>2, <1>3, <1>4

-----------------------------------------------------------------------------
(* What is computed from the leaves up, in as many rounds as there are nodes.         *)

\* A child has fewer nodes below it than its parent.
LEMMA Kid ==
  ASSUME NEW u \in Trees, NEW T, NEW n, NEW at, NEW lo, NEW hi, Shaped(u, T, n, at, lo, hi),
         NEW y \in T, NEW e \in Side, NEW c, c = u.child[e][y], c # NIL
  PROVE  c \in T /\ hi[c] - lo[c] < hi[y] - lo[y]
<1>1. /\ at \in [T -> 1 .. n] /\ lo \in [T -> 1 .. n] /\ hi \in [T -> 1 .. n] /\ n \in Nat
      /\ lo[y] <= at[y] /\ at[y] <= hi[y]
  BY DEF Shaped, Placed
<1>2. at[y] \in Nat /\ lo[y] \in Nat /\ hi[y] \in Nat
  BY <1>1
<1>3. CASE e = "LEFT"
  <2>1. c \in T /\ lo[c] = lo[y] /\ hi[c] = at[y] - 1
    BY <1>3 DEF Shaped, Filled
  <2> QED
    BY <2>1, <1>1, <1>2
<1>4. CASE e = "RIGHT"
  <2>1. c \in T /\ lo[c] = at[y] + 1 /\ hi[c] = hi[y]
    BY <1>4 DEF Shaped, Filled
  <2> QED
    BY <2>1, <1>1, <1>2
<1> QED
  BY <1>3, <1>4, Sides

\* P[y] is what is right at y, and what follows from what is right at its children.
LEMMA FromTheLeaves ==
  ASSUME NEW u \in Trees, NEW T, NEW n, NEW at, NEW lo, NEW hi, Shaped(u, T, n, at, lo, hi),
         NEW f, NEW P, \A k \in 0 .. Height : f[k][NIL] \in P[NIL],
         \A k \in 1 .. Height : \A y \in T :
           (\A e \in Side : f[k - 1][u.child[e][y]] \in P[u.child[e][y]]) => f[k][y] \in P[y]
  PROVE  \A y \in T : f[Height][y] \in P[y]
<1> DEFINE A == {k \in 0 .. Height : \A y \in T : hi[y] - lo[y] < k => f[k][y] \in P[y]}
<1>1. /\ T \subseteq Node /\ n \in Nat /\ NIL \notin T
      /\ lo \in [T -> 1 .. n] /\ hi \in [T -> 1 .. n] /\ at \in [T -> 1 .. n]
      /\ \A z \in T : lo[z] <= at[z] /\ at[z] <= hi[z]
  BY DEF Shaped, Placed
<1>2. \A z \in T : lo[z] \in 1 .. n /\ hi[z] \in 1 .. n /\ lo[z] <= hi[z]
  <2> SUFFICES ASSUME NEW z \in T PROVE lo[z] \in 1 .. n /\ hi[z] \in 1 .. n /\ lo[z] <= hi[z]
    OBVIOUS
  <2>1. at[z] \in 1 .. n /\ lo[z] \in 1 .. n /\ hi[z] \in 1 .. n /\ lo[z] <= at[z] /\ at[z] <= hi[z]
    BY <1>1
  <2> QED
    BY <2>1, <1>1
<1>3. Height \in Nat /\ n <= Height
  <2>1. Placed(T, n, at, lo, hi)
    BY DEF Shaped
  <2> QED
    BY <2>1, PlacesFit, HeightNat
<1>4. 0 \in A
  <2>1. \A y \in T : ~(hi[y] - lo[y] < 0)
    BY <1>1, <1>2
  <2> QED
    BY <2>1, <1>3
<1>5. ASSUME NEW k \in 0 .. Height - 1, k \in A
      PROVE  k + 1 \in A
  <2>1. k + 1 \in 1 .. Height /\ k + 1 \in 0 .. Height /\ (k + 1) - 1 = k /\ k \in 0 .. Height
    BY <1>3
  <2> SUFFICES ASSUME NEW y \in T, hi[y] - lo[y] < k + 1 PROVE f[k + 1][y] \in P[y]
    BY <2>1
  <2>2. ASSUME NEW e \in Side
        PROVE  f[k][u.child[e][y]] \in P[u.child[e][y]]
    <3> SUFFICES ASSUME NEW c, c = u.child[e][y] PROVE f[k][c] \in P[c]
      OBVIOUS
    <3>1. CASE c = NIL
      BY <3>1, <2>1
    <3>2. CASE c # NIL
      <4>1. c \in T /\ hi[c] - lo[c] < hi[y] - lo[y]
        BY <3>2, Kid
      <4>2. hi[c] - lo[c] < k
        <5>1. hi[c] \in Nat /\ lo[c] \in Nat /\ hi[y] \in Nat /\ lo[y] \in Nat /\ k \in Nat
          BY <4>1, <1>2
        <5> QED
          BY <5>1, <4>1
      <4> QED
        BY <4>1, <4>2, <1>5
    <3> QED
      BY <3>1, <3>2
  <2> QED
    BY <2>1, <2>2
<1> HIDE DEF A
<1>6. Height \in A
  BY <1>3, <1>4, <1>5, UpTo
<1> SUFFICES ASSUME NEW y \in T PROVE f[Height][y] \in P[y]
  OBVIOUS
<1>7. hi[y] - lo[y] < Height
  <2>1. hi[y] \in 1 .. n /\ lo[y] \in 1 .. n
    BY <1>2
  <2> QED
    BY <2>1, <1>1, <1>3
<1> QED
  BY <1>6, <1>7 DEF A
-----------------------------------------------------------------------------
(* The walk.                                                                          *)

Elements == [key : Nat, id : Node]
Entry(u, y) == [key |-> u.key[y], id |-> y]
WalkAbove(u, below) ==
  [y \in Node \cup {NIL} |->
    IF y = NIL THEN <<>>
    ELSE below[u.child["LEFT"][y]] \o <<[key |-> u.key[y], id |-> y]>> \o below[u.child["RIGHT"][y]]]
Walks(u) ==
  LET upTo[n \in 0 .. Height] ==
        IF n = 0 THEN [y \in Node \cup {NIL} |-> <<>>] ELSE WalkAbove(u, upTo[n - 1])
  IN upTo

\* The recursive function in InOrder is Walks.
LEMMA InOrderIs ==
  ASSUME NEW u, NEW x
  PROVE  InOrder(u, x) = Walks(u)[Height][x]
BY Zenon DEF InOrder, Walks, WalkAbove

\* The rounds of InOrder, one after the other.
LEMMA WalksAre ==
  ASSUME NEW u \in Trees
  PROVE  LET S == [Node \cup {NIL} -> Seq(Elements)]
         IN /\ \A k \in 0 .. Height : Walks(u)[k] \in S
            /\ Walks(u)[0] = [y \in Node \cup {NIL} |-> <<>>]
            /\ \A k \in 1 .. Height : Walks(u)[k] = WalkAbove(u, Walks(u)[k - 1])
<1> DEFINE S == [Node \cup {NIL} -> Seq(Elements)]
           R == [y \in Node \cup {NIL} |-> <<>>]
           N == Height
           turn == [s \in S |-> WalkAbove(u, s)]
           F(f) == [k \in 0 .. N |-> IF k = 0 THEN R ELSE WalkAbove(u, f[k - 1])]
           c == Walks(u)
<1>1. N \in Nat
  BY HeightNat
<1>2. R \in S
  OBVIOUS
<1>3. ASSUME NEW s \in S
      PROVE  WalkAbove(u, s) \in S
  <2> SUFFICES ASSUME NEW y \in Node
               PROVE  s[u.child["LEFT"][y]] \o <<[key |-> u.key[y], id |-> y]>> \o s[u.child["RIGHT"][y]]
                      \in Seq(Elements)
    BY DEF WalkAbove
  <2>1. u.child["LEFT"][y] \in Node \cup {NIL} /\ u.child["RIGHT"][y] \in Node \cup {NIL} /\ u.key[y] \in Nat
    BY FieldTypes, Sides
  <2>2. s[u.child["LEFT"][y]] \in Seq(Elements) /\ s[u.child["RIGHT"][y]] \in Seq(Elements)
    BY <2>1
  <2>3. [key |-> u.key[y], id |-> y] \in Elements
    BY <2>1 DEF Elements
  <2> QED
    BY <2>2, <2>3
<1> HIDE DEF S
<1>4. turn \in [S -> S]
  BY <1>3
<1> HIDE DEF turn, R, N
<1>5. PICK g : IsIteration(g, N, S, R, turn)
  BY <1>1, <1>2, <1>4, Iterates
<1>6. g \in [0 .. N -> S] /\ g[0] = R /\ \A k \in 1 .. N : g[k] = turn[g[k - 1]]
  BY <1>5 DEF IsIteration
<1>7. \A k \in 1 .. N : g[k] = WalkAbove(u, g[k - 1])
  <2> SUFFICES ASSUME NEW k \in 1 .. N PROVE g[k] = WalkAbove(u, g[k - 1])
    OBVIOUS
  <2>1. k - 1 \in 0 .. N
    BY <1>1
  <2>2. g[k] = turn[g[k - 1]] /\ g[k - 1] \in S
    BY <1>6, <2>1
  <2> QED
    BY <2>2, Zenon DEF turn
<1>8. g = F(g)
  BY <1>1, <1>6, <1>7
<1>9. c = CHOOSE f : f = F(f)
  BY DEF Walks, R, N
<1>10. c = F(c)
  <2> HIDE DEF F, c
  <2> QED
    BY <1>8, <1>9
<1> HIDE DEF c
<1>11. c[0] = R /\ \A k \in 1 .. N : c[k] = WalkAbove(u, c[k - 1])
  BY <1>1, <1>10
<1>12. \A k \in 0 .. N : c[k] \in S
  <2> SUFFICES ASSUME NEW k \in 0 .. N PROVE c[k] \in S
    OBVIOUS
  <2> DEFINE A == {i \in 0 .. k : c[i] \in S}
  <2>1. 0 \in A
    BY <1>2, <1>11
  <2>2. \A i \in 0 .. k - 1 : i \in A => i + 1 \in A
    <3> SUFFICES ASSUME NEW i \in 0 .. k - 1, i \in A PROVE i + 1 \in A
      OBVIOUS
    <3>1. i + 1 \in 1 .. N /\ i + 1 \in 0 .. k /\ (i + 1) - 1 = i
      BY <1>1
    <3>2. c[i + 1] = WalkAbove(u, c[i]) /\ c[i] \in S
      BY <3>1, <1>11
    <3> QED
      BY <3>1, <3>2, <1>3
  <2> HIDE DEF A
  <2>3. k \in A
    BY <2>1, <2>2, UpTo
  <2> QED
    BY <2>3 DEF A
<1> QED
  BY <1>11, <1>12 DEF c, R, N, S

\* The places i .. j of q.
Slice(s, q, i, j) ==
  s \in Seq(Elements) /\ Len(s) = j - i + 1 /\ \A m \in 1 .. Len(s) : s[m] = q[i - 1 + m]

JoinedAt(s, a, e, c) ==
  /\ s \in Seq(Elements) /\ Len(s) = Len(a) + 1 + Len(c)
  /\ \A i \in 1 .. Len(a) : s[i] = a[i]
  /\ s[Len(a) + 1] = e
  /\ \A i \in 1 .. Len(c) : s[Len(a) + 1 + i] = c[i]

\* Two sequences with an element between them, place by place.
LEMMA Joined ==
  ASSUME NEW a \in Seq(Elements), NEW c \in Seq(Elements), NEW e \in Elements
  PROVE  JoinedAt(a \o <<e>> \o c, a, e, c)
<1> DEFINE s == a \o <<e>> \o c
<1>1. Len(a) \in Nat /\ Len(c) \in Nat
  OBVIOUS
<1>2. s \in Seq(Elements) /\ Len(s) = Len(a) + 1 + Len(c)
  OBVIOUS
<1>3. \A i \in 1 .. Len(a) : s[i] = a[i]
  OBVIOUS
<1>4. s[Len(a) + 1] = e
  OBVIOUS
<1>5. \A i \in 1 .. Len(c) : s[Len(a) + 1 + i] = c[i]
  OBVIOUS
<1> QED
  BY <1>2, <1>3, <1>4, <1>5 DEF JoinedAt

\* The walks below two children and the node between them.
LEMMA SlicesJoin ==
  ASSUME NEW q, NEW i \in Int, NEW a \in Int, NEW j \in Int, i <= a, a <= j,
         NEW s, Slice(s, q, i, a - 1), NEW r, Slice(r, q, a + 1, j),
         NEW x \in Elements, q[a] = x
  PROVE  Slice(s \o <<x>> \o r, q, i, j)
<1>1. /\ s \in Seq(Elements) /\ Len(s) = a - i /\ \A m \in 1 .. Len(s) : s[m] = q[i - 1 + m]
      /\ r \in Seq(Elements) /\ Len(r) = j - a /\ \A m \in 1 .. Len(r) : r[m] = q[a + m]
  <2>1. (a - 1) - i + 1 = a - i /\ j - (a + 1) + 1 = j - a /\ (a + 1) - 1 = a
    OBVIOUS
  <2> QED
    BY <2>1 DEF Slice
<1> DEFINE w == s \o <<x>> \o r
<1>2. JoinedAt(w, s, x, r)
  BY <1>1, Joined
<1> HIDE DEF w
<1>3. ASSUME NEW m \in 1 .. Len(w)
      PROVE  w[m] = q[i - 1 + m]
  <2>0. Len(s) \in Nat /\ Len(r) \in Nat /\ Len(w) = Len(s) + 1 + Len(r)
    BY <1>1, <1>2 DEF JoinedAt
  <2>1. CASE m <= Len(s)
    <3>1. m \in 1 .. Len(s)
      BY <2>0, <2>1
    <3>2. w[m] = s[m]
      BY <3>1, <1>2 DEF JoinedAt
    <3> QED
      BY <3>1, <3>2, <1>1
  <2>2. CASE m = Len(s) + 1
    <3>1. w[m] = x
      BY <2>2, <1>2 DEF JoinedAt
    <3>2. i - 1 + m = a
      BY <2>2, <1>1
    <3> QED
      BY <3>1, <3>2
  <2>3. CASE m > Len(s) + 1
    <3>1. PICK k \in 1 .. Len(r) : m = Len(s) + 1 + k
      <4>1. m - (Len(s) + 1) \in 1 .. Len(r) /\ m = Len(s) + 1 + (m - (Len(s) + 1))
        BY <2>0, <2>3
      <4> QED
        BY <4>1
    <3>2. w[m] = r[k]
      BY <3>1, <1>2 DEF JoinedAt
    <3>3. a + k = i - 1 + m
      BY <2>0, <3>1, <1>1
    <3> QED
      BY <3>2, <3>3, <1>1
  <2> QED
    BY <2>0, <2>1, <2>2, <2>3
<1>4. Len(w) = j - i + 1
  BY <1>1, <1>2 DEF JoinedAt
<1>5. Slice(w, q, i, j)
  BY <1>2, <1>3, <1>4 DEF Slice, JoinedAt
<1> QED
  BY <1>5 DEF w

\* The node at a place, and what is at all of them.
NodeAt(T, at, i) == CHOOSE y \in T : at[y] = i
WalkOf(u, T, n, at) == [i \in 1 .. n |-> Entry(u, NodeAt(T, at, i))]

\* The sequence of the nodes by their places, place by place.
LEMMA WalkOfIs ==
  ASSUME NEW u \in Trees, NEW T, NEW n, NEW at, NEW lo, NEW hi, Placed(T, n, at, lo, hi),
         NEW q, q = WalkOf(u, T, n, at)
  PROVE  /\ q \in Seq(Elements) /\ Len(q) = n
         /\ \A y \in T : at[y] \in 1 .. n /\ q[at[y]] = Entry(u, y)
         /\ \A i \in 1 .. n : q[i].id \in T /\ at[q[i].id] = i /\ q[i] = Entry(u, q[i].id)
<1>1. /\ T \subseteq Node /\ n \in Nat /\ at \in [T -> 1 .. n]
      /\ \A y, z \in T : at[y] = at[z] => y = z
      /\ \A i \in 1 .. n : \E y \in T : at[y] = i
  BY DEF Placed
<1>2. \A i \in 1 .. n : NodeAt(T, at, i) \in T /\ at[NodeAt(T, at, i)] = i
  BY <1>1 DEF NodeAt
<1>3. \A i \in 1 .. n : q[i] = Entry(u, NodeAt(T, at, i))
  BY DEF WalkOf
<1>4. \A y \in T : Entry(u, y) \in Elements /\ Entry(u, y).id = y
  BY <1>1, FieldTypes DEF Entry, Elements
<1>5. q \in [1 .. n -> Elements]
  BY <1>2, <1>4 DEF WalkOf
<1>6. q \in Seq(Elements) /\ Len(q) = n
  BY <1>1, <1>5
<1>7. \A i \in 1 .. n : q[i].id \in T /\ at[q[i].id] = i /\ q[i] = Entry(u, q[i].id)
  BY <1>2, <1>3, <1>4
<1>8. ASSUME NEW y \in T
      PROVE  at[y] \in 1 .. n /\ q[at[y]] = Entry(u, y)
  <2>1. at[y] \in 1 .. n
    BY <1>1
  <2>2. NodeAt(T, at, at[y]) = y
    BY <2>1, <1>1, <1>2
  <2> QED
    BY <2>1, <2>2, <1>3
<1> QED
  BY <1>6, <1>7, <1>8

\* A tree without nodes has no places.
LEMMA NoPlaces ==
  ASSUME NEW n, NEW at, NEW lo, NEW hi, Placed({}, n, at, lo, hi)
  PROVE  n = 0
BY DEF Placed

\* Walking the tree meets the nodes by their places.
LEMMA WalkIs ==
  ASSUME NEW u \in Trees, NEW T, NEW n, NEW at, NEW lo, NEW hi, Shaped(u, T, n, at, lo, hi)
  PROVE  InOrder(u, u.root) = WalkOf(u, T, n, at)
<1> DEFINE q == WalkOf(u, T, n, at)
           f == Walks(u)
           P == [y \in T \cup {NIL} |-> IF y = NIL THEN {<<>>} ELSE {s \in Seq(Elements) : Slice(s, q, lo[y], hi[y])}]
<1>1. /\ T \subseteq Node /\ n \in Nat /\ NIL \notin T
      /\ at \in [T -> 1 .. n] /\ lo \in [T -> 1 .. n] /\ hi \in [T -> 1 .. n]
      /\ \A y \in T : lo[y] <= at[y] /\ at[y] <= hi[y]
      /\ Placed(T, n, at, lo, hi)
  BY DEF Shaped, Placed
<1>2. q \in Seq(Elements) /\ Len(q) = n /\ \A y \in T : at[y] \in 1 .. n /\ q[at[y]] = Entry(u, y)
  BY <1>1, WalkOfIs
<1>3. Height \in Nat
  BY HeightNat
<1>4. /\ \A k \in 0 .. Height : f[k] \in [Node \cup {NIL} -> Seq(Elements)]
      /\ f[0] = [y \in Node \cup {NIL} |-> <<>>]
      /\ \A k \in 1 .. Height : f[k] = WalkAbove(u, f[k - 1])
  BY WalksAre
<1> HIDE DEF q, f
<1>5. ASSUME NEW k \in 0 .. Height
      PROVE  f[k][NIL] = <<>>
  <2>1. CASE k = 0
    BY <2>1, <1>4
  <2>2. CASE k # 0
    <3>1. k \in 1 .. Height
      BY <2>2, <1>3
    <3> QED
      BY <3>1, <1>4 DEF WalkAbove
  <2> QED
    BY <2>1, <2>2
<1>6. \A k \in 0 .. Height : f[k][NIL] \in P[NIL]
  BY <1>5
<1>7. ASSUME NEW k \in 1 .. Height, NEW y \in T,
             \A e \in Side : f[k - 1][u.child[e][y]] \in P[u.child[e][y]]
      PROVE  f[k][y] \in P[y]
  <2> DEFINE l == u.child["LEFT"][y]
             r == u.child["RIGHT"][y]
             s == f[k - 1][l]
             w == f[k - 1][r]
             x == [key |-> u.key[y], id |-> y]
  <2>1. s \in P[l] /\ w \in P[r]
    BY <1>7, Sides
  <2>2. y \in Node /\ y # NIL /\ x \in Elements /\ q[at[y]] = x
    BY <1>1, <1>2, FieldTypes DEF Entry, Elements
  <2>3. f[k][y] = s \o <<x>> \o w
    <3>1. WalkAbove(u, f[k - 1])[y] = s \o <<x>> \o w
      BY <2>2, Zenon DEF WalkAbove
    <3> QED
      BY <3>1, <1>4
  <2>4. /\ IF l = NIL THEN lo[y] = at[y] ELSE l \in T /\ lo[l] = lo[y] /\ hi[l] = at[y] - 1
        /\ IF r = NIL THEN hi[y] = at[y] ELSE r \in T /\ lo[r] = at[y] + 1 /\ hi[r] = hi[y]
    BY DEF Shaped, Filled
  <2>5. at[y] \in 1 .. n /\ lo[y] \in 1 .. n /\ hi[y] \in 1 .. n /\ lo[y] <= at[y] /\ at[y] <= hi[y]
    BY <1>1
  <2> HIDE DEF s, w, x, l, r
  <2>6. Slice(s, q, lo[y], at[y] - 1)
    <3>1. CASE l = NIL
      <4>1. s = <<>>
        BY <3>1, <2>1
      <4>2. (at[y] - 1) - lo[y] + 1 = 0
        BY <3>1, <2>4, <2>5
      <4> QED
        BY <4>1, <4>2 DEF Slice
    <3>2. CASE l # NIL
      <4>1. Slice(s, q, lo[l], hi[l])
        BY <3>2, <2>1, <2>4
      <4> QED
        BY <4>1, <3>2, <2>4
    <3> QED
      BY <3>1, <3>2
  <2>7. Slice(w, q, at[y] + 1, hi[y])
    <3>1. CASE r = NIL
      <4>1. w = <<>>
        BY <3>1, <2>1
      <4>2. hi[y] - (at[y] + 1) + 1 = 0
        BY <3>1, <2>4, <2>5
      <4> QED
        BY <4>1, <4>2 DEF Slice
    <3>2. CASE r # NIL
      <4>1. Slice(w, q, lo[r], hi[r])
        BY <3>2, <2>1, <2>4
      <4> QED
        BY <4>1, <3>2, <2>4
    <3> QED
      BY <3>1, <3>2
  <2>8. lo[y] \in Int /\ at[y] \in Int /\ hi[y] \in Int
    BY <2>5
  <2>9. Slice(s \o <<x>> \o w, q, lo[y], hi[y])
    BY <2>2, <2>5, <2>6, <2>7, <2>8, SlicesJoin
  <2>10. Slice(f[k][y], q, lo[y], hi[y])
    BY <2>3, <2>9
  <2> QED
    BY <2>2, <2>10 DEF Slice
<1> HIDE DEF P
<1>8. \A y \in T : f[Height][y] \in P[y]
  BY <1>6, <1>7, FromTheLeaves
<1>9. InOrder(u, u.root) = f[Height][u.root]
  BY InOrderIs DEF f
<1>10. CASE T = {}
  <2>1. u.root = NIL
    BY <1>10 DEF Shaped, Rooted
  <2>2. n = 0
    BY <1>1, <1>10, NoPlaces
  <2>3. InOrder(u, u.root) = <<>>
    BY <2>1, <1>3, <1>5, <1>9
  <2>4. q = <<>>
    BY <2>2, <1>2
  <2> QED
    BY <2>3, <2>4 DEF q
<1>11. CASE T # {}
  <2>1. u.root \in T /\ lo[u.root] = 1 /\ hi[u.root] = n
    BY <1>11 DEF Shaped, Rooted
  <2> DEFINE s == InOrder(u, u.root)
  <2>2. Slice(s, q, 1, n)
    BY <2>1, <1>1, <1>8, <1>9 DEF P
  <2> HIDE DEF s
  <2>3. s \in Seq(Elements) /\ Len(s) = n /\ \A m \in 1 .. n : s[m] = q[m]
    BY <2>2, <1>1 DEF Slice
  <2>4. s = q
    BY <2>3, <1>2
  <2> QED
    BY <2>4 DEF q, s
<1> QED
  BY <1>10, <1>11
-----------------------------------------------------------------------------
(* numBlackNodes.                                                                     *)

Counted(u, y, l, r) ==
  IF l # r \/ l < 0 THEN 0 - 1 ELSE IF u.color[y] = "BLACK" THEN l + 1 ELSE l
CountAbove(u, below) ==
  [y \in Node \cup {NIL} |->
    IF y = NIL THEN 0
    ELSE Counted(u, y, below[u.child["LEFT"][y]], below[u.child["RIGHT"][y]])]
Counts(u) ==
  LET upTo[n \in 0 .. Height] ==
        IF n = 0 THEN [y \in Node \cup {NIL} |-> 0] ELSE CountAbove(u, upTo[n - 1])
  IN upTo

\* The recursive function in BlackHeight is Counts.
LEMMA BlackHeightIs ==
  ASSUME NEW u, NEW x
  PROVE  BlackHeight(u, x) = Counts(u)[Height][x]
BY Zenon DEF BlackHeight, Counts, CountAbove, Counted

\* The rounds of BlackHeight, one after the other.
LEMMA CountsAre ==
  ASSUME NEW u \in Trees
  PROVE  LET S == [Node \cup {NIL} -> Int]
         IN /\ \A k \in 0 .. Height : Counts(u)[k] \in S
            /\ Counts(u)[0] = [y \in Node \cup {NIL} |-> 0]
            /\ \A k \in 1 .. Height : Counts(u)[k] = CountAbove(u, Counts(u)[k - 1])
<1> DEFINE S == [Node \cup {NIL} -> Int]
           R == [y \in Node \cup {NIL} |-> 0]
           N == Height
           turn == [s \in S |-> CountAbove(u, s)]
           F(f) == [k \in 0 .. N |-> IF k = 0 THEN R ELSE CountAbove(u, f[k - 1])]
           c == Counts(u)
<1>1. N \in Nat
  BY HeightNat
<1>2. R \in S
  OBVIOUS
<1>3. ASSUME NEW s \in S
      PROVE  CountAbove(u, s) \in S
  <2> SUFFICES ASSUME NEW y \in Node
               PROVE  Counted(u, y, s[u.child["LEFT"][y]], s[u.child["RIGHT"][y]]) \in Int
    BY DEF CountAbove
  <2>1. u.child["LEFT"][y] \in Node \cup {NIL} /\ u.child["RIGHT"][y] \in Node \cup {NIL}
    BY FieldTypes, Sides
  <2>2. s[u.child["LEFT"][y]] \in Int /\ s[u.child["RIGHT"][y]] \in Int
    BY <2>1
  <2> QED
    BY <2>2 DEF Counted
<1> HIDE DEF S
<1>4. turn \in [S -> S]
  BY <1>3
<1> HIDE DEF turn, R, N
<1>5. PICK g : IsIteration(g, N, S, R, turn)
  BY <1>1, <1>2, <1>4, Iterates
<1>6. g \in [0 .. N -> S] /\ g[0] = R /\ \A k \in 1 .. N : g[k] = turn[g[k - 1]]
  BY <1>5 DEF IsIteration
<1>7. \A k \in 1 .. N : g[k] = CountAbove(u, g[k - 1])
  <2> SUFFICES ASSUME NEW k \in 1 .. N PROVE g[k] = CountAbove(u, g[k - 1])
    OBVIOUS
  <2>1. k - 1 \in 0 .. N
    BY <1>1
  <2>2. g[k] = turn[g[k - 1]] /\ g[k - 1] \in S
    BY <1>6, <2>1
  <2> QED
    BY <2>2, Zenon DEF turn
<1>8. g = F(g)
  BY <1>1, <1>6, <1>7
<1>9. c = CHOOSE f : f = F(f)
  BY DEF Counts, R, N
<1>10. c = F(c)
  <2> HIDE DEF F, c
  <2> QED
    BY <1>8, <1>9
<1> HIDE DEF c
<1>11. c[0] = R /\ \A k \in 1 .. N : c[k] = CountAbove(u, c[k - 1])
  BY <1>1, <1>10
<1>12. \A k \in 0 .. N : c[k] \in S
  <2> SUFFICES ASSUME NEW k \in 0 .. N PROVE c[k] \in S
    OBVIOUS
  <2> DEFINE A == {i \in 0 .. k : c[i] \in S}
  <2>1. 0 \in A
    BY <1>2, <1>11
  <2>2. \A i \in 0 .. k - 1 : i \in A => i + 1 \in A
    <3> SUFFICES ASSUME NEW i \in 0 .. k - 1, i \in A PROVE i + 1 \in A
      OBVIOUS
    <3>1. i + 1 \in 1 .. N /\ i + 1 \in 0 .. k /\ (i + 1) - 1 = i
      BY <1>1
    <3>2. c[i + 1] = CountAbove(u, c[i]) /\ c[i] \in S
      BY <3>1, <1>11
    <3> QED
      BY <3>1, <3>2, <1>3
  <2> HIDE DEF A
  <2>3. k \in A
    BY <2>1, <2>2, UpTo
  <2> QED
    BY <2>3 DEF A
<1> QED
  BY <1>11, <1>12 DEF c, R, N, S

\* In a tree that is balanced numBlackNodes does not abort.
LEMMA BlackHeightCounts ==
  ASSUME NEW u \in Trees, NEW T, NEW n, NEW at, NEW lo, NEW hi, NEW b,
         Shaped(u, T, n, at, lo, hi), Balanced(u, T, b, NIL, NIL)
  PROVE  BlackHeight(u, u.root) >= 0
<1> DEFINE f == Counts(u)
           P == [y \in T \cup {NIL} |-> {b[y] + Weight(u, NIL, y)}]
<1>1. T \subseteq Node /\ NIL \notin T /\ u.root \in T \cup {NIL}
  BY DEF Shaped, Placed, Rooted
<1>2. /\ b \in [T \cup {NIL} -> Nat] /\ b[NIL] = 0
      /\ \A z \in T, e \in Side :
           b[z] = b[u.child[e][z]] + Weight(u, NIL, u.child[e][z])
                  + (IF u.child[e][z] # NIL /\ u.child[e][z] = NIL THEN 1 ELSE 0)
  BY Zenon DEF Balanced
<1>3. Height \in Nat
  BY HeightNat
<1>4. /\ \A k \in 0 .. Height : f[k] \in [Node \cup {NIL} -> Int]
      /\ f[0] = [y \in Node \cup {NIL} |-> 0]
      /\ \A k \in 1 .. Height : f[k] = CountAbove(u, f[k - 1])
  BY CountsAre
<1>5. Weight(u, NIL, NIL) = 0 /\ \A y : Weight(u, NIL, y) \in {0, 1}
  BY DEF Weight
<1> HIDE DEF f
<1>6. ASSUME NEW k \in 0 .. Height
      PROVE  f[k][NIL] = 0
  <2>1. CASE k = 0
    BY <2>1, <1>4
  <2>2. CASE k # 0
    <3>1. k \in 1 .. Height
      BY <2>2, <1>3
    <3> QED
      BY <3>1, <1>4 DEF CountAbove
  <2> QED
    BY <2>1, <2>2
<1>7. \A k \in 0 .. Height : f[k][NIL] \in P[NIL]
  BY <1>2, <1>5, <1>6
<1>8. ASSUME NEW k \in 1 .. Height, NEW y \in T,
             \A e \in Side : f[k - 1][u.child[e][y]] \in P[u.child[e][y]]
      PROVE  f[k][y] \in P[y]
  <2>1. ASSUME NEW e \in Side
        PROVE  f[k - 1][u.child[e][y]] = b[y]
    <3> SUFFICES ASSUME NEW c, c = u.child[e][y] PROVE f[k - 1][c] = b[y]
      OBVIOUS
    <3>1. c \in T \cup {NIL}
      BY Kids
    <3>2. f[k - 1][c] = b[c] + Weight(u, NIL, c)
      BY <3>1, <1>8
    <3>3. b[y] = b[c] + Weight(u, NIL, c) + 0
      BY <1>2
    <3>4. b[c] \in Nat /\ Weight(u, NIL, c) \in {0, 1}
      BY <3>1, <1>2, <1>5
    <3> QED
      BY <3>2, <3>3, <3>4
  <2>2. f[k - 1][u.child["LEFT"][y]] = b[y] /\ f[k - 1][u.child["RIGHT"][y]] = b[y]
    BY <2>1, Sides
  <2>3. y \in Node /\ y # NIL /\ b[y] \in Nat /\ u.color[y] \in {"RED", "BLACK"}
    BY <1>1, <1>2, FieldTypes
  <2>4. f[k][y] = Counted(u, y, b[y], b[y])
    <3>1. CountAbove(u, f[k - 1])[y] = Counted(u, y, f[k - 1][u.child["LEFT"][y]], f[k - 1][u.child["RIGHT"][y]])
      BY <2>3, Zenon DEF CountAbove
    <3> QED
      BY <3>1, <2>2, <1>4
  <2>5. f[k][y] = b[y] + Weight(u, NIL, y)
    BY <2>3, <2>4 DEF Counted, Weight
  <2> QED
    BY <2>5
<1> HIDE DEF P
<1>9. \A y \in T : f[Height][y] \in P[y]
  BY <1>7, <1>8, FromTheLeaves
<1>10. f[Height][u.root] \in P[u.root]
  BY <1>1, <1>3, <1>7, <1>9
<1>11. f[Height][u.root] = b[u.root] + Weight(u, NIL, u.root)
  BY <1>1, <1>10 DEF P
<1>12. b[u.root] \in Nat
  BY <1>1, <1>2
<1> QED
  BY <1>5, <1>11, <1>12, BlackHeightIs DEF f

\* u and v are the same tree, whatever is left in the nodes outside it.
Agree(u, v, T) ==
  /\ v \in Trees /\ v.root = u.root /\ v.crashed = u.crashed
  /\ \A z \in T : /\ v.key[z] = u.key[z] /\ v.parent[z] = u.parent[z]
                  /\ v.color[z] = u.color[z] /\ v.pos[z] = u.pos[z]
  /\ \A z \in T, e \in Side : v.child[e][z] = u.child[e][z]

\* In v the node x was constructed.
NewNode(u, v, T, x, k) ==
  /\ Agree(u, v, T)
  /\ v.key[x] = k /\ v.color[x] = "RED" /\ v.parent[x] = NIL
  /\ \A e \in Side : v.child[e][x] = NIL

\* The constructor changes no node of the tree.
LEMMA ConstructedAgrees ==
  ASSUME NEW u \in Trees, NEW T \in SUBSET Node, NEW x \in Node \ T, NEW k \in Nat
  PROVE  NewNode(u, Constructed(u, x, k), T, x, k)
<1> DEFINE v == Constructed(u, x, k)
<1>1. v \in Trees /\ v.root = u.root /\ v.crashed = u.crashed
  BY DEF Constructed, Trees, Side
<1>2. \A z \in T : z \in Node /\ z # x
  OBVIOUS
<1>3. v.key = [u.key EXCEPT ![x] = k] /\ v.color = [u.color EXCEPT ![x] = "RED"]
      /\ v.parent = [u.parent EXCEPT ![x] = NIL] /\ v.pos = [u.pos EXCEPT ![x] = "LEFT"]
  BY DEF Constructed, Trees
<1>4. \A z \in T : /\ v.key[z] = u.key[z] /\ v.parent[z] = u.parent[z]
                   /\ v.color[z] = u.color[z] /\ v.pos[z] = u.pos[z]
  BY <1>2, <1>3 DEF Trees
<1>5. v.key[x] = k /\ v.color[x] = "RED" /\ v.parent[x] = NIL
  BY <1>3 DEF Trees
<1>6. \A e \in Side, z \in Node : v.child[e][z] = IF z = x THEN NIL ELSE u.child[e][z]
  BY DEF Constructed, Trees, Side
<1> QED
  BY <1>1, <1>2, <1>4, <1>5, <1>6 DEF Agree, NewNode

\* What is left in other nodes has no part in the shape.
LEMMA AgreeShaped ==
  ASSUME NEW u, NEW T, NEW n, NEW at, NEW lo, NEW hi, Shaped(u, T, n, at, lo, hi),
         NEW v, Agree(u, v, T)
  PROVE  Shaped(v, T, n, at, lo, hi)
<1>1. Placed(T, n, at, lo, hi) /\ Rooted(u, T, n, lo, hi) /\ Filled(u, T, at, lo, hi) /\ Backed(u, T)
  BY DEF Shaped
<1>2. /\ v.root = u.root /\ \A z \in T : v.parent[z] = u.parent[z] /\ v.pos[z] = u.pos[z] /\ v.pos[z] \in Side
      /\ \A z \in T, e \in Side : v.child[e][z] = u.child[e][z]
  BY <1>1, FieldTypes DEF Agree, Placed
<1>3. Rooted(v, T, n, lo, hi)
  BY <1>1, <1>2 DEF Rooted
<1>4. Filled(v, T, at, lo, hi)
  <2>1. \A z \in T : v.child["LEFT"][z] = u.child["LEFT"][z] /\ v.child["RIGHT"][z] = u.child["RIGHT"][z]
    BY <1>2, Sides
  <2> QED
    BY <1>1, <1>2, <2>1 DEF Filled
<1>5. Backed(v, T)
  BY <1>1, <1>2 DEF Backed
<1> QED
  BY <1>1, <1>3, <1>4, <1>5 DEF Shaped

\* What is left in other nodes has no part in the rules.
LEMMA AgreeRuled ==
  ASSUME NEW u, NEW T, NEW n, NEW at, NEW lo, NEW hi, NEW b, Ruled(u, T, n, at, lo, hi, b, NIL),
         ~IsRed(u, u.root), NEW v, Agree(u, v, T)
  PROVE  Ruled(v, T, n, at, lo, hi, b, NIL) /\ ~IsRed(v, v.root)
<1>1. Shaped(u, T, n, at, lo, hi) /\ Balanced(u, T, b, NIL, NIL) /\ RedsApart(u, T, NIL)
  BY DEF Ruled
<1>2. /\ v.root = u.root /\ \A z \in T : v.color[z] = u.color[z]
      /\ \A z \in T, e \in Side : v.child[e][z] = u.child[e][z]
  BY DEF Agree
<1>3. \A z \in T, e \in Side : u.child[e][z] \in T \cup {NIL}
  BY <1>1, Kids
<1>4. \A z \in T \cup {NIL} : Weight(v, NIL, z) = Weight(u, NIL, z) /\ (IsRed(v, z) <=> IsRed(u, z))
  BY <1>2 DEF Weight, IsRed
<1>5. Balanced(v, T, b, NIL, NIL)
  <2>1. b \in [T \cup {NIL} -> Nat] /\ b[NIL] = 0
    BY <1>1, Zenon DEF Balanced
  <2> SUFFICES ASSUME NEW z \in T, NEW e \in Side, NEW c, c = u.child[e][z], c = v.child[e][z]
               PROVE  b[z] = b[c] + Weight(v, NIL, c) + (IF c # NIL /\ c = NIL THEN 1 ELSE 0)
    BY <2>1, <1>2 DEF Balanced
  <2>2. b[z] = b[c] + Weight(u, NIL, c) + (IF c # NIL /\ c = NIL THEN 1 ELSE 0)
    BY <1>1, Zenon DEF Balanced
  <2>3. Weight(v, NIL, c) = Weight(u, NIL, c)
    BY <1>3, <1>4
  <2> QED
    BY <2>2, <2>3
<1>6. RedsApart(v, T, NIL)
  <2> SUFFICES ASSUME NEW z \in T, NEW e \in Side, NEW c, c = u.child[e][z], c = v.child[e][z]
               PROVE  IsRed(v, z) /\ IsRed(v, c) => c = NIL
    BY <1>2 DEF RedsApart
  <2>1. IsRed(u, z) /\ IsRed(u, c) => c = NIL
    BY <1>1 DEF RedsApart
  <2> QED
    BY <2>1, <1>3, <1>4
<1>7. Shaped(v, T, n, at, lo, hi)
  BY <1>1, AgreeShaped
<1>8. u.root \in T \cup {NIL}
  BY <1>1 DEF Shaped, Rooted
<1>9. ~IsRed(v, v.root)
  BY <1>2, <1>4, <1>8
<1> QED
  BY <1>5, <1>6, <1>7, <1>9 DEF Ruled

\* The first node of a tree.
LEMMA FirstKept ==
  ASSUME NEW u \in Trees, NEW x \in Node, u.parent[x] = NIL, \A e \in Side : u.child[e][x] = NIL,
         NEW n, NEW at, NEW lo, NEW hi, Placed({}, n, at, lo, hi),
         NEW v, v = [u EXCEPT !.root = x, !.color[x] = "BLACK"]
  PROVE  Kept(u, v, {} \cup {x}, n + 1, AtGrown({}, at, 0, x))
<1> DEFINE T == {x}
           one == [z \in T |-> 1]
           b == [z \in T \cup {NIL} |-> 0]
           a == AtGrown({}, at, 0, x)
<1>1. n = 0
  BY NoPlaces
<1>2. v \in Trees /\ v.root = x /\ v.key = u.key /\ v.crashed = u.crashed /\ v.parent = u.parent
      /\ v.child = u.child /\ v.color[x] = "BLACK"
  BY DEF Trees
<1>3. a = one
  BY DEF AtGrown
<1>4. one[x] = 1 /\ b[x] = 0 /\ b[NIL] = 0 /\ b \in [T \cup {NIL} -> Nat]
  OBVIOUS
<1>5. v.child["LEFT"][x] = NIL /\ v.child["RIGHT"][x] = NIL
  BY <1>2, Sides
<1>6. Placed(T, 1, one, one, one)
  BY <1>4 DEF Placed
<1> HIDE DEF one, b, a
<1>7. Rooted(v, T, 1, one, one)
  BY <1>2, <1>4 DEF Rooted
<1>8. Filled(v, T, one, one, one) /\ Backed(v, T)
  BY <1>2, <1>4, <1>5 DEF Filled, Backed
<1>9. Balanced(v, T, b, NIL, NIL)
  <2> SUFFICES ASSUME NEW z \in T, NEW e \in Side
               PROVE  b[z] = b[v.child[e][z]] + Weight(v, NIL, v.child[e][z])
                             + (IF v.child[e][z] # NIL /\ v.child[e][z] = NIL THEN 1 ELSE 0)
    BY <1>4 DEF Balanced
  <2>1. z = x /\ v.child[e][z] = NIL /\ Weight(v, NIL, NIL) = 0
    BY <1>2 DEF Weight
  <2> QED
    BY <2>1, <1>4
<1>10. RedsApart(v, T, NIL) /\ ~IsRed(v, v.root)
  BY <1>2 DEF RedsApart, IsRed
<1>11. Ruled(v, T, 1, one, one, one, b, NIL)
  BY <1>6, <1>7, <1>8, <1>9, <1>10 DEF Ruled, Shaped
<1>12. T = {} \cup {x} /\ n + 1 = 1
  BY <1>1
<1>13. Kept(u, v, T, 1, one)
  BY <1>2, <1>10, <1>11 DEF Kept
<1> QED
  BY <1>3, <1>12, <1>13 DEF a

-----------------------------------------------------------------------------
(* What an insertion and a removal do to the walk.                                    *)

Sorted(u, T, at) == \A y, z \in T : at[y] <= at[z] => u.key[y] <= u.key[z]

\* q lists the nodes of T by their places.
Lists(q, u, T, n, at) ==
  /\ q \in Seq(Elements) /\ Len(q) = n
  /\ \A y \in T : at[y] \in 1 .. n /\ q[at[y]] = Entry(u, y)
  /\ \A i \in 1 .. n : q[i].id \in T /\ at[q[i].id] = i /\ q[i] = Entry(u, q[i].id)

\* The sequence of the nodes by their places lists them.
LEMMA WalkLists ==
  ASSUME NEW u \in Trees, NEW T, NEW n, NEW at, NEW lo, NEW hi, Placed(T, n, at, lo, hi)
  PROVE  Lists(WalkOf(u, T, n, at), u, T, n, at)
<1> DEFINE q == WalkOf(u, T, n, at)
<1>1. q = WalkOf(u, T, n, at)
  OBVIOUS
<1> HIDE DEF q
<1>2. Lists(q, u, T, n, at)
  BY <1>1, WalkOfIs DEF Lists
<1> QED
  BY <1>1, <1>2

\* The nodes with smaller keys are the first ones.
LEMMA InsertPlace ==
  ASSUME NEW u \in Trees, NEW T, NEW n, NEW at, NEW lo, NEW hi, Placed(T, n, at, lo, hi),
         Sorted(u, T, at), NEW q, q = WalkOf(u, T, n, at), NEW k \in Nat,
         NEW p, p = Cardinality({i \in 1 .. Len(q) : q[i].key < k})
  PROVE  p \in 0 .. n /\ \A z \in T : k > u.key[z] <=> at[z] <= p
<1> DEFINE A == {i \in 1 .. n : q[i].key < k}
<1>1. /\ q \in Seq(Elements) /\ Len(q) = n
      /\ \A y \in T : at[y] \in 1 .. n /\ q[at[y]] = Entry(u, y)
      /\ \A i \in 1 .. n : q[i].id \in T /\ at[q[i].id] = i /\ q[i] = Entry(u, q[i].id)
  BY WalkOfIs
<1>2. T \subseteq Node /\ n \in Nat
  BY DEF Placed
<1>3. \A y \in T : u.key[y] \in Nat
  BY <1>2, FieldTypes
<1>4. \A i \in 1 .. n : q[i].key = u.key[q[i].id] /\ q[i].key \in Nat
  BY <1>1, <1>3 DEF Entry
<1>5. ASSUME NEW i \in A, NEW j \in 1 .. n, j <= i
      PROVE  j \in A
  <2>1. u.key[q[j].id] <= u.key[q[i].id]
    BY <1>1, <1>5 DEF Sorted
  <2>2. q[j].key <= q[i].key /\ q[i].key < k /\ q[j].key \in Nat /\ q[i].key \in Nat
    BY <2>1, <1>4
  <2> QED
    BY <2>2
<1>6. p = Cardinality(A)
  BY <1>1
<1> HIDE DEF A
<1>7. p \in 0 .. n /\ A = 1 .. p
  <2>1. A \subseteq 1 .. n
    BY DEF A
  <2> QED
    BY <2>1, <1>2, <1>5, <1>6, Prefix
<1> SUFFICES ASSUME NEW z \in T PROVE k > u.key[z] <=> at[z] <= p
  BY <1>7
<1>8. at[z] \in 1 .. n /\ q[at[z]].key = u.key[z] /\ u.key[z] \in Nat
  <2>1. Entry(u, z).key = u.key[z]
    BY DEF Entry
  <2>2. at[z] \in 1 .. n /\ q[at[z]] = Entry(u, z) /\ u.key[z] \in Nat
    BY <1>1, <1>3, Zenon
  <2> QED
    BY <2>1, <2>2, Zenon
<1>9. at[z] \in A <=> u.key[z] < k
  BY <1>8 DEF A
<1>10. at[z] \in A <=> at[z] <= p
  BY <1>7, <1>8
<1> QED
  BY <1>8, <1>9, <1>10

InsertedAt(s, q, p, e) ==
  /\ s \in Seq(Elements) /\ Len(s) = Len(q) + 1
  /\ s[p + 1] = e
  /\ \A j \in 1 .. Len(q) : s[IF j > p THEN j + 1 ELSE j] = q[j]

\* A sequence with an element put behind the first p, place by place.
LEMMA Inserted ==
  ASSUME NEW q \in Seq(Elements), NEW e \in Elements, NEW p \in 0 .. Len(q)
  PROVE  InsertedAt(SubSeq(q, 1, p) \o <<e>> \o SubSeq(q, p + 1, Len(q)), q, p, e)
<1> DEFINE a == SubSeq(q, 1, p)
           c == SubSeq(q, p + 1, Len(q))
           s == a \o <<e>> \o c
<1>1. Len(q) \in Nat /\ p \in Nat
  OBVIOUS
<1>2. a \in Seq(Elements) /\ Len(a) = p /\ \A i \in 1 .. p : a[i] = q[i]
  BY <1>1
<1>3. c \in Seq(Elements) /\ Len(c) = Len(q) - p /\ \A i \in 1 .. Len(q) - p : c[i] = q[p + i]
  <2>1. c \in Seq(Elements)
    BY <1>1
  <2>2. Len(c) = Len(q) - p
    BY <1>1
  <2>3. \A i \in 1 .. Len(q) - p : c[i] = q[p + i]
    BY <1>1
  <2> QED
    BY <2>1, <2>2, <2>3
<1> HIDE DEF a, c
<1>4. /\ s \in Seq(Elements) /\ Len(s) = Len(a) + 1 + Len(c)
      /\ \A i \in 1 .. Len(a) : s[i] = a[i]
      /\ s[Len(a) + 1] = e
      /\ \A i \in 1 .. Len(c) : s[Len(a) + 1 + i] = c[i]
  <2>1. JoinedAt(s, a, e, c)
    BY <1>2, <1>3, Joined, Zenon
  <2> QED
    BY <2>1 DEF JoinedAt
<1> HIDE DEF s
<1>5. ASSUME NEW j \in 1 .. Len(q)
      PROVE  s[IF j > p THEN j + 1 ELSE j] = q[j]
  <2>1. CASE j <= p
    <3>1. j \in 1 .. p /\ ~(j > p)
      BY <2>1, <1>1
    <3> QED
      BY <3>1, <1>2, <1>4
  <2>2. CASE j > p
    <3>1. j - p \in 1 .. Len(q) - p /\ p + (j - p) = j /\ p + 1 + (j - p) = j + 1
      BY <2>2, <1>1
    <3>2. s[p + 1 + (j - p)] = c[j - p] /\ c[j - p] = q[p + (j - p)]
      BY <3>1, <1>2, <1>3, <1>4
    <3> QED
      BY <2>2, <3>1, <3>2
  <2> QED
    BY <1>1, <2>1, <2>2
<1>6. Len(s) = Len(q) + 1 /\ s[p + 1] = e
  BY <1>1, <1>2, <1>3, <1>4
<1>7. InsertedAt(s, q, p, e)
  BY <1>4, <1>5, <1>6 DEF InsertedAt
<1> QED
  BY <1>7, Zenon DEF s, a, c

\* w is q with e behind the first p.
GrownWalk(w, q, p, e) == w = SubSeq(q, 1, p) \o <<e>> \o SubSeq(q, p + 1, Len(q))

\* A walk with one node more.
LEMMA WalkGrown ==
  ASSUME NEW u, NEW T, NEW n \in Nat, NEW at, NEW q, Lists(q, u, T, n, at),
         NEW x \in Node \ T, NEW v \in Trees, \A z \in T : v.key[z] = u.key[z],
         NEW p \in 0 .. n, NEW w, Lists(w, v, T \cup {x}, n + 1, AtGrown(T, at, p, x))
  PROVE  GrownWalk(w, q, p, Entry(v, x))
<1> DEFINE U == T \cup {x}
           a == AtGrown(T, at, p, x)
           e == Entry(v, x)
<1>1. /\ q \in Seq(Elements) /\ Len(q) = n
      /\ \A i \in 1 .. n : q[i].id \in T /\ at[q[i].id] = i /\ q[i] = Entry(u, q[i].id)
  BY Zenon DEF Lists
<1>2. n \in Nat /\ p \in 0 .. Len(q)
  BY <1>1
<1>3. a[x] = p + 1 /\ \A z \in T : a[z] = IF at[z] > p THEN at[z] + 1 ELSE at[z]
  BY DEF AtGrown
<1>4. /\ w \in Seq(Elements) /\ Len(w) = n + 1
      /\ \A y \in U : w[a[y]] = Entry(v, y)
  BY Zenon DEF Lists
<1>5. e \in Elements
  BY FieldTypes DEF Elements, Entry
<1>12. e = Entry(v, x)
  OBVIOUS
<1> HIDE DEF a, e
<1> DEFINE s == SubSeq(q, 1, p) \o <<e>> \o SubSeq(q, p + 1, Len(q))
<1>6. InsertedAt(s, q, p, e)
  BY <1>1, <1>2, <1>5, Inserted, Zenon
<1> HIDE DEF s
<1>7. /\ s \in Seq(Elements) /\ Len(s) = n + 1 /\ s[p + 1] = e
      /\ \A j \in 1 .. n : s[IF j > p THEN j + 1 ELSE j] = q[j]
  BY <1>1, <1>6, Zenon DEF InsertedAt
<1>8. ASSUME NEW j \in 1 .. n
      PROVE  w[IF j > p THEN j + 1 ELSE j] = q[j]
  <2>1. q[j].id \in T /\ at[q[j].id] = j /\ q[j] = Entry(u, q[j].id)
    BY <1>1
  <2>2. a[q[j].id] = IF j > p THEN j + 1 ELSE j
    BY <2>1, <1>3, Zenon
  <2>3. w[a[q[j].id]] = Entry(v, q[j].id)
    BY <2>1, <1>4
  <2>4. Entry(v, q[j].id) = Entry(u, q[j].id)
    BY <2>1 DEF Entry
  <2> QED
    BY <2>1, <2>2, <2>3, <2>4, Zenon
<1>9. w[p + 1] = e
  BY <1>3, <1>4, <1>12
<1>10. ASSUME NEW i \in 1 .. n + 1
       PROVE  w[i] = s[i]
  <2>0. p \in Nat
    BY <1>2
  <2>1. CASE i = p + 1
    BY <2>1, <1>7, <1>9
  <2>2. CASE i <= p
    <3>1. i \in 1 .. n /\ ~(i > p)
      BY <2>0, <2>2, <1>1, <1>2
    <3> QED
      BY <3>1, <1>7, <1>8
  <2>3. CASE i > p + 1
    <3>1. i - 1 \in 1 .. n /\ i - 1 > p /\ (i - 1) + 1 = i
      BY <2>0, <2>3, <1>2
    <3> QED
      BY <3>1, <1>7, <1>8
  <2> QED
    BY <2>0, <2>1, <2>2, <2>3, <1>2
<1>11. w = s
  BY <1>2, <1>4, <1>7, <1>10
<1> QED
  BY <1>11, Zenon DEF s, e, GrownWalk

\* A walk without its first node.
LEMMA WalkShrunk ==
  ASSUME NEW u, NEW T, NEW n \in Nat, NEW at, NEW q, Lists(q, u, T, n, at),
         NEW x \in T, at[x] = 1, NEW v, v.key = u.key,
         NEW w, Lists(w, v, T \ {x}, n - 1, AtShrunk(T, at, x))
  PROVE  q # <<>> /\ w = Tail(q)
<1> DEFINE U == T \ {x}
           a == AtShrunk(T, at, x)
           s == Tail(q)
<1>1. /\ q \in Seq(Elements) /\ Len(q) = n
      /\ \A i \in 1 .. n : q[i].id \in T /\ at[q[i].id] = i /\ q[i] = Entry(u, q[i].id)
      /\ \A y \in T : at[y] \in 1 .. n
  BY Zenon DEF Lists
<1>3. 1 <= n /\ q # <<>>
  <2>1. at[x] \in 1 .. n
    BY <1>1
  <2>2. 1 <= n
    BY <2>1
  <2> QED
    BY <2>2, <1>1
<1>4. \A z \in U : a[z] = at[z] - 1
  BY DEF AtShrunk
<1>6. /\ w \in Seq(Elements) /\ Len(w) = n - 1
      /\ \A y \in U : w[a[y]] = Entry(v, y)
  BY Zenon DEF Lists
<1>7. s \in Seq(Elements) /\ Len(s) = n - 1 /\ \A i \in 1 .. n - 1 : s[i] = q[i + 1]
  BY <1>1, <1>3
<1> HIDE DEF s
<1>8. ASSUME NEW i \in 1 .. n - 1
      PROVE  w[i] = s[i]
  <2> DEFINE y == q[i + 1].id
  <2>1. i + 1 \in 1 .. n /\ i + 1 # 1 /\ (i + 1) - 1 = i
    OBVIOUS
  <2>2. y \in T /\ at[y] = i + 1 /\ q[i + 1] = Entry(u, y)
    BY <2>1, <1>1
  <2>3. y \in U /\ a[y] = i
    BY <2>1, <2>2, <1>4
  <2> HIDE DEF y
  <2>4. w[i] = Entry(v, y)
    BY <2>3, <1>6
  <2>5. Entry(v, y) = Entry(u, y)
    BY DEF Entry
  <2> QED
    BY <2>2, <2>4, <2>5, <1>7
<1>9. w = s
  BY <1>6, <1>7, <1>8, <1>3
<1> QED
  BY <1>1, <1>3, <1>9 DEF s

\* The tree is in order: the rules hold, the nodes are linked to each other, and their
\* keys ascend.
Ordered(u, T, n, at) ==
  Kept(u, u, T, n, at) /\ Sorted(u, T, at) /\ \A z \in T : u.key[z] \in Key

\* What the walk of a tree in order is.
LEMMA OrderedWalk ==
  ASSUME NEW u, NEW T, NEW n, NEW at, Ordered(u, T, n, at), NEW q, q = InOrder(u, u.root)
  PROVE  /\ u \in Trees /\ T \subseteq Node /\ n \in Nat /\ (u.root = NIL <=> T = {})
         /\ q = WalkOf(u, T, n, at) /\ Lists(q, u, T, n, at)
<1>1. u \in Trees
  BY DEF Ordered, Kept
<1>2. PICK lo, hi, b : Ruled(u, T, n, at, lo, hi, b, NIL)
  BY Zenon DEF Ordered, Kept
<1>3. Shaped(u, T, n, at, lo, hi)
  BY <1>2 DEF Ruled
<1>4. q = WalkOf(u, T, n, at)
  BY <1>1, <1>3, WalkIs
<1>5. Placed(T, n, at, lo, hi)
  BY <1>3 DEF Shaped
<1>6. Lists(WalkOf(u, T, n, at), u, T, n, at)
  BY <1>1, <1>5, WalkLists
<1>7. T \subseteq Node /\ n \in Nat
  BY <1>5 DEF Placed
<1>8. IF T = {} THEN u.root = NIL ELSE u.root \in T
  BY <1>3, Zenon DEF Shaped, Rooted
<1>9. u.root = NIL <=> T = {}
  BY <1>7, <1>8
<1> QED
  BY <1>1, <1>4, <1>6, <1>7, <1>9

\* The walk of a tree that was kept in order.
LEMMA KeptWalk ==
  ASSUME NEW u, NEW v, NEW T, NEW n, NEW at, Kept(u, v, T, n, at)
  PROVE  v \in Trees /\ v.key = u.key /\ v.crashed = u.crashed
         /\ Kept(v, v, T, n, at) /\ Lists(InOrder(v, v.root), v, T, n, at)
<1>1. v \in Trees /\ v.key = u.key /\ v.crashed = u.crashed /\ Kept(v, v, T, n, at)
  BY Zenon DEF Kept
<1>2. PICK lo, hi, b : Ruled(v, T, n, at, lo, hi, b, NIL)
  BY Zenon DEF Kept
<1>3. Shaped(v, T, n, at, lo, hi) /\ Placed(T, n, at, lo, hi)
  BY <1>2 DEF Ruled, Shaped
<1>4. InOrder(v, v.root) = WalkOf(v, T, n, at)
  BY <1>1, <1>3, WalkIs
<1>5. Lists(WalkOf(v, T, n, at), v, T, n, at)
  BY <1>1, <1>3, WalkLists
<1> QED
  BY <1>1, <1>4, <1>5

\* Keys still ascend with a node put behind the smaller ones.
LEMMA GrownSorted ==
  ASSUME NEW T, NEW n \in Nat, NEW at, NEW x, x \notin T, NEW p \in 0 .. n,
         \A z \in T : at[z] \in 1 .. n, NEW v, \A z \in T \cup {x} : v.key[z] \in Nat,
         Sorted(v, T, at), \A z \in T : v.key[x] > v.key[z] <=> at[z] <= p
  PROVE  Sorted(v, T \cup {x}, AtGrown(T, at, p, x))
<1> DEFINE a == AtGrown(T, at, p, x)
           key == v.key
<1> SUFFICES ASSUME NEW y \in T \cup {x}, NEW z \in T \cup {x}, a[y] <= a[z]
             PROVE  key[y] <= key[z]
  BY DEF Sorted
<1>6. \A c, d \in T : at[c] <= at[d] => key[c] <= key[d]
  BY DEF Sorted
<1>1. a[x] = p + 1 /\ \A w \in T : a[w] = IF at[w] > p THEN at[w] + 1 ELSE at[w]
  BY DEF AtGrown
<1> HIDE DEF a, key
<1>2. CASE y \in T /\ z \in T
  <2>1. at[y] \in 1 .. n /\ at[z] \in 1 .. n
    BY <1>2
  <2>2. at[y] <= at[z]
    BY <2>1, <1>1, <1>2
  <2> QED
    BY <2>2, <1>2, <1>6
<1>3. CASE y = x /\ z \in T
  <2>1. at[z] \in 1 .. n /\ ~(at[z] <= p)
    BY <1>1, <1>3
  <2>2. ~(key[x] > key[z]) /\ key[x] \in Nat /\ key[z] \in Nat
    BY <2>1, <1>3 DEF key
  <2> QED
    BY <2>2, <1>3
<1>4. CASE y \in T /\ z = x
  <2>1. at[y] \in 1 .. n /\ at[y] <= p
    BY <1>1, <1>4
  <2>2. key[x] > key[y] /\ key[x] \in Nat /\ key[y] \in Nat
    BY <2>1, <1>4 DEF key
  <2> QED
    BY <2>2, <1>4
<1>5. CASE y = x /\ z = x
  BY <1>5 DEF key
<1> QED
  BY <1>2, <1>3, <1>4, <1>5

\* add on the tree that u0 is, with the new node.
AddTo(u, x) == IF u.root = NIL THEN [u EXCEPT !.root = x, !.color[x] = "BLACK"] ELSE AddBelowRoot(u, x)

\* add keeps a tree in order, empty or not.
LEMMA AddToKeeps ==
  ASSUME NEW u0, NEW T, NEW n, NEW at, Kept(u0, u0, T, n, at), NEW x \in Node \ T, NEW k \in Nat,
         NEW p \in 0 .. n, \A z \in T : k > u0.key[z] <=> at[z] <= p,
         NEW u, NewNode(u0, u, T, x, k)
  PROVE  Kept(u, AddTo(u, x), T \cup {x}, n + 1, AtGrown(T, at, p, x))
<1>1. u0 \in Trees
  BY DEF Kept
<1>2. PICK lo, hi, b : Ruled(u0, T, n, at, lo, hi, b, NIL) /\ ~IsRed(u0, u0.root)
  BY Zenon DEF Kept
<1>3. Placed(T, n, at, lo, hi) /\ T \in SUBSET Node
  BY <1>2 DEF Ruled, Shaped, Placed
<1>4. /\ Agree(u0, u, T)
      /\ u.key[x] = k /\ u.color[x] = "RED" /\ u.parent[x] = NIL
      /\ \A e \in Side : u.child[e][x] = NIL
  BY DEF NewNode
<1>5. /\ u \in Trees /\ u.crashed = u0.crashed /\ u.root = u0.root
      /\ \A z \in T : u.key[z] = u0.key[z]
  BY <1>4 DEF Agree
<1>6. Ruled(u, T, n, at, lo, hi, b, NIL) /\ ~IsRed(u, u.root)
  BY <1>2, <1>4, AgreeRuled
<1>7. CASE T # {}
  <2>1. u.root # NIL
    BY <1>3, <1>6, <1>7 DEF Ruled, Shaped, Rooted
  <2>2. AddTo(u, x) = AddBelowRoot(u, x)
    BY <2>1 DEF AddTo
  <2>3. \A z \in T : u.key[x] > u.key[z] <=> at[z] <= p
    BY <1>4, <1>5
  <2>4. Kept(u, AddBelowRoot(u, x), T \cup {x}, n + 1, AtGrown(T, at, p, x))
    BY <1>4, <1>5, <1>6, <1>7, <2>3, AddKeeps
  <2> QED
    BY <1>4, <1>5, <2>2, <2>4
<1>8. CASE T = {}
  <2>1. u.root = NIL
    BY <1>6, <1>8 DEF Ruled, Shaped, Rooted
  <2>2. Placed({}, n, at, lo, hi) /\ n = 0 /\ p = 0
    BY <1>3, <1>8, NoPlaces
  <2>4. AddTo(u, x) = [u EXCEPT !.root = x, !.color[x] = "BLACK"]
    BY <2>1 DEF AddTo
  <2>5. x \in Node
    OBVIOUS
  <2> DEFINE v == AddTo(u, x)
  <2> HIDE DEF v
  <2>6. Kept(u, v, {} \cup {x}, n + 1, AtGrown({}, at, 0, x))
    BY <1>4, <1>5, <1>4, <2>2, <2>4, <2>5, FirstKept DEF v
  <2> QED
    BY <1>4, <1>5, <1>8, <2>2, <2>6 DEF v
<1> QED
  BY <1>7, <1>8

\* add puts the new node where InsertByKey puts its element.
LEMMA Added ==
  ASSUME NEW u0, NEW T, NEW n, NEW at, Ordered(u0, T, n, at), NEW x \in Node \ T, NEW k \in Key,
         NEW q, q = InOrder(u0, u0.root), NEW v, v = AddTo(Constructed(u0, x, k), x)
  PROVE  /\ v \in Trees /\ v.crashed = u0.crashed
         /\ \E a : Ordered(v, T \cup {x}, n + 1, a)
         /\ InOrder(v, v.root) = InsertByKey(q, [key |-> k, id |-> x])
<1> DEFINE p == Cardinality({i \in 1 .. Len(q) : q[i].key < k})
           u == Constructed(u0, x, k)
           a == AtGrown(T, at, p, x)
           w == InOrder(v, v.root)
           e == [key |-> k, id |-> x]
<1>1. /\ u0 \in Trees /\ T \subseteq Node /\ n \in Nat
      /\ q = WalkOf(u0, T, n, at) /\ Lists(q, u0, T, n, at)
      /\ Kept(u0, u0, T, n, at) /\ Sorted(u0, T, at) /\ \A z \in T : u0.key[z] \in Key
  BY OrderedWalk DEF Ordered
<1>2. k \in Nat
  OBVIOUS
<1>3. PICK lo, hi, b : Ruled(u0, T, n, at, lo, hi, b, NIL)
  BY <1>1, Zenon DEF Kept
<1>4. Placed(T, n, at, lo, hi)
  BY <1>3 DEF Ruled, Shaped
<1>5. InsertByKey(q, e) = SubSeq(q, 1, p) \o <<e>> \o SubSeq(q, p + 1, Len(q))
  BY DEF InsertByKey
<1>6. p = Cardinality({i \in 1 .. Len(q) : q[i].key < k})
  OBVIOUS
<1> HIDE DEF p
<1>7. p \in 0 .. n /\ \A z \in T : k > u0.key[z] <=> at[z] <= p
  BY <1>1, <1>2, <1>4, <1>6, InsertPlace
<1>0. v = AddTo(u, x) /\ x \in Node \ T
  OBVIOUS
<1>14. NewNode(u0, u, T, x, k)
  BY <1>1, <1>2, ConstructedAgrees
<1> HIDE DEF u, w, e
<1>8. /\ Kept(u, v, T \cup {x}, n + 1, a)
      /\ u.key[x] = k /\ u.crashed = u0.crashed /\ \A z \in T : u.key[z] = u0.key[z]
  <2>1. u.key[x] = k /\ u.crashed = u0.crashed /\ \A z \in T : u.key[z] = u0.key[z]
    BY <1>14 DEF NewNode, Agree
  <2>2. Kept(u, AddTo(u, x), T \cup {x}, n + 1, a)
    BY <1>0, <1>1, <1>2, <1>7, <1>14, AddToKeeps, Zenon
  <2> QED
    BY <2>1, <2>2, <1>0
<1>9. /\ v \in Trees /\ v.key = u.key /\ v.crashed = u.crashed
      /\ Kept(v, v, T \cup {x}, n + 1, a) /\ Lists(w, v, T \cup {x}, n + 1, a)
  BY <1>8, KeptWalk DEF w
<1>10. v.key[x] = k /\ \A z \in T : v.key[z] = u0.key[z]
  BY <1>8, <1>9
<1>11. e = Entry(v, x)
  BY <1>10 DEF e, Entry
<1>12. w = SubSeq(q, 1, p) \o <<e>> \o SubSeq(q, p + 1, Len(q))
  <2>1. GrownWalk(w, q, p, Entry(v, x))
    BY <1>0, <1>1, <1>7, <1>9, <1>10, WalkGrown
  <2> QED
    BY <2>1, <1>11 DEF GrownWalk
<1> HIDE DEF a
<1>13. Sorted(v, T \cup {x}, AtGrown(T, at, p, x))
  <2>1. \A c \in T : at[c] \in 1 .. n
    BY <1>1 DEF Lists
  <2>2. \A c \in T \cup {x} : v.key[c] \in Nat
    BY <1>1, <1>2, <1>10
  <2>3. Sorted(v, T, at)
    BY <1>1, <1>10 DEF Sorted
  <2>4. \A c \in T : v.key[x] > v.key[c] <=> at[c] <= p
    BY <1>7, <1>10
  <2>5. x \notin T
    OBVIOUS
  <2> QED
    BY <1>1, <1>7, <2>1, <2>2, <2>3, <2>4, <2>5, GrownSorted
<1>15. Ordered(v, T \cup {x}, n + 1, a)
  <2>1. Sorted(v, T \cup {x}, a)
    BY <1>13 DEF a
  <2>2. \A z \in T \cup {x} : v.key[z] \in Key
    BY <1>1, <1>10
  <2> QED
    BY <1>9, <2>1, <2>2 DEF Ordered
<1> QED
  BY <1>5, <1>8, <1>9, <1>12, <1>15 DEF w, e

\* x is the first node of u, and v is u without it.
WithoutFirst(u, T, n, x, v) ==
  /\ x \in T /\ v \in Trees /\ v.crashed = u.crashed
  /\ \E a : Ordered(v, T \ {x}, n - 1, a)
  /\ InOrder(u, u.root) # <<>> /\ InOrder(v, v.root) = Tail(InOrder(u, u.root))

\* removeLeftmostNode takes the first element off the walk.
LEMMA Removed ==
  ASSUME NEW u, NEW T, NEW n, NEW at, Ordered(u, T, n, at), u.root # NIL,
         NEW x, x = getLeftmostNode(u)
  PROVE  WithoutFirst(u, T, n, x, RemoveNode(u, x))
<1> SUFFICES ASSUME NEW q, q = InOrder(u, u.root), NEW v, v = RemoveNode(u, x)
             PROVE  /\ x \in T /\ v \in Trees /\ v.crashed = u.crashed
                    /\ \E a : Ordered(v, T \ {x}, n - 1, a)
                    /\ q # <<>> /\ InOrder(v, v.root) = Tail(q)
  BY DEF WithoutFirst
<1> DEFINE a == AtShrunk(T, at, x)
           w == InOrder(v, v.root)
<1>1. /\ u \in Trees /\ T \subseteq Node /\ n \in Nat /\ T # {}
      /\ Lists(q, u, T, n, at)
      /\ Kept(u, u, T, n, at) /\ Sorted(u, T, at) /\ \A z \in T : u.key[z] \in Key
  BY OrderedWalk DEF Ordered
<1>2. PICK lo, hi, b : Ruled(u, T, n, at, lo, hi, b, NIL) /\ ~IsRed(u, u.root)
  BY <1>1, Zenon DEF Kept
<1> HIDE DEF a, w
<1>3. x \in T /\ at[x] = 1 /\ Kept(u, v, T \ {x}, n - 1, a)
  BY <1>1, <1>2, RemoveKeeps DEF a
<1>4. /\ v \in Trees /\ v.key = u.key /\ v.crashed = u.crashed
      /\ Kept(v, v, T \ {x}, n - 1, a) /\ Lists(w, v, T \ {x}, n - 1, a)
  BY <1>3, KeptWalk DEF w
<1>5. q # <<>> /\ w = Tail(q)
  BY <1>1, <1>3, <1>4, WalkShrunk DEF a
<1>6. Sorted(v, T \ {x}, a)
  <2> SUFFICES ASSUME NEW y \in T \ {x}, NEW z \in T \ {x}, a[y] <= a[z]
               PROVE  v.key[y] <= v.key[z]
    BY DEF Sorted
  <2>1. a[y] = at[y] - 1 /\ a[z] = at[z] - 1
    BY DEF a, AtShrunk
  <2>2. at[y] \in 1 .. n /\ at[z] \in 1 .. n
    BY <1>1 DEF Lists
  <2>3. at[y] <= at[z]
    BY <2>1, <2>2
  <2> QED
    BY <2>3, <1>1, <1>4 DEF Sorted
<1>7. Ordered(v, T \ {x}, n - 1, a)
  BY <1>1, <1>4, <1>6 DEF Ordered
<1> QED
  BY <1>3, <1>4, <1>5, <1>7 DEF w

-----------------------------------------------------------------------------
(* The invariant.                                                                     *)

\* A node outside the tree can be written over.
LEMMA Freed ==
  ASSUME NEW u, NEW T, NEW n, NEW at, Ordered(u, T, n, at), NEW x \in Node \ T, NEW k \in Nat,
         NEW v, v = Constructed(u, x, k)
  PROVE  Ordered(v, T, n, at) /\ v.crashed = u.crashed /\ InOrder(v, v.root) = InOrder(u, u.root)
<1>1. /\ u \in Trees /\ T \subseteq Node /\ n \in Nat /\ Lists(InOrder(u, u.root), u, T, n, at)
      /\ Kept(u, u, T, n, at) /\ Sorted(u, T, at) /\ \A z \in T : u.key[z] \in Key
  BY OrderedWalk DEF Ordered
<1>2. NewNode(u, v, T, x, k)
  BY <1>1, ConstructedAgrees
<1>3. Agree(u, v, T)
  BY <1>2 DEF NewNode
<1>4. v \in Trees /\ v.crashed = u.crashed /\ \A z \in T : v.key[z] = u.key[z]
  BY <1>3 DEF Agree
<1>5. PICK lo, hi, b : Ruled(u, T, n, at, lo, hi, b, NIL) /\ ~IsRed(u, u.root)
  BY <1>1, Zenon DEF Kept
<1>6. Ruled(v, T, n, at, lo, hi, b, NIL) /\ ~IsRed(v, v.root)
  BY <1>3, <1>5, AgreeRuled
<1>7. Kept(v, v, T, n, at)
  BY <1>4, <1>6, Zenon DEF Kept
<1>8. Ordered(v, T, n, at)
  BY <1>1, <1>4, <1>7 DEF Ordered, Sorted
<1>9. Lists(InOrder(v, v.root), v, T, n, at)
  BY <1>7, KeptWalk
<1>10. InOrder(v, v.root) = InOrder(u, u.root)
  <2> SUFFICES ASSUME NEW q, Lists(q, u, T, n, at), NEW w, Lists(w, v, T, n, at) PROVE w = q
    BY <1>1, <1>9
  <2>1. /\ q \in Seq(Elements) /\ w \in Seq(Elements) /\ Len(w) = n /\ Len(q) = n
        /\ \A i \in 1 .. n : q[i].id \in T /\ at[q[i].id] = i /\ q[i] = Entry(u, q[i].id)
        /\ \A y \in T : w[at[y]] = Entry(v, y)
    BY Zenon DEF Lists
  <2>2. \A y \in T : Entry(v, y) = Entry(u, y)
    BY <1>4 DEF Entry
  <2>3. ASSUME NEW i \in 1 .. n
        PROVE  w[i] = q[i]
    BY <2>1, <2>2
  <2> QED
    BY <2>1, <2>3
<1> QED
  BY <1>4, <1>8, <1>10

Holds(T, n, at) == Ordered(t, T, n, at) /\ removed \notin T /\ m_size = size0 + n
TreeInv ==
  /\ size0 \in Nat /\ removed \in Node \cup {NIL} /\ ~t.crashed
  /\ \E T, n, at : Holds(T, n, at)

\* The nodes that a list has.
LEMMA ListedNodes ==
  ASSUME NEW q, NEW u, NEW T, NEW n \in Nat, NEW at, Lists(q, u, T, n, at)
  PROVE  {q[i].id : i \in DOMAIN q} = T /\ Len(q) = n
<1>1. /\ q \in Seq(Elements) /\ Len(q) = n
      /\ \A y \in T : at[y] \in 1 .. n /\ q[at[y]] = Entry(u, y)
      /\ \A i \in 1 .. n : q[i].id \in T
  BY Zenon DEF Lists
<1>2. DOMAIN q = 1 .. n
  BY <1>1
<1>3. \A y \in T : q[at[y]].id = y
  <2>1. \A y \in T : Entry(u, y).id = y
    BY DEF Entry
  <2> QED
    BY <2>1, <1>1, Zenon
<1> QED
  BY <1>1, <1>2, <1>3

\* The nodes in the tree and the length of the walk.
LEMMA HeldTree ==
  ASSUME NEW T, NEW n, NEW at, Ordered(t, T, n, at)
  PROVE  InTree = T /\ Len(walk) = n /\ n \in Nat
<1>1. Lists(walk, t, T, n, at) /\ n \in Nat
  BY OrderedWalk DEF walk
<1> QED
  BY <1>1, ListedNodes, Zenon DEF InTree

\* The nodes in the tree after a step.
LEMMA HeldTreeNext ==
  ASSUME NEW T, NEW n, NEW at, Ordered(t', T, n, at)
  PROVE  InTree' = T
<1>1. Lists(InOrder(t', t'.root), t', T, n, at) /\ n \in Nat
  <2> SUFFICES ASSUME NEW u, Ordered(u, T, n, at)
               PROVE  Lists(InOrder(u, u.root), u, T, n, at) /\ n \in Nat
    OBVIOUS
  <2> QED
    BY OrderedWalk
<1>2. Lists(walk', t', T, n, at) /\ n \in Nat
  BY <1>1 DEF walk
<1> QED
  BY <1>2, ListedNodes, Zenon DEF InTree

\* The empty tree satisfies the invariant.
LEMMA InitTreeInv == InitTree => TreeInv /\ walk = <<>>
<1> SUFFICES ASSUME InitTree PROVE TreeInv /\ walk = <<>>
  OBVIOUS
<1> DEFINE none == [z \in {} |-> 1]
           b == [z \in {NIL} |-> 0]
<1>1. t \in Trees /\ t.root = NIL /\ t.crashed = FALSE
  BY DEF InitTree, Trees, Side
<1>2. size0 \in Nat /\ m_size = size0 + 0 /\ removed = NIL
  BY DEF InitTree
<1>3. Shaped(t, {}, 0, none, none, none)
  BY <1>1 DEF Shaped, Placed, Rooted, Filled, Backed
<1>4. Balanced(t, {}, b, NIL, NIL) /\ RedsApart(t, {}, NIL) /\ ~IsRed(t, t.root)
  <2>1. {} \cup {NIL} = {NIL}
    OBVIOUS
  <2>2. b \in [{NIL} -> Nat] /\ b[NIL] = 0
    OBVIOUS
  <2> HIDE DEF b
  <2> QED
    BY <2>1, <2>2, <1>1 DEF Balanced, RedsApart, IsRed
<1> HIDE DEF none, b
<1>5. Ruled(t, {}, 0, none, none, none, b, NIL)
  BY <1>3, <1>4 DEF Ruled
<1>6. Kept(t, t, {}, 0, none)
  BY <1>1, <1>4, <1>5, Zenon DEF Kept
<1>7. Ordered(t, {}, 0, none)
  BY <1>6 DEF Ordered, Sorted
<1>8. Holds({}, 0, none)
  BY <1>2, <1>7 DEF Holds
<1>9. TreeInv
  <2>1. \E T, n, at : Holds(T, n, at)
    BY <1>8
  <2> QED
    BY <2>1, <1>1, <1>2 DEF TreeInv
<1>10. walk = <<>>
  <2>1. Lists(walk, t, {}, 0, none)
    BY <1>7, OrderedWalk DEF walk
  <2>2. walk \in Seq(Elements) /\ Len(walk) = 0
    BY <2>1 DEF Lists
  <2> QED
    BY <2>2
<1> QED
  BY <1>9, <1>10

\* add keeps the invariant and inserts into the walk.
LEMMA AddInv ==
  ASSUME TreeInv, NEW k \in Key, NEW x \in FreeNodes, add(k, x)
  PROVE  TreeInv' /\ walk' = InsertByKey(walk, [key |-> k, id |-> x]) /\ x \in Node
         /\ InTree' = InTree \cup {x}
<1>1. PICK T, n, at : Holds(T, n, at)
  BY DEF TreeInv
<1>2. Ordered(t, T, n, at) /\ removed \notin T /\ m_size = size0 + n
  BY <1>1 DEF Holds
<1>3. InTree = T /\ n \in Nat
  BY <1>2, HeldTree
<1>4. x \in Node /\ x \notin T /\ x # removed
  BY <1>3 DEF FreeNodes
<1>5. t' = AddTo(Constructed(t, x, k), x) /\ m_size' = m_size + 1 /\ size0' = size0 /\ removed' = removed
  BY DEF add, AddTo
<1>6. /\ t' \in Trees /\ t'.crashed = t.crashed
      /\ \E a : Ordered(t', T \cup {x}, n + 1, a)
      /\ InOrder(t', t'.root) = InsertByKey(InOrder(t, t.root), [key |-> k, id |-> x])
  <2> SUFFICES ASSUME NEW v, v = AddTo(Constructed(t, x, k), x)
               PROVE  /\ v \in Trees /\ v.crashed = t.crashed
                      /\ \E a : Ordered(v, T \cup {x}, n + 1, a)
                      /\ InOrder(v, v.root) = InsertByKey(InOrder(t, t.root), [key |-> k, id |-> x])
    BY <1>5
  <2> QED
    BY <1>2, <1>4, Added
<1>7. PICK a : Ordered(t', T \cup {x}, n + 1, a)
  BY <1>6
<1>8. size0 \in Nat /\ removed \in Node \cup {NIL} /\ ~t.crashed
  BY DEF TreeInv
<1>9. m_size' = size0' + (n + 1) /\ removed' \notin T \cup {x}
  BY <1>2, <1>3, <1>4, <1>5, <1>8
<1>10. TreeInv'
  BY <1>5, <1>6, <1>7, <1>8, <1>9 DEF TreeInv, Holds
<1>11. InTree' = T \cup {x}
  BY <1>7, HeldTreeNext
<1> QED
  BY <1>3, <1>4, <1>6, <1>10, <1>11 DEF walk

\* removeLeftmostNode keeps the invariant and takes the head of the walk.
LEMMA RemoveInv ==
  ASSUME TreeInv, removeLeftmostNode
  PROVE  TreeInv' /\ walk # <<>> /\ walk' = Tail(walk)
         /\ removed' \in InTree /\ InTree' = InTree \ {removed'}
<1>1. PICK T, n, at : Holds(T, n, at)
  BY DEF TreeInv
<1>2. Ordered(t, T, n, at) /\ removed \notin T /\ m_size = size0 + n
  BY <1>1 DEF Holds
<1>3. InTree = T /\ n \in Nat /\ T \subseteq Node
  BY <1>2, HeldTree, OrderedWalk
<1>4. /\ t.root # NIL /\ removed' = getLeftmostNode(t) /\ t' = RemoveNode(t, removed')
      /\ m_size' = m_size - 1 /\ size0' = size0
  BY DEF removeLeftmostNode
<1>5. /\ removed' \in T /\ t' \in Trees /\ t'.crashed = t.crashed
      /\ \E a : Ordered(t', T \ {removed'}, n - 1, a)
      /\ walk # <<>> /\ InOrder(t', t'.root) = Tail(InOrder(t, t.root))
  <2>1. WithoutFirst(t, T, n, removed', RemoveNode(t, removed'))
    <3> SUFFICES ASSUME NEW x, x = getLeftmostNode(t) PROVE WithoutFirst(t, T, n, x, RemoveNode(t, x))
      BY <1>4
    <3>1. t.root # NIL
      BY <1>4
    <3> QED
      BY <3>1, <1>2, Removed
  <2> QED
    BY <2>1, <1>4, Zenon DEF WithoutFirst, walk
<1>6. PICK a : Ordered(t', T \ {removed'}, n - 1, a)
  BY <1>5
<1>7. size0 \in Nat /\ removed \in Node \cup {NIL} /\ ~t.crashed
  BY DEF TreeInv
<1>8. m_size' = size0' + (n - 1)
  BY <1>2, <1>3, <1>4, <1>7
<1>9. TreeInv'
  BY <1>3, <1>4, <1>5, <1>6, <1>7, <1>8 DEF TreeInv, Holds
<1>10. InTree' = T \ {removed'}
  BY <1>6, HeldTreeNext
<1> QED
  BY <1>3, <1>5, <1>9, <1>10 DEF walk

\* deleteNode keeps the invariant and changes no walk.
LEMMA DeleteInv ==
  ASSUME TreeInv, deleteNode
  PROVE  TreeInv' /\ walk' = walk /\ InTree' = InTree
<1>1. PICK T, n, at : Holds(T, n, at)
  BY DEF TreeInv
<1>2. Ordered(t, T, n, at) /\ removed \notin T /\ m_size = size0 + n
  BY <1>1 DEF Holds
<1>3. NIL \notin T
  BY <1>2, OrderedWalk
<1>4. size0 \in Nat /\ removed \in Node \cup {NIL} /\ ~t.crashed
  BY DEF TreeInv
<1>5. /\ removed # NIL /\ removed' = NIL /\ t' = Constructed(t, removed, 0)
      /\ m_size' = m_size /\ size0' = size0
  BY DEF deleteNode
<1>6. Ordered(t', T, n, at) /\ t'.crashed = t.crashed /\ InOrder(t', t'.root) = InOrder(t, t.root)
  <2> SUFFICES ASSUME NEW v, v = Constructed(t, removed, 0)
               PROVE  Ordered(v, T, n, at) /\ v.crashed = t.crashed /\ InOrder(v, v.root) = InOrder(t, t.root)
    BY <1>5
  <2>1. removed \in Node \ T
    BY <1>2, <1>4, <1>5
  <2> QED
    BY <2>1, <1>2, Freed
<1>7. TreeInv'
  BY <1>2, <1>3, <1>4, <1>5, <1>6 DEF TreeInv, Holds
<1>8. walk' = walk
  BY <1>6 DEF walk
<1> QED
  BY <1>7, <1>8 DEF InTree

\* RunQueue's InsertByKey is that of the tree.
LEMMA SameInsert ==
  ASSUME NEW s, NEW e
  PROVE  Queue!InsertByKey(s, e) = InsertByKey(s, e)
<1>1. \A S : Queue!Cardinality(S) = Cardinality(S)
  BY Zenon DEF Cardinality, Queue!Cardinality
<1> QED
  BY <1>1, Zenon DEF InsertByKey, Queue!InsertByKey

\* Every step keeps the invariant and is one of the queue, or none.
LEMMA NextTreeInv ==
  ASSUME TreeInv, [NextTree]_treeVars
  PROVE  TreeInv' /\ [Queue!Next]_walk
<1>1. ASSUME NEW k \in Key, NEW x \in FreeNodes, add(k, x)
      PROVE  TreeInv' /\ [Queue!Next]_walk
  <2>1. TreeInv' /\ walk' = InsertByKey(walk, [key |-> k, id |-> x]) /\ x \in Node
    BY <1>1, AddInv
  <2>2. PICK e \in [key : Key, id : Node] : e = [key |-> k, id |-> x]
    BY <2>1
  <2>3. walk' = InsertByKey(walk, e)
    BY <2>1, <2>2, Zenon
  <2>4. Queue!Add
    BY <2>3, SameInsert, Zenon DEF Queue!Add
  <2> QED
    BY <2>1, <2>4 DEF Queue!Next
<1>2. CASE removeLeftmostNode
  <2>1. TreeInv' /\ walk # <<>> /\ walk' = Tail(walk)
    BY <1>2, RemoveInv
  <2> QED
    BY <2>1 DEF Queue!Next, Queue!RemoveLeftmost
<1>3. CASE deleteNode
  <2>1. TreeInv' /\ walk' = walk
    BY <1>3, DeleteInv
  <2> QED
    BY <2>1
<1>4. CASE UNCHANGED treeVars
  <2>1. t' = t /\ m_size' = m_size /\ size0' = size0 /\ removed' = removed
    BY <1>4 DEF treeVars
  <2>2. TreeInv'
    BY <2>1 DEF TreeInv, Holds
  <2>3. walk' = walk
    BY <2>1 DEF walk
  <2> QED
    BY <2>2, <2>3
<1> QED
  BY <1>1, <1>2, <1>3, <1>4 DEF NextTree
\* The invariant holds in every state of the tree, whatever blocks, keys and number of
\* nodes: add, removeLeftmostNode and deleteNode leave a tree in order.
THEOREM TreeInvariant == SpecTree => []TreeInv
<1>1. InitTree => TreeInv
  BY InitTreeInv
<1>2. TreeInv /\ [NextTree]_treeVars => TreeInv'
  BY NextTreeInv
<1> QED
  BY <1>1, <1>2, PTL DEF SpecTree

\* The tree implements the queue of the scheduler: add inserts by key, the leftmost node
\* is the head, and no rotation or recoloring changes the order or loses a node.
THEOREM TreeImplementsRunQueue == SpecTree => ImplementsRunQueue
<1>1. InitTree => Queue!Init
  BY InitTreeInv DEF Queue!Init
<1>2. TreeInv /\ [NextTree]_treeVars => [Queue!Next]_walk
  BY NextTreeInv
<1> QED
  BY <1>1, <1>2, TreeInvariant, PTL DEF SpecTree, ImplementsRunQueue, Queue!Spec

\* The invariant contains what LinksConsistent says.
LEMMA InvLinks == TreeInv => LinksConsistent
<1> SUFFICES ASSUME TreeInv PROVE LinksConsistent
  OBVIOUS
<1>1. PICK T, n, at : Holds(T, n, at)
  BY DEF TreeInv
<1>2. Ordered(t, T, n, at) /\ removed \notin T /\ m_size = size0 + n
  BY <1>1 DEF Holds
<1>3. PICK lo, hi, b : Ruled(t, T, n, at, lo, hi, b, NIL)
  BY <1>2, Zenon DEF Ordered, Kept
<1>4. Shaped(t, T, n, at, lo, hi)
  BY <1>3 DEF Ruled
<1>5. InTree = T /\ Len(walk) = n
  BY <1>2, HeldTree
<1>6. t.root # NIL => t.parent[t.root] = NIL
  BY <1>4 DEF Shaped, Rooted
<1>7. ASSUME NEW x \in T, NEW d \in Side, t.child[d][x] # NIL
      PROVE  t.parent[t.child[d][x]] = x /\ t.pos[t.child[d][x]] = d
  BY <1>4, <1>7, Kids
<1>8. ~t.crashed
  BY DEF TreeInv
<1> QED
  BY <1>2, <1>5, <1>6, <1>7, <1>8 DEF LinksConsistent

\* The invariant contains what RedBlackRules says.
LEMMA InvRules == TreeInv => RedBlackRules
<1> SUFFICES ASSUME TreeInv PROVE RedBlackRules
  OBVIOUS
<1>1. PICK T, n, at : Holds(T, n, at)
  BY DEF TreeInv
<1>2. Ordered(t, T, n, at) /\ t \in Trees
  BY <1>1 DEF Holds, Ordered, Kept
<1>3. PICK lo, hi, b : Ruled(t, T, n, at, lo, hi, b, NIL) /\ ~IsRed(t, t.root)
  BY <1>2, Zenon DEF Ordered, Kept
<1>4. Shaped(t, T, n, at, lo, hi) /\ Balanced(t, T, b, NIL, NIL) /\ RedsApart(t, T, NIL)
  BY <1>3 DEF Ruled
<1>5. BlackHeight(t, t.root) >= 0
  BY <1>2, <1>4, BlackHeightCounts
<1>6. InTree = T
  BY <1>2, HeldTree
<1>7. ASSUME NEW x \in T, NEW d \in Side, IsRed(t, x)
      PROVE  ~IsRed(t, t.child[d][x])
  <2>1. IsRed(t, t.child[d][x]) => t.child[d][x] = NIL
    BY <1>4, <1>7 DEF RedsApart
  <2> QED
    BY <2>1 DEF IsRed
<1> QED
  BY <1>3, <1>5, <1>6, <1>7 DEF RedBlackRules

\* The RULES of myrb.cpp hold after every operation: checkColor repairs what add does, and
\* fixDB what the removal of a black leaf does.
THEOREM TreeKeepsRules == SpecTree => []RedBlackRules
BY TreeInvariant, InvRules, PTL

\* Parents, sides and m_size agree with what hangs where, and fixDB's sibling is never
\* null.
THEOREM TreeKeepsLinks == SpecTree => []LinksConsistent
BY TreeInvariant, InvLinks, PTL

HIDE TreeAssumption
USE PoolAssumption
-----------------------------------------------------------------------------
(* The tree on its pool.                                                              *)
\* The invariant of the tree on its pool: that of the pool, that of the tree, and that
\* the blocks held are the nodes.
PooledInv == IInv /\ TreeInv /\ NodesAreHeld

\* No step but one of the tree changes its nodes.
LEMMA UnchangedTree ==
  ASSUME TreeInv, UNCHANGED treeVars
  PROVE  TreeInv' /\ InTree' = InTree /\ removed' = removed
<1>1. TreeInv'
  BY NextTreeInv
<1>2. t' = t /\ removed' = removed
  BY DEF treeVars
<1>3. walk' = walk
  BY <1>2 DEF walk
<1>4. InTree' = InTree
  BY <1>3 DEF InTree
<1> QED
  BY <1>1, <1>2, <1>4

\* What hangs in the tree are nodes.
LEMMA NodesInTree ==
  ASSUME TreeInv
  PROVE  InTree \subseteq Node
<1>1. PICK T, n, at : Holds(T, n, at)
  BY DEF TreeInv
<1>2. Ordered(t, T, n, at)
  BY <1>1 DEF Holds
<1>3. PICK lo, hi, b : Ruled(t, T, n, at, lo, hi, b, NIL)
  BY <1>2, Zenon DEF Ordered, Kept
<1>4. T \subseteq Node
  BY <1>3 DEF Ruled, Shaped, Placed
<1> QED
  BY <1>2, <1>4, HeldTree

\* A block that AllocBlock grants is free in the tree too, and add keeps the invariant.
LEMMA AddNodeInv ==
  ASSUME PooledInv, NEW k \in Key, AddNode(k)
  PROVE  PooledInv' /\ [Next]_vars /\ [NextTree]_treeVars
<1>1. IInv /\ TreeInv /\ NodesAreHeld
  BY DEF PooledInv
<1>2. (AllocInitialized \/ AllocAfterInit) /\ add(k, m_head)
  BY DEF AddNode
<1>3. IInv' /\ m_head \in Block \ in_use
  BY <1>1, <1>2, AllocInitializedIInv, AllocAfterInitIInv
<1>4. in_use' = in_use \cup {m_head}
  BY <1>2 DEF AllocInitialized, AllocAfterInit, TakeHead
<1>5. m_head \in FreeNodes
  <2>1. m_head \in Node /\ m_head # NIL
    BY <1>3, PooledAssumption, TreeAssumption
  <2> QED
    BY <2>1, <1>1, <1>3 DEF FreeNodes, NodesAreHeld
<1>6. TreeInv' /\ InTree' = InTree \cup {m_head}
  BY <1>1, <1>2, <1>5, AddInv
<1>7. removed' = removed
  BY <1>2 DEF add
<1>8. NodesAreHeld'
  BY <1>1, <1>4, <1>6, <1>7, Zenon DEF NodesAreHeld
<1>9. [Next]_vars
  BY <1>2 DEF Next
<1>10. [NextTree]_treeVars
  BY <1>2, <1>5 DEF NextTree
<1> QED
  BY <1>3, <1>6, <1>8, <1>9, <1>10 DEF PooledInv

\* An add that faults changes nothing but what AllocBlock returned.
LEMMA AddFaultsInv ==
  ASSUME PooledInv, AddFaults
  PROVE  PooledInv' /\ [Next]_vars /\ [NextTree]_treeVars
<1>1. IInv /\ TreeInv /\ NodesAreHeld
  BY DEF PooledInv
<1>2. AllocOutOfMemory /\ UNCHANGED treeVars
  BY DEF AddFaults
<1>3. [Next]_vars /\ IInv'
  BY <1>1, <1>2, NextIInv DEF Next
<1>4. TreeInv' /\ InTree' = InTree /\ removed' = removed
  BY <1>1, <1>2, UnchangedTree
<1>5. in_use' = in_use
  BY <1>2 DEF AllocOutOfMemory
<1>6. NodesAreHeld'
  BY <1>1, <1>4, <1>5, Zenon DEF NodesAreHeld
<1> QED
  BY <1>2, <1>3, <1>4, <1>6 DEF PooledInv

\* The node that leaves the tree is the one removed, so that the blocks held stay the same.
LEMMA RemoveLeftmostInv ==
  ASSUME PooledInv, RemoveLeftmost
  PROVE  PooledInv' /\ [Next]_vars /\ [NextTree]_treeVars
<1>1. IInv /\ TreeInv /\ NodesAreHeld
  BY DEF PooledInv
<1>2. removeLeftmostNode /\ UNCHANGED vars
  BY DEF RemoveLeftmost
<1>3. IInv'
  BY <1>1, <1>2, NextIInv
<1>4. TreeInv' /\ removed' \in InTree /\ InTree' = InTree \ {removed'}
  BY <1>1, <1>2, RemoveInv
<1>5. InTree \subseteq Node
  BY <1>1, NodesInTree
<1>6. removed = NIL /\ in_use' = in_use /\ removed' # NIL
  BY <1>2, <1>4, <1>5, TreeAssumption DEF removeLeftmostNode, vars
<1>7. NodesAreHeld'
  BY <1>1, <1>4, <1>6, Zenon DEF NodesAreHeld
<1> QED
  BY <1>2, <1>3, <1>4, <1>7 DEF PooledInv, NextTree

\* The node deleted is held and hangs in the tree no more: its block can be freed.
LEMMA DeleteNodeInv ==
  ASSUME PooledInv, DeleteNode
  PROVE  PooledInv' /\ [Next]_vars /\ [NextTree]_treeVars
<1>1. IInv /\ TreeInv /\ NodesAreHeld
  BY DEF PooledInv
<1>2. FreeBlock(removed) /\ deleteNode
  BY DEF DeleteNode
<1>3. removed \in Block
  BY <1>1, <1>2 DEF FreeBlock, IInv, TypeOK
<1>4. IInv' /\ [Next]_vars
  BY <1>1, <1>2, <1>3, FreeBlockIInv DEF Next
<1>5. TreeInv' /\ InTree' = InTree
  BY <1>1, <1>2, DeleteInv
<1>6. removed \notin InTree
  BY <1>1, InvLinks DEF LinksConsistent
<1>7. in_use' = in_use \ {removed} /\ removed' = NIL /\ removed # NIL
  BY <1>2 DEF FreeBlock, deleteNode
<1>8. NodesAreHeld'
  BY <1>1, <1>5, <1>6, <1>7, Zenon DEF NodesAreHeld
<1> QED
  BY <1>2, <1>4, <1>5, <1>8 DEF PooledInv, NextTree

\* A step that changes nothing keeps the invariant.
LEMMA UnchangedPooled ==
  ASSUME PooledInv, UNCHANGED pooledVars
  PROVE  PooledInv' /\ [Next]_vars /\ [NextTree]_treeVars
<1>1. IInv /\ TreeInv /\ NodesAreHeld
  BY DEF PooledInv
<1>2. UNCHANGED vars /\ UNCHANGED treeVars
  BY DEF pooledVars
<1>3. IInv'
  BY <1>1, <1>2, NextIInv
<1>4. TreeInv' /\ InTree' = InTree /\ removed' = removed
  BY <1>1, <1>2, UnchangedTree
<1>5. in_use' = in_use
  BY <1>2 DEF vars
<1>6. NodesAreHeld'
  BY <1>1, <1>4, <1>5, Zenon DEF NodesAreHeld
<1> QED
  BY <1>2, <1>3, <1>4, <1>6 DEF PooledInv

\* Every step of the two is a step of the pool, or none, and one of the tree, or none.
LEMMA NextPooledInv ==
  ASSUME PooledInv, [NextPooled]_pooledVars
  PROVE  PooledInv' /\ [Next]_vars /\ [NextTree]_treeVars
<1>1. ASSUME NEW k \in Key, AddNode(k) PROVE PooledInv' /\ [Next]_vars /\ [NextTree]_treeVars
  BY <1>1, AddNodeInv
<1> QED
  BY <1>1, AddFaultsInv, RemoveLeftmostInv, DeleteNodeInv, UnchangedPooled DEF NextPooled

\* An empty tree on a new pool satisfies the invariant.
LEMMA InitPooledInv == InitPooled => PooledInv
<1> SUFFICES ASSUME Init, InitTree PROVE PooledInv
  BY DEF InitPooled
<1>1. IInv /\ TreeInv /\ walk = <<>>
  BY InitIInv, InitTreeInv
<1>2. InTree = {}
  BY <1>1 DEF InTree
<1>3. in_use = {} /\ removed = NIL
  BY DEF Init, InitTree
<1> QED
  BY <1>1, <1>2, <1>3 DEF PooledInv, NodesAreHeld

\* The invariant holds in every state of the tree on its pool.
THEOREM PooledInvariant == SpecPooled => []PooledInv
<1>1. PooledInv /\ [NextPooled]_pooledVars => PooledInv'
  BY NextPooledInv
<1> QED
  BY <1>1, InitPooledInv, PTL DEF SpecPooled

\* The blocks held are at all times the nodes in the tree and the one that Run removed:
\* deleteNode frees each node once, and allocNode never gives the block of a node.
THEOREM NodesHeld == SpecPooled => []NodesAreHeld
<1>1. PooledInv => NodesAreHeld
  BY DEF PooledInv
<1> QED
  BY <1>1, PooledInvariant, PTL

\* The tree uses the pool as the pool expects, and what the pool promises holds.
THEOREM PooledImplementsPool == SpecPooled => Spec
<1>1. PooledInv /\ [NextPooled]_pooledVars => [Next]_vars
  BY NextPooledInv
<1>2. InitPooled => Init
  BY DEF InitPooled
<1> QED
  BY <1>1, <1>2, PooledInvariant, PTL DEF SpecPooled, Spec

\* On its pool the tree only does what it does in whatever blocks it is given: AllocBlock
\* never gives a block whose node is in use.
THEOREM PooledImplementsTree == SpecPooled => SpecTree
<1>1. PooledInv /\ [NextPooled]_pooledVars => [NextTree]_treeVars
  BY NextPooledInv
<1>2. InitPooled => InitTree
  BY DEF InitPooled
<1> QED
  BY <1>1, <1>2, PooledInvariant, PTL DEF SpecPooled, SpecTree

\* So the tree on its pool keeps every promise of the two.
THEOREM PooledKeepsPromises ==
  SpecPooled => /\ ImplementsAllocator /\ []FreeListSound
                /\ ImplementsRunQueue /\ []RedBlackRules /\ []LinksConsistent
BY PooledImplementsPool, PooledImplementsTree, PoolImplementsAllocator, FreeListCorrect,
   TreeImplementsRunQueue, TreeKeepsRules, TreeKeepsLinks, PTL

\* The instance that is model-checked, on the pool or alone, satisfies what its two parts
\* do.
MCInv == IInv /\ TreeInv /\ PooledNodesAreHeld

\* A step alone is one of the tree, in a block that is free, and none of the pool.
LEMMA NextAloneInv ==
  ASSUME MCInv, NextAlone, UNCHANGED vars
  PROVE  IInv' /\ TreeInv'
<1>1. IInv /\ TreeInv
  BY DEF MCInv
<1>2. NextTree
  <2>1. ASSUME FreeNodes # {}, NEW k \in Key, add(k, CHOOSE x \in FreeNodes : TRUE)
        PROVE  NextTree
    <3>1. (CHOOSE x \in FreeNodes : TRUE) \in FreeNodes
      BY <2>1
    <3> QED
      BY <2>1, <3>1 DEF NextTree
  <2> QED
    BY <2>1 DEF NextAlone, NextTree
<1> QED
  BY <1>1, <1>2, NextIInv, NextTreeInv

\* Every step of the instance keeps its invariant.
LEMMA NextMCInv == MCInv /\ [NextMC]_mcVars => MCInv'
<1> SUFFICES ASSUME MCInv, [NextMC]_mcVars PROVE MCInv'
  OBVIOUS
<1>1. CASE pooled /\ NextPooled /\ UNCHANGED pooled
  <2>1. PooledInv
    BY <1>1 DEF MCInv, PooledInv, PooledNodesAreHeld
  <2>2. PooledInv'
    BY <1>1, <2>1, NextPooledInv
  <2> QED
    BY <2>2 DEF MCInv, PooledInv, PooledNodesAreHeld
<1>2. CASE ~pooled /\ NextAlone /\ UNCHANGED <<vars, pooled>>
  <2>1. IInv' /\ TreeInv'
    BY <1>2, NextAloneInv
  <2>2. ~pooled'
    BY <1>2
  <2> QED
    BY <2>1, <2>2 DEF MCInv, PooledNodesAreHeld
<1>3. CASE UNCHANGED mcVars
  <2>1. UNCHANGED vars /\ UNCHANGED treeVars /\ pooled' = pooled
    BY <1>3 DEF mcVars, pooledVars
  <2>2. IInv' /\ TreeInv' /\ InTree' = InTree /\ removed' = removed
    BY <2>1, NextIInv, UnchangedTree DEF MCInv
  <2>3. in_use' = in_use
    BY <2>1 DEF vars
  <2>4. NodesAreHeld => NodesAreHeld'
    BY <2>2, <2>3, Zenon DEF NodesAreHeld
  <2> QED
    BY <2>1, <2>2, <2>4 DEF MCInv, PooledNodesAreHeld
<1> QED
  BY <1>1, <1>2, <1>3 DEF NextMC

\* Where there is a pool, the blocks held are the nodes in the tree and the one that Run
\* removed: the property of the run, for pools and trees of every size.
THEOREM PooledNodesHeld == SpecMC => []PooledNodesAreHeld
<1>1. InitMC => MCInv
  BY InitPooledInv DEF InitMC, MCInv, PooledInv, PooledNodesAreHeld
<1>2. MCInv => PooledNodesAreHeld
  BY DEF MCInv
<1> QED
  BY <1>1, <1>2, NextMCInv, PTL DEF SpecMC
=============================================================================
