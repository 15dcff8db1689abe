------------------------- MODULE FatFileSystemProofs -------------------------
(***************************************************************************)
(* What the file system keeps, for every size of the volume, every number  *)
(* of files and all texts: chains end and, as long as the disk has room,   *)
(* no two files share a block and none is lost, however often the program  *)
(* is killed. A write that reports success is read back, and on a disk     *)
(* with room the program implements the map from names to contents.        *)
(*                                                                         *)
(* A chain is a least closed set, so that what is proved of it needs no    *)
(* induction but the one over numbers, stated as a fact about sets. A read *)
(* is a walk along the chain, which meets its blocks from the lowest up.   *)
(***************************************************************************)
EXTENDS MCFatFileSystem, FiniteSetTheorems, WellFoundedInduction, TLAPS

-----------------------------------------------------------------------------
(* Induction, as a fact about sets, and sets of blocks. *)

\* A set of natural numbers that is not empty has a least element.
LEMMA LeastNatural ==
  ASSUME NEW S \in SUBSET Nat, S # {}
  PROVE  \E m \in S : \A n \in S : m <= n
<1>. DEFINE R == {ss \in Nat \X Nat : ss[1] < ss[2]}
<1>1. IsWellFoundedOn(R, Nat)
  BY NatLessThanWellFounded DEF OpToRel
<1>2. PICK m \in S : \A n \in S : ~(<<n, m>> \in R)
  <2>. HIDE DEF R
  <2>. QED
    BY <1>1, WFMin
<1>3. \A n \in S : ~(n < m)
  BY <1>2
<1>. QED
  BY <1>3

\* A set with 1 and with the successor of each of its elements has all numbers.
LEMMA SetInduction ==
  ASSUME NEW S, 1 \in S, \A n \in Nat \ {0} : n \in S => n + 1 \in S
  PROVE  Nat \ {0} \subseteq S
<1>. DEFINE T == (Nat \ {0}) \ S
<1>1. SUFFICES ASSUME T # {} PROVE FALSE
  OBVIOUS
<1>2. PICK m \in T : \A n \in T : m <= n
  BY <1>1, LeastNatural
<1>3. m - 1 \in Nat \ {0} /\ m - 1 \notin T
  BY <1>2
<1>. QED
  BY <1>2, <1>3

LEMMA BlockNumbers ==
  /\ Block \subseteq Nat /\ NUM_BLKS \in Nat
  /\ \A b \in Block : b \in Nat /\ b \in Int /\ b < NUM_BLKS
  BY SizeAssumption DEF Block

\* What blk_find_free and the like find.
LEMMA LeastBlock ==
  ASSUME NEW S \in SUBSET Block, S # {}
  PROVE  Least(S) \in S /\ \A b \in S : Least(S) <= b
<1>1. S \subseteq Nat
  BY SizeAssumption DEF Block
<1>2. \E m \in S : \A n \in S : m <= n
  BY <1>1, LeastNatural
<1>. QED
  BY <1>2 DEF Least

LEMMA GreatestBlock ==
  ASSUME NEW S \in SUBSET Block, S # {}
  PROVE  \E m \in S : \A n \in S : n <= m
<1>. DEFINE D == {NUM_BLKS - n : n \in S}
<1>1. D \subseteq Nat /\ D # {}
  <2>1. \A n \in S : NUM_BLKS - n \in Nat
    BY BlockNumbers
  <2>. QED
    BY <2>1
<1>2. PICK d \in D : \A x \in D : d <= x
  BY <1>1, LeastNatural
<1>3. PICK m \in S : d = NUM_BLKS - m
  BY <1>2
<1>4. \A n \in S : NUM_BLKS - m <= NUM_BLKS - n
  BY <1>2, <1>3
<1>. QED
  BY <1>4, BlockNumbers

LEMMA BlocksFinite ==
  ASSUME NEW S \in SUBSET Block
  PROVE  /\ IsFiniteSet(S) /\ Cardinality(S) \in Nat /\ Cardinality(S) <= NUM_BLKS
<1>1. IsFiniteSet(Block) /\ Cardinality(Block) <= NUM_BLKS /\ Cardinality(Block) \in Nat
  <2>1. NUM_BLKS \in Nat /\ 0 \in Int /\ NUM_BLKS - 1 \in Int
    BY BlockNumbers
  <2>2. IsFiniteSet(0..NUM_BLKS - 1)
        /\ Cardinality(0..NUM_BLKS - 1) = IF 0 > NUM_BLKS - 1 THEN 0 ELSE NUM_BLKS - 1 - 0 + 1
    BY <2>1, FS_Interval
  <2>. QED
    BY <2>1, <2>2 DEF Block
<1>2. IsFiniteSet(S) /\ Cardinality(S) <= Cardinality(Block) /\ Cardinality(S) \in Nat
  BY <1>1, FS_Subset, FS_CardinalityType
<1>. QED
  BY <1>1, <1>2, SizeAssumption

-----------------------------------------------------------------------------
(* Chains. *)

Tables == [Block -> Block \cup {FAT_FREE, FAT_END}]

\* S leads nowhere out of S.
Closed(fat, S) == \A c \in S : fat[c] \in Block => fat[c] \in S

LEMMA MarksAreNoBlocks == FAT_FREE \notin Block /\ FAT_END \notin Block /\ FAT_FREE # FAT_END
  BY SizeAssumption DEF FAT_FREE, FAT_END, Block

LEMMA ChainClosed ==
  ASSUME NEW fat, NEW head \in Block
  PROVE  /\ Chain(fat, head) \subseteq Block /\ head \in Chain(fat, head)
         /\ Closed(fat, Chain(fat, head))
  BY DEF Chain, Closed

LEMMA ChainLeast ==
  ASSUME NEW fat, NEW head, NEW S \in SUBSET Block, head \in S, Closed(fat, S)
  PROVE  Chain(fat, head) \subseteq S
  BY DEF Chain, Closed

\* Two tables that agree on a chain have the same chain.
LEMMA ChainAgrees ==
  ASSUME NEW fat, NEW fat2, NEW head \in Block,
         \A b \in Chain(fat, head) : fat2[b] = fat[b]
  PROVE  Chain(fat2, head) = Chain(fat, head)
<1>1. Closed(fat2, Chain(fat, head))
  BY ChainClosed DEF Closed
<1>2. Chain(fat2, head) \subseteq Chain(fat, head)
  BY <1>1, ChainClosed, ChainLeast
<1>3. Closed(fat, Chain(fat2, head))
  BY <1>2, ChainClosed DEF Closed
<1>. QED
  BY <1>2, <1>3, ChainClosed, ChainLeast

\* A chain is its head and the chain of what comes after it.
LEMMA ChainUnfolds ==
  ASSUME NEW fat, NEW head \in Block
  PROVE  Chain(fat, head) = {head} \cup (IF fat[head] \in Block THEN Chain(fat, fat[head]) ELSE {})
<1>. DEFINE rest == IF fat[head] \in Block THEN Chain(fat, fat[head]) ELSE {}
<1>1. Closed(fat, {head} \cup rest) /\ {head} \cup rest \subseteq Block
  BY ChainClosed DEF Closed
<1>2. Chain(fat, head) \subseteq {head} \cup rest
  BY <1>1, ChainLeast
<1>3. rest \subseteq Chain(fat, head)
  BY ChainClosed, ChainLeast DEF Closed
<1>. QED
  BY <1>2, <1>3, ChainClosed

\* Every block of a chain has its own chain inside it.
LEMMA ChainInside ==
  ASSUME NEW fat, NEW head \in Block, NEW b \in Chain(fat, head)
  PROVE  Chain(fat, b) \subseteq Chain(fat, head)
  BY ChainClosed, ChainLeast

-----------------------------------------------------------------------------
(* The blocks a file is given, and the chain made of them. *)

\* The table once the blocks T have been linked in order.
Linked(fat, T) == [b \in Block |-> IF b \in T THEN Successor(T, b) ELSE fat[b]]

LEMMA SuccessorType ==
  ASSUME NEW T \in SUBSET Block, NEW b \in T
  PROVE  /\ Successor(T, b) \in T \cup {FAT_END}
         /\ Successor(T, b) \in Block => Successor(T, b) \in T /\ Successor(T, b) > b
         /\ \A c \in T : c > b => Successor(T, b) \in T /\ Successor(T, b) <= c
<1>. DEFINE S == {c \in T : c > b}
<1>1. CASE S = {}
  BY <1>1, MarksAreNoBlocks DEF Successor
<1>2. CASE S # {}
  <2>1. Least(S) \in S /\ \A c \in S : Least(S) <= c
    BY <1>2, LeastBlock
  <2>2. Successor(T, b) = Least(S)
    BY <1>2 DEF Successor
  <2>. QED
    BY <2>1, <2>2
<1>. QED
  BY <1>1, <1>2

LEMMA LinkedType ==
  ASSUME NEW fat \in Tables, NEW T \in SUBSET Block
  PROVE  Linked(fat, T) \in Tables
  BY SuccessorType DEF Linked, Tables

\* The chain from the first of the blocks linked is all of them.
LEMMA LinkedChain ==
  ASSUME NEW fat, NEW T \in SUBSET Block, T # {}
  PROVE  Chain(Linked(fat, T), Least(T)) = T
<1>. DEFINE link == Linked(fat, T)
            chain == Chain(link, Least(T))
<1>1. Least(T) \in T /\ \A b \in T : Least(T) <= b
  BY LeastBlock
<1>2. \A b \in T : link[b] = Successor(T, b)
  BY DEF Linked
<1>. HIDE DEF link
<1>3. Closed(link, T)
  BY <1>2, SuccessorType DEF Closed
<1>4. chain \subseteq T
  BY <1>1, <1>3, ChainLeast
<1>5. ASSUME T \ chain # {} PROVE FALSE
  <2>1. PICK m \in T \ chain : \A n \in T \ chain : m <= n
    <3>1. T \ chain \in SUBSET Nat
      BY BlockNumbers
    <3>. QED
      BY <1>5, <3>1, LeastNatural
  <2>2. Least(T) \in chain /\ Closed(link, chain)
    BY <1>1, ChainClosed
  <2>. DEFINE before == {c \in T : c < m}
  <2>3. Least(T) \in before
    <3>1. Least(T) # m /\ Least(T) <= m /\ Least(T) \in Nat /\ m \in Nat
      BY <1>1, <2>1, <2>2, BlockNumbers
    <3>. QED
      BY <1>1, <3>1
  <2>4. PICK p \in before : \A c \in before : c <= p
    BY <2>3, GreatestBlock
  <2>5. p \in chain
    BY <2>1, <2>4, BlockNumbers
  <2>6. Successor(T, p) \in T /\ Successor(T, p) <= m /\ Successor(T, p) > p
    BY <2>1, <2>4, SuccessorType
  <2>7. Successor(T, p) = m
    <3>1. Successor(T, p) \in Nat /\ m \in Nat /\ p \in Nat
      BY <2>1, <2>4, <2>6, BlockNumbers
    <3>2. ~(Successor(T, p) < m)
      <4>1. Successor(T, p) < m => Successor(T, p) \in before
        BY <2>6
      <4>2. Successor(T, p) \in before => Successor(T, p) <= p
        BY <2>4
      <4>. QED
        BY <2>6, <3>1, <4>1, <4>2
    <3>. QED
      BY <2>6, <3>1, <3>2
  <2>. QED
    BY <1>2, <2>1, <2>2, <2>4, <2>5, <2>7 DEF Closed
<1>. QED
  BY <1>4, <1>5 DEF link

\* Another chain does not notice the blocks linked, if it has none of them.
LEMMA LinkedElsewhere ==
  ASSUME NEW fat, NEW T \in SUBSET Block, NEW head \in Block, Chain(fat, head) \cap T = {}
  PROVE  Chain(Linked(fat, T), head) = Chain(fat, head)
<1>1. \A b \in Chain(fat, head) : Linked(fat, T)[b] = fat[b]
  BY ChainClosed DEF Linked
<1>. QED
  BY <1>1, ChainAgrees

\* No chain leads back to itself.
Ends(fat) == \A b \in Block : fat[b] \in Block => b \notin Chain(fat, fat[b])

\* Blocks are linked upwards, and what led to them before came from outside.
LEMMA LinkedEnds ==
  ASSUME NEW fat, Ends(fat), NEW T \in SUBSET Block
  PROVE  Ends(Linked(fat, T))
<1>. DEFINE link == Linked(fat, T)
<1>1. \A b \in Block : link[b] = IF b \in T THEN Successor(T, b) ELSE fat[b]
  BY DEF Linked
<1>. HIDE DEF link
<1>2. ASSUME NEW b \in Block, link[b] \in Block PROVE b \notin Chain(link, link[b])
  <2>1. CASE b \in T
    <3>. DEFINE above == {c \in T : c > b}
    <3>1. link[b] \in above
      BY <1>1, <1>2, <2>1, SuccessorType
    <3>2. ASSUME NEW c \in above, link[c] \in Block PROVE link[c] \in above
      <4>1. link[c] \in T /\ link[c] > c /\ c > b
        BY <1>1, <3>2, SuccessorType
      <4>2. link[c] \in Nat /\ c \in Nat /\ b \in Nat
        BY <1>2, <3>2, <4>1, BlockNumbers
      <4>. QED
        BY <4>1, <4>2
    <3>3. Chain(link, link[b]) \subseteq above
      BY <3>1, <3>2, ChainLeast DEF Closed
    <3>. QED
      BY <1>2, <3>3, BlockNumbers
  <2>2. CASE b \notin T
    <3>. DEFINE S == Chain(fat, fat[b]) \cup T
    <3>1. link[b] = fat[b] /\ fat[b] \in Block
      BY <1>1, <1>2, <2>2
    <3>2. b \notin S /\ link[b] \in S /\ S \subseteq Block
      BY <2>2, <3>1, ChainClosed DEF Ends
    <3>3. Closed(link, S)
      BY <1>1, <3>1, ChainClosed, SuccessorType DEF Closed
    <3>4. Chain(link, link[b]) \subseteq S
      BY <3>2, <3>3, ChainLeast
    <3>. QED
      BY <3>2, <3>4
  <2>. QED
    BY <2>1, <2>2
<1>. QED
  BY <1>2 DEF Ends, link

-----------------------------------------------------------------------------
(* chain_free. *)

LEMMA FreedType ==
  ASSUME NEW fat \in Tables, NEW head
  PROVE  /\ chain_free(fat, head) \in Tables
         /\ \A b \in Block : chain_free(fat, head)[b] =
               IF b \in Chain(fat, head) THEN FAT_FREE ELSE fat[b]
  BY DEF chain_free, Tables

LEMMA FreedBlocks ==
  ASSUME NEW fat \in Tables, NEW head \in Block
  PROVE  Free(chain_free(fat, head)) = Free(fat) \cup Chain(fat, head)
  BY FreedType, ChainClosed DEF Free

LEMMA FreedEnds ==
  ASSUME NEW fat \in Tables, Ends(fat), NEW head
  PROVE  Ends(chain_free(fat, head))
<1>. DEFINE freed == chain_free(fat, head)
<1>1. \A b \in Block : freed[b] = FAT_FREE \/ freed[b] = fat[b]
  BY FreedType
<1>. HIDE DEF freed
<1>2. ASSUME NEW b \in Block, freed[b] \in Block PROVE b \notin Chain(freed, freed[b])
  <2>1. freed[b] = fat[b] /\ fat[b] \in Block
    BY <1>1, <1>2, MarksAreNoBlocks
  <2>2. Closed(freed, Chain(fat, fat[b]))
    BY <1>1, <2>1, ChainClosed, MarksAreNoBlocks DEF Closed
  <2>3. Chain(freed, freed[b]) \subseteq Chain(fat, fat[b])
    BY <2>1, <2>2, ChainClosed, ChainLeast
  <2>. QED
    BY <2>1, <2>3 DEF Ends
<1>. QED
  BY <1>2 DEF Ends, freed

\* Another chain does not notice.
LEMMA FreedElsewhere ==
  ASSUME NEW fat \in Tables, NEW head, NEW other \in Block,
         Chain(fat, head) \cap Chain(fat, other) = {}
  PROVE  Chain(chain_free(fat, head), other) = Chain(fat, other)
<1>1. \A b \in Chain(fat, other) : chain_free(fat, head)[b] = fat[b]
  BY FreedType, ChainClosed
<1>. QED
  BY <1>1, ChainAgrees

-----------------------------------------------------------------------------
(* The first blocks of a set. *)

Below(S, b) == {c \in S : c < b}

LEMMA BelowCounted ==
  ASSUME NEW S \in SUBSET Block, NEW b \in S
  PROVE  /\ IsFiniteSet(Below(S, b)) /\ Cardinality(Below(S, b)) \in Nat
         /\ b \notin Below(S, b)
         /\ \A c \in S : c < b => Below(S, c) \cup {c} \subseteq Below(S, b)
         /\ \A c \in S : ~(b < c) => Below(S, c) \subseteq Below(S, b)
<1>1. Below(S, b) \in SUBSET Block
  BY DEF Below
<1>2. \A c \in S : c \in Nat
  BY BlockNumbers
<1>3. b \notin Below(S, b)
  BY <1>2 DEF Below
<1>4. ASSUME NEW c \in S, c < b PROVE Below(S, c) \cup {c} \subseteq Below(S, b)
  BY <1>2, <1>4 DEF Below
<1>5. ASSUME NEW c \in S, ~(b < c) PROVE Below(S, c) \subseteq Below(S, b)
  BY <1>2, <1>5 DEF Below
<1>. QED
  BY <1>1, <1>3, <1>4, <1>5, BlocksFinite

LEMMA LowestDefined ==
  ASSUME NEW S, NEW n PROVE Lowest(S, n) = {b \in S : Cardinality(Below(S, b)) < n}
  BY DEF Lowest, Below

LEMMA LowestCounted ==
  ASSUME NEW S \in SUBSET Block, NEW n \in Nat \ {0}, n <= Cardinality(S)
  PROVE  Cardinality(Lowest(S, n)) = n
<1>. DEFINE below(b) == Below(S, b)
            card(k) == Cardinality(Lowest(S, k))
            I == {k \in Nat \ {0} : k <= Cardinality(S) => card(k) = k}
<1>1. \A b \in S : IsFiniteSet(below(b)) /\ Cardinality(below(b)) \in Nat
  BY BelowCounted
<1>2. \A k : Lowest(S, k) = {b \in S : Cardinality(below(b)) < k}
  BY LowestDefined
<1>3. Cardinality(S) \in Nat /\ IsFiniteSet(S)
  BY BlocksFinite
<1>4. ASSUME NEW k \in Nat, k + 1 <= Cardinality(S), card(k) = k
      PROVE  card(k + 1) = k + 1
  <2>1. Lowest(S, k) \subseteq S /\ S \ Lowest(S, k) # {}
    <3>1. Lowest(S, k) # S
      BY <1>3, <1>4
    <3>. QED
      BY <1>2, <3>1
  <2>2. PICK m \in S \ Lowest(S, k) : \A n_1 \in S \ Lowest(S, k) : m <= n_1
    <3>1. S \ Lowest(S, k) \in SUBSET Nat
      BY BlockNumbers
    <3>. QED
      BY <2>1, <3>1, LeastNatural
  <2>3. below(m) = Lowest(S, k)
    <3>1. ASSUME NEW c \in below(m) PROVE c \in Lowest(S, k)
      <4>1. ~(m <= c)
        BY <2>2, BlockNumbers DEF Below
      <4>2. c \in S
        BY DEF Below
      <4>. QED
        BY <2>2, <4>1, <4>2
    <3>2. ASSUME NEW c \in Lowest(S, k) PROVE c \in below(m)
      <4>1. SUFFICES ASSUME ~(c < m) PROVE FALSE
        BY <2>1 DEF Below
      <4>2. below(m) \subseteq below(c)
        BY <2>1, <2>2, <4>1, BelowCounted
      <4>3. Cardinality(below(m)) <= Cardinality(below(c))
        BY <1>1, <2>1, <4>2, FS_Subset
      <4>4. Cardinality(below(c)) < k /\ ~(Cardinality(below(m)) < k)
        BY <1>2, <2>2
      <4>. QED
        BY <1>1, <2>1, <2>2, <4>3, <4>4
    <3>. QED
      BY <3>1, <3>2
  <2>4. Cardinality(below(m)) = k
    BY <1>4, <2>3
  <2>5. Lowest(S, k + 1) = Lowest(S, k) \cup {m}
    <3>1. Lowest(S, k) \cup {m} \subseteq Lowest(S, k + 1)
      <4>1. \A b \in S : Cardinality(below(b)) < k => Cardinality(below(b)) < k + 1
        BY <1>1
      <4>2. Cardinality(below(m)) < k + 1
        BY <2>4
      <4>3. m \in S
        BY <2>2
      <4>. HIDE DEF below
      <4>. QED
        BY <1>2, <4>1, <4>2, <4>3
    <3>2. ASSUME NEW b \in Lowest(S, k + 1), b \notin Lowest(S, k), b # m PROVE FALSE
      <4>1. b \in S /\ Cardinality(below(b)) < k + 1 /\ Cardinality(below(b)) \in Nat
        BY <1>1, <1>2
      <4>2. b > m
        <5>1. m <= b
          BY <2>2, <3>2, <4>1
        <5>. QED
          BY <2>2, <3>2, <4>1, <5>1, BlockNumbers
      <4>3. below(m) \cup {m} \subseteq below(b)
        BY <2>2, <4>1, <4>2, BelowCounted
      <4>4. Cardinality(below(m) \cup {m}) = k + 1
        BY <1>1, <2>2, <2>4, FS_AddElement, BelowCounted
      <4>5. Cardinality(below(m) \cup {m}) <= Cardinality(below(b))
        BY <1>1, <4>1, <4>3, FS_Subset
      <4>. QED
        BY <4>1, <4>4, <4>5
    <3>. QED
      BY <3>1, <3>2
  <2>6. m \notin Lowest(S, k) /\ IsFiniteSet(Lowest(S, k))
    BY <1>3, <2>1, <2>2, FS_Subset
  <2>. QED
    BY <1>4, <2>5, <2>6, FS_AddElement
<1>5. card(0) = 0
  <2>1. Lowest(S, 0) = {}
    <3>1. \A b \in S : ~(Cardinality(below(b)) < 0)
      BY <1>1
    <3>. HIDE DEF below
    <3>. QED
      BY <1>2, <3>1
  <2>. QED
    BY <2>1, FS_EmptySet
<1>. HIDE DEF card
<1>6. 1 \in I
  BY <1>4, <1>5
<1>7. \A k \in Nat \ {0} : k \in I => k + 1 \in I
  BY <1>3, <1>4
<1>8. Nat \ {0} \subseteq I
  BY <1>6, <1>7, SetInduction
<1>. QED
  BY <1>8 DEF card

LEMMA LowestNotEmpty ==
  ASSUME NEW S \in SUBSET Block, S # {}, NEW n \in Nat \ {0}
  PROVE  Lowest(S, n) # {} /\ Lowest(S, n) \subseteq S
<1>1. Least(S) \in S /\ \A b \in S : Least(S) <= b
  BY LeastBlock
<1>2. Below(S, Least(S)) = {}
  <2>1. ASSUME NEW c \in S PROVE ~(c < Least(S))
    <3>1. c \in Nat /\ Least(S) \in Nat /\ Least(S) <= c
      BY <1>1, BlockNumbers
    <3>. QED
      BY <3>1
  <2>. QED
    BY <2>1 DEF Below
<1>3. Cardinality(Below(S, Least(S))) < n
  BY <1>2, FS_EmptySet
<1>. QED
  BY <1>1, <1>3, LowestDefined

\* The place of a block among those it was given with.
LEMMA RankType ==
  ASSUME NEW T \in SUBSET Block, NEW b \in T
  PROVE  Rank(T, b) \in 1..NUM_BLKS
<1>. DEFINE below == {c \in T : c <= b}
<1>1. Cardinality(below) \in Nat /\ Cardinality(below) <= NUM_BLKS /\ IsFiniteSet(below)
  BY BlocksFinite
<1>2. b \in below
  BY BlockNumbers
<1>3. Cardinality(below) # 0
  BY <1>1, <1>2, FS_EmptySet
<1>. QED
  BY <1>1, <1>3, BlockNumbers DEF Rank

-----------------------------------------------------------------------------
(* The number of blocks of a text. *)

LEMMA Multiples ==
  ASSUME NEW a \in Int, NEW b \in Int
  PROVE  /\ a <= b => a * BLK_SZ <= b * BLK_SZ
         /\ a < b => a * BLK_SZ + BLK_SZ <= b * BLK_SZ
         /\ (a + 1) * BLK_SZ = a * BLK_SZ + BLK_SZ /\ (a - 1) * BLK_SZ = a * BLK_SZ - BLK_SZ
<1>1. ASSUME NEW c \in Int PROVE (c + 1) * BLK_SZ = c * BLK_SZ + BLK_SZ /\ c * BLK_SZ \in Int
  BY SizeAssumption
<1>2. ASSUME NEW c \in Int, NEW d \in Nat
      PROVE  (c + d) * BLK_SZ = c * BLK_SZ + d * BLK_SZ /\ d * BLK_SZ >= 0
  BY SizeAssumption
<1>3. a < b => b = (a + 1) + (b - a - 1) /\ b - a - 1 \in Nat
  OBVIOUS
<1>4. a <= b => b = a + (b - a) /\ b - a \in Nat
  OBVIOUS
<1>. QED
  BY <1>1, <1>2, <1>3, <1>4, SizeAssumption

LEMMA BlocksForMeets ==
  ASSUME NEW len \in Nat
  PROVE  /\ BlocksFor(len) \in Nat
         /\ BlocksFor(len) = 0 <=> len = 0
         /\ \A k \in Nat \ {0} : k <= BlocksFor(len) <=> (k - 1) * BLK_SZ < len
<1>1. BLK_SZ \in Nat /\ BLK_SZ > 0
  BY SizeAssumption
<1>2. PICK q, r : /\ q = BlocksFor(len) /\ q \in Int /\ r \in 0..BLK_SZ - 1
                  /\ len + BLK_SZ - 1 = q * BLK_SZ + r
  <2>1. len + BLK_SZ - 1 \in Nat
    BY <1>1
  <2>. DEFINE q == (len + BLK_SZ - 1) \div BLK_SZ
              r == (len + BLK_SZ - 1) % BLK_SZ
  <2>2. q \in Int /\ len + BLK_SZ - 1 = BLK_SZ * q + r /\ r \in 0..BLK_SZ - 1
    BY <1>1, <2>1
  <2>3. q = BlocksFor(len)
    BY DEF BlocksFor
  <2>4. BLK_SZ * q = q * BLK_SZ
    BY <1>1, <2>2
  <2>. HIDE DEF q, r
  <2>. QED
    BY <2>2, <2>3, <2>4
<1>3. q * BLK_SZ \in Int /\ len = q * BLK_SZ + r - BLK_SZ + 1
  BY <1>1, <1>2
<1>4. q >= 0
  <2>1. 0 \in Int /\ 0 * BLK_SZ = 0
    BY <1>1
  <2>2. q < 0 => q * BLK_SZ + BLK_SZ <= 0 * BLK_SZ
    BY <1>2, <2>1, Multiples
  <2>. QED
    BY <1>1, <1>2, <1>3, <2>1, <2>2
<1>5. ASSUME NEW k \in Nat \ {0} PROVE k <= q <=> (k - 1) * BLK_SZ < len
  <2>1. (k - 1) * BLK_SZ \in Int /\ (k - 1) * BLK_SZ = k * BLK_SZ - BLK_SZ /\ k * BLK_SZ \in Int
    BY <1>1, Multiples
  <2>2. CASE k <= q
    <3>1. k * BLK_SZ <= q * BLK_SZ
      BY <1>2, <2>2, Multiples
    <3>. QED
      BY <1>1, <1>2, <1>3, <2>1, <2>2, <3>1
  <2>3. CASE q < k
    <3>1. q * BLK_SZ + BLK_SZ <= k * BLK_SZ
      BY <1>2, <2>3, Multiples
    <3>2. q * BLK_SZ <= (k - 1) * BLK_SZ
      BY <1>1, <1>3, <2>1, <3>1
    <3>. QED
      BY <1>1, <1>2, <1>3, <2>1, <2>3, <3>2
  <2>. QED
    BY <1>2, <2>2, <2>3
<1>6. q = 0 <=> len = 0
  <2>1. 0 * BLK_SZ = 0
    BY <1>1
  <2>2. 1 <= q <=> 0 < len
    BY <1>5, <2>1
  <2>. QED
    BY <1>2, <1>4, <2>2
<1>. QED
  BY <1>2, <1>4, <1>5, <1>6

-----------------------------------------------------------------------------
(* Volumes whose blocks all belong to one file. *)

Entries == [used : BOOLEAN, name : Name \cup {""}, size : Nat, head : Block \cup {0}]
Directories == [Slot -> Entries]

UsedIn(dir) == {s \in Slot : dir[s].used}

\* The blocks a file of that size has: an empty one keeps the block it began with.
Needed(size) == IF BlocksFor(size) = 0 THEN 1 ELSE BlocksFor(size)

Disjoint(dir, fat) ==
    \A s \in UsedIn(dir) : \A t \in UsedIn(dir) \ {s} :
        /\ dir[s].name # dir[t].name
        /\ Chain(fat, dir[s].head) \cap Chain(fat, dir[t].head) = {}

Accounted(dir, fat) ==
    /\ Block \ Free(fat) = UNION {Chain(fat, dir[s].head) : s \in UsedIn(dir)}
    /\ \A s \in UsedIn(dir) : Cardinality(Chain(fat, dir[s].head)) = Needed(dir[s].size)

Tidy(dir, fat) == Disjoint(dir, fat) /\ Accounted(dir, fat)

\* The files in the directory have a first block.
Heads(dir) == \A s \in UsedIn(dir) : dir[s].head \in Block

\* The directory with another entry in the place s.
Placed(dir, s, entry) == [dir EXCEPT ![s] = entry]

\* A file taken off the directory, its chain freed.
LEMMA TidyRemoved ==
  ASSUME NEW dir \in Directories, NEW fat \in Tables, Heads(dir), Tidy(dir, fat),
         NEW s \in UsedIn(dir)
  PROVE  /\ Tidy(Placed(dir, s, Unused), chain_free(fat, dir[s].head))
         /\ UsedIn(Placed(dir, s, Unused)) = UsedIn(dir) \ {s}
<1>. DEFINE dir2 == Placed(dir, s, Unused)
            freed == chain_free(fat, dir[s].head)
<1>1. /\ s \in Slot /\ UsedIn(dir) \subseteq Slot
      /\ \A t \in Slot \ {s} : dir2[t] = dir[t]
      /\ ~dir2[s].used
  BY DEF UsedIn, Directories, Unused, Placed
<1>2. UsedIn(dir2) = UsedIn(dir) \ {s}
  BY <1>1 DEF UsedIn
<1>3. \A t \in UsedIn(dir2) : t \in UsedIn(dir) /\ t # s /\ dir2[t] = dir[t]
  BY <1>1, <1>2
<1>. HIDE DEF dir2
<1>4. ASSUME NEW t \in UsedIn(dir2)
      PROVE  Chain(freed, dir2[t].head) = Chain(fat, dir[t].head)
  BY <1>3, FreedElsewhere DEF Tidy, Disjoint, Heads
<1>5. Free(freed) = Free(fat) \cup Chain(fat, dir[s].head)
  BY FreedBlocks DEF Heads
<1>. HIDE DEF freed
<1>6. Disjoint(dir2, freed)
  BY <1>3, <1>4 DEF Tidy, Disjoint
<1>7. Block \ Free(freed) = UNION {Chain(freed, dir2[t].head) : t \in UsedIn(dir2)}
  <2>1. ASSUME NEW b \in Block \ Free(freed)
        PROVE  \E t \in UsedIn(dir2) : b \in Chain(freed, dir2[t].head)
    <3>1. b \notin Free(fat) /\ b \notin Chain(fat, dir[s].head)
      BY <1>5, <2>1
    <3>2. PICK t \in UsedIn(dir) : b \in Chain(fat, dir[t].head)
      BY <3>1 DEF Tidy, Accounted
    <3>. QED
      BY <1>2, <1>4, <3>1, <3>2
  <2>2. ASSUME NEW t \in UsedIn(dir2), NEW b \in Chain(freed, dir2[t].head)
        PROVE  b \in Block \ Free(freed)
    <3>1. b \in Chain(fat, dir[t].head) /\ b \notin Chain(fat, dir[s].head)
      BY <1>3, <1>4, <2>2 DEF Tidy, Disjoint
    <3>2. b \in Block \ Free(fat)
      BY <1>3, <2>2, <3>1 DEF Tidy, Accounted
    <3>. QED
      BY <1>5, <3>1, <3>2
  <2>. QED
    BY <2>1, <2>2
<1>8. \A t \in UsedIn(dir2) : Cardinality(Chain(freed, dir2[t].head)) = Needed(dir2[t].size)
  BY <1>3, <1>4 DEF Tidy, Accounted
<1>. QED
  BY <1>2, <1>6, <1>7, <1>8 DEF Tidy, Accounted, dir2, freed

\* A file put on the directory, with free blocks of its own.
LEMMA TidyPlaced ==
  ASSUME NEW dir \in Directories, NEW fat \in Tables, Heads(dir), Tidy(dir, fat),
         NEW s \in Slot \ UsedIn(dir), NEW entry \in Entries,
         NEW T \in SUBSET Free(fat), T # {},
         entry.used, entry.head = Least(T), Cardinality(T) = Needed(entry.size),
         \A t \in UsedIn(dir) : dir[t].name # entry.name
  PROVE  Tidy(Placed(dir, s, entry), Linked(fat, T))
<1>. DEFINE dir2 == Placed(dir, s, entry)
            link == Linked(fat, T)
<1>1. /\ \A t \in Slot \ {s} : dir2[t] = dir[t]
      /\ dir2[s] = entry
  BY DEF Directories, Placed
<1>2. UsedIn(dir2) = UsedIn(dir) \cup {s}
  BY <1>1 DEF UsedIn
<1>3. \A t \in UsedIn(dir) : t # s /\ dir2[t] = dir[t] /\ dir[t].head \in Block
  BY <1>1 DEF UsedIn, Heads
<1>. HIDE DEF dir2
<1>4. T \subseteq Block /\ Free(fat) \subseteq Block
  BY DEF Free
<1>5. \A t \in UsedIn(dir) : Chain(fat, dir[t].head) \subseteq Block \ Free(fat)
  BY DEF Tidy, Accounted
<1>6. \A t \in UsedIn(dir) : Chain(link, dir2[t].head) = Chain(fat, dir[t].head)
  BY <1>3, <1>4, <1>5, LinkedElsewhere
<1>7. Chain(link, dir2[s].head) = T
  BY <1>1, <1>4, LinkedChain
<1>8. Block \ Free(link) = (Block \ Free(fat)) \cup T
  <2>1. \A b \in T : Successor(T, b) # FAT_FREE
    BY <1>4, SuccessorType, MarksAreNoBlocks
  <2>. QED
    BY <1>4, <2>1 DEF Free, Linked
<1>. HIDE DEF link
<1>9. Disjoint(dir2, link)
  <2>1. ASSUME NEW t \in UsedIn(dir2), NEW u \in UsedIn(dir2) \ {t}
        PROVE  /\ dir2[t].name # dir2[u].name
               /\ Chain(link, dir2[t].head) \cap Chain(link, dir2[u].head) = {}
    <3>1. CASE t = s
      BY <1>1, <1>2, <1>3, <1>5, <1>6, <1>7, <3>1
    <3>2. CASE u = s
      BY <1>1, <1>2, <1>3, <1>5, <1>6, <1>7, <3>2
    <3>3. CASE t # s /\ u # s
      BY <1>2, <1>3, <1>6, <3>3 DEF Tidy, Disjoint
    <3>. QED
      BY <3>1, <3>2, <3>3
  <2>. QED
    BY <2>1 DEF Disjoint
<1>10. Block \ Free(link) = UNION {Chain(link, dir2[t].head) : t \in UsedIn(dir2)}
  <2>1. UNION {Chain(link, dir2[t].head) : t \in UsedIn(dir2)}
        = T \cup UNION {Chain(fat, dir[t].head) : t \in UsedIn(dir)}
    BY <1>2, <1>6, <1>7
  <2>. QED
    BY <1>8, <2>1 DEF Tidy, Accounted
<1>11. \A t \in UsedIn(dir2) : Cardinality(Chain(link, dir2[t].head)) = Needed(dir2[t].size)
  BY <1>1, <1>2, <1>3, <1>6, <1>7 DEF Tidy, Accounted
<1>. QED
  BY <1>9, <1>10, <1>11 DEF Tidy, Accounted, dir2, link

-----------------------------------------------------------------------------
(* The inductive invariant: what holds of the volume in memory and of the    *)
(* one last written, in every state of a process.                            *)

Sound(v, room) ==
    /\ v \in Volumes
    /\ Heads(v.dir)
    /\ Ends(v.fat)
    /\ room => Tidy(v.dir, v.fat)

IInv ==
    /\ pc \in {"idle", "loaded", "done", "saving"}
    /\ complete \in BOOLEAN
    /\ Sound(Volume, roomy)
    /\ Sound(image, roomy)

\* What a block can hold.
Parts == {Zero} \cup {Chunk(c, i) : c \in Content, i \in 1..NUM_BLKS}
Storage == [Block -> Parts]

LEMMA VolumesDefined == Volumes = [dir : Directories, fat : Tables, data : Storage]
  BY DEF Volumes, Directories, Entries, Tables, Storage, Parts

LEMMA VolumeParts ==
  ASSUME NEW v \in Volumes
  PROVE  v.dir \in Directories /\ v.fat \in Tables /\ v.data \in Storage
  BY VolumesDefined

\* The blocks that a text of that length is written to.
LEMMA WritableBlocks ==
  ASSUME NEW S \in SUBSET Block, S # {}, NEW len \in Nat, Cardinality(S) >= BlocksFor(len)
  PROVE  LET T == Lowest(S, IF BlocksFor(len) = 0 THEN 1 ELSE BlocksFor(len))
         IN  T # {} /\ T \subseteq S /\ Cardinality(T) = Needed(len) /\ Least(T) \in T
<1>1. BlocksFor(len) \in Nat /\ Needed(len) \in Nat \ {0}
  BY BlocksForMeets DEF Needed
<1>2. Needed(len) <= Cardinality(S)
  <2>1. Cardinality(S) \in Nat /\ Cardinality(S) # 0
    BY BlocksFinite, FS_EmptySet
  <2>. QED
    BY <1>1, <2>1 DEF Needed
<1>3. Cardinality(Lowest(S, Needed(len))) = Needed(len)
  BY <1>1, <1>2, LowestCounted
<1>4. Lowest(S, Needed(len)) # {} /\ Lowest(S, Needed(len)) \subseteq S
  BY <1>1, LowestNotEmpty
<1>5. Least(Lowest(S, Needed(len))) \in Lowest(S, Needed(len))
  BY <1>4, LeastBlock
<1>. QED
  BY <1>3, <1>4, <1>5 DEF Needed

LEMMA FormattedSound == ASSUME NEW room PROVE Sound(Formatted, room)
<1>1. Formatted \in Volumes
  BY DEF Formatted, Volumes, Unused
<1>2. UsedIn(Formatted.dir) = {} /\ \A b \in Block : Formatted.fat[b] = FAT_FREE
  BY DEF Formatted, UsedIn, Unused
<1>3. Heads(Formatted.dir) /\ Ends(Formatted.fat)
  BY <1>2, MarksAreNoBlocks DEF Heads, Ends
<1>4. Tidy(Formatted.dir, Formatted.fat)
  BY <1>2 DEF Tidy, Disjoint, Accounted, Free
<1>. QED
  BY <1>1, <1>3, <1>4 DEF Sound

LEMMA DataType ==
  ASSUME NEW x \in Storage, NEW T \in SUBSET Block, NEW c \in Content
  PROVE  [b \in Block |-> IF b \in T THEN Chunk(c, Rank(T, b)) ELSE x[b]] \in Storage
  BY RankType DEF Storage, Parts

-----------------------------------------------------------------------------
(* The commands keep a volume sound. *)

\* The volume a command leaves in memory.
Volume2 == [dir |-> g_dir', fat |-> g_fat', data |-> g_data']

LEMMA Volume2Sound ==
  ASSUME g_dir' \in Directories, g_fat' \in Tables, g_data' \in Storage,
         Heads(g_dir'), Ends(g_fat'), roomy => Tidy(g_dir', g_fat')
  PROVE  Sound(Volume2, roomy)
<1>1. Volume2 \in Volumes
  BY VolumesDefined DEF Volume2
<1>2. Volume2.dir = g_dir' /\ Volume2.fat = g_fat'
  BY DEF Volume2
<1>. QED
  BY <1>1, <1>2 DEF Sound

LEMMA MemoryParts ==
  ASSUME Sound(Volume, roomy)
  PROVE  /\ g_dir \in Directories /\ g_fat \in Tables /\ g_data \in Storage
         /\ Heads(g_dir) /\ Ends(g_fat) /\ (roomy => Tidy(g_dir, g_fat))
  BY VolumeParts DEF Sound, Volume

LEMMA FoundSlots ==
  ASSUME NEW name, NEW s \in dir_find_by_name(name)
  PROVE  s \in UsedIn(g_dir) /\ g_dir[s].name = name /\ s \in Slot
  BY DEF dir_find_by_name, UsedIn

LEMMA FreeSlot ==
  ASSUME UnusedSlots # {}
  PROVE  dir_find_free \in Slot \ UsedIn(g_dir)
<1>1. UnusedSlots \subseteq Nat
  BY SizeAssumption DEF UnusedSlots, Slot
<1>2. \E m \in UnusedSlots : \A n \in UnusedSlots : m <= n
  BY <1>1, LeastNatural
<1>3. Least(UnusedSlots) \in UnusedSlots
  BY <1>2 DEF Least
<1>. QED
  BY <1>3 DEF dir_find_free, UnusedSlots, UsedIn

\* One block for a file just created.
LEMMA OneBlock ==
  ASSUME NEW fat \in Tables, NEW b \in Block
  PROVE  /\ [fat EXCEPT ![b] = FAT_END] = Linked(fat, {b})
         /\ Least({b}) = b /\ Cardinality({b}) = Needed(0)
<1>1. b \in Nat /\ {c \in {b} : c > b} = {}
  BY BlockNumbers
<1>2. Successor({b}, b) = FAT_END
  BY <1>1 DEF Successor
<1>3. [fat EXCEPT ![b] = FAT_END] = Linked(fat, {b})
  BY <1>2 DEF Linked, Tables
<1>4. Least({b}) = b
  BY LeastBlock
<1>5. Needed(0) = 1
  BY BlocksForMeets DEF Needed
<1>. QED
  BY <1>3, <1>4, <1>5, FS_Singleton

LEMMA CreateSound ==
  ASSUME Sound(Volume, roomy), NEW name \in Name, cmd_create(name)
  PROVE  Sound(Volume2, roomy)
<1>. DEFINE b == blk_find_free(g_fat)
            s == dir_find_free
            entry == [used |-> TRUE, name |-> name, size |-> 0, head |-> b]
<1>1. /\ g_dir \in Directories /\ g_fat \in Tables /\ g_data \in Storage
      /\ Heads(g_dir) /\ Ends(g_fat) /\ (roomy => Tidy(g_dir, g_fat))
  BY MemoryParts
<1>2. b \in Free(g_fat) /\ b \in Block
  <2>1. Free(g_fat) \in SUBSET Block /\ Free(g_fat) # {}
    BY DEF cmd_create, Free
  <2>. QED
    BY <2>1, LeastBlock DEF blk_find_free
<1>3. s \in Slot \ UsedIn(g_dir)
  BY FreeSlot DEF cmd_create
<1>4. /\ g_dir' = [g_dir EXCEPT ![s] = entry]
      /\ g_fat' = [g_fat EXCEPT ![b] = FAT_END]
      /\ g_data' = [g_data EXCEPT ![b] = Zero]
  BY DEF cmd_create
<1>5. \A t \in UsedIn(g_dir) : g_dir[t].name # name
  BY DEF cmd_create, dir_find_by_name, UsedIn
<1>. HIDE DEF b, s
<1>6. entry \in Entries
  BY <1>2 DEF Entries
<1>7. g_fat' = Linked(g_fat, {b}) /\ Least({b}) = b /\ Cardinality({b}) = Needed(0)
  BY <1>1, <1>2, <1>4, OneBlock
<1>8. g_dir' \in Directories /\ Heads(g_dir')
  BY <1>1, <1>2, <1>3, <1>4, <1>6 DEF Directories, Heads, UsedIn
<1>9. g_fat' \in Tables /\ Ends(g_fat')
  BY <1>1, <1>2, <1>7, LinkedType, LinkedEnds
<1>10. g_data' \in Storage
  <2>1. Zero \in Parts
    BY DEF Parts
  <2>. QED
    BY <1>1, <1>4, <2>1 DEF Storage
<1>11. roomy => Tidy(g_dir', g_fat')
  <2>1. entry.used /\ entry.head = Least({b}) /\ Cardinality({b}) = Needed(entry.size)
        /\ \A t \in UsedIn(g_dir) : g_dir[t].name # entry.name
    BY <1>5, <1>7
  <2>2. {b} \in SUBSET Free(g_fat) /\ {b} # {}
    BY <1>2
  <2>3. g_dir' = Placed(g_dir, s, entry)
    BY <1>4 DEF Placed
  <2>. HIDE DEF entry
  <2>. QED
    BY <1>1, <1>3, <1>6, <1>7, <2>1, <2>2, <2>3, TidyPlaced
<1>. QED
  BY <1>8, <1>9, <1>10, <1>11, Volume2Sound

\* A file with other contents: its entry off the directory and on again.
Rewritten(entry, size, head) == [entry EXCEPT !.size = size, !.head = head]
Resized(dir, s, size, head) == [dir EXCEPT ![s].size = size, ![s].head = head]

LEMMA EntryRewritten ==
  ASSUME NEW dir \in Directories, NEW s \in UsedIn(dir), NEW size \in Nat, NEW head \in Block,
         NEW entry, entry = Rewritten(dir[s], size, head)
  PROVE  /\ entry \in Entries /\ entry.used /\ entry.name = dir[s].name
         /\ entry.size = size /\ entry.head = head
         /\ Resized(dir, s, size, head) = Placed(Placed(dir, s, Unused), s, entry)
         /\ Placed(Placed(dir, s, Unused), s, entry) \in Directories
<1>1. s \in Slot /\ dir[s] \in Entries /\ dir[s].used
  BY DEF Directories, UsedIn
<1>2. Unused \in Entries
  BY DEF Unused, Entries
<1>3. /\ entry \in Entries /\ entry.used /\ entry.name = dir[s].name
      /\ entry.size = size /\ entry.head = head
  BY <1>1 DEF Entries, Rewritten
<1>4. Resized(dir, s, size, head) = [dir EXCEPT ![s] = entry]
  BY <1>1 DEF Directories, Entries, Rewritten, Resized
<1>5. [dir EXCEPT ![s] = entry] = Placed(Placed(dir, s, Unused), s, entry)
  BY <1>1 DEF Directories, Placed
<1>6. [dir EXCEPT ![s] = entry] \in Directories
  BY <1>1, <1>2, <1>3 DEF Directories
<1>. QED
  BY <1>3, <1>4, <1>5, <1>6

\* The table with the file's old chain freed.
Freed(s) == chain_free(g_fat, g_dir[s].head)

LEMMA FreedSound ==
  ASSUME Sound(Volume, roomy), NEW s \in UsedIn(g_dir)
  PROVE  /\ Freed(s) \in Tables /\ Ends(Freed(s))
         /\ Placed(g_dir, s, Unused) \in Directories
         /\ Heads(Placed(g_dir, s, Unused))
         /\ UsedIn(Placed(g_dir, s, Unused)) = UsedIn(g_dir) \ {s}
         /\ \A t \in UsedIn(g_dir) \ {s} : Placed(g_dir, s, Unused)[t] = g_dir[t]
         /\ roomy => Tidy(Placed(g_dir, s, Unused), Freed(s))
         /\ Free(Freed(s)) = Free(g_fat) \cup Chain(g_fat, g_dir[s].head)
<1>1. /\ g_dir \in Directories /\ g_fat \in Tables
      /\ Heads(g_dir) /\ Ends(g_fat) /\ (roomy => Tidy(g_dir, g_fat))
  BY MemoryParts
<1>. DEFINE dir2 == Placed(g_dir, s, Unused)
<1>2. dir2 \in Directories /\ s \in Slot /\ ~dir2[s].used
      /\ \A t \in Slot \ {s} : dir2[t] = g_dir[t]
  BY <1>1 DEF Directories, Entries, Unused, UsedIn, Placed
<1>. HIDE DEF dir2
<1>3. UsedIn(dir2) = UsedIn(g_dir) \ {s}
  BY <1>2 DEF UsedIn
<1>4. \A t \in UsedIn(g_dir) \ {s} : dir2[t] = g_dir[t]
  BY <1>2 DEF UsedIn
<1>5. Heads(dir2)
  BY <1>1, <1>3, <1>4 DEF Heads
<1>6. Freed(s) \in Tables /\ Ends(Freed(s))
  BY <1>1, FreedType, FreedEnds DEF Freed
<1>7. Free(Freed(s)) = Free(g_fat) \cup Chain(g_fat, g_dir[s].head)
  BY <1>1, FreedBlocks DEF Freed, Heads
<1>8. roomy => Tidy(dir2, Freed(s))
  BY <1>1, TidyRemoved DEF Freed, dir2
<1>. QED
  BY <1>2, <1>3, <1>4, <1>5, <1>6, <1>7, <1>8 DEF dir2

LEMMA DeleteSound ==
  ASSUME Sound(Volume, roomy), NEW name, cmd_delete(name)
  PROVE  Sound(Volume2, roomy)
<1>1. PICK s \in dir_find_by_name(name) :
         /\ g_fat' = Freed(s)
         /\ g_dir' = Placed(g_dir, s, Unused)
         /\ g_data' = g_data
  BY DEF cmd_delete, Freed, Placed
<1>2. s \in UsedIn(g_dir)
  BY FoundSlots
<1>3. g_data' \in Storage
  BY <1>1, MemoryParts
<1>. QED
  BY <1>1, <1>2, <1>3, FreedSound, Volume2Sound

LEMMA WriteSound ==
  ASSUME Sound(Volume, roomy), NEW name, NEW c \in Content, cmd_write(name, c)
  PROVE  Sound(Volume2, roomy)
<1>1. PICK s \in dir_find_by_name(name) : WriteAll(s, c, Freed(s))
  BY DEF cmd_write, Freed
<1>. DEFINE need == BlocksFor(c.len)
            T == Lowest(Free(Freed(s)), IF need = 0 THEN 1 ELSE need)
            bare == Placed(g_dir, s, Unused)
            entry == Rewritten(g_dir[s], c.len, Least(T))
<1>2. s \in UsedIn(g_dir) /\ s \in Slot /\ c.len \in Nat
  BY FoundSlots, ContentAssumption
<1>3. /\ Cardinality(Free(Freed(s))) >= need /\ Free(Freed(s)) # {}
      /\ g_dir' = Resized(g_dir, s, c.len, Least(T))
      /\ g_fat' = Linked(Freed(s), T)
      /\ g_data' = [b \in Block |-> IF b \notin T THEN g_data[b]
                                    ELSE IF need = 0 THEN Zero ELSE Chunk(c, Rank(T, b))]
  BY <1>1 DEF WriteAll, Linked, Resized
<1>4. Free(Freed(s)) \in SUBSET Block
  BY DEF Free
<1>5. T # {} /\ T \subseteq Free(Freed(s)) /\ Cardinality(T) = Needed(c.len) /\ Least(T) \in T
  BY <1>2, <1>3, <1>4, WritableBlocks
<1>. HIDE DEF T
<1>6. g_dir \in Directories /\ g_data \in Storage /\ (roomy => Tidy(g_dir, g_fat)) /\ Heads(g_dir)
  BY MemoryParts
<1>7. Least(T) \in Block /\ T \in SUBSET Block
  BY <1>4, <1>5
<1>8. /\ entry \in Entries /\ entry.used /\ entry.name = g_dir[s].name
      /\ entry.size = c.len /\ entry.head = Least(T)
      /\ g_dir' = Placed(bare, s, entry)
      /\ g_dir' \in Directories
  <2>1. g_dir' = Resized(g_dir, s, c.len, Least(T))
    BY <1>3
  <2>. HIDE DEF need, entry
  <2>2. entry = Rewritten(g_dir[s], c.len, Least(T))
    BY DEF entry
  <2>. QED
    BY <1>2, <1>6, <1>7, <2>1, <2>2, EntryRewritten
<1>9. /\ Freed(s) \in Tables /\ Ends(Freed(s)) /\ bare \in Directories /\ Heads(bare)
      /\ UsedIn(bare) = UsedIn(g_dir) \ {s}
      /\ \A t \in UsedIn(g_dir) \ {s} : bare[t] = g_dir[t]
      /\ roomy => Tidy(bare, Freed(s))
  BY <1>2, FreedSound
<1>. HIDE DEF bare, entry
<1>10. g_fat' \in Tables /\ Ends(g_fat')
  BY <1>3, <1>7, <1>9, LinkedType, LinkedEnds
<1>11. Heads(g_dir')
  <2>1. \A t \in Slot \ {s} : g_dir'[t] = bare[t]
    BY <1>8, <1>9 DEF Directories, Placed
  <2>2. g_dir'[s] = entry
    BY <1>2, <1>8, <1>9 DEF Directories, Placed
  <2>. QED
    BY <1>7, <1>8, <1>9, <2>1, <2>2 DEF Heads, UsedIn
<1>12. g_data' \in Storage
  <2>1. [b \in Block |-> IF b \in T THEN Chunk(c, Rank(T, b)) ELSE g_data[b]] \in Storage
    BY <1>6, <1>7, DataType
  <2>2. \A b \in T : Chunk(c, Rank(T, b)) \in Parts
    BY <1>7, RankType DEF Parts
  <2>3. Zero \in Parts /\ \A b \in Block : g_data[b] \in Parts
    BY <1>6 DEF Parts, Storage
  <2>4. \A b \in Block : (IF b \notin T THEN g_data[b]
                          ELSE IF need = 0 THEN Zero ELSE Chunk(c, Rank(T, b))) \in Parts
    BY <2>2, <2>3
  <2>. QED
    BY <1>3, <2>4 DEF Storage
<1>13. roomy => Tidy(g_dir', g_fat')
  <2>1. ASSUME roomy, NEW t \in UsedIn(bare) PROVE bare[t].name # entry.name
    BY <1>2, <1>6, <1>8, <1>9, <2>1 DEF Tidy, Disjoint
  <2>2. s \in Slot \ UsedIn(bare)
    BY <1>2, <1>9
  <2>3. g_fat' = Linked(Freed(s), T)
    BY <1>3
  <2>. QED
    BY <1>5, <1>8, <1>9, <2>1, <2>2, <2>3, TidyPlaced
<1>. QED
  BY <1>8, <1>10, <1>11, <1>12, <1>13, Volume2Sound

LEMMA FullSound ==
  ASSUME Sound(Volume, roomy), ~roomy, NEW name, NEW c \in Content, cmd_write_disk_full(name, c)
  PROVE  Sound(Volume2, roomy)
<1>1. PICK s \in dir_find_by_name(name) :
         /\ g_dir' = [g_dir EXCEPT ![s].size = c.len]
         /\ g_fat' = Freed(s)
         /\ g_data' = [b \in Block |-> IF b \in Free(Freed(s)) THEN Chunk(c, Rank(Free(Freed(s)), b))
                                       ELSE g_data[b]]
  BY DEF cmd_write_disk_full, WritePart, Freed
<1>2. s \in UsedIn(g_dir) /\ s \in Slot /\ c.len \in Nat
  BY FoundSlots, ContentAssumption
<1>3. g_dir \in Directories /\ Heads(g_dir) /\ g_data \in Storage
  BY MemoryParts
<1>4. g_dir' \in Directories /\ Heads(g_dir')
  <2>1. g_dir[s] \in Entries /\ [g_dir[s] EXCEPT !.size = c.len] \in Entries
    BY <1>2, <1>3 DEF Directories, Entries
  <2>2. g_dir' = [g_dir EXCEPT ![s] = [g_dir[s] EXCEPT !.size = c.len]]
    BY <1>1, <1>2, <1>3 DEF Directories
  <2>3. g_dir' \in Directories
    BY <1>2, <1>3, <2>1, <2>2 DEF Directories
  <2>4. \A t \in Slot : g_dir'[t].head = g_dir[t].head /\ g_dir'[t].used = g_dir[t].used
    BY <1>3, <2>1, <2>2 DEF Directories, Entries
  <2>. QED
    BY <1>3, <2>3, <2>4 DEF Heads, UsedIn
<1>5. g_data' \in Storage
  <2>1. Free(Freed(s)) \in SUBSET Block
    BY DEF Free
  <2>. QED
    BY <1>1, <1>3, <2>1, DataType
<1>6. g_fat' \in Tables /\ Ends(g_fat')
  BY <1>1, <1>2, FreedSound
<1>. QED
  BY <1>4, <1>5, <1>6, Volume2Sound

-----------------------------------------------------------------------------
(* The invariant is kept by every step of a process, killed or not. *)

LEMMA DiskInitInvariant == DiskInit => IInv
<1>. SUFFICES ASSUME DiskInit PROVE IInv
  OBVIOUS
<1>1. Volume = Formatted /\ image = Formatted
  BY DEF DiskInit, Init, Volume, Formatted
<1>. QED
  BY <1>1, FormattedSound DEF IInv, DiskInit, Init

\* What a command leaves, whichever it is.
LEMMA CommandSound ==
  ASSUME Sound(Volume, roomy), Completes \/ (~roomy /\ RunsOut)
  PROVE  Sound(Volume2, roomy)
<1>1. CASE NoChange
  <2>1. Volume2 = Volume
    BY <1>1 DEF NoChange, Volume2, Volume
  <2>. QED
    BY <2>1
<1>2. CASE mkfs
  <2>1. Volume2 = Formatted
    BY <1>2 DEF mkfs, Volume2, Formatted
  <2>. QED
    BY <2>1, FormattedSound
<1>. QED
  BY <1>1, <1>2, CreateSound, WriteSound, DeleteSound, FullSound DEF Completes, RunsOut

LEMMA ProcessVolume ==
  ASSUME NEW v \in Volumes, Process(v)
  PROVE  Volume2 = v
  BY VolumesDefined DEF Process, Volume2

LEMMA DiskStep == IInv /\ [DiskNext]_<<vars, roomy>> => IInv'
<1>. SUFFICES ASSUME IInv, [DiskNext]_<<vars, roomy>> PROVE IInv'
  OBVIOUS
<1>1. Sound(Volume, roomy) /\ Sound(image, roomy) /\ Sound(Formatted, roomy)
  BY FormattedSound DEF IInv
<1>2. image \in Volumes /\ Formatted \in Volumes
  BY <1>1 DEF Sound
<1>3. roomy' = roomy /\ Volume' = Volume2
  BY DEF DiskNext, Volume, Volume2
<1>4. SUFFICES /\ pc' \in {"idle", "loaded", "done", "saving"} /\ complete' \in BOOLEAN
               /\ Sound(Volume2, roomy) /\ Sound(image', roomy)
  BY <1>3 DEF IInv
<1>5. CASE fs_load
  BY <1>1, <1>2, <1>5, ProcessVolume DEF fs_load, Loaded, IInv
<1>6. CASE Command(Completes) \/ (~roomy /\ Command(RunsOut))
  BY <1>1, <1>6, CommandSound DEF Command, IInv
<1>7. CASE SaveBegins
  <2>1. Volume2 = Volume /\ image' = Volume
    BY <1>7 DEF SaveBegins, Volume2, Volume
  <2>. QED
    BY <1>1, <1>7, <2>1 DEF SaveBegins
<1>8. CASE SaveEnds \/ Stops
  BY <1>1, <1>2, <1>8, ProcessVolume DEF SaveEnds, Stops, IInv
<1>9. CASE UNCHANGED <<vars, roomy>>
  <2>1. Volume2 = Volume /\ image' = image /\ pc' = pc /\ complete' = complete
    BY <1>9 DEF vars, Volume2, Volume
  <2>. QED
    BY <1>1, <2>1 DEF IInv
<1>. QED
  BY <1>5, <1>6, <1>7, <1>8, <1>9 DEF DiskNext

\* The volume in memory and the one last written are sound in every state.
THEOREM DiskInvariant == DiskSpec => []IInv
  BY DiskInitInvariant, DiskStep, PTL DEF DiskSpec

\* As long as the disk has room, no block belongs to two files and names are
\* unique, whenever the program is killed.
THEOREM NoBlockShared == DiskSpec => []RoomyFilesDisjoint
<1>1. ASSUME IInv PROVE RoomyFilesDisjoint
  <2>1. roomy => Tidy(g_dir, g_fat)
    BY <1>1, MemoryParts DEF IInv
  <2>. QED
    BY <2>1 DEF RoomyFilesDisjoint, FilesDisjoint, Tidy, Disjoint, Used, UsedIn
<1>. QED
  BY <1>1, DiskInvariant, PTL

\* As long as the disk has room, the blocks in use are those of the files and
\* every file has as many as its size asks for; on any disk chains end.
THEOREM NoBlockLost == DiskSpec => []RoomyBlocksAccounted
<1>1. ASSUME IInv PROVE RoomyBlocksAccounted
  <2>1. Ends(g_fat) /\ (roomy => Tidy(g_dir, g_fat))
    BY <1>1, MemoryParts DEF IInv
  <2>2. TypeOK
    BY <1>1 DEF IInv, TypeOK, Sound
  <2>3. ChainsEnd
    BY <2>1 DEF Ends, ChainsEnd
  <2>4. roomy => BlocksAccounted
    BY <2>1 DEF BlocksAccounted, Tidy, Accounted, Used, UsedIn, Needed
  <2>. QED
    BY <2>2, <2>3, <2>4 DEF RoomyBlocksAccounted
<1>. QED
  BY <1>1, DiskInvariant, PTL

-----------------------------------------------------------------------------
(* Reading. cmd_read follows the table from block to block by a recursive     *)
(* function, which there is since it can be made longer one step at a time.   *)

\* What comes after x, and a walk over n blocks.
After(fat, x) == IF x \in Block THEN fat[x] ELSE FAT_END
Walks(w, n, fat, head) ==
    w = [k \in 1..n |-> IF k = 1 THEN head ELSE After(fat, w[k - 1])]
Walk(fat, head) == CHOOSE w : Walks(w, NUM_BLKS, fat, head)

\* The blocks of a walk that a read of size bytes comes to.
Met(w, size) == {k \in 1..NUM_BLKS : k <= BlocksFor(size) /\ w[k] \in Block}
Pieces(w, data, size) ==
    [k \in 1..Cardinality(Met(w, size)) |-> <<data[w[k]], Bytes(size, k)>>]

LEMMA ReadDefined ==
  ASSUME NEW v, NEW s
  PROVE  cmd_read(v, s) = Pieces(Walk(v.fat, v.dir[s].head), v.data, v.dir[s].size)
  BY DEF cmd_read, Pieces, Met, Walk, Walks, After

LEMMA WalkSteps ==
  ASSUME NEW w, NEW n \in Nat, NEW fat, NEW head
  PROVE  Walks(w, n, fat, head) <=>
            /\ w = [k \in 1..n |-> w[k]]
            /\ \A k \in 1..n : w[k] = IF k = 1 THEN head ELSE After(fat, w[k - 1])
  BY DEF Walks

LEMMA WalkExists ==
  ASSUME NEW n \in Nat \ {0}, NEW fat, NEW head
  PROVE  \E w : Walks(w, n, fat, head)
<1>. DEFINE I == {m \in Nat \ {0} : \E w : Walks(w, m, fat, head)}
<1>1. 1 \in I
  <2>. DEFINE w == [k \in 1..1 |-> head]
  <2>1. Walks(w, 1, fat, head)
    BY DEF Walks
  <2>. QED
    BY <2>1
<1>2. ASSUME NEW m \in Nat \ {0}, m \in I PROVE m + 1 \in I
  <2>1. PICK w : Walks(w, m, fat, head)
    BY <1>2
  <2>2. \A k \in 1..m : w[k] = IF k = 1 THEN head ELSE After(fat, w[k - 1])
    BY <2>1, WalkSteps
  <2>. DEFINE x == [k \in 1..m + 1 |-> IF k = m + 1 THEN After(fat, w[m]) ELSE w[k]]
  <2>3. /\ \A k \in 1..m : x[k] = w[k]
        /\ x[m + 1] = After(fat, w[m])
    OBVIOUS
  <2>4. x = [k \in 1..m + 1 |-> x[k]]
    OBVIOUS
  <2>. HIDE DEF x
  <2>5. ASSUME NEW k \in 1..m + 1 PROVE x[k] = IF k = 1 THEN head ELSE After(fat, x[k - 1])
    <3>1. CASE k = m + 1
      BY <2>3, <3>1
    <3>2. CASE k # m + 1
      <4>1. k \in 1..m /\ (k # 1 => k - 1 \in 1..m)
        BY <3>2
      <4>. QED
        BY <2>2, <2>3, <4>1
    <3>. QED
      BY <3>1, <3>2
  <2>6. Walks(x, m + 1, fat, head)
    <3>1. PICK p \in Nat : p = m + 1
      OBVIOUS
    <3>2. /\ x = [k \in 1..p |-> x[k]]
          /\ \A k \in 1..p : x[k] = IF k = 1 THEN head ELSE After(fat, x[k - 1])
      BY <2>4, <2>5, <3>1
    <3>3. Walks(x, p, fat, head)
      BY <3>2, WalkSteps, Zenon
    <3>. QED
      BY <3>1, <3>3
  <2>. QED
    BY <2>6
<1>3. Nat \ {0} \subseteq I
  <2>. HIDE DEF I
  <2>. QED
    BY <1>1, <1>2, SetInduction
<1>. QED
  BY <1>3

\* Tables that agree on a chain are walked alike, and the walk is on the chain.
LEMMA WalkAgrees ==
  ASSUME NEW n \in Nat, NEW fat, NEW fat2, NEW head \in Block,
         \A b \in Chain(fat, head) : fat2[b] = fat[b],
         NEW w, Walks(w, n, fat, head), NEW x, Walks(x, n, fat2, head)
  PROVE  x = w /\ \A k \in 1..n : w[k] \in Block => w[k] \in Chain(fat, head)
<1>. DEFINE I == {k \in Nat \ {0} : k <= n =>
                     x[k] = w[k] /\ (w[k] \in Block => w[k] \in Chain(fat, head))}
<1>1. /\ \A k \in 1..n : w[k] = IF k = 1 THEN head ELSE After(fat, w[k - 1])
      /\ \A k \in 1..n : x[k] = IF k = 1 THEN head ELSE After(fat2, x[k - 1])
      /\ w = [k \in 1..n |-> w[k]] /\ x = [k \in 1..n |-> x[k]]
  BY WalkSteps
<1>2. 1 \in I
  <2>1. ASSUME 1 <= n PROVE x[1] = head /\ w[1] = head
    <3>1. 1 \in 1..n
      BY <2>1
    <3>. QED
      BY <1>1, <3>1, Zenon
  <2>2. head \in Chain(fat, head)
    BY ChainClosed
  <2>. QED
    BY <2>1, <2>2
<1>3. ASSUME NEW k \in Nat \ {0}, k \in I PROVE k + 1 \in I
  <2>. SUFFICES ASSUME k + 1 <= n
                PROVE x[k + 1] = w[k + 1] /\ (w[k + 1] \in Block => w[k + 1] \in Chain(fat, head))
    OBVIOUS
  <2>1. x[k] = w[k] /\ (w[k] \in Block => w[k] \in Chain(fat, head))
    BY <1>3
  <2>2. k + 1 \in 1..n /\ k + 1 # 1 /\ (k + 1) - 1 = k
    OBVIOUS
  <2>3. w[k + 1] = After(fat, w[k]) /\ x[k + 1] = After(fat2, x[k])
    BY <1>1, <2>2
  <2>4. CASE w[k] \in Block
    <3>1. fat2[w[k]] = fat[w[k]] /\ w[k] \in Chain(fat, head)
      BY <2>1, <2>4
    <3>. QED
      BY <2>1, <2>3, <2>4, <3>1, ChainClosed DEF After, Closed
  <2>5. CASE w[k] \notin Block
    BY <2>1, <2>3, <2>5, MarksAreNoBlocks DEF After
  <2>. QED
    BY <2>4, <2>5
<1>4. Nat \ {0} \subseteq I
  <2>. HIDE DEF I
  <2>. QED
    BY <1>2, <1>3, SetInduction
<1>5. \A k \in 1..n : x[k] = w[k] /\ (w[k] \in Block => w[k] \in Chain(fat, head))
  BY <1>4
<1>6. [k \in 1..n |-> x[k]] = [k \in 1..n |-> w[k]]
  BY <1>5
<1>. QED
  BY <1>1, <1>5, <1>6

\* The walk that a read takes.
LEMMA WalkTaken ==
  ASSUME NEW fat, NEW head \in Block
  PROVE  /\ NUM_BLKS \in Nat \ {0}
         /\ Walks(Walk(fat, head), NUM_BLKS, fat, head)
<1>1. NUM_BLKS \in Nat \ {0}
  BY BlockNumbers
<1>2. \E w : Walks(w, NUM_BLKS, fat, head)
  BY <1>1, WalkExists
<1>. QED
  BY <1>1, <1>2 DEF Walk

\* A set of numbers up to n without a gap is an interval.
LEMMA NoGap ==
  ASSUME NEW n \in Nat, NEW S \in SUBSET (1..n), \A k \in 1..n : k + 1 \in S => k \in S
  PROVE  S = 1..Cardinality(S) /\ Cardinality(S) \in Nat
<1>. DEFINE out == {k \in 1..n + 1 : k \notin S}
<1>1. PICK m \in out : \A k \in out : m <= k
  <2>1. n + 1 \in out /\ out \in SUBSET Nat
    OBVIOUS
  <2>. QED
    BY <2>1, LeastNatural
<1>2. \A k \in 1..m - 1 : k \in S
  BY <1>1
<1>3. \A k \in S : k < m
  <2>. DEFINE T == {k \in S : m <= k}
  <2>1. SUFFICES ASSUME T # {} PROVE FALSE
    BY <1>1
  <2>2. PICK t \in T : \A k \in T : t <= k
    <3>1. T \in SUBSET Nat
      <4>1. \A k \in S : k \in Nat
        OBVIOUS
      <4>. QED
        BY <4>1
    <3>. HIDE DEF T
    <3>. QED
      BY <2>1, <3>1, LeastNatural
  <2>3. t # m /\ m < t /\ t - 1 \in 1..n /\ (t - 1) + 1 = t
    BY <1>1, <2>2
  <2>4. t - 1 \in S
    BY <2>2, <2>3
  <2>. QED
    BY <2>2, <2>3, <2>4
<1>4. S = 1..m - 1 /\ m - 1 \in Nat
  <2>1. m \in 1..n + 1
    BY <1>1
  <2>2. m - 1 \in Nat /\ \A k \in 1..n : k < m <=> k \in 1..m - 1
    BY <2>1
  <2>3. \A k \in S : k \in 1..m - 1
    BY <1>3, <2>2
  <2>4. \A k \in 1..m - 1 : k \in S
    BY <1>2
  <2>. QED
    BY <2>2, <2>3, <2>4
<1>5. Cardinality(1..m - 1) = m - 1
  <2>1. PICK p \in Nat : p = m - 1
    BY <1>4
  <2>2. Cardinality(1..p) = IF 1 > p THEN 0 ELSE p - 1 + 1
    BY FS_Interval
  <2>. QED
    BY <2>1, <2>2
<1>. QED
  BY <1>4, <1>5

LEMMA MetDefined ==
  ASSUME NEW fat, NEW head, NEW w, Walks(w, NUM_BLKS, fat, head), NEW size \in Nat
  PROVE  Met(w, size) = 1..Cardinality(Met(w, size)) /\ Cardinality(Met(w, size)) \in Nat
<1>. PICK n \in Nat : n = NUM_BLKS
  BY BlockNumbers
<1>1. PICK need \in Nat : need = BlocksFor(size)
  BY BlocksForMeets
<1>2. Met(w, size) = {k \in 1..n : k <= need /\ w[k] \in Block}
  BY <1>1 DEF Met
<1>3. \A k \in 1..n : w[k] = IF k = 1 THEN head ELSE After(fat, w[k - 1])
  <2>1. Walks(w, n, fat, head)
    OBVIOUS
  <2>. QED
    BY <2>1, Zenon DEF Walks
<1>4. ASSUME NEW k \in 1..n, k + 1 \in Met(w, size) PROVE k \in Met(w, size)
  <2>1. k + 1 \in 1..n /\ k + 1 <= need /\ w[k + 1] \in Block /\ (k + 1) - 1 = k /\ k + 1 # 1
    BY <1>2, <1>4
  <2>2. w[k + 1] = After(fat, w[k])
    BY <1>3, <2>1
  <2>3. w[k] \in Block
    BY <2>1, <2>2, MarksAreNoBlocks DEF After
  <2>. QED
    BY <1>2, <2>1, <2>3
<1>5. Met(w, size) \in SUBSET (1..n)
  BY <1>2
<1>. QED
  BY <1>4, <1>5, NoGap

\* What is read of a file depends on its entry and the blocks of its chain.
LEMMA ReadAgrees ==
  ASSUME NEW v, NEW v2, NEW s, v2.dir[s] = v.dir[s],
         v.dir[s].head \in Block, v.dir[s].size \in Nat,
         \A b \in Chain(v.fat, v.dir[s].head) : v2.fat[b] = v.fat[b] /\ v2.data[b] = v.data[b]
  PROVE  cmd_read(v2, s) = cmd_read(v, s)
<1>1. PICK head, size : head = v.dir[s].head /\ size = v.dir[s].size
  OBVIOUS
<1>2. PICK w, x : w = Walk(v.fat, head) /\ x = Walk(v2.fat, head)
  OBVIOUS
<1>3. /\ NUM_BLKS \in Nat
      /\ Walks(w, NUM_BLKS, v.fat, head) /\ Walks(x, NUM_BLKS, v2.fat, head)
  BY <1>1, <1>2, WalkTaken
<1>4. x = w /\ \A k \in 1..NUM_BLKS : w[k] \in Block => w[k] \in Chain(v.fat, head)
  <2>1. \A b \in Chain(v.fat, head) : v2.fat[b] = v.fat[b]
    BY <1>1
  <2>. QED
    BY <1>1, <1>3, <2>1, WalkAgrees
<1>5. \A k \in 1..Cardinality(Met(w, size)) : k \in Met(w, size)
  <2>1. size \in Nat /\ Walks(w, NUM_BLKS, v.fat, head)
    BY <1>1, <1>3
  <2>2. Met(w, size) = 1..Cardinality(Met(w, size)) /\ Cardinality(Met(w, size)) \in Nat
    BY <2>1, MetDefined
  <2>. QED
    BY <2>2
<1>6. \A k \in 1..Cardinality(Met(w, size)) : v2.data[w[k]] = v.data[w[k]]
  BY <1>1, <1>4, <1>5 DEF Met
<1>7. Pieces(w, v2.data, size) = Pieces(w, v.data, size)
  BY <1>6 DEF Pieces
<1>8. cmd_read(v, s) = Pieces(w, v.data, size) /\ cmd_read(v2, s) = Pieces(x, v2.data, size)
  BY <1>1, <1>2, ReadDefined
<1>. QED
  BY <1>4, <1>7, <1>8

\* Of an empty file nothing is read.
LEMMA ReadEmpty ==
  ASSUME NEW v, NEW s, v.dir[s].size = 0
  PROVE  cmd_read(v, s) = <<>>
<1>1. PICK w : w = Walk(v.fat, v.dir[s].head)
  OBVIOUS
<1>2. BlocksFor(0) = 0
  BY BlocksForMeets
<1>3. Met(w, 0) = {}
  BY <1>2, BlockNumbers DEF Met
<1>4. Cardinality(Met(w, 0)) = 0
  BY <1>3, FS_EmptySet
<1>5. Pieces(w, v.data, 0) = <<>>
  BY <1>4 DEF Pieces
<1>. QED
  BY <1>1, <1>5, ReadDefined

-----------------------------------------------------------------------------
(* What was written is what is read.                                          *)

\* The k-th block of those linked has the rank k.
LEMMA RankNext ==
  ASSUME NEW T \in SUBSET Block, NEW b \in T
  PROVE  /\ Rank(T, b) \in 1..Cardinality(T)
         /\ Rank(T, b) = Cardinality(T) => Successor(T, b) \notin Block
         /\ Rank(T, b) < Cardinality(T) =>
               Successor(T, b) \in T /\ Rank(T, Successor(T, b)) = Rank(T, b) + 1
<1>. DEFINE upto(x) == {c \in T : c <= x}
<1>1. /\ IsFiniteSet(T) /\ Cardinality(T) \in Nat /\ \A c \in T : c \in Nat
      /\ \A x : upto(x) \in SUBSET T
  BY BlocksFinite, BlockNumbers
<1>2. \A x : IsFiniteSet(upto(x)) /\ Cardinality(upto(x)) \in Nat
             /\ Cardinality(upto(x)) <= Cardinality(T)
             /\ (Cardinality(upto(x)) = Cardinality(T) => upto(x) = T)
  <2>1. ASSUME NEW x
        PROVE  IsFiniteSet(upto(x)) /\ Cardinality(upto(x)) \in Nat
               /\ Cardinality(upto(x)) <= Cardinality(T)
               /\ (Cardinality(upto(x)) = Cardinality(T) => upto(x) = T)
    <3>1. PICK U : U = upto(x)
      OBVIOUS
    <3>2. U \in SUBSET T
      BY <1>1, <3>1
    <3>3. IsFiniteSet(U) /\ Cardinality(U) \in Nat /\ Cardinality(U) <= Cardinality(T)
          /\ (Cardinality(U) = Cardinality(T) => U = T)
      BY <1>1, <3>2, FS_Subset, FS_CardinalityType
    <3>. QED
      BY <3>1, <3>3
  <2>. QED
    BY <2>1
<1>3. \A x : Rank(T, x) = Cardinality(upto(x))
  BY DEF Rank
<1>4. b \in upto(b)
  BY <1>1
<1>5. Rank(T, b) # 0
  BY <1>2, <1>3, <1>4, FS_EmptySet
<1>. HIDE DEF upto
<1>6. Rank(T, b) \in 1..Cardinality(T)
  BY <1>1, <1>2, <1>3, <1>5
<1>7. ASSUME Rank(T, b) = Cardinality(T) PROVE Successor(T, b) \notin Block
  <2>1. upto(b) = T
    BY <1>2, <1>3, <1>7
  <2>2. ~ \E c \in T : c > b
    BY <1>1, <2>1 DEF upto
  <2>. QED
    BY <2>2, MarksAreNoBlocks DEF Successor
<1>8. ASSUME Rank(T, b) < Cardinality(T)
      PROVE  Successor(T, b) \in T /\ Rank(T, Successor(T, b)) = Rank(T, b) + 1
  <2>1. upto(b) # T
    BY <1>1, <1>3, <1>8
  <2>2. PICK c \in T : c > b
    BY <1>1, <2>1 DEF upto
  <2>3. PICK x : x = Successor(T, b)
    OBVIOUS
  <2>4. x \in T /\ x > b /\ \A d \in T : d > b => x <= d
    BY <2>2, <2>3, SuccessorType
  <2>5. upto(x) = upto(b) \cup {x} /\ x \notin upto(b)
    BY <1>1, <2>4 DEF upto
  <2>6. Cardinality(upto(b) \cup {x}) = Cardinality(upto(b)) + 1
    BY <1>2, <2>5, FS_AddElement
  <2>. QED
    BY <1>3, <2>3, <2>4, <2>5, <2>6
<1>. QED
  BY <1>6, <1>7, <1>8

\* The walk along blocks just linked takes them in the order they were given.
LEMMA LinkedWalk ==
  ASSUME NEW fat, NEW T \in SUBSET Block, T # {},
         NEW w, Walks(w, NUM_BLKS, Linked(fat, T), Least(T))
  PROVE  \A k \in 1..NUM_BLKS :
            /\ k <= Cardinality(T) => w[k] \in T /\ Rank(T, w[k]) = k
            /\ Cardinality(T) < k => w[k] \notin Block
<1>. PICK n, m \in Nat : n = NUM_BLKS /\ m = Cardinality(T)
  BY BlockNumbers, BlocksFinite
<1>. PICK link : link = Linked(fat, T)
  OBVIOUS
<1>. DEFINE right(k) == (k <= m => w[k] \in T /\ Rank(T, w[k]) = k) /\ (m < k => w[k] \notin Block)
            I == {k \in Nat \ {0} : k <= n => right(k)}
<1>1. \A k \in 1..n : w[k] = IF k = 1 THEN Least(T) ELSE After(link, w[k - 1])
  <2>1. Walks(w, n, link, Least(T))
    OBVIOUS
  <2>. QED
    BY <2>1, Zenon DEF Walks
<1>2. \A b \in T : link[b] = Successor(T, b)
  BY DEF Linked
<1>3. Least(T) \in T /\ Rank(T, Least(T)) = 1 /\ 1 <= m
  <2>1. Least(T) \in T /\ \A b \in T : Least(T) <= b
    BY LeastBlock
  <2>2. {c \in T : c <= Least(T)} = {Least(T)}
    <3>1. PICK x : x = Least(T)
      OBVIOUS
    <3>2. \A c \in T : c \in Nat /\ x \in Nat /\ x <= c
      BY <2>1, <3>1, BlockNumbers
    <3>3. \A c \in T : (c <= x) <=> (c = x)
      BY <3>2
    <3>. QED
      BY <2>1, <3>1, <3>3
  <2>3. Rank(T, Least(T)) = 1
    BY <2>2, FS_Singleton DEF Rank
  <2>. QED
    BY <2>1, <2>3, RankNext
<1>4. 1 \in I
  <2>1. ASSUME 1 <= n PROVE w[1] = Least(T)
    <3>1. 1 \in 1..n
      BY <2>1
    <3>. QED
      BY <1>1, <3>1, Zenon
  <2>. QED
    BY <1>3, <2>1
<1>5. ASSUME NEW k \in Nat \ {0}, k \in I PROVE k + 1 \in I
  <2>. SUFFICES ASSUME k + 1 <= n PROVE right(k + 1)
    OBVIOUS
  <2>1. k + 1 \in 1..n /\ k + 1 # 1 /\ (k + 1) - 1 = k /\ right(k)
    BY <1>5
  <2>2. w[k + 1] = After(link, w[k])
    BY <1>1, <2>1
  <2>3. CASE k < m
    <3>1. w[k] \in T /\ w[k] \in Block /\ Rank(T, w[k]) = k
      BY <2>1, <2>3
    <3>2. w[k + 1] = Successor(T, w[k])
      BY <1>2, <2>2, <3>1 DEF After
    <3>3. Successor(T, w[k]) \in T /\ Rank(T, Successor(T, w[k])) = k + 1
      BY <2>3, <3>1, RankNext
    <3>. QED
      BY <2>3, <3>2, <3>3
  <2>4. CASE k = m
    <3>1. w[k] \in T /\ w[k] \in Block /\ Rank(T, w[k]) = k
      BY <2>1, <2>4
    <3>2. w[k + 1] = Successor(T, w[k])
      BY <1>2, <2>2, <3>1 DEF After
    <3>3. Successor(T, w[k]) \notin Block
      BY <2>4, <3>1, RankNext
    <3>. QED
      BY <2>4, <3>2, <3>3
  <2>5. CASE m < k
    BY <2>1, <2>2, <2>5, MarksAreNoBlocks DEF After
  <2>. QED
    BY <2>3, <2>4, <2>5
<1>6. Nat \ {0} \subseteq I
  <2>. HIDE DEF I
  <2>. QED
    BY <1>4, <1>5, SetInduction
<1>. QED
  BY <1>6

LEMMA Divided ==
  ASSUME NEW n \in Nat
  PROVE  /\ n \div BLK_SZ \in Int /\ n % BLK_SZ \in 0..BLK_SZ - 1
         /\ n = BLK_SZ * (n \div BLK_SZ) + (n % BLK_SZ)
<1>1. BLK_SZ \in Nat /\ BLK_SZ > 0
  BY SizeAssumption
<1>. QED
  BY <1>1

\* The parts of a text are as many as the blocks of its size, and as long as
\* what a read takes of each.
LEMMA PartsOfText ==
  ASSUME NEW c \in Content
  PROVE  /\ {k \in 1..c.len : (k - 1) * BLK_SZ < c.len} = 1..BlocksFor(c.len)
         /\ \A k \in 1..BlocksFor(c.len) :
               Bytes(c.len, k) = IF k * BLK_SZ <= c.len THEN BLK_SZ ELSE c.len % BLK_SZ
<1>. PICK len \in Nat : len = c.len
  BY ContentAssumption
<1>. PICK need \in Nat : need = BlocksFor(len)
  BY BlocksForMeets
<1>1. BLK_SZ \in Nat /\ BLK_SZ > 0
  BY SizeAssumption
<1>2. \A k \in Nat \ {0} : k <= need <=> (k - 1) * BLK_SZ < len
  BY BlocksForMeets
<1>3. ASSUME NEW k \in Nat \ {0}, k <= need PROVE k <= len
  <2>1. (k - 1) * BLK_SZ < len
    BY <1>2, <1>3
  <2>2. PICK a \in Nat : a = k - 1
    OBVIOUS
  <2>3. a <= a * BLK_SZ /\ a * BLK_SZ \in Nat
    <3>1. PICK d \in Nat : BLK_SZ = d + 1
      BY <1>1
    <3>2. a * d \in Nat /\ a * (d + 1) = a * d + a
      OBVIOUS
    <3>. QED
      BY <3>1, <3>2
  <2>. QED
    BY <2>1, <2>2, <2>3
<1>4. {k \in 1..len : (k - 1) * BLK_SZ < len} = 1..need
  <2>1. \A k \in 1..len : (k - 1) * BLK_SZ < len => k \in 1..need
    BY <1>2
  <2>2. \A k \in 1..need : k \in 1..len /\ (k - 1) * BLK_SZ < len
    BY <1>2, <1>3
  <2>. QED
    BY <2>1, <2>2
<1>5. ASSUME NEW k \in 1..need
      PROVE  Bytes(len, k) = IF k * BLK_SZ <= len THEN BLK_SZ ELSE len % BLK_SZ
  <2>1. PICK a \in Int : a = (k - 1) * BLK_SZ
    BY <1>1
  <2>2. k * BLK_SZ = a + BLK_SZ /\ a < len
    BY <1>2, <2>1, Multiples
  <2>3. Bytes(len, k) = IF len - a > BLK_SZ THEN BLK_SZ ELSE len - a
    BY <2>1 DEF Bytes
  <2>4. CASE a + BLK_SZ <= len
    BY <1>1, <2>2, <2>3, <2>4
  <2>5. CASE len < a + BLK_SZ
    <3>1. PICK q, r : q \in Int /\ r \in 0..BLK_SZ - 1 /\ r = len % BLK_SZ /\ len = BLK_SZ * q + r
      <4>. DEFINE q == len \div BLK_SZ
                  r == len % BLK_SZ
      <4>1. q \in Int /\ len = BLK_SZ * q + r /\ r \in 0..BLK_SZ - 1
        BY Divided
      <4>2. r = len % BLK_SZ
        OBVIOUS
      <4>. HIDE DEF q, r
      <4>. QED
        BY <4>1, <4>2
    <3>2. len = q * BLK_SZ + r /\ q * BLK_SZ \in Int
      BY <1>1, <3>1
    <3>3. q < k - 1 => q * BLK_SZ + BLK_SZ <= a
      BY <2>1, <3>1, Multiples
    <3>4. k - 1 < q => a + BLK_SZ <= q * BLK_SZ
      BY <2>1, <3>1, Multiples
    <3>5. ~(q < k - 1) /\ ~(k - 1 < q)
      BY <1>1, <2>2, <2>5, <3>1, <3>2, <3>3, <3>4
    <3>6. q = k - 1
      BY <3>1, <3>5
    <3>7. len % BLK_SZ = len - a
      BY <2>1, <3>1, <3>2, <3>6
    <3>. QED
      BY <1>1, <2>2, <2>3, <2>5, <3>7
  <2>. QED
    BY <1>1, <2>4, <2>5
<1>. QED
  BY <1>4, <1>5

\* What a write leaves, from the table and the blocks freed before it.
LEMMA ReadWritten ==
  ASSUME NEW v, NEW s, NEW c \in Content, NEW fat, NEW T \in SUBSET Block, T # {},
         Cardinality(T) = Needed(c.len), v.dir[s].size = c.len, v.dir[s].head = Least(T),
         v.fat = Linked(fat, T),
         BlocksFor(c.len) # 0 => \A b \in T : v.data[b] = Chunk(c, Rank(T, b))
  PROVE  cmd_read(v, s) = Text(c)
<1>. PICK need \in Nat : need = BlocksFor(c.len) /\ (need = 0 <=> c.len = 0)
  BY BlocksForMeets, ContentAssumption
<1>. PICK w : w = Walk(v.fat, v.dir[s].head)
  OBVIOUS
<1>1. cmd_read(v, s) = Pieces(w, v.data, c.len)
  BY ReadDefined
<1>2. Least(T) \in Block
  BY LeastBlock
<1>3. Walks(w, NUM_BLKS, Linked(fat, T), Least(T))
  BY <1>2, WalkTaken
<1>4. \A k \in 1..NUM_BLKS : k <= Cardinality(T) => w[k] \in T /\ Rank(T, w[k]) = k
  BY <1>3, LinkedWalk
<1>5. need <= Cardinality(T) /\ Cardinality(T) <= NUM_BLKS /\ Cardinality(T) \in Nat
  BY BlocksFinite DEF Needed
<1>6. \A k \in 1..need : w[k] \in T /\ Rank(T, w[k]) = k
  BY <1>4, <1>5, BlockNumbers
<1>7. Met(w, c.len) = 1..need
  <2>1. \A k \in 1..need : k \in 1..NUM_BLKS /\ w[k] \in Block
    <3>1. PICK n \in Nat : n = NUM_BLKS /\ need <= n
      BY <1>5, BlockNumbers
    <3>2. \A k \in 1..need : k \in 1..n
      BY <3>1
    <3>. QED
      BY <1>6, <3>1, <3>2, Zenon
  <2>. QED
    BY <2>1 DEF Met
<1>8. Cardinality(1..need) = need
  <2>1. 1 \in Int /\ need \in Int
    OBVIOUS
  <2>2. Cardinality(1..need) = IF 1 > need THEN 0 ELSE need - 1 + 1
    BY <2>1, FS_Interval, Zenon
  <2>. QED
    BY <2>2
<1>9. \A k \in 1..need : v.data[w[k]] = Chunk(c, k)
  BY <1>6
<1>10. Pieces(w, v.data, c.len) = [k \in 1..need |-> <<Chunk(c, k), Bytes(c.len, k)>>]
  BY <1>7, <1>8, <1>9 DEF Pieces
<1>11. Text(c) = [k \in 1..need |-> <<Chunk(c, k), Bytes(c.len, k)>>]
  BY PartsOfText DEF Text
<1>. QED
  BY <1>1, <1>10, <1>11

-----------------------------------------------------------------------------
(* Names are unique on any disk, and a volume is a map from names to what is  *)
(* read of the files.                                                         *)

Named(dir) == \A s, t \in UsedIn(dir) : dir[s].name = dir[t].name => s = t

LEMMA ContentsDefined ==
  ASSUME NEW v, Named(v.dir)
  PROVE  /\ DOMAIN Contents(v) = {v.dir[s].name : s \in UsedIn(v.dir)}
         /\ Contents(v) = [n \in DOMAIN Contents(v) |-> Contents(v)[n]]
         /\ \A s \in UsedIn(v.dir) : Contents(v)[v.dir[s].name] = cmd_read(v, s)
<1>1. PICK D : D = {v.dir[s].name : s \in UsedIn(v.dir)}
  OBVIOUS
<1>2. D = {v.dir[s].name : s \in {s \in Slot : v.dir[s].used}}
  BY <1>1 DEF UsedIn
<1>3. Contents(v) = [n \in D |-> cmd_read(v, CHOOSE s \in Slot : v.dir[s].used /\ v.dir[s].name = n)]
  BY <1>2, Zenon DEF Contents
<1>4. ASSUME NEW s \in UsedIn(v.dir) PROVE Contents(v)[v.dir[s].name] = cmd_read(v, s)
  <2>1. PICK t : t = CHOOSE x \in Slot : v.dir[x].used /\ v.dir[x].name = v.dir[s].name
    OBVIOUS
  <2>2. t \in Slot /\ v.dir[t].used /\ v.dir[t].name = v.dir[s].name
    BY <2>1, Zenon DEF UsedIn
  <2>3. t = s
    BY <2>2 DEF UsedIn, Named
  <2>4. v.dir[s].name \in D
    BY <1>1
  <2>. QED
    BY <1>3, <2>1, <2>3, <2>4
<1>. QED
  BY <1>1, <1>3, <1>4

\* The maps a command makes of another.
Putting(f, name, x) == [n \in DOMAIN f \cup {name} |-> IF n = name THEN x ELSE f[n]]
Leaving(f, name) == [n \in DOMAIN f \ {name} |-> f[n]]

\* One file is put, or put anew, and the others are read as before.
LEMMA ContentsPut ==
  ASSUME NEW v, Named(v.dir), NEW w, Named(w.dir), NEW s,
         UsedIn(w.dir) = UsedIn(v.dir) \cup {s},
         s \in UsedIn(v.dir) => v.dir[s].name = w.dir[s].name,
         \A t \in UsedIn(v.dir) \ {s} :
            w.dir[t].name = v.dir[t].name /\ cmd_read(w, t) = cmd_read(v, t)
  PROVE  Contents(w) = Putting(Contents(v), w.dir[s].name, cmd_read(w, s))
<1>1. PICK name, f, g : name = w.dir[s].name /\ f = Contents(v) /\ g = Contents(w)
  OBVIOUS
<1>2. /\ DOMAIN f = {v.dir[t].name : t \in UsedIn(v.dir)}
      /\ \A t \in UsedIn(v.dir) : f[v.dir[t].name] = cmd_read(v, t)
  BY <1>1, ContentsDefined
<1>3. /\ DOMAIN g = {w.dir[t].name : t \in UsedIn(w.dir)}
      /\ g = [n \in DOMAIN g |-> g[n]]
      /\ \A t \in UsedIn(w.dir) : g[w.dir[t].name] = cmd_read(w, t)
  BY <1>1, ContentsDefined
<1>4. DOMAIN g = DOMAIN f \cup {name}
  BY <1>1, <1>2, <1>3
<1>5. g[name] = cmd_read(w, s)
  BY <1>1, <1>3
<1>6. ASSUME NEW n \in DOMAIN f, n # name PROVE g[n] = f[n]
  <2>1. PICK t \in UsedIn(v.dir) : n = v.dir[t].name
    BY <1>2
  <2>2. t # s
    BY <1>1, <1>6, <2>1
  <2>3. w.dir[t].name = n /\ cmd_read(w, t) = cmd_read(v, t) /\ t \in UsedIn(w.dir)
    BY <2>1, <2>2
  <2>. QED
    BY <1>2, <1>3, <2>1, <2>3
<1>7. g = Putting(f, name, cmd_read(w, s))
  BY <1>3, <1>4, <1>5, <1>6 DEF Putting
<1>. QED
  BY <1>1, <1>7

\* One file is taken away, and the others are read as before.
LEMMA ContentsLeft ==
  ASSUME NEW v, Named(v.dir), NEW w, Named(w.dir), NEW s \in UsedIn(v.dir),
         UsedIn(w.dir) = UsedIn(v.dir) \ {s},
         \A t \in UsedIn(v.dir) \ {s} :
            w.dir[t].name = v.dir[t].name /\ cmd_read(w, t) = cmd_read(v, t)
  PROVE  Contents(w) = Leaving(Contents(v), v.dir[s].name)
<1>1. PICK name, f, g : name = v.dir[s].name /\ f = Contents(v) /\ g = Contents(w)
  OBVIOUS
<1>2. /\ DOMAIN f = {v.dir[t].name : t \in UsedIn(v.dir)}
      /\ \A t \in UsedIn(v.dir) : f[v.dir[t].name] = cmd_read(v, t)
  BY <1>1, ContentsDefined
<1>3. /\ DOMAIN g = {w.dir[t].name : t \in UsedIn(w.dir)}
      /\ g = [n \in DOMAIN g |-> g[n]]
      /\ \A t \in UsedIn(w.dir) : g[w.dir[t].name] = cmd_read(w, t)
  BY <1>1, ContentsDefined
<1>4. \A t \in UsedIn(v.dir) : v.dir[t].name = name <=> t = s
  BY <1>1 DEF Named
<1>5. DOMAIN g = DOMAIN f \ {name}
  BY <1>2, <1>3, <1>4
<1>6. ASSUME NEW n \in DOMAIN g PROVE g[n] = f[n]
  <2>1. PICK t \in UsedIn(v.dir) \ {s} : n = v.dir[t].name
    BY <1>3, <1>6
  <2>2. w.dir[t].name = n /\ cmd_read(w, t) = cmd_read(v, t) /\ t \in UsedIn(w.dir)
    BY <2>1
  <2>. QED
    BY <1>2, <1>3, <2>1, <2>2
<1>7. g = Leaving(f, name)
  BY <1>3, <1>5, <1>6 DEF Leaving
<1>. QED
  BY <1>1, <1>7

-----------------------------------------------------------------------------
(* What the commands do to the map.                                           *)

LEMMA MemoryRead ==
  /\ Volume.dir = g_dir /\ Volume.fat = g_fat /\ Volume.data = g_data
  /\ Volume2.dir = g_dir' /\ Volume2.fat = g_fat' /\ Volume2.data = g_data'
  BY DEF Volume, Volume2

LEMMA CreateNames ==
  ASSUME g_dir \in Directories, Named(g_dir), NEW name, cmd_create(name)
  PROVE  /\ Named(g_dir') /\ dir_find_free \in Slot \ UsedIn(g_dir)
         /\ UsedIn(g_dir') = UsedIn(g_dir) \cup {dir_find_free}
         /\ \A t \in UsedIn(g_dir) : g_dir'[t] = g_dir[t]
         /\ g_dir'[dir_find_free].name = name /\ g_dir'[dir_find_free].size = 0
<1>1. PICK s : s = dir_find_free
  OBVIOUS
<1>2. s \in Slot \ UsedIn(g_dir)
  BY <1>1, FreeSlot DEF cmd_create
<1>3. g_dir' = [g_dir EXCEPT ![s] =
                  [used |-> TRUE, name |-> name, size |-> 0, head |-> blk_find_free(g_fat)]]
  BY <1>1 DEF cmd_create
<1>4. /\ \A t \in Slot \ {s} : g_dir'[t] = g_dir[t]
      /\ g_dir'[s].used /\ g_dir'[s].name = name /\ g_dir'[s].size = 0
  BY <1>2, <1>3 DEF Directories
<1>5. UsedIn(g_dir') = UsedIn(g_dir) \cup {s}
  BY <1>2, <1>4 DEF UsedIn
<1>6. \A t \in UsedIn(g_dir) : g_dir'[t] = g_dir[t] /\ g_dir[t].name # name
  BY <1>2, <1>4 DEF UsedIn, cmd_create, dir_find_by_name
<1>7. Named(g_dir')
  BY <1>4, <1>5, <1>6 DEF Named
<1>. QED
  BY <1>1, <1>2, <1>4, <1>5, <1>6, <1>7

\* The entry s keeps its name, and the others are left alone.
Kept(dir, dir2, s) ==
    /\ UsedIn(dir2) = UsedIn(dir) /\ \A t \in UsedIn(dir) \ {s} : dir2[t] = dir[t]
    /\ dir2[s].name = dir[s].name

LEMMA KeptNames ==
  ASSUME NEW dir, Named(dir), NEW dir2, NEW s, Kept(dir, dir2, s)
  PROVE  Named(dir2)
<1>1. \A t \in UsedIn(dir) : dir2[t].name = dir[t].name
  BY DEF Kept
<1>. QED
  BY <1>1 DEF Kept, Named

LEMMA WriteNames ==
  ASSUME g_dir \in Directories, NEW name, NEW c \in Content, NEW s \in dir_find_by_name(name),
         \/ WriteAll(s, c, chain_free(g_fat, g_dir[s].head))
         \/ WritePart(s, c, chain_free(g_fat, g_dir[s].head))
  PROVE  Kept(g_dir, g_dir', s) /\ g_dir'[s].size = c.len
<1>1. s \in Slot /\ g_dir[s].used
  BY DEF dir_find_by_name
<1>2. PICK head : g_dir' = [g_dir EXCEPT ![s].size = c.len, ![s].head = head]
                  \/ g_dir' = [g_dir EXCEPT ![s].size = c.len]
  BY DEF WriteAll, WritePart
<1>3. g_dir[s] \in Entries
  BY <1>1 DEF Directories
<1>4. /\ \A t \in Slot \ {s} : g_dir'[t] = g_dir[t]
      /\ g_dir'[s].used = g_dir[s].used /\ g_dir'[s].name = g_dir[s].name
      /\ g_dir'[s].size = c.len
  <2>1. PICK e, h : e = [g_dir[s] EXCEPT !.size = c.len] /\ h = [e EXCEPT !.head = head]
    OBVIOUS
  <2>2. /\ e.used = g_dir[s].used /\ e.name = g_dir[s].name /\ e.size = c.len
        /\ h.used = g_dir[s].used /\ h.name = g_dir[s].name /\ h.size = c.len
    BY <1>3, <2>1 DEF Entries
  <2>3. g_dir' = [g_dir EXCEPT ![s] = h] \/ g_dir' = [g_dir EXCEPT ![s] = e]
    BY <1>1, <1>2, <2>1 DEF Directories
  <2>. QED
    BY <1>1, <2>2, <2>3 DEF Directories
<1>5. UsedIn(g_dir') = UsedIn(g_dir)
  BY <1>4 DEF UsedIn
<1>. QED
  BY <1>4, <1>5 DEF Kept, UsedIn

LEMMA DeleteNames ==
  ASSUME g_dir \in Directories, Named(g_dir), NEW s \in UsedIn(g_dir),
         g_dir' = [g_dir EXCEPT ![s] = Unused]
  PROVE  /\ Named(g_dir') /\ UsedIn(g_dir') = UsedIn(g_dir) \ {s}
         /\ \A t \in UsedIn(g_dir) \ {s} : g_dir'[t] = g_dir[t]
<1>1. /\ \A t \in Slot \ {s} : g_dir'[t] = g_dir[t]
      /\ g_dir'[s] = Unused /\ ~Unused.used
  BY DEF Directories, Unused, UsedIn
<1>2. UsedIn(g_dir') = UsedIn(g_dir) \ {s}
  BY <1>1 DEF UsedIn
<1>. QED
  BY <1>1, <1>2 DEF Named, UsedIn

\* Names stay unique, disk full or not.
LEMMA CommandNames ==
  ASSUME g_dir \in Directories, Named(g_dir), Completes \/ RunsOut
  PROVE  Named(g_dir')
<1>1. CASE NoChange
  BY <1>1 DEF NoChange
<1>2. CASE mkfs
  <2>1. UsedIn(g_dir') = {}
    BY <1>2 DEF mkfs, Formatted, Unused, UsedIn
  <2>. QED
    BY <2>1 DEF Named
<1>3. ASSUME NEW name \in Name, NEW c \in Content, cmd_write(name, c) \/ cmd_write_disk_full(name, c)
      PROVE  Named(g_dir')
  <2>1. PICK s \in dir_find_by_name(name) :
           \/ WriteAll(s, c, chain_free(g_fat, g_dir[s].head))
           \/ WritePart(s, c, chain_free(g_fat, g_dir[s].head))
    BY <1>3 DEF cmd_write, cmd_write_disk_full
  <2>. QED
    BY <2>1, WriteNames, KeptNames
<1>4. ASSUME NEW name \in Name, cmd_delete(name) PROVE Named(g_dir')
  <2>1. PICK s \in dir_find_by_name(name) : g_dir' = [g_dir EXCEPT ![s] = Unused]
    BY <1>4 DEF cmd_delete
  <2>. QED
    BY <2>1, FoundSlots, DeleteNames
<1>. QED
  BY <1>1, <1>2, <1>3, <1>4, CreateNames DEF Completes, RunsOut

\* The blocks a write that finds room takes, and what it leaves in them.
Taken(s, c, T) ==
    /\ T # {} /\ Cardinality(T) = Needed(c.len)
    /\ g_fat' = Linked(Freed(s), T)
    /\ g_dir'[s].size = c.len /\ g_dir'[s].head = Least(T)
    /\ \A b \in Block \ T : g_data'[b] = g_data[b]
    /\ BlocksFor(c.len) # 0 => \A b \in T : g_data'[b] = Chunk(c, Rank(T, b))

LEMMA WriteTakes ==
  ASSUME Sound(Volume, roomy), NEW c \in Content, NEW s \in UsedIn(g_dir),
         WriteAll(s, c, Freed(s))
  PROVE  \E T \in SUBSET Free(Freed(s)) : Taken(s, c, T)
<1>1. PICK need, T : need = BlocksFor(c.len) /\ T = Lowest(Free(Freed(s)), IF need = 0 THEN 1 ELSE need)
  OBVIOUS
<1>2. /\ Cardinality(Free(Freed(s))) >= need /\ Free(Freed(s)) # {}
      /\ g_dir' = Resized(g_dir, s, c.len, Least(T))
      /\ g_fat' = Linked(Freed(s), T)
      /\ g_data' = [b \in Block |-> IF b \notin T THEN g_data[b]
                                    ELSE IF need = 0 THEN Zero ELSE Chunk(c, Rank(T, b))]
  BY <1>1 DEF WriteAll, Linked, Resized
<1>3. Free(Freed(s)) \in SUBSET Block
  BY DEF Free
<1>4. T # {} /\ T \subseteq Free(Freed(s)) /\ Cardinality(T) = Needed(c.len) /\ Least(T) \in T
  BY <1>1, <1>2, <1>3, ContentAssumption, WritableBlocks
<1>5. g_dir \in Directories /\ s \in Slot
  BY MemoryParts DEF UsedIn
<1>6. g_dir'[s].size = c.len /\ g_dir'[s].head = Least(T)
  <2>1. PICK entry : entry = Rewritten(g_dir[s], c.len, Least(T))
    OBVIOUS
  <2>2. /\ entry.size = c.len /\ entry.head = Least(T)
        /\ Resized(g_dir, s, c.len, Least(T)) = Placed(Placed(g_dir, s, Unused), s, entry)
    BY <1>3, <1>4, <1>5, <2>1, ContentAssumption, EntryRewritten
  <2>3. g_dir'[s] = entry
    BY <1>2, <1>5, <2>2 DEF Placed, Directories
  <2>. QED
    BY <2>2, <2>3
<1>7. \A b \in Block \ T : g_data'[b] = g_data[b]
  BY <1>2
<1>8. BlocksFor(c.len) # 0 => \A b \in T : g_data'[b] = Chunk(c, Rank(T, b))
  BY <1>1, <1>2, <1>3, <1>4
<1>. QED
  BY <1>2, <1>4, <1>6, <1>7, <1>8 DEF Taken

LEMMA WriteReads ==
  ASSUME Sound(Volume, roomy), NEW c \in Content, NEW s \in UsedIn(g_dir),
         WriteAll(s, c, Freed(s))
  PROVE  cmd_read(Volume2, s) = Text(c)
<1>1. PICK T \in SUBSET Free(Freed(s)) : Taken(s, c, T)
  BY WriteTakes
<1>2. T \in SUBSET Block /\ T # {} /\ Cardinality(T) = Needed(c.len)
  BY <1>1 DEF Taken, Free
<1>3. PICK v : v = Volume2
  OBVIOUS
<1>4. /\ v.dir[s].size = c.len /\ v.dir[s].head = Least(T) /\ v.fat = Linked(Freed(s), T)
      /\ BlocksFor(c.len) # 0 => \A b \in T : v.data[b] = Chunk(c, Rank(T, b))
  BY <1>1, <1>3, MemoryRead DEF Taken
<1>5. cmd_read(v, s) = Text(c)
  BY <1>2, <1>4, ReadWritten
<1>. QED
  BY <1>3, <1>5

\* What another file is read as, if the command keeps its entry and its chain.
LEMMA OthersRead ==
  ASSUME Sound(Volume, roomy), NEW t \in UsedIn(g_dir), g_dir'[t] = g_dir[t],
         \A b \in Chain(g_fat, g_dir[t].head) : g_fat'[b] = g_fat[b] /\ g_data'[b] = g_data[b]
  PROVE  cmd_read(Volume2, t) = cmd_read(Volume, t)
<1>1. g_dir[t].head \in Block /\ g_dir[t].size \in Nat
  BY MemoryParts DEF Heads, Directories, Entries, UsedIn
<1>2. PICK v, v2 : v = Volume /\ v2 = Volume2
  OBVIOUS
<1>3. /\ v2.dir[t] = v.dir[t] /\ v.dir[t].head \in Block /\ v.dir[t].size \in Nat
      /\ \A b \in Chain(v.fat, v.dir[t].head) : v2.fat[b] = v.fat[b] /\ v2.data[b] = v.data[b]
  BY <1>1, <1>2, MemoryRead
<1>4. cmd_read(v2, t) = cmd_read(v, t)
  BY <1>3, ReadAgrees
<1>. QED
  BY <1>2, <1>4

\* On a disk with room a chain has no free block, and none of another file.
LEMMA ChainsApart ==
  ASSUME Sound(Volume, roomy), roomy, NEW t \in UsedIn(g_dir)
  PROVE  /\ Chain(g_fat, g_dir[t].head) \subseteq Block
         /\ Chain(g_fat, g_dir[t].head) \cap Free(g_fat) = {}
         /\ \A s \in UsedIn(g_dir) \ {t} :
               Chain(g_fat, g_dir[t].head) \cap Chain(g_fat, g_dir[s].head) = {}
<1>1. Tidy(g_dir, g_fat)
  BY DEF Sound, Volume
<1>2. Chain(g_fat, g_dir[t].head) \subseteq Block \ Free(g_fat)
  BY <1>1 DEF Tidy, Accounted
<1>3. \A s \in UsedIn(g_dir) \ {t} :
         Chain(g_fat, g_dir[t].head) \cap Chain(g_fat, g_dir[s].head) = {}
  BY <1>1 DEF Tidy, Disjoint
<1>. QED
  BY <1>2, <1>3

LEMMA CreatePuts ==
  ASSUME Sound(Volume, roomy), roomy, Named(g_dir), NEW name, cmd_create(name)
  PROVE  /\ name \notin DOMAIN Contents(Volume)
         /\ Contents(Volume2) = Putting(Contents(Volume), name, <<>>)
<1>1. g_dir \in Directories /\ g_fat \in Tables /\ g_data \in Storage
  BY MemoryParts
<1>2. PICK s, b : s = dir_find_free /\ b = blk_find_free(g_fat)
  OBVIOUS
<1>3. /\ Named(g_dir') /\ UsedIn(g_dir') = UsedIn(g_dir) \cup {s} /\ s \notin UsedIn(g_dir)
      /\ \A t \in UsedIn(g_dir) : g_dir'[t] = g_dir[t]
      /\ g_dir'[s].name = name /\ g_dir'[s].size = 0
  BY <1>1, <1>2, CreateNames
<1>4. b \in Free(g_fat)
  <2>1. Free(g_fat) \in SUBSET Block /\ Free(g_fat) # {}
    BY DEF cmd_create, Free
  <2>. QED
    BY <1>2, <2>1, LeastBlock DEF blk_find_free
<1>5. g_fat' = [g_fat EXCEPT ![b] = FAT_END] /\ g_data' = [g_data EXCEPT ![b] = Zero]
  BY <1>2 DEF cmd_create
<1>6. \A x \in Block \ {b} : g_fat'[x] = g_fat[x] /\ g_data'[x] = g_data[x]
  BY <1>1, <1>5 DEF Tables, Storage
<1>7. ASSUME NEW t \in UsedIn(g_dir) PROVE cmd_read(Volume2, t) = cmd_read(Volume, t)
  <2>1. \A x \in Chain(g_fat, g_dir[t].head) : x \in Block \ {b}
    BY <1>4, ChainsApart
  <2>2. \A x \in Chain(g_fat, g_dir[t].head) : g_fat'[x] = g_fat[x] /\ g_data'[x] = g_data[x]
    BY <1>6, <2>1
  <2>3. g_dir'[t] = g_dir[t]
    BY <1>3
  <2>. QED
    BY <2>2, <2>3, OthersRead
<1>8. cmd_read(Volume2, s) = <<>>
  BY <1>3, MemoryRead, ReadEmpty
<1>9. Contents(Volume2) = Putting(Contents(Volume), name, cmd_read(Volume2, s))
  <2>1. PICK v, w : v = Volume /\ w = Volume2
    OBVIOUS
  <2>2. /\ Named(v.dir) /\ Named(w.dir) /\ UsedIn(w.dir) = UsedIn(v.dir) \cup {s}
        /\ s \notin UsedIn(v.dir) /\ w.dir[s].name = name
        /\ \A t \in UsedIn(v.dir) \ {s} :
              w.dir[t].name = v.dir[t].name /\ cmd_read(w, t) = cmd_read(v, t)
    BY <1>3, <1>7, <2>1, MemoryRead
  <2>3. Contents(w) = Putting(Contents(v), w.dir[s].name, cmd_read(w, s))
    BY <2>2, ContentsPut
  <2>. QED
    BY <2>1, <2>2, <2>3
<1>10. name \notin DOMAIN Contents(Volume)
  <2>1. \A t \in UsedIn(g_dir) : g_dir[t].name # name
    BY DEF cmd_create, dir_find_by_name, UsedIn
  <2>2. PICK v : v = Volume
    OBVIOUS
  <2>3. Named(v.dir) /\ \A t \in UsedIn(v.dir) : v.dir[t].name # name
    BY <2>1, <2>2, MemoryRead
  <2>4. DOMAIN Contents(v) = {v.dir[t].name : t \in UsedIn(v.dir)}
    BY <2>3, ContentsDefined
  <2>. QED
    BY <2>2, <2>3, <2>4
<1>. QED
  BY <1>8, <1>9, <1>10

LEMMA WritePuts ==
  ASSUME Sound(Volume, roomy), roomy, Named(g_dir), NEW name, NEW c \in Content, cmd_write(name, c)
  PROVE  /\ name \in DOMAIN Contents(Volume)
         /\ Contents(Volume2) = Putting(Contents(Volume), name, Text(c))
<1>1. PICK s \in dir_find_by_name(name) : WriteAll(s, c, Freed(s))
  BY DEF cmd_write, Freed
<1>2. s \in UsedIn(g_dir) /\ g_dir[s].name = name
  BY FoundSlots
<1>3. g_dir \in Directories /\ g_fat \in Tables
  BY MemoryParts
<1>4. Kept(g_dir, g_dir', s)
  BY <1>1, <1>3, WriteNames DEF Freed
<1>5. Named(g_dir')
  BY <1>4, KeptNames
<1>6. PICK T \in SUBSET Free(Freed(s)) : Taken(s, c, T)
  BY <1>1, <1>2, WriteTakes
<1>7. ASSUME NEW t \in UsedIn(g_dir) \ {s}
      PROVE  g_dir'[t] = g_dir[t] /\ cmd_read(Volume2, t) = cmd_read(Volume, t)
  <2>1. PICK old, mine : old = Chain(g_fat, g_dir[s].head) /\ mine = Chain(g_fat, g_dir[t].head)
    OBVIOUS
  <2>2. mine \subseteq Block /\ mine \cap Free(g_fat) = {} /\ mine \cap old = {}
    BY <1>2, <2>1, ChainsApart
  <2>3. mine \cap T = {}
    BY <1>2, <2>1, <2>2, FreedSound
  <2>4. \A b \in mine : g_fat'[b] = Freed(s)[b] /\ g_data'[b] = g_data[b]
    BY <1>6, <2>2, <2>3 DEF Taken, Linked
  <2>5. \A b \in mine : Freed(s)[b] = g_fat[b]
    BY <1>3, <2>1, <2>2, FreedType DEF Freed
  <2>6. g_dir'[t] = g_dir[t]
    BY <1>4 DEF Kept
  <2>. QED
    BY <2>1, <2>4, <2>5, <2>6, OthersRead
<1>8. cmd_read(Volume2, s) = Text(c)
  BY <1>1, <1>2, WriteReads
<1>9. Contents(Volume2) = Putting(Contents(Volume), name, cmd_read(Volume2, s))
  <2>1. PICK v, w : v = Volume /\ w = Volume2
    OBVIOUS
  <2>2. /\ Named(v.dir) /\ Named(w.dir) /\ UsedIn(w.dir) = UsedIn(v.dir) \cup {s}
        /\ v.dir[s].name = w.dir[s].name /\ w.dir[s].name = name
        /\ \A t \in UsedIn(v.dir) \ {s} :
              w.dir[t].name = v.dir[t].name /\ cmd_read(w, t) = cmd_read(v, t)
    BY <1>2, <1>4, <1>5, <1>7, <2>1, MemoryRead DEF Kept
  <2>3. Contents(w) = Putting(Contents(v), w.dir[s].name, cmd_read(w, s))
    BY <2>2, ContentsPut
  <2>. QED
    BY <2>1, <2>2, <2>3
<1>10. name \in DOMAIN Contents(Volume)
  BY <1>2, MemoryRead, ContentsDefined
<1>. QED
  BY <1>8, <1>9, <1>10

LEMMA DeleteLeaves ==
  ASSUME Sound(Volume, roomy), roomy, Named(g_dir), NEW name, cmd_delete(name)
  PROVE  /\ name \in DOMAIN Contents(Volume)
         /\ Contents(Volume2) = Leaving(Contents(Volume), name)
<1>1. PICK s \in dir_find_by_name(name) :
         g_fat' = Freed(s) /\ g_dir' = [g_dir EXCEPT ![s] = Unused] /\ g_data' = g_data
  BY DEF cmd_delete, Freed
<1>2. s \in UsedIn(g_dir) /\ g_dir[s].name = name
  BY FoundSlots
<1>3. g_dir \in Directories /\ g_fat \in Tables
  BY MemoryParts
<1>4. /\ Named(g_dir') /\ UsedIn(g_dir') = UsedIn(g_dir) \ {s}
      /\ \A t \in UsedIn(g_dir) \ {s} : g_dir'[t] = g_dir[t]
  BY <1>1, <1>2, <1>3, DeleteNames
<1>5. ASSUME NEW t \in UsedIn(g_dir) \ {s} PROVE cmd_read(Volume2, t) = cmd_read(Volume, t)
  <2>1. PICK old, mine : old = Chain(g_fat, g_dir[s].head) /\ mine = Chain(g_fat, g_dir[t].head)
    OBVIOUS
  <2>2. mine \subseteq Block /\ mine \cap old = {}
    BY <1>2, <2>1, ChainsApart
  <2>3. \A b \in mine : g_fat'[b] = g_fat[b] /\ g_data'[b] = g_data[b]
    BY <1>1, <1>3, <2>1, <2>2, FreedType DEF Freed
  <2>4. g_dir'[t] = g_dir[t]
    BY <1>4
  <2>. QED
    BY <2>1, <2>3, <2>4, OthersRead
<1>6. Contents(Volume2) = Leaving(Contents(Volume), name)
  <2>1. PICK v, w : v = Volume /\ w = Volume2
    OBVIOUS
  <2>2. /\ Named(v.dir) /\ Named(w.dir) /\ UsedIn(w.dir) = UsedIn(v.dir) \ {s}
        /\ s \in UsedIn(v.dir) /\ v.dir[s].name = name
        /\ \A t \in UsedIn(v.dir) \ {s} :
              w.dir[t].name = v.dir[t].name /\ cmd_read(w, t) = cmd_read(v, t)
    BY <1>2, <1>4, <1>5, <2>1, MemoryRead
  <2>3. Contents(w) = Leaving(Contents(v), v.dir[s].name)
    BY <2>2, ContentsLeft
  <2>. QED
    BY <2>1, <2>2, <2>3
<1>7. name \in DOMAIN Contents(Volume)
  BY <1>2, MemoryRead, ContentsDefined
<1>. QED
  BY <1>6, <1>7

-----------------------------------------------------------------------------
(* The program implements the map: what a process has changed so far is one   *)
(* command on it, and is seen when the process begins to save.                *)

Changes(f, g) ==
    \/ g = f \/ g = [n \in {} |-> <<>>]
    \/ \E name \in Name :
          \/ name \notin DOMAIN f /\ g = Putting(f, name, <<>>)
          \/ name \in DOMAIN f /\ \E c \in Content : g = Putting(f, name, Text(c))
          \/ name \in DOMAIN f /\ g = Leaving(f, name)

LEMMA FormattedEmpty == Named(Formatted.dir) /\ Contents(Formatted) = [n \in {} |-> <<>>]
<1>1. UsedIn(Formatted.dir) = {}
  BY DEF Formatted, UsedIn, Unused
<1>2. Named(Formatted.dir)
  BY <1>1 DEF Named
<1>3. PICK v : v = Formatted
  OBVIOUS
<1>4. /\ DOMAIN Contents(v) = {}
      /\ Contents(v) = [n \in DOMAIN Contents(v) |-> Contents(v)[n]]
  <2>1. Named(v.dir) /\ {v.dir[s].name : s \in UsedIn(v.dir)} = {}
    BY <1>1, <1>2, <1>3
  <2>. QED
    BY <2>1, ContentsDefined
<1>. QED
  BY <1>2, <1>3, <1>4

LEMMA CommandChanges ==
  ASSUME Sound(Volume, roomy), roomy, Named(g_dir), Completes
  PROVE  Changes(Contents(Volume), Contents(Volume2))
<1>1. CASE NoChange
  <2>1. Volume2 = Volume
    BY <1>1 DEF NoChange, Volume2, Volume
  <2>. QED
    BY <2>1 DEF Changes
<1>2. CASE mkfs
  <2>1. Volume2 = Formatted
    BY <1>2 DEF mkfs, Volume2, Formatted
  <2>. QED
    BY <2>1, FormattedEmpty DEF Changes
<1>3. ASSUME NEW name \in Name, cmd_create(name)
      PROVE  Changes(Contents(Volume), Contents(Volume2))
  BY <1>3, CreatePuts DEF Changes
<1>4. ASSUME NEW name \in Name, NEW c \in Content, cmd_write(name, c)
      PROVE  Changes(Contents(Volume), Contents(Volume2))
  BY <1>4, WritePuts DEF Changes
<1>5. ASSUME NEW name \in Name, cmd_delete(name)
      PROVE  Changes(Contents(Volume), Contents(Volume2))
  BY <1>5, DeleteLeaves DEF Changes
<1>. QED
  BY <1>1, <1>2, <1>3, <1>4, <1>5 DEF Completes

Progress ==
    /\ Named(g_dir) /\ Named(image.dir)
    /\ pc = "loaded" => Volume = Loaded
    /\ roomy /\ pc = "done" => Changes(Contents(Loaded), Contents(Volume))

LEMMA DiskInitProgress == DiskInit => Progress
<1>. SUFFICES ASSUME DiskInit PROVE Progress
  OBVIOUS
<1>1. Volume = Formatted /\ image = Formatted /\ g_dir = Formatted.dir /\ pc = "idle"
  BY DEF DiskInit, Init, Volume, Formatted
<1>. QED
  BY <1>1, FormattedEmpty DEF Progress

LEMMA ProgressStep == IInv /\ Progress /\ [DiskNext]_<<vars, roomy>> => Progress'
<1>. SUFFICES ASSUME IInv, Progress, [DiskNext]_<<vars, roomy>> PROVE Progress'
  OBVIOUS
<1>1. /\ Sound(Volume, roomy) /\ g_dir \in Directories /\ image \in Volumes
      /\ Named(g_dir) /\ Named(image.dir)
  BY MemoryParts DEF IInv, Sound, Progress
<1>2. roomy' = roomy /\ Volume' = Volume2
  BY DEF DiskNext, Volume, Volume2
<1>3. SUFFICES /\ Named(g_dir') /\ Named(image'.dir)
               /\ pc' = "loaded" => Volume2 = Loaded'
               /\ roomy /\ pc' = "done" => Changes(Contents(Loaded'), Contents(Volume2))
  BY <1>2 DEF Progress
<1>4. Formatted \in Volumes
  BY FormattedSound DEF Sound
<1>5. CASE fs_load
  <2>1. Process(Loaded) /\ Loaded \in Volumes /\ Named(Loaded.dir)
    BY <1>1, <1>4, <1>5, FormattedEmpty DEF fs_load, Loaded
  <2>2. Volume2 = Loaded /\ Named(g_dir')
    BY <2>1, ProcessVolume DEF Process
  <2>3. Loaded' = Loaded /\ image' = image /\ pc' = "loaded"
    BY <1>5 DEF fs_load, Loaded
  <2>. QED
    BY <1>1, <2>2, <2>3
<1>6. CASE Command(Completes) \/ (~roomy /\ Command(RunsOut))
  <2>1. /\ pc = "loaded" /\ pc' = "done" /\ image' = image /\ Loaded' = Loaded
        /\ Completes \/ (~roomy /\ RunsOut)
    BY <1>6 DEF Command, Loaded
  <2>2. Named(g_dir')
    BY <1>1, <2>1, CommandNames
  <2>3. roomy => Changes(Contents(Volume), Contents(Volume2))
    BY <1>1, <2>1, CommandChanges
  <2>4. Volume = Loaded
    BY <2>1 DEF Progress
  <2>. QED
    BY <1>1, <2>1, <2>2, <2>3, <2>4
<1>7. CASE SaveBegins
  <2>1. g_dir' = g_dir /\ image' = Volume /\ pc' = "saving"
    BY <1>7 DEF SaveBegins
  <2>. QED
    BY <1>1, <2>1, MemoryRead
<1>8. CASE SaveEnds \/ Stops
  <2>1. g_dir' = Formatted.dir /\ image' = image /\ pc' = "idle"
    BY <1>8 DEF SaveEnds, Stops, Process
  <2>. QED
    BY <1>1, <2>1, FormattedEmpty
<1>9. CASE UNCHANGED <<vars, roomy>>
  <2>1. /\ g_dir' = g_dir /\ image' = image /\ pc' = pc /\ Loaded' = Loaded
        /\ Volume2 = Volume
    BY <1>9 DEF vars, Volume, Volume2, Loaded
  <2>. QED
    BY <1>1, <2>1 DEF Progress
<1>. QED
  BY <1>5, <1>6, <1>7, <1>8, <1>9 DEF DiskNext

\* What is seen changes when a process begins to save, by the command it ran,
\* and when one is killed in the middle, to nothing.
LEMMA VisibleSteps ==
  ASSUME IInv, Progress, [DiskNext]_<<vars, roomy>>, roomy
  PROVE  Changes(Contents(Visible), Contents(Visible'))
<1>1. SUFFICES \/ Visible' = Visible \/ Visible' = Formatted
               \/ Changes(Contents(Visible), Contents(Visible'))
  BY FormattedEmpty DEF Changes
<1>2. CASE fs_load \/ Command(Completes)
  BY <1>2 DEF fs_load, Command, Visible
<1>3. CASE SaveBegins
  <2>1. pc = "done" /\ Visible = Loaded /\ Visible' = Volume
    BY <1>3 DEF SaveBegins, Visible, Loaded
  <2>. QED
    BY <2>1 DEF Progress
<1>4. CASE SaveEnds \/ Stops
  BY <1>4 DEF SaveEnds, Stops, Visible
<1>5. CASE UNCHANGED <<vars, roomy>>
  BY <1>5 DEF vars, Visible
<1>. QED
  BY <1>2, <1>3, <1>4, <1>5 DEF DiskNext

LEMMA StoreSteps ==
  ASSUME Changes(Contents(Visible), Contents(Visible'))
  PROVE  [Store!Next]_(Contents(Visible))
<1>1. PICK f, g : f = Contents(Visible) /\ g = Contents(Visible')
  OBVIOUS
<1>2. CASE g = f
  BY <1>1, <1>2
<1>3. CASE g = [n \in {} |-> <<>>]
  BY <1>1, <1>3 DEF Store!Next, Store!Lose, Store!None
<1>4. ASSUME NEW name \in Name, name \notin DOMAIN f, g = Putting(f, name, <<>>)
      PROVE  Store!Next
  <2>1. Store!Create(name)
    BY <1>1, <1>4 DEF Store!Create, Store!Put, Store!Exists, Putting
  <2>. QED
    BY <2>1 DEF Store!Next
<1>5. ASSUME NEW name \in Name, name \in DOMAIN f, NEW c \in Content, g = Putting(f, name, Text(c))
      PROVE  Store!Next
  <2>1. Store!Write(name, Text(c))
    BY <1>1, <1>5 DEF Store!Write, Store!Put, Store!Exists, Putting
  <2>. QED
    BY <2>1 DEF Store!Next
<1>6. ASSUME NEW name \in Name, name \in DOMAIN f, g = Leaving(f, name)
      PROVE  Store!Next
  <2>1. Store!Delete(name)
    BY <1>1, <1>6 DEF Store!Delete, Store!Exists, Leaving
  <2>. QED
    BY <2>1 DEF Store!Next
<1>. QED
  BY <1>1, <1>2, <1>3, <1>4, <1>5, <1>6 DEF Changes

\* As long as the disk has room the program implements the map from names to
\* contents, whenever it is killed.
THEOREM DiskImplementsStore == DiskSpec => RoomyImplementsStore
<1>1. DiskInit => (roomy => Store!Init)
  <2>. SUFFICES ASSUME DiskInit PROVE Store!Init
    OBVIOUS
  <2>1. Visible = Formatted
    BY DEF DiskInit, Init, Visible
  <2>. QED
    BY <2>1, FormattedEmpty DEF Store!Init, Store!None
<1>2. IInv /\ Progress /\ [DiskNext]_<<vars, roomy>> => (roomy => [Store!Next]_(Contents(Visible)))
  BY VisibleSteps, StoreSteps
<1>. QED
  BY <1>1, <1>2, DiskInitInvariant, DiskStep, DiskInitProgress, ProgressStep, PTL
  DEF DiskSpec, RoomyImplementsStore

\* After a write that reports success, read prints what was written, whatever
\* went wrong before.
THEOREM WrittenIsRead == DiskSpec => ReadAfterWrite
<1>1. ASSUME IInv, Progress, NEW name \in Name, NEW c \in Content, Command(cmd_write(name, c))
      PROVE  \A s \in dir_find_by_name(name)' : cmd_read(Volume, s)' = Text(c)
  <2>1. Sound(Volume, roomy) /\ g_dir \in Directories /\ Named(g_dir)
    BY <1>1, MemoryParts DEF IInv, Progress
  <2>2. PICK s \in dir_find_by_name(name) : WriteAll(s, c, Freed(s))
    BY <1>1 DEF Command, cmd_write, Freed
  <2>3. s \in UsedIn(g_dir) /\ g_dir[s].name = name
    BY <2>2, FoundSlots
  <2>4. cmd_read(Volume2, s) = Text(c)
    BY <2>1, <2>2, <2>3, WriteReads
  <2>5. Kept(g_dir, g_dir', s) /\ Named(g_dir')
    BY <2>1, <2>2, WriteNames, KeptNames DEF Freed
  <2>6. ASSUME NEW t \in dir_find_by_name(name)' PROVE cmd_read(Volume, t)' = Text(c)
    <3>1. t \in UsedIn(g_dir') /\ g_dir'[t].name = name
      BY <2>6 DEF dir_find_by_name, UsedIn
    <3>2. t = s
      BY <2>3, <2>5, <3>1 DEF Kept, Named
    <3>3. cmd_read(Volume, t)' = cmd_read(Volume2, t)
      BY DEF cmd_read, Volume, Volume2
    <3>. QED
      BY <2>4, <3>2, <3>3
  <2>. QED
    BY <2>6
<1>2. IInv /\ Progress /\ [DiskNext]_<<vars, roomy>> =>
        [\A name \in Name, c \in Content :
            Command(cmd_write(name, c)) =>
                \A s \in dir_find_by_name(name)' : cmd_read(Volume, s)' = Text(c)]_vars
  BY <1>1
<1>. QED
  BY <1>2, DiskInitInvariant, DiskStep, DiskInitProgress, ProgressStep, PTL
  DEF DiskSpec, ReadAfterWrite
=============================================================================
