--------------------------- MODULE BlockTreeProofs ---------------------------
(***************************************************************************)
(* Facts about every block tree BlockTree admits.  An induction on height  *)
(* is carried out as an argument about a lowest counterexample.            *)
(***************************************************************************)
EXTENDS BlockTree, WellFoundedInduction, TLAPS

\* Every nonempty set of naturals has a least element.
LEMMA LeastNat ==
  ASSUME NEW T \in SUBSET Nat, T # {}
  PROVE  \E x \in T : \A y \in T : x <= y
<1> DEFINE R == OpToRel(<, Nat)
<1>1. IsWellFoundedOn(R, Nat)
  BY NatLessThanWellFounded
<1>2. PICK x \in T : \A y \in T : <<y, x>> \notin R
  BY <1>1, WFMin, Zenon
<1>3. \A y \in T : ~(y < x)
  BY <1>2 DEF OpToRel
<1> QED
  BY <1>3

\* Every nonempty set of blocks has a lowest one.
LEMMA LowestExists ==
  ASSUME NEW S \in SUBSET Block, S # {}
  PROVE  /\ \E b \in S : \A c \in S : Height[b] <= Height[c]
         /\ Lowest(S) \in S
         /\ \A c \in S : Height[Lowest(S)] <= Height[c]
<1> DEFINE T == {Height[b] : b \in S}
<1>1. T \in SUBSET Nat /\ T # {}
  BY NodeAssumption
<1>2. PICK x \in T : \A y \in T : x <= y
  BY <1>1, LeastNat
<1>3. \E b \in S : \A c \in S : Height[b] <= Height[c]
  BY <1>2
<1> QED
  BY <1>3 DEF Lowest

\* newBlockNode: what a block adds to its parent's chain view.
LEMMA ParentFacts ==
  ASSUME NEW b \in Block, b # Genesis
  PROVE  /\ Parent[b] \in Block
         /\ Height[b] = Height[Parent[b]] + 1
         /\ Height[b] \in Nat /\ Height[Parent[b]] \in Nat
         /\ Chain[b] = Chain[Parent[b]] \cup {b}
         /\ b \notin Chain[Parent[b]]
         /\ Chain[b] \in SUBSET Block
BY BlockAssumption, NodeAssumption

\* A chain view holds its tip and is made of blocks.
LEMMA ChainSelf ==
  ASSUME NEW b \in Block
  PROVE  b \in Chain[b] /\ Chain[b] \in SUBSET Block /\ Height[b] \in Nat
BY BlockAssumption, NodeAssumption

\* The chain view of a block of a chain view is part of it, and lower.
LEMMA ChainDown ==
  ASSUME NEW b \in Block, NEW a \in Chain[b]
  PROVE  /\ Chain[a] \subseteq Chain[b]
         /\ a # b => Height[a] < Height[b]
<1> DEFINE Good(c) == \A d \in Chain[c] : /\ Chain[d] \subseteq Chain[c]
                                          /\ d # c => Height[d] < Height[c]
           S == {c \in Block : ~Good(c)}
<1>1. SUFFICES ASSUME S # {} PROVE FALSE
  BY <1>1
<1>2. PICK c \in S : \A d \in S : Height[c] <= Height[d]
  BY <1>1, LowestExists
<1>3. c \in Block /\ ~Good(c)
  OBVIOUS
<1>4. c # Genesis
  BY <1>3, BlockAssumption, NodeAssumption
<1>5. Height[Parent[c]] < Height[c] /\ Parent[c] \in Block
  BY <1>3, <1>4, ParentFacts
<1>6. Good(Parent[c])
  BY <1>2, <1>5, <1>3, ChainSelf
<1>7. \A d \in Chain[c] : d \in Chain[Parent[c]] \/ d = c
  BY <1>3, <1>4, ParentFacts
<1>8. \A d \in Chain[c] : Chain[d] \subseteq Chain[c]
  BY <1>3, <1>4, <1>6, <1>7, ParentFacts
<1>9. ASSUME NEW d \in Chain[c], d # c PROVE Height[d] < Height[c]
  <2>1. d \in Chain[Parent[c]]
    BY <1>7, <1>9
  <2>2. d = Parent[c] \/ Height[d] < Height[Parent[c]]
    BY <1>6, <2>1
  <2>3. d \in Block
    BY <2>1, <1>5, ChainSelf
  <2> QED
    BY <2>2, <2>3, <1>3, <1>5, ChainSelf
<1> QED
  BY <1>3, <1>8, <1>9

\* Of two blocks of one chain view the lower is in the chain of the higher.
LEMMA ChainLinear ==
  ASSUME NEW b \in Block, NEW a \in Chain[b], NEW c \in Chain[b],
         Height[a] <= Height[c]
  PROVE  a \in Chain[c]
<1> DEFINE Good(x) == \A y \in Chain[x], z \in Chain[x] :
                        Height[y] <= Height[z] => y \in Chain[z]
           S == {x \in Block : ~Good(x)}
<1>1. SUFFICES ASSUME S # {} PROVE FALSE
  BY <1>1
<1>2. PICK x \in S : \A y \in S : Height[x] <= Height[y]
  BY <1>1, LowestExists
<1>3. x \in Block /\ ~Good(x)
  OBVIOUS
<1>4. x # Genesis
  BY <1>3, BlockAssumption, NodeAssumption
<1>5. Height[Parent[x]] < Height[x] /\ Parent[x] \in Block
  BY <1>3, <1>4, ParentFacts
<1>6. Good(Parent[x])
  BY <1>2, <1>5, <1>3, ChainSelf
<1>7. \A d \in Chain[x] : d \in Chain[Parent[x]] \/ d = x
  BY <1>3, <1>4, ParentFacts
<1>8. ASSUME NEW y \in Chain[x], NEW z \in Chain[x], Height[y] <= Height[z]
      PROVE  y \in Chain[z]
  <2>1. CASE z = x
    BY <2>1
  <2>2. CASE z # x
    <3>1. Height[z] < Height[x] /\ z \in Block /\ y \in Block
      BY <2>2, <1>3, ChainDown, ChainSelf
    <3>2. y # x
      BY <3>1, <1>8, <1>3, ChainSelf
    <3> QED
      BY <3>2, <2>2, <1>6, <1>7, <1>8
  <2> QED
    BY <2>1, <2>2
<1> QED
  BY <1>3, <1>8

\* Blocks of one chain view at the same height are one block.
LEMMA SameHeight ==
  ASSUME NEW b \in Block, NEW a \in Chain[b], NEW c \in Chain[b],
         Height[a] = Height[c]
  PROVE  a = c
<1>1. a \in Block /\ c \in Block
  BY ChainSelf
<1>2. a \in Chain[c]
  BY <1>1, ChainLinear, ChainSelf
<1>3. a # c => Height[a] < Height[c]
  BY <1>1, <1>2, ChainDown
<1> QED
  BY <1>1, <1>3, ChainSelf

\* Every nonempty part of a chain view has a highest block.
LEMMA HighestExists ==
  ASSUME NEW b \in Block, NEW S \in SUBSET Chain[b], S # {}
  PROVE  /\ Highest(S) \in S
         /\ \A c \in S : Height[c] <= Height[Highest(S)]
<1> DEFINE T == {Height[b] - Height[c] : c \in S}
<1>1. \A c \in S : c \in Block /\ Height[c] \in Nat /\ Height[b] \in Nat
                  /\ Height[c] <= Height[b]
  BY ChainSelf, ChainDown
<1>2. T \in SUBSET Nat /\ T # {}
  BY <1>1
<1>3. PICK x \in T : \A y \in T : x <= y
  BY <1>2, LeastNat
<1>4. PICK h \in S : x = Height[b] - Height[h]
  OBVIOUS
<1>5. \A c \in S : Height[b] - Height[h] <= Height[b] - Height[c]
  BY <1>3, <1>4
<1>6. \A c \in S : Height[c] <= Height[h]
  BY <1>1, <1>5
<1> QED
  BY <1>6 DEF Highest

\* Every chain view starts at the genesis block.
LEMMA GenesisInChain ==
  ASSUME NEW b \in Block
  PROVE  Genesis \in Chain[b]
<1> DEFINE S == {c \in Block : Genesis \notin Chain[c]}
<1>1. SUFFICES ASSUME S # {} PROVE FALSE
  BY <1>1
<1>2. PICK c \in S : \A d \in S : Height[c] <= Height[d]
  BY <1>1, LowestExists
<1>3. c \in Block /\ c # Genesis
  BY BlockAssumption, NodeAssumption
<1>4. Parent[c] \in S
  BY <1>2, <1>3, ParentFacts
<1> QED
  BY <1>2, <1>3, <1>4, ParentFacts

\* Two chain views fork at a block: what they share is its chain view.
LEMMA ForkExists ==
  ASSUME NEW a \in Block, NEW b \in Block
  PROVE  /\ FindFork(a, b) \in Chain[a] \cap Chain[b]
         /\ Chain[a] \cap Chain[b] = Chain[FindFork(a, b)]
<1> DEFINE S == Chain[a] \cap Chain[b]
           f == Highest(S)
<1>1. S \in SUBSET Chain[a] /\ S # {}
  BY GenesisInChain
<1>2. f \in S /\ \A c \in S : Height[c] <= Height[f]
  BY <1>1, HighestExists
<1>3. Chain[f] \subseteq S
  BY <1>2, ChainDown
<1>4. S \subseteq Chain[f]
  BY <1>2, ChainLinear
<1> QED
  BY <1>2, <1>3, <1>4 DEF FindFork

\* Disconnecting: the highest block above f is the tip, and without it the
\* blocks above f are those of the parent's chain view.
LEMMA DetachTop ==
  ASSUME NEW t \in Block, NEW f \in Chain[t], Chain[t] \ Chain[f] # {}
  PROVE  /\ Highest(Chain[t] \ Chain[f]) = t
         /\ t # Genesis
         /\ f \in Chain[Parent[t]]
         /\ (Chain[t] \ Chain[f]) \ {t} = Chain[Parent[t]] \ Chain[f]
<1> DEFINE S == Chain[t] \ Chain[f]
<1>1. f \in Block /\ f # t
  BY ChainSelf
<1>2. t # Genesis
  BY <1>1, NodeAssumption
<1>3. Chain[t] = Chain[Parent[t]] \cup {t} /\ t \notin Chain[Parent[t]]
  BY <1>2, ParentFacts
<1>4. t \notin Chain[f]
  BY <1>1, ChainDown, ChainSelf
<1>5. t \in S
  BY <1>4, ChainSelf
<1>6. Highest(S) \in S /\ \A c \in S : Height[c] <= Height[Highest(S)]
  BY <1>5, HighestExists
<1>7. Highest(S) = t
  <2>1. Highest(S) \in Chain[t] /\ Highest(S) \in Block /\ Height[t] <= Height[Highest(S)]
    BY <1>5, <1>6, ChainSelf
  <2>2. Highest(S) # t => Height[Highest(S)] < Height[t]
    BY <2>1, ChainDown
  <2> QED
    BY <2>1, <2>2, ChainSelf
<1> QED
  BY <1>1, <1>2, <1>3, <1>4, <1>7

\* Connecting: the lowest block above f extends f, and without it the blocks
\* above f are those above it.
LEMMA AttachBottom ==
  ASSUME NEW g \in Block, NEW f \in Chain[g], NEW S, S = Chain[g] \ Chain[f], S # {},
         NEW n, n = Lowest(S)
  PROVE  /\ n \in Chain[g] /\ n # Genesis
         /\ Parent[n] = f
         /\ S \ {n} = Chain[g] \ Chain[n]
<1>1. f \in Block
  BY ChainSelf
<1>2. n \in S /\ \A c \in S : Height[n] <= Height[c]
  BY LowestExists, ChainSelf
<1>3. n \in Block /\ n \in Chain[g] /\ n \notin Chain[f]
  BY <1>2, ChainSelf
<1>4. n # Genesis
  BY <1>1, <1>3, GenesisInChain
<1>5. Chain[n] = Chain[Parent[n]] \cup {n} /\ Parent[n] \in Block
      /\ Height[Parent[n]] < Height[n]
  BY <1>3, <1>4, ParentFacts
<1>6. Parent[n] \in Chain[g]
  BY <1>3, <1>5, ChainDown, ChainSelf
<1>7. Parent[n] \in Chain[f]
  <2>1. Parent[n] \notin Chain[f] => Height[n] <= Height[Parent[n]]
    BY <1>2, <1>6
  <2>2. Height[n] \in Nat /\ Height[Parent[n]] \in Nat
    BY <1>3, <1>5, ChainSelf
  <2> QED
    BY <2>1, <2>2, <1>5
<1>8. f \in Chain[n]
  BY <1>1, <1>3, ChainLinear, ChainSelf
<1>9. f # n
  BY <1>1, <1>3, ChainSelf
<1>10. Parent[n] = f
  <2>1. f \in Chain[Parent[n]]
    BY <1>5, <1>8, <1>9
  <2>2. f # Parent[n] => Height[f] < Height[Parent[n]] /\ Height[Parent[n]] < Height[f]
    BY <2>1, <1>1, <1>5, <1>7, ChainDown
  <2> QED
    BY <2>2, <1>1, <1>5, ChainSelf
<1> QED
  BY <1>3, <1>4, <1>5, <1>10
=============================================================================
