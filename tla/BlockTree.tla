------------------------------ MODULE BlockTree ------------------------------
(***************************************************************************)
(* The tree of blocks that pearld's block index holds, and the pure chain  *)
(* arithmetic on it: chain views, fork points and the tip-selection policy *)
(* (node/blockchain: blockindex.go, chainview.go, chain.go).               *)
(*                                                                         *)
(* Hashes are injective, so a block is its own name and its header fields  *)
(* are constants: the block it extends, the work its target claims, and    *)
(* the three values newBlockNode derives from its parent's node.           *)
(***************************************************************************)
EXTENDS Integers, FiniteSets

CONSTANTS
  Block,      \* every block the node may ever be given, Genesis included
  Genesis,    \* chainParams.GenesisBlock
  Parent,     \* header.PrevBlock of every block but Genesis
  Work,       \* CalcWork(bits) of every block
  Height,     \* blockNode.height
  WorkSum,    \* blockNode.workSum
  Chain,      \* the nodes of the chain view whose tip is the block
  BadBlock    \* the blocks checkConnectBlock rejects with a RuleError

ASSUME BlockAssumption ==
  /\ Genesis \in Block
  /\ BadBlock \subseteq Block \ {Genesis}
  /\ Parent \in [Block \ {Genesis} -> Block]
  /\ Work \in [Block -> Nat \ {0}]

\* newBlockNode: height, workSum and ancestry grow by one block.
ASSUME NodeAssumption ==
  /\ Height \in [Block -> Nat]
  /\ WorkSum \in [Block -> Nat]
  /\ Chain \in [Block -> SUBSET Block]
  /\ Height[Genesis] = 0
  /\ WorkSum[Genesis] = Work[Genesis]
  /\ Chain[Genesis] = {Genesis}
  /\ \A b \in Block \ {Genesis} :
       /\ Height[b] = Height[Parent[b]] + 1
       /\ WorkSum[b] = WorkSum[Parent[b]] + Work[b]
       /\ Chain[b] = Chain[Parent[b]] \cup {b}
       /\ b \notin Chain[Parent[b]]

\* Blocks of one branch have distinct heights, so a list of them in chain
\* order is their set: its front and its back are these two.
Highest(S) == CHOOSE b \in S : \A c \in S : Height[c] <= Height[b]
Lowest(S)  == CHOOSE b \in S : \A c \in S : Height[b] <= Height[c]

\* chainView.FindFork: the last node of b's ancestry the view contains.
FindFork(tip, b) == Highest(Chain[tip] \cap Chain[b])

\* blockIndex.InactiveTips: indexed blocks outside the best chain that no
\* other such block extends.
InactiveTips(indexed, tip) ==
  LET side == indexed \ Chain[tip]
  IN  {b \in side : \A c \in side : Parent[c] # b}

\* A mutant of ShouldChangeTip: the threshold shifted right by one only.
HalfThreshold(cur, new) ==
  LET minBlockWork == IF Work[new] < Work[cur] THEN Work[new] ELSE Work[cur]
  IN  /\ WorkSum[cur] < WorkSum[new]
      /\ WorkSum[new] - WorkSum[cur] >= minBlockWork \div 2

\* ShouldChangeTip: strictly more work, and by at least the threshold, the
\* lesser of the two tips' own work shifted right by two.
ShouldChangeTip(cur, new) ==
  LET minBlockWork == IF Work[new] < Work[cur] THEN Work[new] ELSE Work[cur]
      threshold    == minBlockWork \div 4
  IN  /\ WorkSum[cur] < WorkSum[new]
      /\ WorkSum[new] - WorkSum[cur] >= threshold
==============================================================================
