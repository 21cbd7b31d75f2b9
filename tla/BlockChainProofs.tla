-------------------------- MODULE BlockChainProofs --------------------------
(***************************************************************************)
(* Safety of BlockChain for every block tree, every number of threads, RPC *)
(* calls and crashes, and every orphan limit.                              *)
(*                                                                         *)
(* The second part is about calls that do not overlap in each other's      *)
(* notification windows: coins, lists and statuses follow the best chain,  *)
(* and BlockChain implements Ledger.  The third is about the order in      *)
(* which blocks arrive at a node that nothing but blocks has acted on.     *)
(***************************************************************************)
EXTENDS BlockChain, BlockTreeProofs, SequenceTheorems

-----------------------------------------------------------------------------
(* The inductive invariant                                                   *)

\* A thread holds chainLock exactly where the code is between Lock and Unlock.
Locked == {"best", "reorg", "commit", "orphans", "tips"}
LockOK == \A t \in Thread : lock = t <=> pc[t] \in Locked

\* The genesis block is never connected or in a list, and what is to be
\* detached lies on one branch.
ListsOK ==
  /\ pc[Sync] = "best" => req[Sync] # Genesis
  /\ \A t \in Thread :
       /\ Genesis \notin detach[t] \cup attach[t]
       /\ \E b \in Block : detach[t] \subseteq Chain[b]

\* What connectBlock and disconnectBlock checked holds until they commit.
CommitOK == \A t \in Thread : pc[t] = "commit" =>
  /\ detach[t] # {} => Highest(detach[t]) = tip
  /\ detach[t] = {} => attach[t] # {} /\ Parent[Lowest(attach[t])] = tip

\* A pool above its limit has lost its oldestOrphan pointer.
PoolOK ==
  /\ OrphanBound
  /\ oldest # None => Len(orphans) <= MaxOrphans

\* Only blocks that passed the checks are about to be attached.
SoundOK ==
  /\ NoBadBlock
  /\ dbTip = tip
  /\ \A t \in Thread : attach[t] \cap BadBlock = {}
  /\ op[Sync] = "extend" => req[Sync] \notin BadBlock

\* What a crash would bring back is as sound.
DiskOK ==
  /\ Chain[disk.tip] \cap BadBlock = {}
  /\ \A b \in BadBlock : ~KnownValid(disk.status, b)

Inv == TypeOK /\ LockOK /\ ListsOK /\ CommitOK /\ PoolOK /\ SoundOK /\ DiskOK

-----------------------------------------------------------------------------
(* What the helpers preserve                                                 *)

Statuses == [Block -> SUBSET Flag]

\* Setting and clearing a flag keeps statuses statuses.
LEMMA FlagType ==
  ASSUME NEW st \in Statuses, NEW S, NEW f \in Flag
  PROVE  SetFlag(st, S, f) \in Statuses /\ UnsetFlag(st, S, f) \in Statuses
BY DEF Statuses, SetFlag, UnsetFlag

\* verifyReorganizationValidity changes statuses and dirties blocks.
LEMMA VerifiedType ==
  ASSUME NEW st \in Statuses, NEW b \in Block, tip \in Block
  PROVE  Verified(st, b).st \in Statuses /\ Verified(st, b).dirty \in SUBSET Block
<1>1. Branch(b) \in SUBSET Block
  BY ChainSelf DEF Branch
<1>2. Failing(st, b) \in SUBSET Branch(b)
  BY DEF Failing
<1>3. CASE Failing(st, b) = {}
  BY <1>1, <1>3, FlagType DEF Verified, Flag
<1>4. CASE Failing(st, b) # {}
  <2> DEFINE f     == Lowest(Failing(st, b))
             below == {n \in Branch(b) : Height[n] < Height[f]}
             above == {n \in Branch(b) : Height[n] > Height[f]}
             s1 == SetFlag(st, below, "valid")
             s2 == SetFlag(s1, {f}, "failed")
  <2>1. f \in Block
    BY <1>1, <1>2, <1>4, LowestExists
  <2>2. s1 \in Statuses
    BY FlagType DEF Flag
  <2>3. s2 \in Statuses
    BY <2>2, FlagType DEF Flag
  <2>4. SetFlag(s2, above, "invalidAncestor") \in Statuses
    BY <2>3, FlagType DEF Flag
  <2>5. Verified(st, b) = [st |-> SetFlag(s2, above, "invalidAncestor"),
                           dirty |-> {f} \cup above \cup {n \in below : ~KnownValid(st, n)}]
    BY <1>4 DEF Verified
  <2> QED
    BY <1>1, <2>1, <2>4, <2>5
<1> QED
  BY <1>3, <1>4

\* Both ways of recording a status change keep the index well typed.
LEMMA IndexStep ==
  ASSUME IndexType, NEW st \in Statuses, NEW D \in SUBSET Block,
         FlushIndex(st, D) \/ KeepDirty(st, D)
  PROVE  IndexType'
BY DEF IndexType, Statuses, FlushIndex, KeepDirty

\* A call that returns leaves its thread well typed.
LEMMA ReturnStep ==
  ASSUME CallType, NEW t \in Thread, Return(t), req' = req
  PROVE  CallType'
BY EmptySeq DEF CallType, Return, Unlocked, Goto, Label, Call

\* A thread that starts a reorganization is well typed.
LEMMA ReorganizeStep ==
  ASSUME CallType, NEW t \in Thread, NEW call \in Call,
         NEW d \in SUBSET Block, NEW a \in SUBSET Block,
         Reorganize(t, call, d, a), req' \in [Thread -> Block]
  PROVE  CallType'
BY DEF CallType, Reorganize, Goto, Label

\* So is one that waits for its notification of an accepted block.
LEMMA AcceptedStep ==
  ASSUME CallType, NEW m \in BOOLEAN, Accepted(m), req' = req
  PROVE  CallType'
BY DEF CallType, Accepted, Unlocked, Goto, Label, Thread, listVars

\* The orphan pool stays a sequence, and loses at most one orphan.
LEMMA RemoveOrphanFacts ==
  ASSUME NEW S, NEW pool \in Seq(S), NEW b
  PROVE  /\ RemoveOrphan(pool, b) \in Seq(S)
         /\ Len(RemoveOrphan(pool, b)) <= Len(pool)
         /\ (\E i \in 1..Len(pool) : pool[i] = b) =>
              Len(RemoveOrphan(pool, b)) = Len(pool) - 1
<1>1. CASE \E i \in 1..Len(pool) : pool[i] = b
  <2> DEFINE i == CHOOSE j \in 1..Len(pool) : pool[j] = b
  <2>1. i \in 1..Len(pool) /\ Len(pool) \in Nat
    BY <1>1
  <2>2. RemoveOrphan(pool, b) = SubSeq(pool, 1, i - 1) \o SubSeq(pool, i + 1, Len(pool))
    BY <1>1 DEF RemoveOrphan, RemoveAt
  <2> HIDE DEF i
  <2>3. /\ SubSeq(pool, 1, i - 1) \in Seq(S)
        /\ Len(SubSeq(pool, 1, i - 1)) = i - 1
    <3>1. i - 1 \in Int /\ \A j \in 1..(i - 1) : pool[j] \in S
      BY <2>1
    <3> QED
      BY <3>1, <2>1, SubSeqProperties
  <2>4. /\ SubSeq(pool, i + 1, Len(pool)) \in Seq(S)
        /\ Len(SubSeq(pool, i + 1, Len(pool))) = Len(pool) - i
    <3>1. i + 1 \in Int /\ \A j \in (i + 1)..Len(pool) : pool[j] \in S
      BY <2>1
    <3> QED
      BY <3>1, <2>1, SubSeqProperties
  <2>5. /\ RemoveOrphan(pool, b) \in Seq(S)
        /\ Len(RemoveOrphan(pool, b)) = (i - 1) + (Len(pool) - i)
    BY <2>2, <2>3, <2>4, ConcatProperties
  <2> QED
    BY <2>1, <2>5
<1>2. CASE ~\E i \in 1..Len(pool) : pool[i] = b
  BY <1>2 DEF RemoveOrphan
<1> QED
  BY <1>1, <1>2

\* addOrphanBlock keeps the pool well typed and within its bound.
LEMMA AddOrphanStep ==
  ASSUME PoolType, PoolOK, NEW b \in Block \ {Genesis}, NEW k \in 0..Len(orphans), AddOrphan(b, k)
  PROVE  PoolType' /\ PoolOK'
<1> DEFINE live   == SubSeq(orphans, k + 1, Len(orphans))
           victim == IF oldest = None /\ live # <<>> THEN Head(live) ELSE oldest
<1>1. live \in Seq(Block \ {Genesis}) /\ Len(live) = Len(orphans) - k
  BY DEF PoolType
<1>2. Len(orphans) \in Nat /\ Len(live) \in Nat /\ k \in Nat /\ MaxOrphans \in Nat \ {0}
  BY <1>1, ChainAssumption DEF PoolType
<1>3. victim \in Block \cup {None}
  BY <1>1 DEF PoolType
<1>4. CASE Len(live) + 1 > MaxOrphans
  <2> DEFINE rest == RemoveOrphan(live, victim)
  <2>1. orphans' = Append(rest, b) /\ oldest' = None
    BY <1>4 DEF AddOrphan
  <2>2. rest \in Seq(Block \ {Genesis}) /\ Len(rest) <= Len(live)
    BY <1>1, RemoveOrphanFacts
  <2>3. Len(rest) <= MaxOrphans
    <3>1. CASE oldest # None
      BY <3>1, <2>2, <1>1, <1>2 DEF PoolOK
    <3>2. CASE oldest = None
      <4>1. live # <<>>
        <5> HIDE DEF live
        <5>1. live = <<>> => Len(live) = 0
          OBVIOUS
        <5> QED
          BY <5>1, <1>2, <1>4
      <4>2. victim = live[1] /\ 1 \in 1..Len(live)
        <5>1. victim = Head(live)
          BY <3>2, <4>1
        <5> HIDE DEF live, victim
        <5> QED
          BY <5>1, <4>1, <1>1, <1>2, <1>4
      <4>3. Len(rest) = Len(live) - 1
        BY <4>2, <1>1, RemoveOrphanFacts
      <4> QED
        BY <4>3, <1>1, <1>2 DEF PoolOK, OrphanBound
    <3> QED
      BY <3>1, <3>2
  <2> HIDE DEF live, victim, rest
  <2>4. /\ orphans' \in Seq(Block \ {Genesis}) /\ Len(orphans') = Len(rest) + 1
        /\ Len(rest) \in Nat
    BY <2>1, <2>2, AppendProperties
  <2> QED
    BY <2>1, <2>3, <2>4, <1>2 DEF PoolType, PoolOK, OrphanBound
<1>5. CASE ~(Len(live) + 1 > MaxOrphans)
  <2>1. orphans' = Append(live, b) /\ oldest' = victim
    BY <1>5 DEF AddOrphan
  <2> QED
    BY <2>1, <1>1, <1>2, <1>3, <1>5, AppendProperties DEF PoolType, PoolOK, OrphanBound
<1> QED
  BY <1>4, <1>5

\* maybeAcceptBlock keeps the index and the thread well typed.
LEMMA AcceptStep ==
  ASSUME IndexType, CallType, NEW b \in Block, Accept(b)
  PROVE  IndexType' /\ CallType'
<1>0. Sync \in Thread
  BY DEF Thread
<1>1. CASE KnownInvalid(status, Parent[b])
  <2>1. Return(Sync) /\ req' = req /\ UNCHANGED indexVars
    BY <1>1 DEF Accept
  <2> QED
    BY <2>1, <1>0, ReturnStep DEF IndexType, indexVars
<1>2. CASE ~KnownInvalid(status, Parent[b])
  <2>1. IndexType'
    BY <1>2 DEF Accept, IndexType, Flag
  <2>2. CallType'
    BY <1>2, <1>0 DEF Accept, CallType, Goto, listVars, Label, Call
  <2> QED
    BY <2>1, <2>2
<1> QED
  BY <1>1, <1>2

\* getReorganizeNodes marks blocks only.
LEMMA TaintedType ==
  ASSUME NEW st, NEW b \in Block, tip \in Block
  PROVE  Tainted(st, b) \in SUBSET Block /\ Branch(b) \in SUBSET Block
BY ChainSelf DEF Tainted, Branch

\* A reorganization that InvalidateBlock or ReconsiderBlock asks for, or its
\* refusal, keeps the index and the thread well typed.
LEMMA ReorganizeToStep ==
  ASSUME IndexType, CallType, tip \in Block, NEW t \in Thread, NEW call \in Call,
         NEW b \in Block, NEW st \in Statuses, NEW D \in SUBSET Block,
         ReorganizeTo(t, call, b, st, D), req' \in [Thread -> Block]
  PROVE  IndexType' /\ CallType'
<1> DEFINE v == Verified(st, b)
           T == Tainted(st, b)
<1>1. T \in SUBSET Block /\ Branch(b) \in SUBSET Block
  BY TaintedType
<1>2. v.st \in Statuses /\ v.dirty \in SUBSET Block
  BY VerifiedType
<1>3. Chain[tip] \ Chain[b] \in SUBSET Block
  BY ChainSelf
<1>4. CASE /\ FlushIndex(SetFlag(st, T, "invalidAncestor"), D \cup T)
           /\ Return(t)
  <2>1. IndexType'
    BY <1>4, <1>1, FlagType, IndexStep DEF Flag
  <2> QED
    BY <2>1, <1>4 DEF CallType, Return, Unlocked, Goto, Label, Call
<1>5. CASE FlushIndex(v.st, D \cup v.dirty) /\ Return(t)
  <2>1. IndexType'
    BY <1>5, <1>2, IndexStep
  <2> QED
    BY <2>1, <1>5 DEF CallType, Return, Unlocked, Goto, Label, Call
<1>6. CASE /\ FlushIndex(v.st, D \cup v.dirty) \/ KeepDirty(v.st, D \cup v.dirty)
           /\ Reorganize(t, call, Chain[tip] \ Chain[b], Branch(b))
  BY <1>6, <1>1, <1>2, <1>3, IndexStep, ReorganizeStep
<1> QED
  BY <1>4, <1>5, <1>6 DEF ReorganizeTo

\* Chain tips are blocks.
LEMMA TipsType ==
  ASSUME tip \in Block
  PROVE  Tips \cup {tip} \in SUBSET Block
BY DEF Tips, InactiveTips

\* So is everything above a block.
LEMMA AboveType ==
  ASSUME tip \in Block, NEW x
  PROVE  Above(x) \in SUBSET Block
<1>1. \A b \in TipsOver(x) : Chain[b] \in SUBSET Block
  BY TipsType, ChainSelf DEF TipsOver
<1> QED
  BY <1>1 DEF Above

\* InvalidateBlock changes statuses into statuses.
LEMMA InvalidatedType ==
  ASSUME status \in Statuses, NEW x, NEW D
  PROVE  Invalidated(x, D) \in Statuses
<1>1. SetFlag(status, {x}, "failed") \in Statuses
  BY FlagType DEF Flag
<1>2. SetFlag(SetFlag(status, {x}, "failed"), D, "invalidAncestor") \in Statuses
  BY <1>1, FlagType DEF Flag
<1> QED
  BY <1>2, FlagType DEF Invalidated, Flag

\* So does ReconsiderBlock.
LEMMA ReconsideredType ==
  ASSUME status \in Statuses, NEW x
  PROVE  Reconsidered(x) \in Statuses
<1>1. UnsetFlag(status, Above(x) \cup {x}, "invalidAncestor") \in Statuses
  BY FlagType DEF Flag
<1> QED
  BY <1>1, FlagType DEF Reconsidered, Flag

\* The bound on RPC calls is kept.
LEMMA RpcBound ==
  ASSUME rpcs \in 0..MaxRpcs, rpcs < MaxRpcs
  PROVE  rpcs + 1 \in 0..MaxRpcs
BY ChainAssumption

\* The next block to detach, and the next to attach, is a block of its list
\* and not the genesis block.
LEMMA NextInList ==
  ASSUME Inv, NEW t \in Thread
  PROVE  /\ detach[t] # {} => /\ Highest(detach[t]) \in detach[t]
                              /\ Highest(detach[t]) \in Block \ {Genesis}
                              /\ Parent[Highest(detach[t])] \in Block
         /\ attach[t] # {} => /\ Lowest(attach[t]) \in attach[t]
                              /\ Lowest(attach[t]) \in Block \ {Genesis}
                              /\ Parent[Lowest(attach[t])] \in Block
<1>1. detach[t] \in SUBSET Block /\ attach[t] \in SUBSET Block
  BY DEF Inv, TypeOK, CallType
<1>2. Genesis \notin detach[t] \cup attach[t] /\ \E b \in Block : detach[t] \subseteq Chain[b]
  BY DEF Inv, ListsOK
<1>3. detach[t] # {} => Highest(detach[t]) \in detach[t]
  BY <1>2, HighestExists
<1>4. attach[t] # {} => Lowest(attach[t]) \in attach[t]
  BY <1>1, LowestExists
<1> QED
  BY <1>1, <1>2, <1>3, <1>4, BlockAssumption

\* The orphan that processOrphans takes is a block of the pool.
LEMMA AdoptedBlock ==
  ASSUME Inv, AdoptOrphan
  PROVE  \E i \in 1..Len(orphans) :
           /\ orphans[i] \in Block \ {Genesis}
           /\ orphans' = RemoveOrphan(orphans, orphans[i])
           /\ Accept(orphans[i])
<1> DEFINE i == CHOOSE j \in Waiting : \A k \in Waiting : j <= k
<1>1. orphans \in Seq(Block \ {Genesis})
  BY DEF Inv, TypeOK, PoolType
<1>2. Waiting \in SUBSET Nat /\ Waiting \in SUBSET (1..Len(orphans)) /\ Waiting # {}
  BY <1>1 DEF AdoptOrphan, Waiting
<1>3. \E j \in Waiting : \A k \in Waiting : j <= k
  BY <1>2, LeastNat
<1>4. i \in Waiting
  BY <1>3
<1>5. orphans' = RemoveOrphan(orphans, orphans[i]) /\ Accept(orphans[i])
  BY DEF AdoptOrphan
<1> HIDE DEF i
<1> QED
  BY <1>1, <1>2, <1>4, <1>5

\* The part of TypeOK that is not about the disk.
MemoryType ==
  /\ IndexType /\ ChainType /\ PoolType /\ CallType
  /\ rpcs \in 0..MaxRpcs /\ crashes \in 0..MaxCrashes

\* Every step keeps what is in memory and committed in its type.
LEMMA MemoryStep ==
  ASSUME Inv, [Next]_vars
  PROVE  MemoryType'
<1> USE DEF MemoryType
<1>0. /\ MemoryType /\ DiskType /\ PoolOK
      /\ Sync \in Thread /\ \A t \in Rpcs : t \in Thread
  BY DEF Inv, TypeOK, Thread
<1>s. status \in Statuses /\ dbStatus \in Statuses
  BY <1>0 DEF IndexType, Statuses
<1>1. ASSUME NEW b \in Block \ {Genesis}, ProcessBlock(b) PROVE MemoryType'
  <2>1. CASE Accept(b) /\ UNCHANGED orphanVars
    BY <2>1, <1>0, <1>1, AcceptStep
       DEF ProcessBlock, ChainType, PoolType, coinVars, orphanVars, boundVars
  <2>2. CASE /\ \E k \in 0..Len(orphans) : AddOrphan(b, k)
             /\ UNCHANGED <<indexVars, lock, pc, callVars, listVars>>
    BY <2>2, <1>0, <1>1, AddOrphanStep
       DEF ProcessBlock, IndexType, ChainType, CallType, indexVars, coinVars,
           callVars, listVars, boundVars
  <2> QED
    BY <2>1, <2>2, <1>1 DEF ProcessBlock
<1>2. CASE ExtendTip
  <2>1. req[Sync] \in Block
    BY <1>0 DEF CallType
  <2>2. IndexType'
    BY <1>2, <1>0, <1>s, <2>1, FlagType, IndexStep DEF ExtendTip, Flag
  <2>3. CallType'
    <3>1. "extend" \in Call /\ req' \in [Thread -> Block] /\ {req[Sync]} \in SUBSET Block
      BY <1>2, <1>0, <2>1 DEF ExtendTip, Call, CallType
    <3>2. Reorganize(Sync, "extend", {}, {req[Sync]})
      BY <1>2 DEF ExtendTip
    <3> QED
      BY <3>1, <3>2, <1>0, ReorganizeStep
  <2> QED
    BY <2>2, <2>3, <1>0, <1>2 DEF ExtendTip, ChainType, PoolType, coinVars, orphanVars, boundVars
<1>3. CASE RejectTip
  <2>1. req[Sync] \in Block
    BY <1>0 DEF CallType
  <2>2. IndexType'
    BY <1>3, <1>0, <1>s, <2>1, FlagType, IndexStep DEF RejectTip, Flag
  <2>3. CallType'
    BY <1>3, <1>0, ReturnStep DEF RejectTip
  <2> QED
    BY <2>2, <2>3, <1>0, <1>3 DEF RejectTip, ChainType, PoolType, coinVars, orphanVars, boundVars
<1>4. CASE KeepTip
  BY <1>4, <1>0, AcceptedStep
     DEF KeepTip, IndexType, ChainType, PoolType, indexVars, coinVars, orphanVars, boundVars
<1>5. CASE SwitchTip
  <2> DEFINE b == req[Sync]
             v == Verified(status, b)
             T == Tainted(status, b)
  <2>1. b \in Block /\ tip \in Block
    BY <1>0 DEF CallType, ChainType
  <2>2. T \in SUBSET Block /\ Branch(b) \in SUBSET Block /\ Chain[tip] \ Chain[b] \in SUBSET Block
    BY <2>1, TaintedType, ChainSelf
  <2>3. v.st \in Statuses /\ v.dirty \in SUBSET Block
    BY <2>1, <1>s, VerifiedType
  <2>4. req' = req /\ ChainType' /\ PoolType' /\ rpcs' = rpcs /\ crashes' = crashes
    BY <1>5, <1>0 DEF SwitchTip, ChainType, PoolType, coinVars, orphanVars, boundVars
  <2>5. CASE FlushIndex(SetFlag(status, T, "invalidAncestor"), T) /\ Accepted(TRUE)
    <3>1. SetFlag(status, T, "invalidAncestor") \in Statuses
      BY <1>s, FlagType DEF Flag
    <3> QED
      BY <3>1, <2>2, <2>4, <2>5, <1>0, IndexStep, AcceptedStep
  <2>6. CASE FlushIndex(v.st, v.dirty) /\ Return(Sync)
    BY <2>3, <2>4, <2>6, <1>0, IndexStep, ReturnStep
  <2>7. CASE /\ KeepDirty(v.st, v.dirty)
             /\ Reorganize(Sync, "process", Chain[tip] \ Chain[b], Branch(b))
    <3>1. "process" \in Call /\ req' \in [Thread -> Block]
      BY <2>4, <1>0 DEF Call, CallType
    <3>2. CallType'
      BY <3>1, <2>2, <2>7, <1>0, ReorganizeStep
    <3> QED
      BY <3>2, <2>3, <2>4, <2>7, <1>0, IndexStep
  <2> QED
    BY <1>5, <2>5, <2>6, <2>7 DEF SwitchTip
<1>6. ASSUME NEW t \in Thread, DisconnectBlock(t) PROVE MemoryType'
  <2>1. IndexType'
    BY <1>6, <1>0, <1>s, IndexStep DEF DisconnectBlock, Abort, IndexType, indexVars
  <2>2. CallType'
    <3>1. CASE Abort(t)
      BY <3>1, <1>0, ReturnStep DEF Abort
    <3>2. CASE Goto(t, "commit") /\ UNCHANGED <<lock, callVars, listVars>>
      BY <3>2, <1>0 DEF CallType, Goto, Label, callVars, listVars
    <3> QED
      BY <3>1, <3>2, <1>6 DEF DisconnectBlock
  <2> QED
    BY <2>1, <2>2, <1>0, <1>6
       DEF DisconnectBlock, ChainType, PoolType, coinVars, orphanVars, boundVars
<1>7. ASSUME NEW t \in Thread, CommitDisconnect(t) PROVE MemoryType'
  <2>1. Parent[Highest(detach[t])] \in Block
    BY <1>7, NextInList DEF CommitDisconnect
  <2>2. ChainType'
    BY <2>1, <1>0, <1>7 DEF CommitDisconnect, ChainType
  <2>3. CallType'
    BY <1>0, <1>7 DEF CommitDisconnect, CallType, Unlocked, Goto, Label, callVars
  <2> QED
    BY <2>2, <2>3, <1>0, <1>7
       DEF CommitDisconnect, IndexType, PoolType, indexVars, orphanVars, boundVars
<1>8. ASSUME NEW t \in Thread, ConnectBlock(t) PROVE MemoryType'
  <2>1. Lowest(attach[t]) \in Block
    BY <1>8, NextInList DEF ConnectBlock
  <2>2. ChainType'
    BY <2>1, <1>0, <1>8 DEF ConnectBlock, ChainType
  <2>3. IndexType'
    BY <1>8, <1>0, <1>s, IndexStep DEF ConnectBlock, Abort, IndexType, indexVars
  <2>4. CallType'
    <3>1. CASE Abort(t)
      BY <3>1, <1>0, ReturnStep DEF Abort
    <3>2. CASE Goto(t, "commit") /\ UNCHANGED <<lock, callVars, listVars>>
      BY <3>2, <1>0 DEF CallType, Goto, Label, callVars, listVars
    <3> QED
      BY <3>1, <3>2, <1>8 DEF ConnectBlock
  <2> QED
    BY <2>2, <2>3, <2>4, <1>0, <1>8 DEF ConnectBlock, PoolType, orphanVars, boundVars
<1>9. ASSUME NEW t \in Thread, CommitConnect(t) PROVE MemoryType'
  <2>1. Lowest(attach[t]) \in Block
    BY <1>9, NextInList DEF CommitConnect, Inv, CommitOK, Holds
  <2>2. ChainType'
    BY <2>1, <1>0, <1>9 DEF CommitConnect, ChainType
  <2>3. CallType'
    BY <2>1, <1>0, <1>9 DEF CommitConnect, CallType, Unlocked, Goto, Label, callVars
  <2> QED
    BY <2>2, <2>3, <1>0, <1>9
       DEF CommitConnect, IndexType, PoolType, indexVars, orphanVars, boundVars
<1>10. ASSUME NEW t \in Thread, Notified(t) PROVE MemoryType'
  <2>1. ChainType'
    BY <1>0, <1>10 DEF Notified, ChainType, CallType
  <2>2. CallType'
    BY <1>0, <1>10 DEF Notified, CallType, Relock, Goto, Label, callVars
  <2> QED
    BY <2>1, <2>2, <1>0, <1>10
       DEF Notified, IndexType, PoolType, indexVars, orphanVars, boundVars
<1>11. CASE Connected
  <2> DEFINE b     == req[Sync]
             again == IF op[Sync] = "extend" /\ ~KnownValid(status, b) THEN {b} ELSE {}
  <2>1. again \in SUBSET Block /\ SetFlag(status, again, "valid") \in Statuses
    BY <1>0, <1>s, FlagType DEF CallType, Flag
  <2>2. IndexType'
    BY <1>11, <1>0, <2>1, IndexStep DEF Connected
  <2>3. CallType'
    BY <1>11, <1>0, AcceptedStep DEF Connected
  <2> QED
    BY <2>2, <2>3, <1>0, <1>11
       DEF Connected, ChainType, PoolType, coinVars, orphanVars, boundVars
<1>12. CASE QueueAccepted
  <2>1. queue' \in Seq(Block)
    BY <1>12, <1>0, AppendProperties DEF QueueAccepted, CallType
  <2> QED
    BY <2>1, <1>12, <1>0
       DEF QueueAccepted, Relock, Goto, Label, IndexType, ChainType, PoolType, CallType,
           indexVars, coinVars, orphanVars, listVars, boundVars
<1>13. CASE AdoptOrphan
  <2>1. PICK i \in 1..Len(orphans) : /\ orphans[i] \in Block \ {Genesis}
                                     /\ orphans' = RemoveOrphan(orphans, orphans[i])
                                     /\ Accept(orphans[i])
    BY <1>13, AdoptedBlock
  <2>2. orphans \in Seq(Block \ {Genesis}) /\ orphans[i] \in Block
    BY <2>1, <1>0 DEF PoolType
  <2>3. PoolType'
    BY <2>1, <2>2, <1>0, <1>13, RemoveOrphanFacts DEF AdoptOrphan, PoolType
  <2>4. IndexType' /\ CallType'
    BY <2>1, <2>2, <1>0, AcceptStep
  <2> QED
    BY <2>3, <2>4, <1>0, <1>13 DEF AdoptOrphan, ChainType, coinVars, boundVars
<1>14. CASE NextHash
  <2>1. queue' \in Seq(Block)
    BY <1>14, <1>0 DEF NextHash, CallType
  <2> QED
    BY <2>1, <1>14, <1>0
       DEF NextHash, IndexType, ChainType, PoolType, CallType,
           indexVars, coinVars, orphanVars, listVars, boundVars
<1>15. CASE OrphansDone
  BY <1>15, <1>0, ReturnStep
     DEF OrphansDone, IndexType, ChainType, PoolType, indexVars, coinVars, orphanVars, boundVars
<1>16. ASSUME NEW t \in Rpcs, NEW x \in Block, InvalidateSide(t, x) PROVE MemoryType'
  <2> DEFINE D == {n \in Above(x) : ~KnownInvalid(status, n)}
  <2>1. D \in SUBSET Block /\ D \cup {x} \in SUBSET Block
    BY <1>0, AboveType DEF ChainType
  <2>2. Invalidated(x, D) \in Statuses
    BY <1>s, InvalidatedType
  <2>3. FlushIndex(Invalidated(x, D), D \cup {x})
    BY <1>16 DEF InvalidateSide
  <2>4. IndexType'
    BY <2>1, <2>2, <2>3, <1>0, IndexStep
  <2>5. CallType' /\ rpcs' \in 0..MaxRpcs
    BY <1>0, <1>16, RpcBound DEF InvalidateSide, StartRpc, CallType, listVars
  <2> QED
    BY <2>4, <2>5, <1>0, <1>16
       DEF InvalidateSide, ChainType, PoolType, coinVars, orphanVars
<1>17. ASSUME NEW t \in Rpcs, NEW x \in Block, InvalidateMain(t, x) PROVE MemoryType'
  <2> DEFINE D == {n \in Chain[tip] \ Chain[x] : ~KnownInvalid(status, n)}
  <2>1. D \in SUBSET Block /\ D \cup {x} \in SUBSET Block
    BY <1>0, ChainSelf DEF ChainType
  <2>2. Invalidated(x, D) \in Statuses
    BY <1>s, InvalidatedType
  <2>3. KeepDirty(Invalidated(x, D), D \cup {x})
    BY <1>17 DEF InvalidateMain
  <2>4. IndexType'
    BY <2>1, <2>2, <2>3, <1>0, IndexStep
  <2>5. req' \in [Thread -> Block] /\ rpcs' \in 0..MaxRpcs /\ t \in Thread
    BY <1>0, <1>17, RpcBound DEF InvalidateMain, StartRpc, CallType
  <2>6. CallType'
    <3>1. CASE Reorganize(t, "invalidate", D \cup {x}, {})
      <4>1. "invalidate" \in Call /\ {} \in SUBSET Block
        BY DEF Call
      <4> QED
        BY <4>1, <3>1, <2>1, <2>5, <1>0, ReorganizeStep
    <3>2. CASE UNCHANGED <<lock, pc, op, queue, main, listVars>>
      BY <3>2, <2>5, <1>0 DEF CallType, listVars
    <3> QED
      BY <3>1, <3>2, <1>17 DEF InvalidateMain
  <2> QED
    BY <2>4, <2>5, <2>6, <1>0, <1>17
       DEF InvalidateMain, ChainType, PoolType, coinVars, orphanVars
<1>18. ASSUME NEW t \in Rpcs, Detached(t) PROVE MemoryType'
  <2>1. IndexType'
    BY <1>18, <1>0, <1>s, IndexStep DEF Detached
  <2>2. CallType'
    BY <1>18, <1>0 DEF Detached, CallType, Goto, Label, callVars, listVars
  <2> QED
    BY <2>1, <2>2, <1>0, <1>18
       DEF Detached, ChainType, PoolType, coinVars, orphanVars, boundVars
<1>19. ASSUME NEW t \in Rpcs, PickBestTip(t) PROVE MemoryType'
  <2>1. CASE Return(t) /\ UNCHANGED indexVars
    <3>1. CallType'
      BY <2>1, <1>0, <1>19, ReturnStep DEF PickBestTip
    <3> QED
      BY <3>1, <2>1, <1>0, <1>19
         DEF PickBestTip, IndexType, ChainType, PoolType, indexVars, coinVars, orphanVars, boundVars
  <2>2. CASE \E b \in Block : ReorganizeTo(t, "switch", b, status, {})
    <3>1. PICK b \in Block : ReorganizeTo(t, "switch", b, status, {})
      BY <2>2
    <3>2. /\ "switch" \in Call /\ {} \in SUBSET Block /\ tip \in Block
          /\ req' \in [Thread -> Block] /\ t \in Thread
      BY <1>0, <1>19 DEF PickBestTip, Call, ChainType, CallType
    <3>3. IndexType' /\ CallType'
      BY <3>1, <3>2, <1>0, <1>s, ReorganizeToStep
    <3> QED
      BY <3>3, <1>0, <1>19
         DEF PickBestTip, ChainType, PoolType, coinVars, orphanVars, boundVars
  <2>3. Tips \cup {tip} \in SUBSET Block
    BY <1>0, TipsType DEF ChainType
  <2> QED
    BY <2>1, <2>2, <2>3, <1>19 DEF PickBestTip
<1>20. ASSUME NEW t \in Rpcs, Switched(t) PROVE MemoryType'
  <2>1. IndexType'
    BY <1>20, <1>0, <1>s, IndexStep DEF Switched
  <2>2. CallType'
    BY <1>20, <1>0, ReturnStep DEF Switched
  <2> QED
    BY <2>1, <2>2, <1>0, <1>20
       DEF Switched, ChainType, PoolType, coinVars, orphanVars, boundVars
<1>21. ASSUME NEW t \in Rpcs, NEW x \in Block, ReconsiderBlock(t, x) PROVE MemoryType'
  <2> DEFINE D == Above(x) \cup {x}
  <2>1. D \in SUBSET Block
    BY <1>0, AboveType DEF ChainType
  <2>2. Reconsidered(x) \in Statuses
    BY <1>s, ReconsideredType
  <2>3. /\ req' \in [Thread -> Block] /\ rpcs' \in 0..MaxRpcs /\ t \in Thread
        /\ tip \in Block /\ "reconsider" \in Call
    BY <1>0, <1>21, RpcBound DEF ReconsiderBlock, StartRpc, CallType, ChainType, Call
  <2>4. PICK b \in TipsOver(x) :
          \/ /\ KeepDirty(Reconsidered(x), D)
             /\ UNCHANGED <<lock, pc, op, queue, main, listVars>>
          \/ ReorganizeTo(t, "reconsider", b, Reconsidered(x), D)
    BY <1>21 DEF ReconsiderBlock
  <2>5. b \in Block
    BY <2>3, <2>4, TipsType DEF TipsOver
  <2> HIDE DEF D
  <2>6. IndexType' /\ CallType'
    <3>1. CASE /\ KeepDirty(Reconsidered(x), D)
               /\ UNCHANGED <<lock, pc, op, queue, main, listVars>>
      <4>1. IndexType'
        BY <3>1, <2>1, <2>2, <1>0, IndexStep
      <4>2. CallType'
        BY <3>1, <2>3, <1>0 DEF CallType, listVars
      <4> QED
        BY <4>1, <4>2
    <3>2. CASE ReorganizeTo(t, "reconsider", b, Reconsidered(x), D)
      BY <3>2, <2>1, <2>2, <2>3, <2>5, <1>0, ReorganizeToStep
    <3> QED
      BY <3>1, <3>2, <2>4
  <2> QED
    BY <2>3, <2>6, <1>0, <1>21
       DEF ReconsiderBlock, ChainType, PoolType, coinVars, orphanVars
<1>22. ASSUME NEW t \in Rpcs, ReconsiderDone(t) PROVE MemoryType'
  <2>1. CallType'
    BY <1>22, <1>0, ReturnStep DEF ReconsiderDone
  <2> QED
    BY <2>1, <1>0, <1>22
       DEF ReconsiderDone, IndexType, ChainType, PoolType, indexVars, coinVars,
           orphanVars, boundVars
<1>23. CASE FlushUtxoCache
  BY <1>23, <1>0
     DEF FlushUtxoCache, IndexType, ChainType, PoolType, CallType, indexVars,
         orphanVars, callVars, listVars, boundVars
<1>24. CASE Restart
  <2> DEFINE replay == Replay(disk.tip, disk.mark)
             loaded == SetFlag(disk.status, Chain[disk.tip], "valid")
  <2>0. disk.status \in Statuses /\ disk.tip \in Block /\ disk.mark \in Block
        /\ disk.utxo \in SUBSET Block
    BY <1>0 DEF DiskType, Statuses
  <2>1. loaded \in Statuses /\ replay \in SUBSET Block
    BY <2>0, FlagType, ChainSelf DEF Flag, Replay
  <2>2. status' = loaded /\ dbStatus' = loaded /\ dirty' = {}
    BY <1>24 DEF Restart
  <2> HIDE DEF loaded
  <2>3. IndexType'
    BY <2>1, <2>2 DEF IndexType, Statuses
  <2>4. ChainType'
    <3>1. /\ tip' = disk.tip /\ dbTip' = disk.tip /\ utxo' = disk.utxo \cup replay
          /\ \/ dbUtxo' = disk.utxo /\ dbMark' = disk.mark
             \/ \E m \in replay : dbUtxo' = disk.utxo \cup (replay \cap Chain[m]) /\ dbMark' = m
      BY <1>24 DEF Restart
    <3> HIDE DEF replay
    <3> QED
      BY <3>1, <2>0, <2>1 DEF ChainType
  <2>5. PoolType' /\ crashes' \in 0..MaxCrashes /\ rpcs' = rpcs
    BY <1>0, <1>24, ChainAssumption DEF Restart, PoolType
  <2>6. CallType'
    BY <1>0, <1>24 DEF Restart, CallType, Label, Call
  <2> QED
    BY <2>3, <2>4, <2>5, <2>6, <1>0
<1>25. CASE UNCHANGED vars
  BY <1>25, <1>0
     DEF vars, IndexType, ChainType, PoolType, CallType, indexVars, coinVars,
         orphanVars, callVars, listVars, boundVars
<1> QED
  BY <1>0, <1>1, <1>2, <1>3, <1>4, <1>5, <1>6, <1>7, <1>8, <1>9, <1>10, <1>11, <1>12,
     <1>13, <1>14, <1>15, <1>16, <1>17, <1>18, <1>19, <1>20, <1>21, <1>22, <1>23,
     <1>24, <1>25
     DEF Next, SyncStep, RpcStep, Step

\* commitTx leaves on disk what it found there or all that is committed.
LEMMA NextSaves ==
  ASSUME Inv, Next, ~Restart
  PROVE  disk' \in {disk, DbState'}
<1>1. Saves => disk' \in {disk, DbState'}
  BY DEF Saves, OnDisk
<1>2. ASSUME NEW t, Step(t) PROVE disk' \in {disk, DbState'}
  BY <1>1, <1>2 DEF Step, DisconnectBlock, CommitDisconnect, ConnectBlock, CommitConnect, Notified
<1>3. SyncStep => disk' \in {disk, DbState'}
  BY <1>1, <1>2 DEF SyncStep, ExtendTip, RejectTip, KeepTip, SwitchTip, Connected, QueueAccepted,
                    AdoptOrphan, NextHash, OrphansDone
<1>4. ASSUME NEW t, RpcStep(t) PROVE disk' \in {disk, DbState'}
  BY <1>1, <1>2, <1>4 DEF RpcStep, Detached, PickBestTip, Switched, ReconsiderDone
<1> QED
  BY <1>1, <1>3, <1>4 DEF Next, ProcessBlock, InvalidateSide, InvalidateMain, ReconsiderBlock,
                          FlushUtxoCache

\* A restart keeps the disk, with or without the statuses it loaded, or saves
\* all that it commits.
LEMMA RestartSaves ==
  ASSUME Inv, Restart
  PROVE  LET loaded == SetFlag(disk.status, Chain[disk.tip], "valid")
         IN  /\ tip' = disk.tip /\ dbTip' = disk.tip
             /\ disk' \in {disk, [disk EXCEPT !.status = loaded], DbState'}
BY DEF Restart, OnDisk

\* Every step preserves TypeOK.
LEMMA TypeStep ==
  ASSUME Inv, [Next]_vars
  PROVE  TypeOK'
<1>1. MemoryType'
  BY MemoryStep
<1>2. DbState' \in [status : [Block -> SUBSET Flag], tip : Block, utxo : SUBSET Block, mark : Block]
  BY <1>1 DEF MemoryType, IndexType, ChainType, DbState
<1>3. DiskType
  BY DEF Inv, TypeOK
<1>4. DiskType'
  <2>1. CASE UNCHANGED vars
    BY <2>1, <1>3 DEF vars, DiskType
  <2>2. CASE Next /\ ~Restart
    BY <2>2, <1>2, <1>3, NextSaves DEF DiskType
  <2>3. CASE Restart
    <3> DEFINE loaded == SetFlag(disk.status, Chain[disk.tip], "valid")
    <3>1. loaded \in [Block -> SUBSET Flag]
      BY <1>3, FlagType DEF DiskType, Statuses, Flag
    <3>2. disk' \in {disk, [disk EXCEPT !.status = loaded], DbState'}
      BY <2>3, RestartSaves
    <3> HIDE DEF loaded
    <3> QED
      BY <3>1, <3>2, <1>2, <1>3 DEF DiskType
  <2> QED
    BY <2>1, <2>2, <2>3
<1> QED
  BY <1>1, <1>4 DEF MemoryType, TypeOK

-----------------------------------------------------------------------------
(* One thread moves at a time                                                *)

\* What every step but Restart does to the threads: one that holds the lock,
\* or takes it while it is free, moves to label and may change its own lists.
Moves(t, label) ==
  /\ lock \in {t, None}
  /\ pc[t] # "idle" \/ MayStart(t)
  /\ pc' = [pc EXCEPT ![t] = label]
  /\ lock' = IF label \in Locked THEN t ELSE None
  /\ \A u \in Thread \ {t} : detach'[u] = detach[u] /\ attach'[u] = attach[u]
  /\ Genesis \notin detach'[t] \cup attach'[t]
  /\ attach'[t] \cap BadBlock = {}
  /\ \E b \in Block : detach'[t] \subseteq Chain[b]
  /\ label = "commit" =>
       /\ detach'[t] # {} => Highest(detach'[t]) = tip'
       /\ detach'[t] = {} => attach'[t] # {} /\ Parent[Lowest(attach'[t])] = tip'

\* No thread is called None, so at most one of them holds the lock.
LEMMA OneHolder ==
  ASSUME Inv, NEW t \in Thread, NEW u \in Thread, lock \in {t, None}, u # t
  PROVE  pc[u] \notin Locked
BY ChainAssumption DEF Inv, LockOK, Thread

\* Such a move keeps the lock, the lists and the checks that precede a commit.
LEMMA MovesStep ==
  ASSUME Inv, NEW t \in Thread, NEW label \in Label, Moves(t, label),
         pc'[Sync] = "best" => req'[Sync] # Genesis
  PROVE  LockOK' /\ ListsOK' /\ CommitOK' /\ \A u \in Thread : attach'[u] \cap BadBlock = {}
<1>1. pc'[t] = label /\ \A u \in Thread : u # t => pc'[u] = pc[u]
  BY DEF Moves, Inv, TypeOK, CallType
<1>2. LockOK'
  BY <1>1, OneHolder, ChainAssumption DEF LockOK, Moves, Thread
<1>3. ListsOK'
  BY DEF Moves, Inv, ListsOK
<1>4. \A u \in Thread : u # t => pc'[u] # "commit"
  BY <1>1, OneHolder DEF Moves, Locked
<1>5. CommitOK'
  BY <1>1, <1>4 DEF CommitOK, Moves
<1> QED
  BY <1>2, <1>3, <1>5 DEF Moves, Inv, SoundOK

\* A call that returns moves its thread.
LEMMA ReturnMoves ==
  ASSUME Inv, NEW t \in Thread, lock = t \/ MayStart(t), Return(t)
  PROVE  Moves(t, "idle")
<1>1. detach'[t] = {} /\ attach'[t] = {}
  BY DEF Return, Inv, TypeOK, CallType
<1>2. \A u \in Thread \ {t} : detach'[u] = detach[u] /\ attach'[u] = attach[u]
  BY DEF Return, Inv, TypeOK, CallType
<1>3. lock = t => pc[t] # "idle"
  BY DEF Inv, LockOK, Locked
<1> QED
  BY <1>1, <1>2, <1>3, BlockAssumption DEF Moves, Return, Unlocked, Goto, Locked, MayStart

\* So does one that begins a reorganization.
LEMMA ReorganizeMoves ==
  ASSUME Inv, NEW t \in Thread, NEW call, NEW d, NEW a, lock = t \/ MayStart(t),
         Reorganize(t, call, d, a), Genesis \notin d \cup a, a \cap BadBlock = {},
         \E b \in Block : d \subseteq Chain[b]
  PROVE  Moves(t, "reorg")
<1>1. detach'[t] = d /\ attach'[t] = a
  BY DEF Reorganize, Inv, TypeOK, CallType
<1>2. \A u \in Thread \ {t} : detach'[u] = detach[u] /\ attach'[u] = attach[u]
  BY DEF Reorganize, Inv, TypeOK, CallType
<1>3. lock = t => pc[t] # "idle"
  BY DEF Inv, LockOK, Locked
<1> QED
  BY <1>1, <1>2, <1>3 DEF Moves, Reorganize, Goto, Locked, MayStart

\* And one that goes elsewhere with its lists as they are.
LEMMA GotoMoves ==
  ASSUME Inv, NEW t \in Thread, NEW label \in Label, lock \in {t, None},
         pc[t] # "idle" \/ MayStart(t), Goto(t, label),
         lock' = IF label \in Locked THEN t ELSE None, label # "commit",
         UNCHANGED <<detach, attach>>
  PROVE  Moves(t, label)
BY DEF Moves, Goto, Inv, ListsOK, SoundOK

\* A call that ends without having left its lock section changes no thread.
LEMMA StayMoves ==
  ASSUME Inv, NEW t \in Thread, lock = t \/ MayStart(t), pc[t] # "commit",
         UNCHANGED <<lock, pc, detach, attach>>
  PROVE  Moves(t, pc[t])
<1>1. pc[t] \in Label /\ Goto(t, pc[t])
  BY DEF Inv, TypeOK, CallType, Goto
<1>2. lock' = IF pc[t] \in Locked THEN t ELSE None
  BY ChainAssumption DEF Inv, LockOK, MayStart, Thread, Locked
<1>3. pc[t] # "idle" \/ MayStart(t)
  BY DEF Inv, LockOK, Locked
<1> QED
  BY <1>1, <1>2, <1>3, GotoMoves DEF MayStart

-----------------------------------------------------------------------------
(* Blocks that break a rule                                                  *)

\* No block that breaks a rule is marked valid in st.
Clean(st) == \A b \in BadBlock : ~KnownValid(st, b)

\* Only the valid flag can spoil that.
LEMMA CleanFlags ==
  ASSUME NEW st \in Statuses, Clean(st), NEW S, NEW f
  PROVE  /\ f # "valid" => Clean(SetFlag(st, S, f))
         /\ S \cap BadBlock = {} => Clean(SetFlag(st, S, f))
         /\ Clean(UnsetFlag(st, S, f))
BY BlockAssumption DEF Clean, KnownValid, SetFlag, UnsetFlag, Statuses

\* A branch that verifyReorganizationValidity passes breaks no rule.
LEMMA BranchSound ==
  ASSUME NEW st, Clean(st), NEW b, Failing(st, b) = {}
  PROVE  Branch(b) \cap BadBlock = {}
BY DEF Clean, Failing

\* verifyReorganizationValidity marks no such block as valid.
LEMMA VerifiedClean ==
  ASSUME NEW st \in Statuses, Clean(st), NEW b \in Block, tip \in Block
  PROVE  Clean(Verified(st, b).st)
<1>1. Branch(b) \in SUBSET Block
  BY ChainSelf DEF Branch
<1>2. Failing(st, b) \in SUBSET Branch(b)
  BY DEF Failing
<1>3. CASE Failing(st, b) = {}
  BY <1>3, BranchSound, CleanFlags DEF Verified
<1>4. CASE Failing(st, b) # {}
  <2> DEFINE f     == Lowest(Failing(st, b))
             below == {n \in Branch(b) : Height[n] < Height[f]}
             above == {n \in Branch(b) : Height[n] > Height[f]}
             s1 == SetFlag(st, below, "valid")
             s2 == SetFlag(s1, {f}, "failed")
  <2>1. f \in Block /\ \A c \in Failing(st, b) : Height[f] <= Height[c]
    BY <1>1, <1>2, <1>4, LowestExists
  <2>2. below \cap BadBlock = {}
    <3>1. SUFFICES ASSUME NEW n \in below, n \in BadBlock PROVE FALSE
      OBVIOUS
    <3>2. n \in Failing(st, b)
      BY <3>1 DEF Failing, Clean
    <3>3. Height[n] \in Nat /\ Height[f] \in Nat
      BY <2>1, <3>1, <1>1, ChainSelf
    <3> QED
      BY <3>1, <3>2, <3>3, <2>1
  <2>3. s1 \in Statuses /\ Clean(s1)
    BY <2>2, FlagType, CleanFlags DEF Flag
  <2>4. s2 \in Statuses /\ Clean(s2)
    BY <2>3, FlagType, CleanFlags DEF Flag
  <2>5. Clean(SetFlag(s2, above, "invalidAncestor"))
    BY <2>4, CleanFlags
  <2>6. Verified(st, b) = [st |-> SetFlag(s2, above, "invalidAncestor"),
                           dirty |-> {f} \cup above \cup {n \in below : ~KnownValid(st, n)}]
    BY <1>4 DEF Verified
  <2> QED
    BY <2>5, <2>6
<1> QED
  BY <1>3, <1>4

\* Recording clean statuses keeps the index clean, in memory and on disk.
LEMMA CleanIndex ==
  ASSUME NEW st, NEW D, Clean(st), Clean(dbStatus), FlushIndex(st, D) \/ KeepDirty(st, D)
  PROVE  Clean(status') /\ Clean(dbStatus')
BY BlockAssumption DEF Clean, KnownValid, FlushIndex, KeepDirty

\* InvalidateBlock and ReconsiderBlock never set the valid flag.
LEMMA RpcClean ==
  ASSUME status \in Statuses, Clean(status), NEW x, NEW D
  PROVE  Clean(Invalidated(x, D)) /\ Clean(Reconsidered(x))
<1>1. LET s1 == SetFlag(status, {x}, "failed")
          s2 == SetFlag(s1, D, "invalidAncestor")
          s3 == UnsetFlag(status, Above(x) \cup {x}, "invalidAncestor")
      IN  /\ s1 \in Statuses /\ s2 \in Statuses /\ s3 \in Statuses
          /\ Clean(s1) /\ Clean(s2) /\ Clean(s3)
  BY FlagType, CleanFlags DEF Flag
<1> QED
  BY <1>1, CleanFlags DEF Invalidated, Reconsidered

\* The lists of a reorganization hold no genesis block, and what is to be
\* detached is a part of the best chain.
LEMMA PlanFacts ==
  ASSUME tip \in Block, NEW b \in Block
  PROVE  /\ Genesis \notin (Chain[tip] \ Chain[b]) \cup Branch(b)
         /\ Chain[tip] \ Chain[b] \subseteq Chain[tip]
BY GenesisInChain DEF Branch

\* A reorganization that InvalidateBlock or ReconsiderBlock asks for keeps the
\* index clean and its thread in order.
LEMMA ReorganizeToMoves ==
  ASSUME Inv, NEW t \in Thread, lock = t \/ MayStart(t), NEW call, NEW b \in Block,
         NEW st \in Statuses, Clean(st), NEW D, ReorganizeTo(t, call, b, st, D)
  PROVE  /\ Moves(t, "idle") \/ Moves(t, "reorg")
         /\ Clean(status') /\ Clean(dbStatus')
<1>1. tip \in Block /\ Clean(dbStatus)
  BY DEF Inv, TypeOK, ChainType, SoundOK, NoBadBlock, Clean
<1>2. Clean(Verified(st, b).st)
  BY <1>1, VerifiedClean
<1>3. Clean(SetFlag(st, Tainted(st, b), "invalidAncestor"))
  BY CleanFlags
<1>4. CASE Refused(st, b)
  BY <1>1, <1>3, <1>4, ReturnMoves, CleanIndex DEF ReorganizeTo
<1>5. CASE ~Refused(st, b) /\ Failing(st, b) # {}
  BY <1>1, <1>2, <1>5, ReturnMoves, CleanIndex DEF ReorganizeTo
<1>6. CASE ~Refused(st, b) /\ Failing(st, b) = {}
  <2>1. Clean(status') /\ Clean(dbStatus')
    BY <1>1, <1>2, <1>6, CleanIndex DEF ReorganizeTo
  <2>2. Branch(b) \cap BadBlock = {}
    BY <1>6, BranchSound
  <2>3. Reorganize(t, call, Chain[tip] \ Chain[b], Branch(b))
    BY <1>6 DEF ReorganizeTo
  <2>4. Moves(t, "reorg")
    BY <1>1, <2>2, <2>3, PlanFacts, ReorganizeMoves
  <2> QED
    BY <2>1, <2>4
<1> QED
  BY <1>4, <1>5, <1>6

-----------------------------------------------------------------------------
(* Every step preserves the invariant                                        *)

\* Every step but Restart moves one thread, and ProcessBlock never connects
\* the genesis block.
LEMMA NextMoves ==
  ASSUME Inv, Next, ~Restart
  PROVE  /\ \E t \in Thread, label \in Label : Moves(t, label)
         /\ pc'[Sync] = "best" => req'[Sync] # Genesis
<1> DEFINE Goal == /\ \E t \in Thread, label \in Label : Moves(t, label)
                   /\ pc'[Sync] = "best" => req'[Sync] # Genesis
<1>0. /\ Sync \in Thread /\ Rpcs \subseteq Thread /\ Sync \notin Rpcs
      /\ pc \in [Thread -> Label] /\ req \in [Thread -> Block] /\ tip \in Block
      /\ detach \in [Thread -> SUBSET Block] /\ attach \in [Thread -> SUBSET Block]
      /\ pc[Sync] = "best" => req[Sync] # Genesis
      /\ status \in Statuses /\ Clean(status) /\ Clean(dbStatus)
  BY ChainAssumption
     DEF Inv, TypeOK, CallType, ChainType, IndexType, Statuses, ListsOK, SoundOK,
         NoBadBlock, Clean, Thread
<1>i. "idle" \in Label /\ "reorg" \in Label
  BY DEF Label
\* A move that leaves req alone, or changes that of an RPC, to any label but
\* "best" needs no more.
<1>m. ASSUME NEW t \in Thread, NEW label \in Label, Moves(t, label), label # "best",
             req' = req \/ \E u \in Rpcs, x \in Block : req' = [req EXCEPT ![u] = x]
      PROVE  Goal
  <2>1. req'[Sync] = req[Sync]
    BY <1>m, <1>0
  <2>2. pc'[Sync] = "best" => pc[Sync] = "best"
    BY <1>m, <1>0 DEF Moves
  <2> QED
    BY <2>1, <2>2, <1>m, <1>0
<1>a. ASSUME NEW b \in Block \ {Genesis}, lock = Sync \/ MayStart(Sync), Accept(b)
      PROVE  Goal
  <2>1. CASE KnownInvalid(status, Parent[b])
    <3>1. Return(Sync) /\ req' = req
      BY <2>1, <1>a DEF Accept
    <3> QED
      BY <3>1, <1>a, <1>0, <1>i, <1>m, ReturnMoves
  <2>2. CASE ~KnownInvalid(status, Parent[b])
    <3>1. /\ lock' = Sync /\ Goto(Sync, "best") /\ req' = [req EXCEPT ![Sync] = b]
          /\ UNCHANGED <<detach, attach>>
      BY <2>2, <1>a DEF Accept, listVars
    <3>2. "best" \in Label /\ "best" \in Locked
      BY DEF Label, Locked
    <3>3. pc[Sync] # "idle" \/ MayStart(Sync)
      BY <1>a, <1>0 DEF Inv, LockOK, Locked
    <3>4. Moves(Sync, "best")
      BY <3>1, <3>2, <3>3, <1>a, <1>0, GotoMoves DEF MayStart
    <3> QED
      BY <3>1, <3>2, <3>4, <1>0
  <2> QED
    BY <2>1, <2>2
<1>b. ASSUME NEW t \in Thread, Holds(t, "reorg"), Abort(t) PROVE Goal
  BY <1>b, <1>i, <1>m, ReturnMoves DEF Abort, Holds
<1>1. ASSUME NEW b \in Block \ {Genesis}, ProcessBlock(b) PROVE Goal
  <2>1. CASE Accept(b)
    BY <2>1, <1>1, <1>a DEF ProcessBlock
  <2>2. CASE UNCHANGED <<indexVars, lock, pc, callVars, listVars>>
    <3>1. UNCHANGED <<lock, pc, detach, attach, req>> /\ MayStart(Sync) /\ pc[Sync] = "idle"
      BY <2>2, <1>1 DEF ProcessBlock, callVars, listVars, MayStart
    <3> QED
      BY <3>1, <1>0, <1>i, <1>m, StayMoves
  <2> QED
    BY <2>1, <2>2, <1>1 DEF ProcessBlock
<1>2. CASE ExtendTip
  <2>1. /\ lock = Sync /\ pc[Sync] = "best" /\ req[Sync] \notin BadBlock /\ req' = req
        /\ Reorganize(Sync, "extend", {}, {req[Sync]})
    BY <1>2 DEF ExtendTip, Holds
  <2>2. Moves(Sync, "reorg")
    BY <2>1, <1>0, ReorganizeMoves, BlockAssumption
  <2> QED
    BY <2>1, <2>2, <1>0, <1>i, <1>m
<1>3. CASE RejectTip \/ OrphansDone
  BY <1>3, <1>0, <1>i, <1>m, ReturnMoves DEF RejectTip, OrphansDone, Holds
<1>4. ASSUME NEW m, lock = Sync, Accepted(m), req' = req PROVE Goal
  <2>1. "accepted" \in Label /\ "accepted" \notin Locked /\ pc[Sync] # "idle"
    BY <1>4, <1>0 DEF Label, Locked, Inv, LockOK
  <2>2. Moves(Sync, "accepted")
    BY <2>1, <1>4, <1>0, GotoMoves DEF Accepted, Unlocked, listVars
  <2> QED
    BY <2>1, <2>2, <1>4, <1>0, <1>m
<1>5. CASE KeepTip \/ Connected
  BY <1>5, <1>4 DEF KeepTip, Connected, Holds, Done
<1>6. CASE SwitchTip
  <2> DEFINE b == req[Sync]
  <2>1. b \in Block /\ lock = Sync /\ req' = req
    BY <1>6, <1>0 DEF SwitchTip, Holds
  <2>2. CASE Accepted(TRUE)
    BY <2>1, <2>2, <1>4
  <2>3. CASE Return(Sync)
    BY <2>1, <2>3, <1>0, <1>i, <1>m, ReturnMoves
  <2>4. CASE /\ Failing(status, b) = {}
             /\ Reorganize(Sync, "process", Chain[tip] \ Chain[b], Branch(b))
    <3>1. Branch(b) \cap BadBlock = {}
      BY <2>4, <1>0, BranchSound
    <3>2. Moves(Sync, "reorg")
      BY <3>1, <2>1, <2>4, <1>0, PlanFacts, ReorganizeMoves
    <3> QED
      BY <3>2, <2>1, <1>0, <1>i, <1>m
  <2> QED
    BY <1>6, <2>2, <2>3, <2>4 DEF SwitchTip
<1>7. ASSUME NEW t \in Thread, DisconnectBlock(t) PROVE Goal
  <2>1. CASE Highest(detach[t]) = tip /\ Goto(t, "commit") /\ UNCHANGED <<lock, callVars, listVars>>
    <3>1. "commit" \in Label /\ "commit" \in Locked
      BY DEF Label, Locked
    <3>2. Moves(t, "commit")
      BY <3>1, <2>1, <1>7 DEF Moves, DisconnectBlock, Holds, Goto, listVars, Inv, ListsOK, SoundOK
    <3> QED
      BY <3>1, <3>2, <2>1, <1>m DEF callVars
  <2> QED
    BY <2>1, <1>7, <1>b DEF DisconnectBlock
<1>8. ASSUME NEW t \in Thread, ConnectBlock(t) PROVE Goal
  <2>1. CASE /\ Parent[Lowest(attach[t])] = tip /\ Goto(t, "commit")
             /\ UNCHANGED <<lock, callVars, listVars>>
    <3>1. "commit" \in Label /\ "commit" \in Locked
      BY DEF Label, Locked
    <3>2. Moves(t, "commit")
      BY <3>1, <2>1, <1>8 DEF Moves, ConnectBlock, Holds, Goto, listVars, Inv, ListsOK, SoundOK
    <3> QED
      BY <3>1, <3>2, <2>1, <1>m DEF callVars
  <2> QED
    BY <2>1, <1>8, <1>b DEF ConnectBlock
<1>9. ASSUME NEW t \in Thread, CommitDisconnect(t) \/ CommitConnect(t) PROVE Goal
  <2>1. "notify" \in Label /\ "notify" \notin Locked
    BY DEF Label, Locked
  <2>2. /\ detach'[t] \subseteq detach[t] /\ attach'[t] \subseteq attach[t]
        /\ \A u \in Thread \ {t} : detach'[u] = detach[u] /\ attach'[u] = attach[u]
    BY <1>9, <1>0 DEF CommitDisconnect, CommitConnect
  <2>3. lock = t /\ pc[t] = "commit" /\ Unlocked(t, "notify") /\ req' = req
    BY <1>9 DEF CommitDisconnect, CommitConnect, Holds, callVars
  <2>4. Moves(t, "notify")
    BY <2>1, <2>2, <2>3 DEF Moves, Unlocked, Goto, Inv, ListsOK, SoundOK
  <2> QED
    BY <2>1, <2>3, <2>4, <1>m
<1>10. ASSUME NEW t \in Thread, Notified(t) PROVE Goal
  <2>1. "reorg" \in Locked
    BY DEF Locked
  <2>2. Moves(t, "reorg")
    BY <2>1, <1>10, <1>i, GotoMoves DEF Notified, Relock
  <2> QED
    BY <2>2, <1>10, <1>i, <1>m DEF Notified, callVars
<1>11. CASE QueueAccepted
  <2>1. "orphans" \in Locked /\ "orphans" \in Label
    BY DEF Locked, Label
  <2>2. Moves(Sync, "orphans")
    BY <2>1, <1>11, <1>0, GotoMoves DEF QueueAccepted, Relock, listVars
  <2> QED
    BY <2>1, <2>2, <1>11, <1>0, <1>m DEF QueueAccepted
<1>12. CASE AdoptOrphan
  <2>1. PICK b \in Block \ {Genesis} : Accept(b)
    BY <1>12, AdoptedBlock
  <2> QED
    BY <2>1, <1>12, <1>a DEF AdoptOrphan, Holds
<1>13. CASE NextHash
  <2>1. lock = Sync /\ pc[Sync] = "orphans" /\ UNCHANGED <<lock, pc, detach, attach, req>>
    BY <1>13 DEF NextHash, Holds, listVars
  <2> QED
    BY <2>1, <1>0, <1>m, StayMoves DEF Label
<1>14. CASE FlushUtxoCache
  <2>1. MayStart(Sync) /\ pc[Sync] = "idle" /\ UNCHANGED <<lock, pc, detach, attach, req>>
    BY <1>14 DEF FlushUtxoCache, MayStart, listVars, callVars
  <2> QED
    BY <2>1, <1>0, <1>i, <1>m, StayMoves
<1>15. ASSUME NEW t \in Rpcs, NEW x \in Block,
              InvalidateSide(t, x) \/ InvalidateMain(t, x) \/ ReconsiderBlock(t, x)
       PROVE  Goal
  <2>1. t \in Thread /\ MayStart(t) /\ pc[t] = "idle" /\ req' = [req EXCEPT ![t] = x]
    BY <1>15, <1>0 DEF InvalidateSide, InvalidateMain, ReconsiderBlock, StartRpc, MayStart
  <2>2. CASE UNCHANGED <<lock, pc, op, queue, main, listVars>>
    <3>1. Moves(t, "idle")
      BY <2>1, <2>2, StayMoves DEF listVars
    <3> QED
      BY <3>1, <2>1, <1>i, <1>m
  <2>3. CASE InvalidateMain(t, x) /\ ~UNCHANGED <<lock, pc, op, queue, main, listVars>>
    <3> DEFINE D == {n \in Chain[tip] \ Chain[x] : ~KnownInvalid(status, n)}
    <3>1. Reorganize(t, "invalidate", D \cup {x}, {}) /\ x \in Chain[tip] \ {Genesis}
      BY <2>3 DEF InvalidateMain
    <3>2. Genesis \notin (D \cup {x}) \cup {} /\ D \cup {x} \subseteq Chain[tip]
      BY <3>1, GenesisInChain
    <3> HIDE DEF D
    <3>3. Moves(t, "reorg")
      BY <3>1, <3>2, <2>1, <1>0, ReorganizeMoves
    <3> QED
      BY <3>3, <2>1, <1>i, <1>m
  <2>4. CASE ReconsiderBlock(t, x) /\ ~UNCHANGED <<lock, pc, op, queue, main, listVars>>
    <3>1. PICK b \in TipsOver(x) :
            ReorganizeTo(t, "reconsider", b, Reconsidered(x), Above(x) \cup {x})
      BY <2>4 DEF ReconsiderBlock
    <3>2. b \in Block
      BY <3>1, <1>0, TipsType DEF TipsOver
    <3>3. Reconsidered(x) \in Statuses /\ Clean(Reconsidered(x))
      BY <1>0, ReconsideredType, RpcClean
    <3>4. Moves(t, "idle") \/ Moves(t, "reorg")
      BY <3>1, <3>2, <3>3, <2>1, ReorganizeToMoves
    <3> QED
      BY <3>4, <2>1, <1>i, <1>m
  <2> QED
    BY <2>2, <2>3, <2>4, <1>15 DEF InvalidateSide
<1>16. ASSUME NEW t \in Rpcs, Detached(t) PROVE Goal
  <2>1. "tips" \in Label /\ "tips" \in Locked
    BY DEF Label, Locked
  <2>2. t \in Thread /\ lock = t /\ pc[t] = "reorg" /\ lock' = lock /\ req' = req
    BY <1>16, <1>0 DEF Detached, Done, Holds, callVars
  <2>3. Moves(t, "tips")
    BY <2>1, <2>2, <1>16, GotoMoves DEF Detached, listVars
  <2> QED
    BY <2>1, <2>2, <2>3, <1>m
<1>17. ASSUME NEW t \in Rpcs, PickBestTip(t) PROVE Goal
  <2>1. t \in Thread /\ lock = t /\ req' = req
    BY <1>17, <1>0 DEF PickBestTip, Holds
  <2>2. CASE Return(t)
    BY <2>1, <2>2, <1>i, <1>m, ReturnMoves
  <2>3. CASE \E b \in Block : ReorganizeTo(t, "switch", b, status, {})
    <3>1. Moves(t, "idle") \/ Moves(t, "reorg")
      BY <2>1, <2>3, <1>0, ReorganizeToMoves
    <3> QED
      BY <3>1, <2>1, <1>i, <1>m
  <2>4. Tips \cup {tip} \in SUBSET Block
    BY <1>0, TipsType
  <2> QED
    BY <2>2, <2>3, <2>4, <1>17 DEF PickBestTip
<1>18. ASSUME NEW t \in Rpcs, Switched(t) \/ ReconsiderDone(t) PROVE Goal
  BY <1>18, <1>0, <1>i, <1>m, ReturnMoves DEF Switched, ReconsiderDone, Done, Holds
<1>19. ASSUME NEW t \in Thread, Step(t) PROVE Goal
  BY <1>19, <1>7, <1>8, <1>9, <1>10 DEF Step
<1>20. CASE SyncStep
  BY <1>20, <1>0, <1>2, <1>3, <1>5, <1>6, <1>11, <1>12, <1>13, <1>19 DEF SyncStep
<1>21. ASSUME NEW t \in Rpcs, RpcStep(t) PROVE Goal
  BY <1>21, <1>0, <1>16, <1>17, <1>18, <1>19 DEF RpcStep
<1>22. Goal
  BY <1>1, <1>14, <1>15, <1>20, <1>21 DEF Next
<1> QED
  BY <1>22 DEF Goal

\* Every step keeps the orphan pool within its bound.
LEMMA PoolStep ==
  ASSUME Inv, Next
  PROVE  PoolOK'
<1>0. PoolType /\ PoolOK
  BY DEF Inv, TypeOK
<1>1. CASE UNCHANGED orphanVars
  BY <1>0, <1>1 DEF PoolOK, OrphanBound, orphanVars
<1>2. ASSUME NEW b \in Block \ {Genesis}, ProcessBlock(b) PROVE PoolOK'
  BY <1>0, <1>1, <1>2, AddOrphanStep DEF ProcessBlock
<1>3. CASE AdoptOrphan
  <2>1. PICK i \in 1..Len(orphans) : orphans' = RemoveOrphan(orphans, orphans[i])
    BY <1>3, AdoptedBlock
  <2>2. /\ orphans \in Seq(Block \ {Genesis}) /\ Len(orphans) \in Nat
        /\ orphans' \in Seq(Block \ {Genesis}) /\ Len(orphans') \in Nat
        /\ Len(orphans') <= Len(orphans)
    BY <1>0, <2>1, RemoveOrphanFacts DEF PoolType
  <2>3. oldest' = oldest /\ MaxOrphans \in Nat
    BY <1>3, ChainAssumption DEF AdoptOrphan
  <2> QED
    BY <1>0, <2>2, <2>3 DEF PoolOK, OrphanBound
<1>4. CASE Restart
  <2>1. orphans' = <<>> /\ oldest' = None
    BY <1>4 DEF Restart
  <2> QED
    BY <2>1, ChainAssumption DEF PoolOK, OrphanBound
<1>5. ASSUME NEW t \in Thread, Step(t) PROVE UNCHANGED orphanVars
  BY <1>5 DEF Step, DisconnectBlock, CommitDisconnect, ConnectBlock, CommitConnect, Notified
<1>6. SyncStep => AdoptOrphan \/ UNCHANGED orphanVars
  BY <1>5 DEF SyncStep, ExtendTip, RejectTip, KeepTip, SwitchTip, Connected, QueueAccepted,
              NextHash, OrphansDone, Thread
<1>7. ASSUME NEW t \in Rpcs, RpcStep(t) PROVE UNCHANGED orphanVars
  BY <1>5, <1>7 DEF RpcStep, Detached, PickBestTip, Switched, ReconsiderDone, Thread
<1>8. ASSUME NEW t \in Rpcs, NEW x \in Block,
             InvalidateSide(t, x) \/ InvalidateMain(t, x) \/ ReconsiderBlock(t, x)
      PROVE  UNCHANGED orphanVars
  BY <1>8 DEF InvalidateSide, InvalidateMain, ReconsiderBlock
<1>9. FlushUtxoCache => UNCHANGED orphanVars
  BY DEF FlushUtxoCache
<1> QED
  BY <1>1, <1>2, <1>3, <1>4, <1>6, <1>7, <1>8, <1>9 DEF Next

\* The tip only moves over sound blocks, in memory and in the database alike.
LEMMA TipStep ==
  ASSUME Inv, Next
  PROVE  Chain[tip'] \cap BadBlock = {} /\ dbTip' = tip'
<1> DEFINE Goal == Chain[tip'] \cap BadBlock = {} /\ dbTip' = tip'
<1>0. Chain[tip] \cap BadBlock = {} /\ dbTip = tip /\ tip \in Block
  BY DEF Inv, SoundOK, NoBadBlock, TypeOK, ChainType
<1>1. UNCHANGED <<tip, dbTip>> => Goal
  BY <1>0
<1>2. ASSUME NEW t \in Thread, CommitDisconnect(t) PROVE Goal
  <2>1. Highest(detach[t]) = tip /\ tip \in Block \ {Genesis}
    BY <1>2, NextInList DEF CommitDisconnect, Holds, Inv, CommitOK
  <2>2. tip' = Parent[tip] /\ dbTip' = Parent[tip]
    BY <1>2, <2>1 DEF CommitDisconnect
  <2> QED
    BY <1>0, <2>1, <2>2, ParentFacts
<1>3. ASSUME NEW t \in Thread, CommitConnect(t) PROVE Goal
  <2> DEFINE n == Lowest(attach[t])
  <2>1. attach[t] # {} /\ Parent[n] = tip
    BY <1>3 DEF CommitConnect, Holds, Inv, CommitOK
  <2>2. n \in attach[t] /\ n \in Block \ {Genesis}
    BY <2>1, NextInList
  <2>3. n \notin BadBlock
    BY <2>2 DEF Inv, SoundOK
  <2>4. tip' = n /\ dbTip' = n
    BY <1>3 DEF CommitConnect
  <2> QED
    BY <1>0, <2>1, <2>2, <2>3, <2>4, ParentFacts
<1>4. Restart => Goal
  BY RestartSaves DEF Inv, DiskOK
<1>5. ASSUME NEW t \in Thread, Step(t) PROVE Goal
  BY <1>1, <1>2, <1>3, <1>5 DEF Step, DisconnectBlock, ConnectBlock, Notified
<1>6. SyncStep => Goal
  BY <1>1, <1>5 DEF SyncStep, ExtendTip, RejectTip, KeepTip, SwitchTip, Connected,
              QueueAccepted, AdoptOrphan, NextHash, OrphansDone, Thread
<1>7. ASSUME NEW t \in Rpcs, RpcStep(t) PROVE Goal
  BY <1>1, <1>5, <1>7 DEF RpcStep, Detached, PickBestTip, Switched, ReconsiderDone, Thread
<1>8. ASSUME NEW t \in Rpcs, NEW x \in Block,
             InvalidateSide(t, x) \/ InvalidateMain(t, x) \/ ReconsiderBlock(t, x)
      PROVE  Goal
  BY <1>1, <1>8 DEF InvalidateSide, InvalidateMain, ReconsiderBlock
<1>9. FlushUtxoCache => Goal
  BY <1>1 DEF FlushUtxoCache
<1>10. ASSUME NEW b \in Block, ProcessBlock(b) PROVE Goal
  BY <1>1, <1>10 DEF ProcessBlock
<1> QED
  BY <1>4, <1>6, <1>7, <1>8, <1>9, <1>10 DEF Next

\* No step marks a block that breaks a rule as valid.
LEMMA IndexClean ==
  ASSUME Inv, Next
  PROVE  Clean(status') /\ Clean(dbStatus')
<1> DEFINE Goal == Clean(status') /\ Clean(dbStatus')
<1>0. /\ status \in Statuses /\ dbStatus \in Statuses /\ Clean(status) /\ Clean(dbStatus)
      /\ tip \in Block /\ Sync \in Thread /\ req[Sync] \in Block
  BY DEF Inv, SoundOK, NoBadBlock, TypeOK, ChainType, CallType, IndexType, Statuses, Clean, Thread
<1>1. UNCHANGED indexVars => Goal
  BY <1>0 DEF indexVars
<1>2. ASSUME NEW D, FlushIndex(status, D) PROVE Goal
  BY <1>0, <1>2, CleanIndex
<1>3. ASSUME NEW b \in Block, Accept(b) PROVE Goal
  <2>1. CASE UNCHANGED indexVars
    BY <2>1, <1>1
  <2>2. CASE /\ status' = [status EXCEPT ![b] = {"stored"}]
             /\ dbStatus' = [dbStatus EXCEPT ![b] = {"stored"}]
    BY <2>2, <1>0, BlockAssumption DEF Clean, KnownValid, Statuses
  <2> QED
    BY <2>1, <2>2, <1>3 DEF Accept
<1>4. ASSUME NEW b \in Block, ProcessBlock(b) PROVE Goal
  BY <1>1, <1>3, <1>4 DEF ProcessBlock
<1>5. ExtendTip => Goal
  BY <1>0, CleanFlags, CleanIndex DEF ExtendTip
<1>6. RejectTip => Goal
  BY <1>0, CleanFlags, CleanIndex DEF RejectTip
<1>7. SwitchTip => Goal
  <2>1. Clean(Verified(status, req[Sync]).st)
    BY <1>0, VerifiedClean
  <2>2. Clean(SetFlag(status, Tainted(status, req[Sync]), "invalidAncestor"))
    BY <1>0, CleanFlags
  <2> QED
    BY <1>0, <2>1, <2>2, CleanIndex DEF SwitchTip
<1>8. Connected => Goal
  <2> DEFINE again == IF op[Sync] = "extend" /\ ~KnownValid(status, req[Sync])
                      THEN {req[Sync]} ELSE {}
  <2>1. again \cap BadBlock = {}
    BY DEF Inv, SoundOK
  <2>2. Clean(SetFlag(status, again, "valid"))
    BY <2>1, <1>0, CleanFlags
  <2> QED
    BY <1>0, <2>2, CleanIndex DEF Connected
<1>9. ASSUME NEW t, Abort(t) PROVE Goal
  BY <1>1, <1>2, <1>9 DEF Abort
<1>10. ASSUME NEW t, Step(t) PROVE Goal
  BY <1>1, <1>2, <1>9, <1>10
     DEF Step, DisconnectBlock, CommitDisconnect, ConnectBlock, CommitConnect, Notified
<1>11. AdoptOrphan => Goal
  BY <1>3, AdoptedBlock
<1>12. SyncStep => Goal
  BY <1>1, <1>5, <1>6, <1>7, <1>8, <1>10, <1>11
     DEF SyncStep, KeepTip, QueueAccepted, NextHash, OrphansDone
<1>13. ASSUME NEW t \in Rpcs, RpcStep(t) PROVE Goal
  <2>1. Detached(t) \/ Switched(t) \/ ReconsiderDone(t) => Goal
    BY <1>1, <1>2 DEF Detached, Switched, ReconsiderDone
  <2>2. PickBestTip(t) => Goal
    <3>1. SUFFICES ASSUME PickBestTip(t) PROVE Goal
      OBVIOUS
    <3>2. CASE UNCHANGED indexVars
      BY <3>2, <1>1
    <3>3. CASE \E b \in Block : ReorganizeTo(t, "switch", b, status, {})
      BY <3>1, <3>3, <1>0, ReorganizeToMoves DEF PickBestTip, Holds, Thread
    <3>4. Tips \cup {tip} \in SUBSET Block
      BY <1>0, TipsType
    <3> QED
      BY <3>1, <3>2, <3>3, <3>4 DEF PickBestTip
  <2> QED
    BY <1>10, <1>13, <2>1, <2>2 DEF RpcStep
<1>14. ASSUME NEW t \in Rpcs, NEW x \in Block,
              InvalidateSide(t, x) \/ InvalidateMain(t, x)
       PROVE  Goal
  BY <1>0, <1>14, RpcClean, CleanIndex DEF InvalidateSide, InvalidateMain
<1>15. ASSUME NEW t \in Rpcs, NEW x \in Block, ReconsiderBlock(t, x) PROVE Goal
  <2>1. Reconsidered(x) \in Statuses /\ Clean(Reconsidered(x))
    BY <1>0, ReconsideredType, RpcClean
  <2>2. PICK b \in TipsOver(x) :
          \/ KeepDirty(Reconsidered(x), Above(x) \cup {x})
          \/ ReorganizeTo(t, "reconsider", b, Reconsidered(x), Above(x) \cup {x})
    BY <1>15 DEF ReconsiderBlock
  <2>3. b \in Block /\ t \in Thread /\ MayStart(t)
    BY <1>0, <1>15, <2>2, TipsType DEF TipsOver, Thread, ReconsiderBlock, StartRpc
  <2>4. CASE KeepDirty(Reconsidered(x), Above(x) \cup {x})
    BY <1>0, <2>1, <2>4, CleanIndex
  <2>5. CASE ReorganizeTo(t, "reconsider", b, Reconsidered(x), Above(x) \cup {x})
    BY <2>1, <2>3, <2>5, ReorganizeToMoves
  <2> QED
    BY <2>2, <2>4, <2>5
<1>16. FlushUtxoCache => Goal
  BY <1>1 DEF FlushUtxoCache
<1>17. Restart => Goal
  <2>1. Chain[disk.tip] \cap BadBlock = {} /\ Clean(disk.status) /\ disk.status \in Statuses
    BY DEF Inv, DiskOK, Clean, TypeOK, DiskType, Statuses
  <2>2. Clean(SetFlag(disk.status, Chain[disk.tip], "valid"))
    BY <2>1, CleanFlags
  <2> QED
    BY <2>2 DEF Restart
<1> QED
  BY <1>4, <1>12, <1>13, <1>14, <1>15, <1>16, <1>17 DEF Next

\* The block that extends the tip is the one that passed checkConnectBlock,
\* until ProcessBlock takes up another.
LEMMA ExtendStep ==
  ASSUME Inv, Next
  PROVE  op'[Sync] = "extend" => req'[Sync] \notin BadBlock
<1> DEFINE Goal == op'[Sync] = "extend" => req'[Sync] \notin BadBlock
<1>0. /\ op[Sync] = "extend" => req[Sync] \notin BadBlock
      /\ Sync \in Thread /\ Rpcs \subseteq Thread /\ Sync \notin Rpcs
      /\ op \in [Thread -> Call] /\ req \in [Thread -> Block]
  BY ChainAssumption DEF Inv, SoundOK, TypeOK, CallType, Thread
<1>1. op'[Sync] = op[Sync] /\ req'[Sync] = req[Sync] => Goal
  BY <1>0
<1>2. ASSUME NEW t \in Thread, Return(t), req'[Sync] = req[Sync] PROVE Goal
  <2>1. op'[Sync] \in {op[Sync], "none"}
    BY <1>2, <1>0 DEF Return
  <2> QED
    BY <2>1, <1>2, <1>0
<1>3. ASSUME NEW t \in Rpcs, NEW call, NEW d, NEW a, Reorganize(t, call, d, a),
             req'[Sync] = req[Sync]
      PROVE  Goal
  <2>1. op'[Sync] = op[Sync]
    BY <1>3, <1>0 DEF Reorganize
  <2> QED
    BY <2>1, <1>3, <1>1
<1>4. ASSUME NEW b, Accept(b) PROVE Goal
  <2>1. CASE Return(Sync) /\ req' = req
    BY <2>1, <1>0, <1>2
  <2>2. CASE op' = [op EXCEPT ![Sync] = "process"]
    BY <2>2, <1>0
  <2> QED
    BY <2>1, <2>2, <1>4 DEF Accept
<1>5. ASSUME NEW b, ProcessBlock(b) PROVE Goal
  BY <1>1, <1>4, <1>5 DEF ProcessBlock, callVars
<1>6. ExtendTip => Goal
  BY <1>0 DEF ExtendTip
<1>7. SwitchTip => Goal
  <2>1. SUFFICES ASSUME SwitchTip PROVE Goal
    OBVIOUS
  <2>2. CASE \E d, a : Reorganize(Sync, "process", d, a)
    BY <2>2, <1>0 DEF Reorganize
  <2>3. CASE Return(Sync)
    BY <2>1, <2>3, <1>0, <1>2 DEF SwitchTip
  <2>4. CASE Accepted(TRUE)
    BY <2>1, <2>4, <1>1 DEF SwitchTip, Accepted
  <2> QED
    BY <2>1, <2>2, <2>3, <2>4 DEF SwitchTip
<1>8. RejectTip \/ OrphansDone => Goal
  BY <1>0, <1>2 DEF RejectTip, OrphansDone
<1>9. KeepTip \/ Connected \/ QueueAccepted \/ NextHash \/ FlushUtxoCache => Goal
  BY <1>1 DEF KeepTip, Connected, Accepted, QueueAccepted, NextHash, FlushUtxoCache, callVars
<1>10. ASSUME NEW t \in Thread, Step(t) PROVE Goal
  <2>1. Abort(t) => Goal
    BY <1>2 DEF Abort
  <2> QED
    BY <2>1, <1>1, <1>10
       DEF Step, DisconnectBlock, CommitDisconnect, ConnectBlock, CommitConnect, Notified, callVars
<1>11. SyncStep => Goal
  BY <1>0, <1>4, <1>6, <1>7, <1>8, <1>9, <1>10, AdoptedBlock DEF SyncStep
<1>12. ASSUME NEW t \in Rpcs, NEW call, NEW b, NEW st, NEW D, ReorganizeTo(t, call, b, st, D),
              req'[Sync] = req[Sync]
       PROVE  Goal
  BY <1>0, <1>2, <1>3, <1>12 DEF ReorganizeTo
<1>13. ASSUME NEW t \in Rpcs, RpcStep(t) PROVE Goal
  <2>1. Detached(t) => Goal
    BY <1>1 DEF Detached, callVars
  <2>2. PickBestTip(t) => Goal
    BY <1>0, <1>2, <1>12 DEF PickBestTip
  <2>3. Switched(t) \/ ReconsiderDone(t) => Goal
    BY <1>0, <1>2 DEF Switched, ReconsiderDone
  <2> QED
    BY <1>0, <1>10, <1>13, <2>1, <2>2, <2>3 DEF RpcStep
<1>14. ASSUME NEW t \in Rpcs, NEW x \in Block,
              InvalidateSide(t, x) \/ InvalidateMain(t, x) \/ ReconsiderBlock(t, x)
       PROVE  Goal
  <2>1. req'[Sync] = req[Sync]
    BY <1>14, <1>0 DEF InvalidateSide, InvalidateMain, ReconsiderBlock, StartRpc
  <2>2. InvalidateSide(t, x) => Goal
    BY <2>1, <1>1 DEF InvalidateSide
  <2>3. InvalidateMain(t, x) => Goal
    BY <2>1, <1>1, <1>3 DEF InvalidateMain
  <2>4. ReconsiderBlock(t, x) => Goal
    BY <2>1, <1>1, <1>12 DEF ReconsiderBlock
  <2> QED
    BY <1>14, <2>2, <2>3, <2>4
<1>15. Restart => Goal
  BY <1>0 DEF Restart
<1> QED
  BY <1>5, <1>9, <1>11, <1>13, <1>14, <1>15 DEF Next

\* The initial state satisfies the invariant.
LEMMA InitInv ==
  ASSUME Init
  PROVE  Inv
<1> USE DEF Init
<1>1. TypeOK
  <2>1. IndexType /\ ChainType /\ PoolType
    BY BlockAssumption DEF IndexType, ChainType, PoolType, Flag
  <2>0. DiskType
    BY <2>1 DEF IndexType, ChainType, DiskType, DbState
  <2>2. /\ lock \in Thread \cup {None} /\ pc \in [Thread -> Label] /\ op \in [Thread -> Call]
        /\ req \in [Thread -> Block] /\ snap \in [Thread -> Block \cup {None}]
    BY BlockAssumption DEF Label, Call
  <2>3. detach \in [Thread -> SUBSET Block] /\ attach \in [Thread -> SUBSET Block]
    OBVIOUS
  <2>4. queue \in Seq(Block) /\ main \in BOOLEAN
    <3>1. queue = <<>> /\ main = FALSE
      OBVIOUS
    <3>2. queue \in Seq(Block)
      BY <3>1, EmptySeq
    <3>3. main \in BOOLEAN
      BY <3>1, Zenon
    <3> QED
      BY <3>2, <3>3
  <2>5. rpcs \in 0..MaxRpcs /\ crashes \in 0..MaxCrashes
    BY ChainAssumption
  <2> QED
    BY <2>0, <2>1, <2>2, <2>3, <2>4, <2>5 DEF TypeOK, CallType
<1>2. LockOK
  BY ChainAssumption DEF LockOK, Locked, Thread
<1>3. ListsOK /\ CommitOK
  BY BlockAssumption DEF ListsOK, CommitOK, Thread
<1>4. PoolOK
  BY ChainAssumption DEF PoolOK, OrphanBound
<1>5. SoundOK
  <2>1. Chain[tip] \cap BadBlock = {}
    BY BlockAssumption, NodeAssumption
  <2>2. \A b \in BadBlock : ~KnownValid(status, b) /\ ~KnownValid(dbStatus, b)
    BY BlockAssumption DEF KnownValid
  <2> QED
    BY <2>1, <2>2 DEF SoundOK, NoBadBlock, Thread
<1>6. DiskOK
  <2>1. disk.tip = tip /\ disk.status = dbStatus
    BY DEF DbState
  <2> QED
    BY <1>5, <2>1 DEF SoundOK, NoBadBlock, DiskOK
<1> QED
  BY <1>1, <1>2, <1>3, <1>4, <1>5, <1>6 DEF Inv

\* No step saves a state with a bad block on the best chain or marked valid.
LEMMA DiskStep ==
  ASSUME Inv, Next, SoundOK'
  PROVE  DiskOK'
<1>1. Chain[disk.tip] \cap BadBlock = {} /\ Clean(disk.status) /\ disk.status \in Statuses
  BY DEF Inv, DiskOK, Clean, TypeOK, DiskType, Statuses
<1>2. DbState'.tip = tip' /\ DbState'.status = dbStatus'
  BY DEF SoundOK, DbState
<1>3. Chain[tip'] \cap BadBlock = {} /\ Clean(dbStatus')
  BY DEF SoundOK, NoBadBlock, Clean, KnownValid
<1>4. ASSUME Chain[disk'.tip] \cap BadBlock = {}, Clean(disk'.status)
      PROVE  DiskOK'
  BY <1>4 DEF DiskOK, Clean, KnownValid
<1>5. CASE ~Restart
  BY <1>1, <1>2, <1>3, <1>4, <1>5, NextSaves
<1>6. CASE Restart
  <2> DEFINE loaded == SetFlag(disk.status, Chain[disk.tip], "valid")
  <2>1. Clean(loaded)
    BY <1>1, CleanFlags
  <2>2. disk' \in {disk, [disk EXCEPT !.status = loaded], DbState'}
    BY <1>6, RestartSaves
  <2> HIDE DEF loaded
  <2>3. CASE disk' = [disk EXCEPT !.status = loaded]
    <3>1. disk'.tip = disk.tip /\ disk'.status = loaded
      BY <2>3 DEF Inv, TypeOK, DiskType
    <3> QED
      BY <3>1, <2>1, <1>1, <1>4
  <2> QED
    BY <2>2, <2>3, <1>1, <1>2, <1>3, <1>4
<1> QED
  BY <1>5, <1>6

\* Every step preserves the invariant.
LEMMA InvStep ==
  ASSUME Inv, [Next]_vars
  PROVE  Inv'
<1>1. TypeOK'
  BY TypeStep
<1>2. CASE UNCHANGED vars
  BY <1>1, <1>2
     DEF Inv, LockOK, ListsOK, CommitOK, PoolOK, OrphanBound, SoundOK, NoBadBlock, KnownValid, DiskOK,
         vars, indexVars, coinVars, orphanVars, callVars, listVars, boundVars
<1>3. CASE Next
  <2>1. LockOK' /\ ListsOK' /\ CommitOK' /\ \A u \in Thread : attach'[u] \cap BadBlock = {}
    <3>1. CASE ~Restart
      BY <1>3, <3>1, NextMoves, MovesStep
    <3>2. CASE Restart
      <4>1. /\ lock' = None /\ pc' = [t \in Thread |-> "idle"]
            /\ detach' = [t \in Thread |-> {}] /\ attach' = [t \in Thread |-> {}]
        BY <3>2 DEF Restart
      <4> QED
        BY <4>1, ChainAssumption, BlockAssumption DEF LockOK, ListsOK, CommitOK, Locked, Thread
    <3> QED
      BY <3>1, <3>2
  <2>2. PoolOK'
    BY <1>3, PoolStep
  <2>3. SoundOK'
    BY <1>3, <2>1, TipStep, IndexClean, ExtendStep DEF SoundOK, NoBadBlock, Clean, KnownValid
  <2>4. DiskOK'
    BY <1>3, <2>3, DiskStep
  <2> QED
    BY <1>1, <2>1, <2>2, <2>3, <2>4 DEF Inv
<1> QED
  BY <1>2, <1>3

\* Inv is an invariant of the chain.
THEOREM InvAlways == Spec => []Inv
<1>1. Init => Inv
  BY InitInv
<1>2. Inv /\ [Next]_vars => Inv'
  BY InvStep
<1> QED
  BY <1>1, <1>2, PTL DEF Spec

\* ProcessBlock, InvalidateBlock, ReconsiderBlock, flushes and restarts leave
\* every variable in its type, however the calls interleave.
THEOREM TypeCorrect == Spec => []TypeOK
<1>1. Inv => TypeOK
  BY DEF Inv
<1> QED
  BY <1>1, InvAlways, PTL

\* addOrphanBlock lets the pool exceed maxOrphanBlocks by at most one block,
\* whatever expires and whichever orphan its stale pointer names.
THEOREM OrphanPoolBounded == Spec => []OrphanBound
<1>1. Inv => OrphanBound
  BY DEF Inv, PoolOK
<1> QED
  BY <1>1, InvAlways, PTL

\* connectBestChain, InvalidateBlock and ReconsiderBlock never put a block that
\* checkConnectBlock rejects on the best chain or mark it valid, even when
\* calls overlap in each other's notification windows and after any crash.
THEOREM BadBlocksStayOut == Spec => []NoBadBlock
<1>1. Inv => NoBadBlock
  BY DEF Inv, SoundOK
<1> QED
  BY <1>1, InvAlways, PTL

-----------------------------------------------------------------------------
(* Calls that do not overlap: the utxo set follows the best chain,           *)
(* reorganizeChain's lists agree with it, its blocks are valid and           *)
(* BlockChain implements Ledger                                              *)

\* At most one call is under way.
OneCall == \A t, u \in Thread : pc[t] # "idle" /\ pc[u] # "idle" => t = u

\* The blocks of a continue the chain of top from where those of d end.
Continues(top, d, a) ==
  \/ a = {}
  \/ \E f \in Chain[top], g \in Block :
       /\ f \in Chain[g]
       /\ d = Chain[top] \ Chain[f]
       /\ a = Chain[g] \ Chain[f]

\* A thread's lists lead from the tip to its new place, a call that has
\* returned left none behind, and the state connectBlock captured is still
\* the tip's when it flushes.
CallOK == \A t \in Thread :
  /\ Continues(tip, detach[t], attach[t])
  /\ pc[t] = "idle" => attach[t] = {}
  /\ snap[t] # None => pc[t] = "notify" /\ snap[t] = tip

\* The two halves of Replayable: what is committed and what is on disk.
DbReplayable == dbUtxo = Chain[dbMark] /\ dbMark \in Chain[dbTip]
DiskReplayable == disk.utxo = Chain[disk.mark] /\ disk.mark \in Chain[disk.tip]

CoinInv == OneCall /\ CallOK /\ CoinsMatchTip /\ DbReplayable /\ DiskReplayable

-----------------------------------------------------------------------------
(* Steps that leave the tip and the coins alone                              *)

\* Thread t moves and the tip, the coins and the other threads stay.
Plans(t) ==
  /\ UNCHANGED <<tip, dbTip, coinVars>>
  /\ pc[t] # "commit" /\ (pc'[t] = "commit" => detach'[t] # {})
  /\ \A u \in Thread \ {t} : /\ pc'[u] = pc[u] /\ snap'[u] = snap[u]
                             /\ detach'[u] = detach[u] /\ attach'[u] = attach[u]
  /\ Continues(tip, detach'[t], attach'[t])
  /\ pc'[t] = "idle" => attach'[t] = {}
  /\ snap'[t] = None

\* Connecting is about the threads in the commit of a connectBlock only.
LEMMA SameConnecting ==
  ASSUME NEW t \in Thread, pc[t] # "commit", pc'[t] = "commit" => detach'[t] # {},
         \A u \in Thread \ {t} :
           pc'[u] = pc[u] /\ detach'[u] = detach[u] /\ attach'[u] = attach[u]
  PROVE  Connecting' = Connecting
<1>1. {u \in Thread : pc'[u] = "commit" /\ detach'[u] = {}}
        = {u \in Thread : pc[u] = "commit" /\ detach[u] = {}}
  OBVIOUS
<1>2. \A u \in {v \in Thread : pc[v] = "commit" /\ detach[v] = {}} : attach'[u] = attach[u]
  OBVIOUS
<1> QED
  BY <1>1, <1>2 DEF Connecting

\* Such a step keeps the coins right.
LEMMA PlansStep ==
  ASSUME CoinInv, NEW t \in Thread, Plans(t)
  PROVE  CallOK' /\ CoinsMatchTip' /\ DbReplayable'
<1>1. Connecting' = Connecting
  BY SameConnecting DEF Plans
<1>2. CallOK'
  BY DEF CoinInv, CallOK, Plans, Continues
<1>3. CoinsMatchTip'
  BY <1>1 DEF CoinInv, CoinsMatchTip, Plans, coinVars
<1>4. DbReplayable'
  BY DEF CoinInv, DbReplayable, Plans, coinVars
<1> QED
  BY <1>2, <1>3, <1>4

\* A call that returns is one.
LEMMA ReturnPlans ==
  ASSUME Inv, NEW t \in Thread, pc[t] # "commit", Return(t), UNCHANGED <<tip, dbTip, coinVars>>
  PROVE  Plans(t)
BY DEF Inv, TypeOK, CallType, Return, Unlocked, Goto, Plans, Continues

\* So is the plan of a reorganization.
LEMMA ReorganizePlans ==
  ASSUME Inv, CoinInv, NEW t \in Thread, pc[t] \notin {"commit", "notify"}, NEW call, NEW d, NEW a,
         Reorganize(t, call, d, a), Continues(tip, d, a), UNCHANGED <<tip, dbTip, coinVars>>
  PROVE  Plans(t)
<1>1. /\ pc'[t] = "reorg" /\ detach'[t] = d /\ attach'[t] = a /\ snap'[t] = snap[t]
      /\ \A u \in Thread \ {t} : /\ pc'[u] = pc[u] /\ snap'[u] = snap[u]
                                 /\ detach'[u] = detach[u] /\ attach'[u] = attach[u]
  BY DEF Inv, TypeOK, CallType, Reorganize, Goto
<1>2. snap[t] = None
  BY DEF CoinInv, CallOK
<1> QED
  BY <1>1, <1>2 DEF Plans

\* And a move of a thread with its lists as they are.
LEMMA GotoPlans ==
  ASSUME Inv, CoinInv, NEW t \in Thread, pc[t] \notin {"commit", "notify"}, NEW label,
         label \notin {"idle", "commit"}, Goto(t, label), UNCHANGED listVars,
         UNCHANGED <<tip, dbTip, coinVars>>
  PROVE  Plans(t)
BY DEF Inv, TypeOK, CallType, Goto, Plans, CoinInv, CallOK, listVars

\* And a call that leaves no trace in its thread.
LEMMA StayPlans ==
  ASSUME Inv, CoinInv, NEW t \in Thread, pc[t] \notin {"commit", "notify"},
         UNCHANGED <<pc, listVars>>, UNCHANGED <<tip, dbTip, coinVars>>
  PROVE  Plans(t)
BY DEF Plans, CoinInv, CallOK, listVars

\* getReorganizeNodes returns lists that lead from the tip to b.
LEMMA BranchContinues ==
  ASSUME tip \in Block, NEW b \in Block
  PROVE  Continues(tip, Chain[tip] \ Chain[b], Branch(b))
<1> DEFINE f == FindFork(tip, b)
<1>1. f \in Chain[tip] /\ f \in Chain[b] /\ Chain[tip] \cap Chain[b] = Chain[f]
  BY ForkExists
<1> HIDE DEF f
<1>2. Chain[tip] \ Chain[b] = Chain[tip] \ Chain[f] /\ Branch(b) = Chain[b] \ Chain[f]
  BY <1>1 DEF Branch
<1> QED
  BY <1>1, <1>2 DEF Continues

\* A reorganization that InvalidateBlock or ReconsiderBlock asks for, or its
\* refusal.
LEMMA ReorganizeToPlans ==
  ASSUME Inv, CoinInv, NEW t \in Thread, pc[t] \notin {"commit", "notify"}, NEW call,
         NEW b \in Block, NEW st, NEW D, ReorganizeTo(t, call, b, st, D),
         UNCHANGED <<tip, dbTip, coinVars>>
  PROVE  Plans(t)
<1>1. tip \in Block
  BY DEF Inv, TypeOK, ChainType
<1>2. Return(t) \/ Reorganize(t, call, Chain[tip] \ Chain[b], Branch(b))
  BY DEF ReorganizeTo
<1> QED
  BY <1>1, <1>2, ReturnPlans, ReorganizePlans, BranchContinues

\* Every step but those of connectBlock and disconnectBlock, the flush and the
\* restart leaves the tip and the coins alone.
LEMMA NextPlans ==
  ASSUME Inv, CoinInv, Next
  PROVE  \/ \E t \in Thread : Plans(t)
         \/ \E t \in Thread : ConnectBlock(t) \/ CommitConnect(t) \/ CommitDisconnect(t) \/ Notified(t)
         \/ FlushUtxoCache \/ Restart
<1> DEFINE Goal ==
  \/ \E t \in Thread : Plans(t)
  \/ \E t \in Thread : ConnectBlock(t) \/ CommitConnect(t) \/ CommitDisconnect(t) \/ Notified(t)
  \/ FlushUtxoCache \/ Restart
<1>0. /\ Sync \in Thread /\ Rpcs \subseteq Thread /\ tip \in Block
      /\ req \in [Thread -> Block]
  BY DEF Inv, TypeOK, CallType, ChainType, Thread
<1>a. ASSUME NEW b, pc[Sync] \notin {"commit", "notify"}, Accept(b), UNCHANGED <<tip, dbTip, coinVars>>
      PROVE  Goal
  <2>1. CASE Return(Sync)
    BY <2>1, <1>a, <1>0, ReturnPlans
  <2>2. CASE Goto(Sync, "best") /\ UNCHANGED listVars
    BY <2>2, <1>a, <1>0, GotoPlans
  <2> QED
    BY <2>1, <2>2, <1>a DEF Accept
<1>1. ASSUME NEW b, ProcessBlock(b) PROVE Goal
  <2>1. pc[Sync] = "idle" /\ UNCHANGED <<tip, dbTip, coinVars>>
    BY <1>1 DEF ProcessBlock, MayStart
  <2>2. CASE Accept(b)
    BY <2>1, <2>2, <1>a
  <2>3. CASE UNCHANGED <<indexVars, lock, pc, callVars, listVars>>
    BY <2>1, <2>3, <1>0, StayPlans
  <2> QED
    BY <2>2, <2>3, <1>1 DEF ProcessBlock
<1>2. CASE ExtendTip
  <2> DEFINE b == req[Sync]
  <2>1. /\ pc[Sync] = "best" /\ Parent[b] = tip /\ Reorganize(Sync, "extend", {}, {b})
        /\ UNCHANGED <<tip, dbTip, coinVars>>
    BY <1>2 DEF ExtendTip, Holds
  <2>2. b \in Block /\ b # Genesis
    BY <2>1, <1>0 DEF Inv, ListsOK
  <2>3. Continues(tip, {}, {b})
    <3>1. tip \in Chain[tip] /\ tip \in Chain[b] /\ {b} = Chain[b] \ Chain[tip]
      BY <2>1, <2>2, <1>0, ParentFacts, ChainSelf
    <3> QED
      BY <3>1, <2>2 DEF Continues
  <2> QED
    BY <2>1, <2>3, <1>0, ReorganizePlans
<1>3. CASE RejectTip \/ OrphansDone
  BY <1>3, <1>0, ReturnPlans DEF RejectTip, OrphansDone, Holds
<1>4. ASSUME NEW m, Accepted(m), pc[Sync] \in {"best", "reorg"}, UNCHANGED <<tip, dbTip, coinVars>>
      PROVE  Goal
  BY <1>4, <1>0, GotoPlans DEF Accepted, Unlocked
<1>5. CASE KeepTip \/ Connected
  BY <1>5, <1>4 DEF KeepTip, Connected, Done, Holds
<1>6. CASE SwitchTip
  <2> DEFINE b == req[Sync]
  <2>1. pc[Sync] = "best" /\ b \in Block /\ UNCHANGED <<tip, dbTip, coinVars>>
    BY <1>6, <1>0 DEF SwitchTip, Holds
  <2>2. CASE Accepted(TRUE)
    BY <2>1, <2>2, <1>4
  <2>3. CASE Return(Sync)
    BY <2>1, <2>3, <1>0, ReturnPlans
  <2>4. CASE Reorganize(Sync, "process", Chain[tip] \ Chain[b], Branch(b))
    BY <2>1, <2>4, <1>0, ReorganizePlans, BranchContinues
  <2> QED
    BY <1>6, <2>2, <2>3, <2>4 DEF SwitchTip
<1>7. ASSUME NEW t \in Thread, DisconnectBlock(t) PROVE Goal
  <2>1. pc[t] = "reorg" /\ UNCHANGED <<tip, dbTip, coinVars>>
    BY <1>7 DEF DisconnectBlock, Holds
  <2>2. CASE Abort(t)
    BY <2>1, <2>2, ReturnPlans DEF Abort
  <2>3. CASE Goto(t, "commit") /\ UNCHANGED listVars /\ detach[t] # {}
    BY <2>1, <2>3, <1>0 DEF Goto, Plans, CoinInv, CallOK, listVars, Inv, TypeOK, CallType
  <2> QED
    BY <2>2, <2>3, <1>7 DEF DisconnectBlock
<1>8. CASE QueueAccepted
  BY <1>8, <1>0, GotoPlans DEF QueueAccepted, Relock
<1>9. CASE AdoptOrphan
  <2>1. PICK b : Accept(b)
    BY <1>9, AdoptedBlock
  <2> QED
    BY <2>1, <1>9, <1>a DEF AdoptOrphan, Holds
<1>10. CASE NextHash
  BY <1>10, <1>0, StayPlans DEF NextHash, Holds
<1>11. ASSUME NEW t \in Thread, Step(t) PROVE Goal
  BY <1>7, <1>11 DEF Step
<1>12. CASE SyncStep
  BY <1>0, <1>2, <1>3, <1>5, <1>6, <1>8, <1>9, <1>10, <1>11, <1>12 DEF SyncStep
<1>13. ASSUME NEW t \in Rpcs, RpcStep(t) PROVE Goal
  <2>1. Detached(t) => Goal
    BY <1>0, GotoPlans DEF Detached, Done, Holds
  <2>2. Switched(t) \/ ReconsiderDone(t) => Goal
    BY <1>0, ReturnPlans DEF Switched, ReconsiderDone, Done, Holds
  <2>3. ASSUME PickBestTip(t) PROVE Goal
    <3>1. pc[t] = "tips" /\ t \in Thread /\ UNCHANGED <<tip, dbTip, coinVars>>
      BY <1>0, <2>3 DEF PickBestTip, Holds
    <3>2. CASE Return(t)
      BY <3>1, <3>2, ReturnPlans
    <3>3. CASE \E b \in Block : ReorganizeTo(t, "switch", b, status, {})
      BY <3>1, <3>3, ReorganizeToPlans
    <3>4. Tips \cup {tip} \in SUBSET Block
      BY <1>0, TipsType
    <3> QED
      BY <2>3, <3>2, <3>3, <3>4 DEF PickBestTip
  <2> QED
    BY <1>0, <1>11, <1>13, <2>1, <2>2, <2>3 DEF RpcStep
<1>14. ASSUME NEW t \in Rpcs, NEW x \in Block,
              InvalidateSide(t, x) \/ InvalidateMain(t, x) \/ ReconsiderBlock(t, x)
       PROVE  Goal
  <2>1. t \in Thread /\ pc[t] = "idle" /\ UNCHANGED <<tip, dbTip, coinVars>>
    BY <1>0, <1>14 DEF InvalidateSide, InvalidateMain, ReconsiderBlock, StartRpc, MayStart
  <2>2. CASE UNCHANGED <<lock, pc, op, queue, main, listVars>>
    BY <2>1, <2>2, StayPlans
  <2>3. CASE \E d : Reorganize(t, "invalidate", d, {})
    BY <2>1, <2>3, ReorganizePlans DEF Continues
  <2>4. CASE \E b \in TipsOver(x) : \E st, D : ReorganizeTo(t, "reconsider", b, st, D)
    <3>1. TipsOver(x) \in SUBSET Block
      BY <1>0, TipsType DEF TipsOver
    <3> QED
      BY <2>1, <2>4, <3>1, ReorganizeToPlans
  <2>5. InvalidateSide(t, x) => Goal
    BY <2>2 DEF InvalidateSide
  <2>6. InvalidateMain(t, x) => Goal
    BY <2>2, <2>3 DEF InvalidateMain
  <2>7. ReconsiderBlock(t, x) => Goal
    BY <2>2, <2>4 DEF ReconsiderBlock
  <2> QED
    BY <1>14, <2>5, <2>6, <2>7
<1> QED
  BY <1>1, <1>12, <1>13, <1>14 DEF Next

-----------------------------------------------------------------------------
(* Steps that move the tip or the coins                                      *)

\* While the lock is free no block is being connected.
LEMMA NoneConnecting ==
  ASSUME Inv, lock = None
  PROVE  Connecting = {}
<1>1. \A t \in Thread : pc[t] # "commit"
  BY ChainAssumption DEF Inv, LockOK, Locked, Thread
<1> QED
  BY <1>1 DEF Connecting

\* The thread that holds the lock is the only one that may be connecting.
LEMMA OneConnecting ==
  ASSUME Inv, NEW t \in Thread, lock = t
  PROVE  Connecting = IF pc[t] = "commit" /\ detach[t] = {} THEN {Lowest(attach[t])} ELSE {}
<1>1. \A u \in Thread : pc[u] = "commit" => u = t
  BY OneHolder DEF Locked
<1>2. CASE pc[t] = "commit" /\ detach[t] = {}
  <2>1. {u \in Thread : pc[u] = "commit" /\ detach[u] = {}} = {t}
    BY <1>1, <1>2
  <2> QED
    BY <1>2, <2>1 DEF Connecting
<1>3. CASE ~(pc[t] = "commit" /\ detach[t] = {})
  <2>1. {u \in Thread : pc[u] = "commit" /\ detach[u] = {}} = {}
    BY <1>1, <1>3
  <2> QED
    BY <1>3, <2>1 DEF Connecting
<1> QED
  BY <1>2, <1>3

\* A list that continues the tip starts right above it.
LEMMA AttachNext ==
  ASSUME Inv, CoinInv, NEW t \in Thread, detach[t] = {}, attach[t] # {}
  PROVE  /\ Parent[Lowest(attach[t])] = tip
         /\ Continues(Lowest(attach[t]), {}, attach[t] \ {Lowest(attach[t])})
<1> DEFINE n == Lowest(attach[t])
<1>0. tip \in Block
  BY DEF Inv, TypeOK, ChainType
<1>1. PICK f \in Chain[tip], g \in Block : /\ f \in Chain[g]
                                           /\ Chain[tip] \ Chain[f] = {}
                                           /\ attach[t] = Chain[g] \ Chain[f]
  BY DEF CoinInv, CallOK, Continues
<1>2. f = tip
  <2>1. f \in Block /\ tip \in Chain[f]
    BY <1>0, <1>1, ChainSelf
  <2>2. f # tip => Height[f] < Height[tip] /\ Height[tip] < Height[f]
    BY <1>0, <1>1, <2>1, ChainDown
  <2> QED
    BY <1>0, <2>1, <2>2, ChainSelf
<1>3. /\ n \in Chain[g] /\ Parent[n] = f
      /\ attach[t] \ {n} = Chain[g] \ Chain[n]
  BY <1>1, AttachBottom
<1>4. n \in Chain[n]
  BY <1>1, <1>3, ChainSelf
<1>5. Continues(n, {}, attach[t] \ {n})
  BY <1>1, <1>3, <1>4 DEF Continues
<1> QED
  BY <1>2, <1>3, <1>5

\* connectBlock before its transaction.
LEMMA ConnectStep ==
  ASSUME Inv, CoinInv, NEW t \in Thread, ConnectBlock(t)
  PROVE  CallOK' /\ CoinsMatchTip' /\ DbReplayable'
<1> DEFINE n == Lowest(attach[t])
<1>1. lock = t /\ pc[t] = "reorg" /\ detach[t] = {} /\ attach[t] # {}
  BY DEF ConnectBlock, Holds
<1>2. Parent[n] = tip
  BY <1>1, AttachNext
<1>3. utxo = Chain[tip]
  BY <1>1, OneConnecting DEF CoinInv, CoinsMatchTip
<1>4. /\ utxo' = utxo \cup {n} /\ Goto(t, "commit")
      /\ UNCHANGED <<lock, listVars, tip, dbTip, dbUtxo, dbMark>>
  BY <1>2, <1>3 DEF ConnectBlock
<1>5. pc'[t] = "commit" /\ \A u \in Thread \ {t} : pc'[u] = pc[u]
  BY <1>4 DEF Goto, Inv, TypeOK, CallType
<1>6. Connecting' = {n}
  <2>1. \A u \in Thread : pc'[u] = "commit" <=> u = t
    BY <1>1, <1>5, OneHolder DEF Locked
  <2>2. {u \in Thread : pc'[u] = "commit" /\ detach'[u] = {}} = {t}
    BY <1>1, <1>4, <2>1 DEF listVars
  <2> QED
    BY <1>4, <2>2 DEF Connecting, listVars
<1>7. CoinsMatchTip'
  BY <1>3, <1>4, <1>6 DEF CoinsMatchTip
<1>8. CallOK'
  BY <1>1, <1>4, <1>5 DEF CoinInv, CallOK, listVars, Continues
<1>9. DbReplayable'
  BY <1>4 DEF CoinInv, DbReplayable
<1> QED
  BY <1>7, <1>8, <1>9

\* The other threads are idle when one is in its commit.
LEMMA OthersIdle ==
  ASSUME CoinInv, NEW t \in Thread, pc[t] # "idle"
  PROVE  \A u \in Thread \ {t} : pc[u] = "idle" /\ attach[u] = {} /\ snap[u] = None
BY DEF CoinInv, OneCall, CallOK

\* connectBlock's transaction.
LEMMA CommitConnectStep ==
  ASSUME Inv, CoinInv, NEW t \in Thread, CommitConnect(t)
  PROVE  CallOK' /\ CoinsMatchTip' /\ DbReplayable'
<1> DEFINE n == Lowest(attach[t])
<1>0. tip \in Block /\ dbTip = tip
  BY DEF Inv, TypeOK, ChainType, SoundOK
<1>1. lock = t /\ pc[t] = "commit" /\ detach[t] = {} /\ attach[t] # {}
  BY DEF CommitConnect, Holds, Inv, CommitOK
<1>2. Parent[n] = tip /\ Continues(n, {}, attach[t] \ {n})
  BY <1>1, AttachNext
<1>3. n \in Block /\ n # Genesis
  BY <1>1, NextInList
<1>4. Chain[n] = Chain[tip] \cup {n} /\ n \in Chain[n]
  BY <1>2, <1>3, ParentFacts
<1>5. utxo = Chain[n]
  BY <1>1, <1>4, OneConnecting DEF CoinInv, CoinsMatchTip
<1>6. /\ tip' = n /\ dbTip' = n /\ utxo' = utxo /\ lock' = None
      /\ detach'[t] = {} /\ attach'[t] = attach[t] \ {n} /\ snap'[t] = n /\ pc'[t] = "notify"
      /\ \A u \in Thread \ {t} : /\ pc'[u] = pc[u] /\ snap'[u] = snap[u]
                                 /\ attach'[u] = attach[u]
  BY <1>1 DEF CommitConnect, Unlocked, Goto, Inv, TypeOK, CallType
<1>7. Connecting' = {}
  <2>1. \A u \in Thread : pc'[u] # "commit"
    BY <1>1, <1>6, OneHolder DEF Locked
  <2> QED
    BY <2>1 DEF Connecting
<1>8. CoinsMatchTip'
  BY <1>5, <1>6, <1>7 DEF CoinsMatchTip
<1>9. CallOK'
  BY <1>1, <1>2, <1>6, OthersIdle DEF CallOK, Continues
<1>10. DbReplayable'
  <2>1. CASE UNCHANGED <<dbUtxo, dbMark>>
    BY <2>1, <1>0, <1>4, <1>6 DEF CoinInv, DbReplayable
  <2>2. CASE dbUtxo' = utxo /\ dbMark' = n
    BY <2>2, <1>4, <1>5, <1>6 DEF DbReplayable
  <2> QED
    BY <2>1, <2>2 DEF CommitConnect
<1> QED
  BY <1>8, <1>9, <1>10

\* disconnectBlock's transaction.
LEMMA CommitDisconnectStep ==
  ASSUME Inv, CoinInv, NEW t \in Thread, CommitDisconnect(t)
  PROVE  CallOK' /\ CoinsMatchTip' /\ DbReplayable'
<1>1. lock = t /\ pc[t] = "commit" /\ detach[t] # {} /\ Highest(detach[t]) = tip
  BY DEF CommitDisconnect, Holds, Inv, CommitOK
<1>2. tip \in Block /\ tip # Genesis /\ Parent[tip] \in Block
  BY <1>1, NextInList
<1>3. utxo = Chain[tip]
  BY <1>1, OneConnecting DEF CoinInv, CoinsMatchTip
<1>4. utxo \ {tip} = Chain[Parent[tip]] /\ Parent[tip] \in Chain[Parent[tip]]
  BY <1>2, <1>3, ParentFacts, ChainSelf
<1>5. /\ tip' = Parent[tip] /\ dbTip' = Parent[tip] /\ dbMark' = Parent[tip]
      /\ utxo' = utxo \ {tip} /\ dbUtxo' = utxo \ {tip}
      /\ detach'[t] = detach[t] \ {tip} /\ attach'[t] = attach[t] /\ snap'[t] = snap[t]
      /\ pc'[t] = "notify"
      /\ \A u \in Thread \ {t} : /\ pc'[u] = pc[u] /\ snap'[u] = snap[u]
                                 /\ attach'[u] = attach[u]
  BY <1>1 DEF CommitDisconnect, Unlocked, Goto, Inv, TypeOK, CallType
<1>6. Connecting' = {}
  <2>1. \A u \in Thread : pc'[u] # "commit"
    BY <1>1, <1>5, OneHolder DEF Locked
  <2> QED
    BY <2>1 DEF Connecting
<1>7. CoinsMatchTip' /\ DbReplayable'
  BY <1>4, <1>5, <1>6 DEF CoinsMatchTip, DbReplayable
<1>8. Continues(Parent[tip], detach[t] \ {tip}, attach[t])
  <2>1. CASE attach[t] = {}
    BY <2>1 DEF Continues
  <2>2. CASE attach[t] # {}
    <3>1. PICK f \in Chain[tip], g \in Block : /\ f \in Chain[g]
                                               /\ detach[t] = Chain[tip] \ Chain[f]
                                               /\ attach[t] = Chain[g] \ Chain[f]
      BY <2>2 DEF CoinInv, CallOK, Continues
    <3>2. f \in Chain[Parent[tip]] /\ detach[t] \ {tip} = Chain[Parent[tip]] \ Chain[f]
      BY <3>1, <1>1, <1>2, DetachTop
    <3> QED
      BY <3>1, <3>2 DEF Continues
  <2> QED
    BY <2>1, <2>2
<1>9. snap[t] = None
  BY <1>1 DEF CoinInv, CallOK
<1>10. CallOK'
  BY <1>1, <1>5, <1>8, <1>9, OthersIdle DEF CallOK, Continues
<1> QED
  BY <1>7, <1>10

\* connectBlock after its notification: a flush is as of the tip.
LEMMA NotifiedStep ==
  ASSUME Inv, CoinInv, NEW t \in Thread, Notified(t)
  PROVE  CallOK' /\ CoinsMatchTip' /\ DbReplayable'
<1>0. tip \in Block /\ dbTip = tip
  BY DEF Inv, TypeOK, ChainType, SoundOK
<1>1. lock = None /\ pc[t] = "notify" /\ UNCHANGED <<tip, dbTip, utxo, detach, attach>>
  BY DEF Notified, Relock
<1>2. utxo = Chain[tip]
  BY <1>1, NoneConnecting DEF CoinInv, CoinsMatchTip
<1>3. /\ pc'[t] = "reorg" /\ snap'[t] = None
      /\ \A u \in Thread \ {t} : pc'[u] = pc[u] /\ snap'[u] = snap[u]
  BY DEF Notified, Relock, Goto, Inv, TypeOK, CallType
<1>4. CoinsMatchTip'
  <2>1. Connecting' = Connecting
    BY <1>1, <1>3, SameConnecting
  <2> QED
    BY <2>1, <1>1 DEF CoinInv, CoinsMatchTip
<1>5. CallOK'
  BY <1>1, <1>3 DEF CoinInv, CallOK, Continues
<1>6. DbReplayable'
  <2>1. CASE UNCHANGED <<dbUtxo, dbMark>>
    BY <2>1, <1>1 DEF CoinInv, DbReplayable
  <2>2. CASE snap[t] # None /\ dbUtxo' = utxo /\ dbMark' = snap[t]
    <3>1. snap[t] = tip /\ tip \in Chain[tip]
      BY <2>2, <1>0, ChainSelf DEF CoinInv, CallOK
    <3> QED
      BY <2>2, <3>1, <1>0, <1>1, <1>2 DEF DbReplayable
  <2> QED
    BY <2>1, <2>2 DEF Notified
<1> QED
  BY <1>4, <1>5, <1>6

\* FlushUtxoCache.
LEMMA FlushStep ==
  ASSUME Inv, CoinInv, FlushUtxoCache
  PROVE  CallOK' /\ CoinsMatchTip' /\ DbReplayable'
<1>0. tip \in Block /\ dbTip = tip /\ tip \in Chain[tip]
  BY ChainSelf DEF Inv, TypeOK, ChainType, SoundOK
<1>1. /\ lock = None /\ UNCHANGED <<tip, dbTip, utxo, pc, detach, attach, snap>>
      /\ dbUtxo' = utxo /\ dbMark' = tip
  BY DEF FlushUtxoCache, MayStart, listVars
<1>2. utxo = Chain[tip]
  BY <1>1, NoneConnecting DEF CoinInv, CoinsMatchTip
<1>3. CoinsMatchTip'
  BY <1>1 DEF CoinInv, CoinsMatchTip, Connecting
<1>4. CallOK'
  BY <1>1 DEF CoinInv, CallOK, Continues
<1>5. DbReplayable'
  BY <1>0, <1>1, <1>2 DEF DbReplayable
<1> QED
  BY <1>3, <1>4, <1>5

\* InitConsistentState connects what the last flush lacks, and nothing twice.
LEMMA ReplayFacts ==
  ASSUME NEW best \in Block, NEW flushed \in Chain[best]
  PROVE  /\ Chain[flushed] \cup Replay(best, flushed) = Chain[best]
         /\ \A m \in Replay(best, flushed) :
              /\ m \in Chain[best]
              /\ Chain[flushed] \cup (Replay(best, flushed) \cap Chain[m]) = Chain[m]
<1>1. flushed \in Block /\ Chain[flushed] \subseteq Chain[best] /\ Chain[best] \in SUBSET Block
  BY ChainSelf, ChainDown
<1>2. Replay(best, flushed) = Chain[best] \ Chain[flushed]
  <2>1. Chain[best] \cap Chain[flushed] = Chain[FindFork(best, flushed)]
    BY <1>1, ForkExists
  <2>2. Chain[best] \cap Chain[flushed] = Chain[flushed]
    BY <1>1
  <2> QED
    BY <2>1, <2>2 DEF Replay
<1>3. ASSUME NEW m \in Chain[best], m \notin Chain[flushed]
      PROVE  Chain[flushed] \cup ((Chain[best] \ Chain[flushed]) \cap Chain[m]) = Chain[m]
  <2>1. Height[m] \in Nat /\ Height[flushed] \in Nat
    BY <1>1, ChainSelf
  <2>2. Height[flushed] <= Height[m]
    BY <1>3, <2>1, ChainLinear
  <2>3. flushed \in Chain[m] /\ m \in Block
    BY <1>1, <2>2, ChainLinear
  <2>4. Chain[flushed] \subseteq Chain[m] /\ Chain[m] \subseteq Chain[best]
    BY <2>3, ChainDown
  <2> QED
    BY <2>4
<1> QED
  BY <1>1, <1>2, <1>3

\* A crash and the restart after it.
LEMMA RestartStep ==
  ASSUME Inv, CoinInv, Restart
  PROVE  OneCall' /\ CallOK' /\ CoinsMatchTip' /\ DbReplayable'
<1> DEFINE replay == Replay(disk.tip, disk.mark)
<1>1. disk.tip \in Block /\ disk.mark \in Chain[disk.tip] /\ disk.utxo = Chain[disk.mark]
  BY DEF Inv, TypeOK, DiskType, CoinInv, DiskReplayable
<1>2. /\ disk.utxo \cup replay = Chain[disk.tip]
      /\ \A m \in replay :
           m \in Chain[disk.tip] /\ disk.utxo \cup (replay \cap Chain[m]) = Chain[m]
  BY <1>1, ReplayFacts
<1>3. /\ tip' = disk.tip /\ dbTip' = disk.tip /\ utxo' = disk.utxo \cup replay
      /\ pc' = [t \in Thread |-> "idle"]
      /\ detach' = [t \in Thread |-> {}] /\ attach' = [t \in Thread |-> {}]
      /\ snap' = [t \in Thread |-> None]
      /\ \/ dbUtxo' = disk.utxo /\ dbMark' = disk.mark
         \/ \E m \in replay : dbUtxo' = disk.utxo \cup (replay \cap Chain[m]) /\ dbMark' = m
  BY DEF Restart
<1> HIDE DEF replay
<1>4. Connecting' = {}
  BY <1>3 DEF Connecting
<1>5. OneCall' /\ CallOK'
  BY <1>3 DEF OneCall, CallOK, Continues
<1>6. CoinsMatchTip'
  BY <1>2, <1>3, <1>4 DEF CoinsMatchTip
<1>7. DbReplayable'
  BY <1>1, <1>2, <1>3 DEF DbReplayable
<1> QED
  BY <1>5, <1>6, <1>7

\* Without overlap a call starts only when no other is under way.
LEMMA OneCallStep ==
  ASSUME ~Overlap, Inv, OneCall, Next, ~Restart
  PROVE  OneCall'
<1>1. PICK t \in Thread, label \in Label : Moves(t, label)
  BY NextMoves
<1>2. \A u \in Thread \ {t} : pc[u] = "idle" /\ pc'[u] = pc[u]
  BY <1>1 DEF Moves, MayStart, OneCall, Inv, TypeOK, CallType
<1> QED
  BY <1>2 DEF OneCall

-----------------------------------------------------------------------------
(* Theorems                                                                  *)

\* The initial state satisfies the invariant.
LEMMA InitCoins ==
  ASSUME Init
  PROVE  CoinInv
<1>1. Connecting = {} /\ OneCall /\ CallOK
  BY DEF Init, Connecting, OneCall, CallOK, Continues
<1>2. CoinsMatchTip /\ DbReplayable
  BY <1>1, NodeAssumption DEF Init, CoinsMatchTip, DbReplayable
<1>3. DiskReplayable
  BY <1>2 DEF Init, DbState, DbReplayable, DiskReplayable
<1> QED
  BY <1>1, <1>2, <1>3 DEF CoinInv

\* What is saved is what was committed, and can be replayed as well.
LEMMA DiskCoins ==
  ASSUME Inv, CoinInv, Next, DbReplayable'
  PROVE  DiskReplayable'
<1>1. DbState'.utxo = dbUtxo' /\ DbState'.mark = dbMark' /\ DbState'.tip = dbTip'
  BY DEF DbState
<1>2. disk.utxo = Chain[disk.mark] /\ disk.mark \in Chain[disk.tip]
  BY DEF CoinInv, DiskReplayable
<1>3. dbUtxo' = Chain[dbMark'] /\ dbMark' \in Chain[dbTip']
  BY DEF DbReplayable
<1>4. CASE disk' \in {disk, DbState'}
  BY <1>1, <1>2, <1>3, <1>4 DEF DiskReplayable
<1>5. CASE Restart
  <2> DEFINE loaded == SetFlag(disk.status, Chain[disk.tip], "valid")
  <2>1. disk' \in {disk, [disk EXCEPT !.status = loaded], DbState'}
    BY <1>5, RestartSaves
  <2> HIDE DEF loaded
  <2>2. CASE disk' = [disk EXCEPT !.status = loaded]
    <3>1. disk'.tip = disk.tip /\ disk'.utxo = disk.utxo /\ disk'.mark = disk.mark
      BY <2>2 DEF Inv, TypeOK, DiskType
    <3> QED
      BY <3>1, <1>2 DEF DiskReplayable
  <2> QED
    BY <2>1, <2>2, <1>4
<1> QED
  BY <1>4, <1>5, NextSaves

\* Every step preserves it.
LEMMA CoinStep ==
  ASSUME ~Overlap, Inv, CoinInv, [Next]_vars
  PROVE  CoinInv'
<1>1. CASE UNCHANGED vars
  BY <1>1 DEF CoinInv, OneCall, CallOK, Continues, CoinsMatchTip, Connecting, DbReplayable,
              DiskReplayable, vars, coinVars, listVars
<1>2. CASE Restart
  BY <1>2, RestartStep, DiskCoins DEF CoinInv, Next
<1>3. CASE Next /\ ~Restart
  <2>1. OneCall'
    BY <1>3, OneCallStep DEF CoinInv
  <2>2. CallOK' /\ CoinsMatchTip' /\ DbReplayable'
    BY <1>3, NextPlans, PlansStep, ConnectStep, CommitConnectStep, CommitDisconnectStep,
       NotifiedStep, FlushStep
  <2>3. DiskReplayable'
    BY <1>3, <2>2, DiskCoins
  <2> QED
    BY <2>1, <2>2, <2>3 DEF CoinInv
<1> QED
  BY <1>1, <1>2, <1>3

\* CoinInv is an invariant of the chain when calls do not overlap.
THEOREM CoinInvAlways ==
  ASSUME ~Overlap
  PROVE  Spec => []CoinInv
<1>1. Init => CoinInv
  BY InitCoins
<1>2. Inv /\ CoinInv /\ [Next]_vars => CoinInv'
  BY CoinStep
<1> QED
  BY <1>1, <1>2, InvAlways, PTL DEF Spec

\* When calls do not overlap, the utxo cache that connectBlock, disconnectBlock
\* and InitConsistentState maintain always holds exactly the best chain.
THEOREM CoinsFollowTip ==
  ASSUME ~Overlap
  PROVE  Spec => []CoinsMatchTip
<1>1. CoinInv => CoinsMatchTip
  BY DEF CoinInv
<1> QED
  BY <1>1, CoinInvAlways, PTL

\* When calls do not overlap, a crash at any point, however many committed
\* transactions ffldb had not written to disk, leaves a utxo bucket that
\* InitConsistentState brings to the stored best chain by connecting blocks.
THEOREM CrashesReplayable ==
  ASSUME ~Overlap
  PROVE  Spec => []Replayable
<1>1. CoinInv => Replayable
  BY DEF CoinInv, DbReplayable, DiskReplayable, Replayable, DbState
<1> QED
  BY <1>1, CoinInvAlways, PTL

-----------------------------------------------------------------------------
(* Refinement                                                                *)

\* Unless the process crashes, the tip moves by one block, up to a sound one
\* or down.
LEMMA TipMoves ==
  ASSUME Inv, Next, ~Restart
  PROVE  \/ tip' = tip
         \/ tip # Genesis /\ tip' = Parent[tip]
         \/ /\ tip' \in Block \ {Genesis} /\ tip' \notin BadBlock
            /\ Parent[tip'] = tip
<1> DEFINE Goal == \/ tip' = tip
                   \/ tip # Genesis /\ tip' = Parent[tip]
                   \/ /\ tip' \in Block \ {Genesis} /\ tip' \notin BadBlock
                      /\ Parent[tip'] = tip
<1>1. ASSUME NEW t \in Thread, CommitDisconnect(t) PROVE Goal
  <2>1. Highest(detach[t]) = tip /\ tip # Genesis
    BY <1>1, NextInList DEF CommitDisconnect, Holds, Inv, CommitOK
  <2> QED
    BY <1>1, <2>1 DEF CommitDisconnect
<1>2. ASSUME NEW t \in Thread, CommitConnect(t) PROVE Goal
  <2> DEFINE n == Lowest(attach[t])
  <2>1. attach[t] # {} /\ Parent[n] = tip
    BY <1>2 DEF CommitConnect, Holds, Inv, CommitOK
  <2>2. n \in attach[t] /\ n \in Block \ {Genesis}
    BY <2>1, NextInList
  <2>3. n \notin BadBlock
    BY <2>2 DEF Inv, SoundOK
  <2> QED
    BY <1>2, <2>1, <2>2, <2>3 DEF CommitConnect
<1>3. ASSUME NEW t \in Thread, Step(t) PROVE Goal
  BY <1>1, <1>2, <1>3 DEF Step, DisconnectBlock, ConnectBlock, Notified
<1>4. CASE SyncStep
  BY <1>3, <1>4 DEF SyncStep, ExtendTip, RejectTip, KeepTip, SwitchTip, Connected,
              QueueAccepted, AdoptOrphan, NextHash, OrphansDone, Thread
<1>5. ASSUME NEW t \in Rpcs, RpcStep(t) PROVE Goal
  BY <1>3, <1>5 DEF RpcStep, Detached, PickBestTip, Switched, ReconsiderDone, Thread
<1>6. CASE \E t \in Rpcs, x \in Block :
             InvalidateSide(t, x) \/ InvalidateMain(t, x) \/ ReconsiderBlock(t, x)
  BY <1>6 DEF InvalidateSide, InvalidateMain, ReconsiderBlock
<1>7. CASE FlushUtxoCache \/ \E b \in Block : ProcessBlock(b)
  BY <1>7 DEF FlushUtxoCache, ProcessBlock
<1> QED
  BY <1>4, <1>5, <1>6, <1>7 DEF Next

\* The coins that Ledger sees are those of the best chain.
LedgerView == utxo \ Connecting = Chain[tip]

\* The block in its commit is not on the best chain yet.
LEMMA LedgerCoins ==
  ASSUME Inv, CoinInv
  PROVE  LedgerView
<1>1. Connecting \cap Chain[tip] = {}
  <2>1. ASSUME NEW t \in Thread, pc[t] = "commit", detach[t] = {}
        PROVE  Lowest(attach[t]) \notin Chain[tip]
    <3>1. attach[t] # {} /\ Parent[Lowest(attach[t])] = tip
      BY <2>1 DEF Inv, CommitOK
    <3>2. Lowest(attach[t]) \in Block \ {Genesis}
      BY <3>1, NextInList
    <3> QED
      BY <3>1, <3>2, ParentFacts
  <2> QED
    BY <2>1 DEF Connecting
<1> QED
  BY <1>1 DEF LedgerView, CoinInv, CoinsMatchTip

\* The tip that is saved stays or becomes the tip, which a crash takes it for.
LEMMA TipSaved ==
  ASSUME Inv, Inv', [Next]_vars
  PROVE  \/ ~Restart /\ disk'.tip \in {disk.tip, tip'}
         \/ Restart /\ tip' = disk.tip /\ disk'.tip = disk.tip
<1>1. DbState'.tip = tip'
  BY DEF Inv, SoundOK, DbState
<1>2. CASE UNCHANGED vars /\ ~Restart
  BY <1>2 DEF vars
<1>3. CASE Next /\ ~Restart
  BY <1>1, <1>3, NextSaves
<1>4. CASE Restart
  <2> DEFINE loaded == SetFlag(disk.status, Chain[disk.tip], "valid")
  <2>1. tip' = disk.tip /\ disk' \in {disk, [disk EXCEPT !.status = loaded], DbState'}
    BY <1>4, RestartSaves
  <2> HIDE DEF loaded
  <2>2. [disk EXCEPT !.status = loaded].tip = disk.tip
    BY DEF Inv, TypeOK, DiskType
  <2> QED
    BY <1>1, <1>4, <2>1, <2>2
<1> QED
  BY <1>2, <1>3, <1>4

\* Every step of the chain is a step of Ledger or a stutter.
LEMMA LedgerStep ==
  ASSUME Inv, Inv', [Next]_vars, LedgerView, LedgerView'
  PROVE  [L!LedgerNext]_(L!ledgerVars)
<1>1. utxo \ Connecting = Chain[tip] /\ tip \in Block
  BY DEF LedgerView, Inv, TypeOK, ChainType
<1>2. (utxo \ Connecting)' = Chain[tip']
  BY DEF LedgerView
<1>3. CASE Restart
  <2>1. tip' = disk.tip /\ disk'.tip = disk.tip
    BY <1>3, TipSaved
  <2> QED
    BY <1>2, <2>1 DEF L!LedgerNext, L!Crash
<1>4. CASE ~Restart
  <2>0. disk'.tip \in {disk.tip, tip'}
    BY <1>4, TipSaved
  <2>1. CASE tip' = tip
    BY <1>1, <1>2, <2>0, <2>1 DEF L!ledgerVars, L!LedgerNext, L!Save
  <2>2. CASE tip # Genesis /\ tip' = Parent[tip]
    <3>1. Chain[tip'] = Chain[tip] \ {tip}
      BY <1>1, <2>2, ParentFacts
    <3> QED
      BY <1>1, <1>2, <2>0, <2>2, <3>1 DEF L!LedgerNext, L!Disconnect, L!MaySave
  <2>3. CASE tip' \in Block \ {Genesis} /\ tip' \notin BadBlock /\ Parent[tip'] = tip
    <3>1. Chain[tip'] = Chain[tip] \cup {tip'}
      BY <2>3, ParentFacts
    <3> QED
      BY <1>1, <1>2, <2>0, <2>3, <3>1 DEF L!LedgerNext, L!Connect, L!MaySave
  <2>4. UNCHANGED vars => tip' = tip
    BY DEF vars
  <2> QED
    BY <1>4, <2>1, <2>2, <2>3, <2>4, TipMoves
<1> QED
  BY <1>3, <1>4

\* When calls do not overlap, BlockChain implements Ledger: the notifications
\* of connectBlock and disconnectBlock describe a best chain that moves by one
\* sound block at a time and coins that follow it, and a crash takes both back
\* to the tip that ffldb last wrote to disk.
THEOREM ImplementsLedger ==
  ASSUME ~Overlap
  PROVE  Spec => RefinesLedger
<1>1. Init => L!LedgerInit
  <2>1. SUFFICES ASSUME Init PROVE L!LedgerInit
    OBVIOUS
  <2>2. Connecting = {}
    BY <2>1 DEF Init, Connecting
  <2> QED
    BY <2>1, <2>2 DEF Init, DbState, L!LedgerInit
<1>2. Inv /\ CoinInv => LedgerView
  BY LedgerCoins
<1>3. Inv /\ Inv' /\ [Next]_vars /\ LedgerView /\ LedgerView' => [L!LedgerNext]_(L!ledgerVars)
  BY LedgerStep
<1> QED
  BY <1>1, <1>2, <1>3, InvAlways, CoinInvAlways, PTL DEF Spec, RefinesLedger, L!LedgerSpec

-----------------------------------------------------------------------------
(* The best chain is valid and reorganizeChain's lists agree with it         *)

\* d leads from top down to a fork, and a from the fork up.
Leads(top, d, a) ==
  \E f \in Chain[top], g \in Block :
    /\ f \in Chain[g]
    /\ d = Chain[top] \ Chain[f]
    /\ a = Chain[g] \ Chain[f]

\* A block that every call takes for valid, and a block that is stored.
Sound(st, b)  == KnownValid(st, b) /\ ~KnownInvalid(st, b)
Stored(st, b) == "stored" \in st[b]

\* The labels of a thread that is inside reorganizeChain.
Busy == {"reorg", "commit", "notify"}

\* The lists of a call lead from the tip to its new place; those of
\* InvalidateBlock do so on a node that has not crashed.
PathOK == \A t \in Thread :
  /\ crashes = 0 \/ op[t] # "invalidate" => Leads(tip, detach[t], attach[t])
  /\ pc[t] \notin Busy => detach[t] = {} /\ attach[t] = {}

\* On such a node every block of the best chain is valid or about to be
\* disconnected, and every block about to be connected is valid.
ValidOK == crashes = 0 =>
  /\ \A b \in Chain[tip] : Sound(status, b) \/ \E t \in Thread : b \in detach[t]
  /\ \A t \in Thread : \A b \in attach[t] : Sound(status, b)

\* And its index holds whole branches of stored blocks, and no orphan.
HeldOK == crashes = 0 =>
  /\ \A b \in Block : status[b] # {} => Stored(status, b)
  /\ \A b \in Block : Stored(status, b) => \A c \in Chain[b] : Stored(status, c)
  /\ Stored(status, req[Sync])
  /\ \A i \in 1..Len(queue) : Stored(status, queue[i])
  /\ \A i \in 1..Len(orphans) : ~Stored(status, orphans[i])
  /\ \A i, j \in 1..Len(orphans) : orphans[i] = orphans[j] => i = j
  /\ pc[Sync] = "best" => ~KnownInvalid(status, req[Sync])

TipInv == PathOK /\ ValidOK /\ HeldOK

-----------------------------------------------------------------------------
(* What marking blocks keeps                                                 *)

\* From st to st2 no block is stored or forgotten, and none that is not
\* stored gets a flag ...
Stores(st, st2) == \A b \in Block :
  /\ Stored(st2, b) <=> Stored(st, b)
  /\ ~Stored(st, b) => st2[b] = st[b]

\* ... and the valid blocks of the best chain stay so.
Spares(st, st2) == \A b \in Chain[tip] : Sound(st, b) => Sound(st2, b)

\* Every mark on stored blocks off the best chain is such a step.
LEMMA SetMarks ==
  ASSUME tip \in Block, NEW st, NEW S \in SUBSET Block, NEW f, f # "stored",
         \A b \in S : Stored(st, b)
  PROVE  /\ Stores(st, SetFlag(st, S, f))
         /\ S \cap Chain[tip] = {} \/ f = "valid" => Spares(st, SetFlag(st, S, f))
<1>1. Stores(st, SetFlag(st, S, f))
  BY DEF Stores, Stored, SetFlag
<1>2. Chain[tip] \in SUBSET Block
  BY ChainSelf
<1>3. S \cap Chain[tip] = {} => Spares(st, SetFlag(st, S, f))
  BY <1>2 DEF Spares, Sound, KnownValid, KnownInvalid, SetFlag
<1>4. Spares(st, SetFlag(st, S, "valid"))
  BY <1>2 DEF Spares, Sound, KnownValid, KnownInvalid, SetFlag
<1> QED
  BY <1>1, <1>3, <1>4

\* Such steps compose.
LEMMA MarksCompose ==
  ASSUME tip \in Block, NEW st1, NEW st2, NEW st3
  PROVE  /\ Stores(st1, st2) /\ Stores(st2, st3) => Stores(st1, st3)
         /\ Spares(st1, st2) /\ Spares(st2, st3) => Spares(st1, st3)
         /\ Stores(st1, st1) /\ Spares(st1, st1)
BY DEF Stores, Spares

\* verifyReorganizationValidity marks the branch of b only, and when it finds
\* nothing wrong with a branch that was not refused, all of it is valid.
LEMMA VerifiedMarks ==
  ASSUME tip \in Block, NEW st, NEW b \in Block, NEW v, v = Verified(st, b),
         \A n \in Branch(b) : Stored(st, n)
  PROVE  /\ Stores(st, v.st) /\ Spares(st, v.st)
         /\ ~Refused(st, b) /\ Failing(st, b) = {} => \A n \in Branch(b) : Sound(v.st, n)
<1>0. Branch(b) \in SUBSET Block /\ Branch(b) \cap Chain[tip] = {}
  BY ChainSelf DEF Branch
<1>1. CASE Failing(st, b) = {}
  <2>1. v.st = SetFlag(st, Branch(b), "valid")
    BY <1>1 DEF Verified
  <2>2. Stores(st, v.st) /\ Spares(st, v.st)
    BY <2>1, <1>0, SetMarks
  <2>3. ~Refused(st, b) => \A n \in Branch(b) : Sound(v.st, n)
    BY <2>1, <1>0 DEF Refused, SetFlag, Sound, KnownValid, KnownInvalid
  <2> QED
    BY <2>2, <2>3
<1>2. CASE Failing(st, b) # {}
  <2> DEFINE f     == Lowest(Failing(st, b))
             below == {n \in Branch(b) : Height[n] < Height[f]}
             above == {n \in Branch(b) : Height[n] > Height[f]}
             s1    == SetFlag(st, below, "valid")
             s2    == SetFlag(s1, {f}, "failed")
             s3    == SetFlag(s2, above, "invalidAncestor")
  <2>1. v.st = s3
    BY <1>2 DEF Verified
  <2>2. Failing(st, b) \in SUBSET Branch(b)
    BY DEF Failing
  <2>3. f \in Branch(b)
    BY <1>0, <1>2, <2>2, LowestExists
  <2> HIDE DEF f
  <2>4. Stores(st, s1) /\ Spares(st, s1)
    BY <1>0, SetMarks
  <2> HIDE DEF s1
  <2>5. \A n \in Branch(b) : Stored(s1, n)
    BY <1>0, <2>4 DEF Stores
  <2>6. Stores(s1, s2) /\ Spares(s1, s2)
    BY <1>0, <2>3, <2>5, SetMarks
  <2> HIDE DEF s2
  <2>7. \A n \in Branch(b) : Stored(s2, n)
    BY <1>0, <2>5, <2>6 DEF Stores
  <2>8. Stores(s2, s3) /\ Spares(s2, s3)
    BY <1>0, <2>7, SetMarks
  <2> HIDE DEF s3
  <2>9. Stores(st, s3) /\ Spares(st, s3)
    BY <2>4, <2>6, <2>8, MarksCompose
  <2> QED
    BY <1>2, <2>1, <2>9
<1> QED
  BY <1>1, <1>2

\* getReorganizeNodes marks blocks off the best chain when b is off it.
LEMMA TaintedMarks ==
  ASSUME tip \in Block, NEW st, NEW b \in Block, b \notin Chain[tip],
         \A n \in Chain[b] : Stored(st, n),
         NEW T, T = Tainted(st, b)
  PROVE  /\ T \in SUBSET Block
         /\ Stores(st, SetFlag(st, T, "invalidAncestor"))
         /\ Spares(st, SetFlag(st, T, "invalidAncestor"))
<1>1. T \in SUBSET Chain[b] /\ T \cap Chain[tip] = {} /\ Chain[b] \in SUBSET Block
  BY ChainSelf DEF Tainted, Branch
<1> QED
  BY <1>1, SetMarks

\* A block's chain view has at most its work.
LEMMA ChainWork ==
  ASSUME NEW b \in Block, NEW a \in Chain[b]
  PROVE  WorkSum[a] <= WorkSum[b]
<1> DEFINE Good(c) == \A d \in Chain[c] : WorkSum[d] <= WorkSum[c]
           S == {c \in Block : ~Good(c)}
<1>1. SUFFICES ASSUME S # {} PROVE FALSE
  BY <1>1
<1>2. PICK c \in S : \A d \in S : Height[c] <= Height[d]
  BY <1>1, LowestExists
<1>3. c \in Block /\ ~Good(c)
  OBVIOUS
<1>4. c # Genesis
  BY <1>3, BlockAssumption, NodeAssumption
<1>5. Height[Parent[c]] < Height[c] /\ Parent[c] \in Block
  BY <1>3, <1>4, ParentFacts
<1>6. Good(Parent[c])
  BY <1>2, <1>5, <1>3, ChainSelf
<1>7. /\ WorkSum[c] = WorkSum[Parent[c]] + Work[c] /\ Work[c] \in Nat
      /\ WorkSum[Parent[c]] \in Nat /\ WorkSum \in [Block -> Nat]
  BY <1>3, <1>4, <1>5, BlockAssumption, NodeAssumption
<1>8. ASSUME NEW d \in Chain[c] PROVE WorkSum[d] <= WorkSum[c]
  <2>1. d \in Block /\ (d \in Chain[Parent[c]] \/ d = c)
    BY <1>3, <1>4, ParentFacts
  <2>2. WorkSum[d] \in Nat
    BY <2>1, <1>7
  <2>3. d \in Chain[Parent[c]] => WorkSum[d] <= WorkSum[Parent[c]]
    BY <1>6
  <2> QED
    BY <2>1, <2>2, <2>3, <1>7
<1> QED
  BY <1>3, <1>8

\* ShouldChangeTip prefers no block of the best chain.
LEMMA PreferredOff ==
  ASSUME tip \in Block, NEW b \in Block, ShouldChangeTip(tip, b)
  PROVE  b \notin Chain[tip]
<1>1. WorkSum[tip] < WorkSum[b] /\ WorkSum[tip] \in Nat /\ WorkSum[b] \in Nat
  BY NodeAssumption DEF ShouldChangeTip
<1>2. b \in Chain[tip] => WorkSum[b] <= WorkSum[tip]
  BY ChainWork
<1> QED
  BY <1>1, <1>2

\* getReorganizeNodes returns lists that lead from the tip to b.
LEMMA BranchLeads ==
  ASSUME tip \in Block, NEW b \in Block
  PROVE  Leads(tip, Chain[tip] \ Chain[b], Branch(b))
<1> DEFINE f == FindFork(tip, b)
<1>1. f \in Chain[tip] /\ f \in Chain[b] /\ Chain[tip] \cap Chain[b] = Chain[f]
  BY ForkExists
<1> HIDE DEF f
<1>2. Chain[tip] \ Chain[b] = Chain[tip] \ Chain[f] /\ Branch(b) = Chain[b] \ Chain[f]
  BY <1>1 DEF Branch
<1> QED
  BY <1>1, <1>2 DEF Leads

\* Empty lists lead nowhere.
LEMMA EmptyLeads ==
  ASSUME NEW top \in Block
  PROVE  Leads(top, {}, {})
<1>1. top \in Chain[top] /\ {} = Chain[top] \ Chain[top]
  BY ChainSelf
<1> QED
  BY <1>1 DEF Leads

-----------------------------------------------------------------------------
(* Steps that leave the tip alone                                            *)

\* Thread t moves while the others are idle: the best chain stays as valid as
\* it was, but for what t is about to disconnect.
Keeps(t) ==
  /\ UNCHANGED <<tip, crashes>>
  /\ \A u \in Thread \ {t} : /\ pc[u] = "idle" /\ pc'[u] = "idle" /\ op'[u] = op[u]
                             /\ detach'[u] = detach[u] /\ attach'[u] = attach[u]
  /\ pc'[t] \notin Busy => detach'[t] = {} /\ attach'[t] = {}
  /\ crashes = 0 \/ op'[t] # "invalidate" => Leads(tip, detach'[t], attach'[t])
  /\ crashes = 0 =>
       /\ detach[t] \subseteq detach'[t]
       /\ \A b \in Chain[tip] : Sound(status, b) => Sound(status', b) \/ b \in detach'[t]
       /\ \A b \in attach'[t] : Sound(status', b)

\* Such a step preserves both invariants.
LEMMA KeepsStep ==
  ASSUME Inv, PathOK, ValidOK, NEW t \in Thread, Keeps(t)
  PROVE  PathOK' /\ ValidOK'
<1>1. \A u \in Thread \ {t} : detach'[u] = {} /\ attach'[u] = {} /\ detach[u] = {}
  BY DEF Keeps, PathOK, Busy
<1>2. tip \in Block /\ tip' = tip /\ crashes' = crashes
  BY DEF Inv, TypeOK, ChainType, Keeps
<1>3. Leads(tip, {}, {})
  BY <1>2, EmptyLeads
<1>4. PathOK'
  <2>1. ASSUME NEW u \in Thread
        PROVE  /\ crashes = 0 \/ op'[u] # "invalidate" => Leads(tip, detach'[u], attach'[u])
               /\ pc'[u] \notin Busy => detach'[u] = {} /\ attach'[u] = {}
    <3>1. CASE u = t
      BY <3>1 DEF Keeps
    <3>2. CASE u # t
      BY <3>2, <1>1, <1>3
    <3> QED
      BY <3>1, <3>2
  <2> QED
    BY <2>1, <1>2 DEF PathOK, Leads
<1>5. ASSUME crashes = 0
      PROVE  /\ \A b \in Chain[tip] : Sound(status', b) \/ \E u \in Thread : b \in detach'[u]
             /\ \A u \in Thread : \A b \in attach'[u] : Sound(status', b)
  <2>1. \A b \in Chain[tip] : Sound(status, b) \/ b \in detach[t]
    BY <1>1, <1>5 DEF ValidOK
  <2>2. \A b \in Chain[tip] : Sound(status', b) \/ b \in detach'[t]
    BY <2>1, <1>5 DEF Keeps
  <2>3. \A u \in Thread : \A b \in attach'[u] : Sound(status', b)
    BY <1>1, <1>5 DEF Keeps
  <2> QED
    BY <2>2, <2>3
<1>6. ValidOK'
  BY <1>2, <1>5 DEF ValidOK, Sound, KnownValid, KnownInvalid
<1> QED
  BY <1>4, <1>6

\* Without overlap, the thread that moves is the only one that is not idle.
LEMMA OthersQuiet ==
  ASSUME ~Overlap, OneCall, NEW t \in Thread, pc[t] # "idle" \/ MayStart(t)
  PROVE  \A u \in Thread \ {t} : pc[u] = "idle"
BY DEF OneCall, MayStart

\* A call that returns with nothing left to disconnect.
LEMMA ReturnKeeps ==
  ASSUME Inv, NEW t \in Thread, \A u \in Thread \ {t} : pc[u] = "idle",
         Return(t), UNCHANGED <<tip, crashes>>,
         crashes = 0 => detach[t] = {} /\ Spares(status, status')
  PROVE  Keeps(t)
<1>1. /\ detach'[t] = {} /\ attach'[t] = {} /\ pc'[t] = "idle"
      /\ \A u \in Thread \ {t} : /\ pc'[u] = pc[u] /\ op'[u] = op[u]
                                 /\ detach'[u] = detach[u] /\ attach'[u] = attach[u]
  BY DEF Return, Unlocked, Goto, Inv, TypeOK, CallType
<1>2. Leads(tip, {}, {})
  BY EmptyLeads DEF Inv, TypeOK, ChainType
<1> QED
  BY <1>1, <1>2 DEF Keeps, Spares

\* A call that begins a reorganization.
LEMMA ReorganizeKeeps ==
  ASSUME Inv, PathOK, NEW t \in Thread, \A u \in Thread \ {t} : pc[u] = "idle",
         pc[t] \notin Busy, NEW call, NEW d, NEW a,
         Reorganize(t, call, d, a), UNCHANGED <<tip, crashes>>,
         crashes = 0 \/ call # "invalidate" => Leads(tip, d, a),
         crashes = 0 => /\ \A b \in Chain[tip] : Sound(status, b) => Sound(status', b) \/ b \in d
                        /\ \A b \in a : Sound(status', b)
  PROVE  Keeps(t)
<1>1. /\ detach'[t] = d /\ attach'[t] = a /\ pc'[t] = "reorg" /\ op'[t] = call
      /\ \A u \in Thread \ {t} : /\ pc'[u] = pc[u] /\ op'[u] = op[u]
                                 /\ detach'[u] = detach[u] /\ attach'[u] = attach[u]
  BY DEF Reorganize, Goto, Inv, TypeOK, CallType
<1>2. detach[t] = {}
  BY DEF PathOK
<1> QED
  BY <1>1, <1>2 DEF Keeps, Busy

\* A thread that moves with its lists as they are.
LEMMA GotoKeeps ==
  ASSUME Inv, PathOK, ValidOK, NEW t \in Thread, \A u \in Thread \ {t} : pc[u] = "idle",
         NEW label, Goto(t, label), UNCHANGED <<op, detach, attach, tip, crashes>>,
         label \in Busy \/ (detach[t] = {} /\ attach[t] = {}),
         crashes = 0 => status' = status \/ (attach[t] = {} /\ Spares(status, status'))
  PROVE  Keeps(t)
<1>1. pc'[t] = label /\ \A u \in Thread \ {t} : pc'[u] = pc[u]
  BY DEF Goto, Inv, TypeOK, CallType
<1> QED
  BY <1>1 DEF Keeps, PathOK, ValidOK, Spares

\* A call that leaves no trace in its thread.
LEMMA StayKeeps ==
  ASSUME Inv, PathOK, ValidOK, NEW t \in Thread, \A u \in Thread \ {t} : pc[u] = "idle",
         pc[t] \notin Busy, UNCHANGED <<pc, op, detach, attach, tip, crashes>>,
         crashes = 0 => Spares(status, status')
  PROVE  Keeps(t)
BY DEF Keeps, PathOK, ValidOK, Spares

-----------------------------------------------------------------------------
(* Steps that leave the set of stored blocks alone                           *)

\* No block is stored, no orphan comes or goes, and Sync is not about to
\* connect a block it has just stored.
Rests ==
  /\ crashes' = crashes
  /\ crashes = 0 => Stores(status, status')
  /\ orphans' = orphans /\ req'[Sync] = req[Sync] /\ pc'[Sync] # "best"
  /\ \/ queue' \in {queue, <<>>, Append(queue, req[Sync])}
     \/ queue # <<>> /\ queue' = Tail(queue)

\* Such a step keeps the index whole.
LEMMA RestsStep ==
  ASSUME Inv, HeldOK, Rests
  PROVE  HeldOK'
<1>1. SUFFICES ASSUME crashes = 0 PROVE HeldOK'
  BY <1>1 DEF Rests, HeldOK
<1>2. \A b \in Block : /\ Stored(status', b) <=> Stored(status, b)
                       /\ ~Stored(status, b) => status'[b] = status[b]
  BY <1>1 DEF Rests, Stores
<1>3. /\ req[Sync] \in Block /\ queue \in Seq(Block) /\ orphans \in Seq(Block \ {Genesis})
      /\ \A b \in Block : Chain[b] \in SUBSET Block
  BY ChainSelf DEF Inv, TypeOK, CallType, PoolType, Thread
<1>4. /\ \A b \in Block : status'[b] # {} => Stored(status', b)
      /\ \A b \in Block : Stored(status', b) => \A c \in Chain[b] : Stored(status', c)
      /\ Stored(status', req'[Sync])
  BY <1>1, <1>2, <1>3 DEF HeldOK, Rests
<1>5. \A i \in 1..Len(queue') : queue'[i] \in Block /\ Stored(status, queue'[i])
  <2>1. \A i \in 1..Len(queue) : queue[i] \in Block /\ Stored(status, queue[i])
    BY <1>1, <1>3 DEF HeldOK
  <2>2. Stored(status, req[Sync])
    BY <1>1 DEF HeldOK
  <2>3. CASE queue' = <<>>
    BY <2>3
  <2>4. CASE queue' = Append(queue, req[Sync])
    BY <2>1, <2>2, <2>4, <1>3
  <2>5. CASE queue # <<>> /\ queue' = Tail(queue)
    BY <2>1, <2>5, <1>3
  <2> QED
    BY <2>1, <2>3, <2>4, <2>5 DEF Rests
<1>6. /\ \A i \in 1..Len(orphans') : ~Stored(status', orphans'[i])
      /\ \A i, j \in 1..Len(orphans') : orphans'[i] = orphans'[j] => i = j
  BY <1>1, <1>2, <1>3 DEF HeldOK, Rests
<1> QED
  BY <1>2, <1>4, <1>5, <1>6 DEF HeldOK, Stored, Rests

\* removeOrphanBlock leaves no double, no new orphan and not the one it removed.
LEMMA RemoveDistinct ==
  ASSUME NEW S, NEW pool \in Seq(S), NEW b, NEW rest, rest = RemoveOrphan(pool, b),
         \A i, j \in 1..Len(pool) : pool[i] = pool[j] => i = j
  PROVE  /\ \A i, j \in 1..Len(rest) : rest[i] = rest[j] => i = j
         /\ \A i \in 1..Len(rest) : rest[i] # b /\ \E j \in 1..Len(pool) : rest[i] = pool[j]
<1>1. CASE \E i \in 1..Len(pool) : pool[i] = b
  <2> DEFINE p == CHOOSE j \in 1..Len(pool) : pool[j] = b
  <2>1. p \in 1..Len(pool) /\ pool[p] = b /\ Len(pool) \in Nat
    BY <1>1
  <2>2. rest = SubSeq(pool, 1, p - 1) \o SubSeq(pool, p + 1, Len(pool))
    BY <1>1 DEF RemoveOrphan, RemoveAt
  <2> HIDE DEF p
  <2> DEFINE l == SubSeq(pool, 1, p - 1)
             r == SubSeq(pool, p + 1, Len(pool))
  <2>3. /\ l \in Seq(S) /\ Len(l) = p - 1
        /\ \A i \in 1..(p - 1) : l[i] = pool[i]
    <3>1. p - 1 \in Int /\ \A j \in 1..(p - 1) : pool[j] \in S
      BY <2>1
    <3> QED
      BY <3>1, <2>1, SubSeqProperties
  <2>4. /\ r \in Seq(S) /\ Len(r) = Len(pool) - p
        /\ \A i \in 1..(Len(pool) - p) : r[i] = pool[p + i]
    <3>1. p + 1 \in Int /\ \A j \in (p + 1)..Len(pool) : pool[j] \in S
      BY <2>1
    <3>2. /\ r \in Seq(S) /\ Len(r) = Len(pool) - p
          /\ \A i \in 1..Len(r) : r[i] = pool[(p + 1) + i - 1]
      BY <3>1, <2>1, SubSeqProperties
    <3> HIDE DEF r
    <3>3. ASSUME NEW i \in 1..(Len(pool) - p) PROVE r[i] = pool[p + i]
      <4>1. (p + 1) + i - 1 = p + i /\ i \in 1..Len(r)
        BY <2>1, <3>2
      <4> QED
        BY <4>1, <3>2
    <3> QED
      BY <3>2, <3>3
  <2>6. rest = l \o r
    BY <2>2
  <2> HIDE DEF l, r
  <2>5. /\ Len(rest) = Len(pool) - 1
        /\ \A i \in 1..Len(rest) : rest[i] = IF i < p THEN pool[i] ELSE pool[i + 1]
    <3>0. /\ Len(l \o r) = Len(l) + Len(r)
          /\ \A i \in 1 .. Len(l) + Len(r) : (l \o r)[i] =
               IF i <= Len(l) THEN l[i] ELSE r[i - Len(l)]
      <4>1. l \in Seq(S) /\ r \in Seq(S)
        BY <2>3, <2>4
      <4> QED
        BY <4>1, ConcatProperties, ZenonT(30)
    <3>1. Len(rest) = (p - 1) + (Len(pool) - p)
      BY <2>6, <2>3, <2>4, <3>0
    <3>2. \A i \in 1..Len(rest) : rest[i] = IF i <= p - 1 THEN l[i] ELSE r[i - (p - 1)]
      BY <2>6, <2>3, <2>4, <3>0
    <3>3. ASSUME NEW i \in 1..Len(rest), ~(i < p) PROVE rest[i] = pool[i + 1]
      <4>1. i - (p - 1) \in 1..(Len(pool) - p) /\ ~(i <= p - 1)
        BY <3>1, <3>3, <2>1
      <4>2. rest[i] = r[i - (p - 1)] /\ r[i - (p - 1)] = pool[p + (i - (p - 1))]
        BY <4>1, <3>2, <2>4
      <4>3. p + (i - (p - 1)) = i + 1
        BY <2>1, <3>1
      <4> QED
        BY <4>2, <4>3
    <3> QED
      BY <3>1, <3>2, <3>3, <2>1, <2>3
  <2>7. \A i \in 1..Len(rest) : \E k \in 1..Len(pool) :
          k = (IF i < p THEN i ELSE i + 1) /\ k # p /\ rest[i] = pool[k]
    BY <2>1, <2>5
  <2>8. \A i \in 1..Len(rest) : rest[i] # b /\ \E j \in 1..Len(pool) : rest[i] = pool[j]
    BY <2>1, <2>7
  <2>9. ASSUME NEW i \in 1..Len(rest), NEW j \in 1..Len(rest), rest[i] = rest[j] PROVE i = j
    <3>1. PICK k \in 1..Len(pool) : k = (IF i < p THEN i ELSE i + 1) /\ rest[i] = pool[k]
      BY <2>7
    <3>2. PICK m \in 1..Len(pool) : m = (IF j < p THEN j ELSE j + 1) /\ rest[j] = pool[m]
      BY <2>7
    <3>3. k = m
      BY <2>9, <3>1, <3>2
    <3> QED
      BY <3>1, <3>2, <3>3, <2>1
  <2> QED
    BY <2>8, <2>9
<1>2. CASE ~\E i \in 1..Len(pool) : pool[i] = b
  BY <1>2 DEF RemoveOrphan
<1> QED
  BY <1>1, <1>2

\* addOrphanBlock leaves no double, and no new orphan but the one it added.
LEMMA AddDistinct ==
  ASSUME PoolType, NEW b, NEW k \in 0..Len(orphans), AddOrphan(b, k),
         \A i \in 1..Len(orphans) : orphans[i] # b,
         \A i, j \in 1..Len(orphans) : orphans[i] = orphans[j] => i = j
  PROVE  /\ \A i, j \in 1..Len(orphans') : orphans'[i] = orphans'[j] => i = j
         /\ \A i \in 1..Len(orphans') :
              orphans'[i] = b \/ \E j \in 1..Len(orphans) : orphans'[i] = orphans[j]
<1> DEFINE S      == Block \ {Genesis}
           live   == SubSeq(orphans, k + 1, Len(orphans))
           victim == IF oldest = None /\ live # <<>> THEN Head(live) ELSE oldest
           From(s) == /\ \A i, j \in 1..Len(s) : s[i] = s[j] => i = j
                      /\ \A i \in 1..Len(s) : \E j \in 1..Len(orphans) : s[i] = orphans[j]
<1>1. orphans \in Seq(S) /\ Len(orphans) \in Nat /\ k \in Nat
  BY DEF PoolType
<1>2. live \in Seq(S) /\ From(live)
  <2>1. /\ live \in Seq(S) /\ Len(live) = Len(orphans) - k
        /\ \A i \in 1..Len(live) : live[i] = orphans[k + i]
    BY <1>1
  <2> HIDE DEF live
  <2>2. \A i \in 1..Len(live) : k + i \in 1..Len(orphans)
    BY <1>1, <2>1
  <2>3. \A i, j \in 1..Len(live) : live[i] = live[j] => i = j
    <3>1. SUFFICES ASSUME NEW i \in 1..Len(live), NEW j \in 1..Len(live), live[i] = live[j]
                   PROVE  i = j
      OBVIOUS
    <3>2. k + i = k + j
      BY <2>1, <2>2, <3>1
    <3> QED
      BY <1>1, <2>1, <3>2
  <2> QED
    BY <2>1, <2>2, <2>3
<1>3. RemoveOrphan(live, victim) \in Seq(S) /\ From(RemoveOrphan(live, victim))
  <2> HIDE DEF live, victim
  <2>1. RemoveOrphan(live, victim) \in Seq(S)
    BY <1>2, RemoveOrphanFacts
  <2>2. PICK rest : rest = RemoveOrphan(live, victim)
    OBVIOUS
  <2>3. /\ \A i, j \in 1..Len(rest) : rest[i] = rest[j] => i = j
        /\ \A i \in 1..Len(rest) : \E j \in 1..Len(live) : rest[i] = live[j]
    <3>1. PICK pool \in Seq(S) : pool = live
      BY <1>2
    <3>2. \A i, j \in 1..Len(pool) : pool[i] = pool[j] => i = j
      BY <1>2, <3>1
    <3>3. rest = RemoveOrphan(pool, victim)
      BY <2>2, <3>1
    <3> HIDE DEF S, From
    <3>4. /\ \A i, j \in 1..Len(rest) : rest[i] = rest[j] => i = j
          /\ \A i \in 1..Len(rest) : \E j \in 1..Len(pool) : rest[i] = pool[j]
      BY <3>2, <3>3, RemoveDistinct
    <3> QED
      BY <3>1, <3>4
  <2> QED
    BY <1>2, <2>1, <2>2, <2>3
<1>4. PICK s \in Seq(S) : From(s) /\ orphans' = Append(s, b)
  BY <1>2, <1>3 DEF AddOrphan
<1>5. /\ Len(orphans') = Len(s) + 1 /\ orphans'[Len(s) + 1] = b /\ Len(s) \in Nat
      /\ \A i \in 1..Len(s) : orphans'[i] = s[i] /\ s[i] # b
  BY <1>4
<1> HIDE DEF S
<1>6. \A i \in 1..Len(orphans') :
        orphans'[i] = b \/ \E j \in 1..Len(orphans) : orphans'[i] = orphans[j]
  BY <1>4, <1>5
<1>7. ASSUME NEW i \in 1..Len(orphans'), NEW j \in 1..Len(orphans'), orphans'[i] = orphans'[j]
      PROVE  i = j
  <2>1. i \in 1..Len(s) \/ i = Len(s) + 1
    BY <1>5
  <2>2. j \in 1..Len(s) \/ j = Len(s) + 1
    BY <1>5
  <2> QED
    BY <1>4, <1>5, <1>7, <2>1, <2>2
<1> QED
  BY <1>6, <1>7

\* maybeAcceptBlock stores a block on top of a stored one.
LEMMA AcceptHeld ==
  ASSUME Inv, HeldOK, crashes = 0, crashes' = crashes, NEW b \in Block, b # Genesis, Accept(b),
         Stored(status, Parent[b]), ~Stored(status, b),
         orphans' \in Seq(Block \ {Genesis}),
         \A i \in 1..Len(orphans') : orphans'[i] # b /\ ~Stored(status, orphans'[i]),
         \A i, j \in 1..Len(orphans') : orphans'[i] = orphans'[j] => i = j
  PROVE  HeldOK'
<1>0. /\ Sync \in Thread /\ req \in [Thread -> Block] /\ pc \in [Thread -> Label]
      /\ status \in [Block -> SUBSET Flag] /\ queue \in Seq(Block)
      /\ \A c \in Block : Chain[c] \in SUBSET Block
  BY ChainSelf DEF Inv, TypeOK, CallType, IndexType, Thread
<1>1. CASE KnownInvalid(status, Parent[b])
  <2>1. /\ status' = status /\ queue' = <<>> /\ req' = req /\ pc'[Sync] = "idle"
    BY <1>0, <1>1 DEF Accept, Return, Unlocked, Goto, indexVars
  <2> QED
    BY <2>1 DEF HeldOK, Stored
<1>2. CASE ~KnownInvalid(status, Parent[b])
  <2>1. /\ status' = [status EXCEPT ![b] = {"stored"}] /\ queue' = queue
        /\ req'[Sync] = b
    BY <1>0, <1>2 DEF Accept
  <2>2. /\ status'[b] = {"stored"} /\ \A c \in Block : c # b => status'[c] = status[c]
        /\ \A c \in Block : Stored(status, c) => Stored(status', c)
    BY <1>0, <2>1 DEF Stored
  <2>3. Chain[b] = Chain[Parent[b]] \cup {b} /\ Parent[b] \in Block
    BY ParentFacts
  <2>4. \A c \in Block : status'[c] # {} => Stored(status', c)
    BY <2>2 DEF HeldOK, Stored
  <2>5. ASSUME NEW c \in Block, Stored(status', c), NEW d \in Chain[c] PROVE Stored(status', d)
    <3>1. CASE c = b
      <4>1. d = b \/ d \in Chain[Parent[b]]
        BY <2>3, <2>5, <3>1
      <4>2. d \in Chain[Parent[b]] => Stored(status, d) /\ d \in Block
        BY <1>0, <2>3 DEF HeldOK
      <4> QED
        BY <4>1, <4>2, <2>2 DEF Stored
    <3>2. CASE c # b
      <4>1. Stored(status, c)
        BY <2>2, <2>5, <3>2 DEF Stored
      <4>2. Stored(status, d) /\ d \in Block
        BY <4>1, <2>5, <1>0 DEF HeldOK
      <4> QED
        BY <4>2, <2>2
    <3> QED
      BY <3>1, <3>2
  <2>6. Stored(status', req'[Sync]) /\ ~KnownInvalid(status', req'[Sync])
    BY <2>1, <2>2 DEF Stored, KnownInvalid
  <2>7. \A i \in 1..Len(queue') : Stored(status', queue'[i])
    <3>1. \A i \in 1..Len(queue) : queue[i] \in Block /\ Stored(status, queue[i])
      BY <1>0 DEF HeldOK
    <3> QED
      BY <3>1, <2>1, <2>2
  <2>8. \A i \in 1..Len(orphans') : ~Stored(status', orphans'[i])
    BY <2>2 DEF Stored
  <2> QED
    BY <2>4, <2>5, <2>6, <2>7, <2>8 DEF HeldOK, Stored
<1> QED
  BY <1>1, <1>2

-----------------------------------------------------------------------------
(* One lemma for each kind of action                                         *)

\* What every step finds: types, an index of whole branches, and a thread that
\* is not idle or may start while the others are idle.
LEMMA TipFacts ==
  ASSUME Inv
  PROVE  /\ tip \in Block /\ Sync \in Thread /\ Rpcs \subseteq Thread /\ Sync \notin Rpcs
         /\ req \in [Thread -> Block] /\ req[Sync] \in Block
         /\ pc \in [Thread -> Label] /\ op \in [Thread -> Call]
         /\ status \in [Block -> SUBSET Flag] /\ queue \in Seq(Block)
         /\ orphans \in Seq(Block \ {Genesis})
         /\ Chain[tip] \in SUBSET Block
BY ChainSelf, ChainAssumption DEF Inv, TypeOK, CallType, ChainType, IndexType, PoolType, Thread

\* While a thread other than Sync moves, Sync is not about to connect a block.
LEMMA SyncWaits ==
  ASSUME Inv, NEW t \in Thread, t # Sync, lock \in {t, None}
  PROVE  pc[Sync] # "best"
BY TipFacts, OneHolder DEF Locked

\* getReorganizeNodes and verifyReorganizationValidity of a stored block off
\* the best chain, from statuses st that spare the best chain.
LEMMA ReorganizeToKeeps ==
  ASSUME Inv, PathOK, NEW t \in Thread, \A u \in Thread \ {t} : pc[u] = "idle",
         pc[t] \notin Busy, NEW call, call # "invalidate", NEW b \in Block, b \notin Chain[tip],
         NEW st, NEW D, ReorganizeTo(t, call, b, st, D), UNCHANGED <<tip, crashes>>,
         crashes = 0 => /\ Stores(status, st) /\ Spares(status, st)
                        /\ \A n \in Chain[b] : Stored(st, n)
  PROVE  Keeps(t) /\ (crashes = 0 => Stores(status, status'))
<1>0. tip \in Block /\ detach[t] = {} /\ Branch(b) \subseteq Chain[b]
  BY TipFacts DEF PathOK, Branch
<1> DEFINE v == Verified(st, b)
           T == Tainted(st, b)
<1>1. CASE status' = SetFlag(st, T, "invalidAncestor") /\ Return(t)
  <2>1. crashes = 0 => /\ Stores(st, status') /\ Spares(st, status')
    <3> HIDE DEF T
    <3> QED
      BY <1>0, <1>1, TaintedMarks DEF T
  <2>2. crashes = 0 => Stores(status, status') /\ Spares(status, status')
    BY <1>0, <2>1, MarksCompose
  <2> QED
    BY <1>0, <1>1, <2>2, ReturnKeeps
<1>2. crashes = 0 => Stores(st, v.st) /\ Spares(st, v.st)
  BY <1>0, VerifiedMarks
<1>3. crashes = 0 => Stores(status, v.st) /\ Spares(status, v.st)
  BY <1>0, <1>2, MarksCompose
<1>4. crashes = 0 /\ ~Refused(st, b) /\ Failing(st, b) = {} => \A n \in Branch(b) : Sound(v.st, n)
  BY <1>0, VerifiedMarks
<1> HIDE DEF v
<1>5. CASE status' = v.st /\ Return(t)
  BY <1>0, <1>3, <1>5, ReturnKeeps
<1>6. CASE /\ status' = v.st /\ ~Refused(st, b) /\ Failing(st, b) = {}
           /\ Reorganize(t, call, Chain[tip] \ Chain[b], Branch(b))
  <2>1. Leads(tip, Chain[tip] \ Chain[b], Branch(b))
    BY <1>0, BranchLeads
  <2> QED
    BY <2>1, <1>0, <1>3, <1>4, <1>6, ReorganizeKeeps DEF Spares
<1> QED
  BY <1>1, <1>5, <1>6 DEF ReorganizeTo, FlushIndex, KeepDirty, v, T

\* maybeAcceptBlock of a new block leaves the best chain alone.
LEMMA AcceptKeeps ==
  ASSUME Inv, PathOK, ValidOK, \A u \in Thread \ {Sync} : pc[u] = "idle", pc[Sync] \notin Busy,
         NEW b \in Block, crashes = 0 => status[b] = {}, Accept(b), UNCHANGED <<tip, crashes>>
  PROVE  Keeps(Sync)
<1>0. /\ tip \in Block /\ Sync \in Thread /\ detach[Sync] = {} /\ attach[Sync] = {}
      /\ status \in [Block -> SUBSET Flag]
  BY TipFacts DEF PathOK
<1>1. CASE Return(Sync) /\ UNCHANGED indexVars
  BY <1>0, <1>1, ReturnKeeps, MarksCompose DEF indexVars
<1>2. CASE /\ status' = [status EXCEPT ![b] = {"stored"}] /\ Goto(Sync, "best")
           /\ op' = [op EXCEPT ![Sync] = "process"] /\ UNCHANGED listVars
  <2>1. crashes = 0 => Spares(status, status')
    BY <1>0, <1>2, TipFacts DEF Spares, Sound, KnownValid, KnownInvalid
  <2>2. /\ pc'[Sync] = "best" /\ op'[Sync] = "process" /\ UNCHANGED <<detach, attach>>
        /\ \A u \in Thread \ {Sync} : pc'[u] = pc[u] /\ op'[u] = op[u]
    BY <1>2, TipFacts DEF Goto, listVars
  <2>3. Leads(tip, {}, {})
    BY <1>0, EmptyLeads
  <2> QED
    BY <1>0, <2>1, <2>2, <2>3 DEF Keeps, Spares
<1> QED
  BY <1>1, <1>2 DEF Accept

\* ProcessBlock: a block is accepted or joins the orphans.
LEMMA ProcessTip ==
  ASSUME ~Overlap, Inv, CoinInv, TipInv, NEW b \in Block \ {Genesis}, ProcessBlock(b)
  PROVE  TipInv'
<1>0. /\ PathOK /\ ValidOK /\ HeldOK /\ OneCall /\ Sync \in Thread /\ PoolType
      /\ orphans \in Seq(Block \ {Genesis})
  BY TipFacts DEF TipInv, CoinInv, Inv, TypeOK
<1>1. /\ MayStart(Sync) /\ pc[Sync] = "idle" /\ status[b] = {}
      /\ \A i \in 1..Len(orphans) : orphans[i] # b
      /\ UNCHANGED <<tip, crashes>>
  BY <1>0 DEF ProcessBlock, MayStart, Indexed, ToSet, boundVars
<1>2. \A u \in Thread \ {Sync} : pc[u] = "idle"
  BY <1>0, <1>1, OthersQuiet
<1>3. ASSUME Indexed(Parent[b]), Accept(b), UNCHANGED orphanVars PROVE TipInv'
  <2>1. PathOK' /\ ValidOK'
    BY <1>0, <1>1, <1>2, <1>3, AcceptKeeps, KeepsStep DEF Busy
  <2>2. HeldOK'
    <3>1. CASE crashes = 0
      <4>1. Parent[b] \in Block /\ Stored(status, Parent[b]) /\ ~Stored(status, b)
        BY <3>1, <1>0, <1>1, <1>3, ParentFacts DEF HeldOK, Indexed, Stored
      <4>2. /\ orphans' = orphans
            /\ \A i \in 1..Len(orphans) : orphans[i] # b /\ ~Stored(status, orphans[i])
            /\ \A i, j \in 1..Len(orphans) : orphans[i] = orphans[j] => i = j
        BY <3>1, <1>0, <1>1, <1>3 DEF HeldOK, orphanVars
      <4> QED
        BY <3>1, <4>1, <4>2, <1>0, <1>1, <1>3, AcceptHeld
    <3>2. CASE crashes # 0
      BY <3>2, <1>1 DEF HeldOK
    <3> QED
      BY <3>1, <3>2
  <2> QED
    BY <2>1, <2>2 DEF TipInv
<1>4. ASSUME NEW k \in 0..Len(orphans), AddOrphan(b, k),
             UNCHANGED <<indexVars, lock, pc, callVars, listVars>>
      PROVE  TipInv'
  <2>1. UNCHANGED <<status, pc, op, req, queue, detach, attach>>
    BY <1>4 DEF indexVars, callVars, listVars
  <2>2. PathOK' /\ ValidOK'
    BY <1>0, <1>1, <1>2, <2>1, StayKeeps, KeepsStep DEF Busy, Spares
  <2>3. HeldOK'
    <3>1. CASE crashes = 0
      <4>1. \A i, j \in 1..Len(orphans) : orphans[i] = orphans[j] => i = j
        BY <3>1, <1>0 DEF HeldOK
      <4>2. /\ \A i, j \in 1..Len(orphans') : orphans'[i] = orphans'[j] => i = j
            /\ \A i \in 1..Len(orphans') :
                 orphans'[i] = b \/ \E j \in 1..Len(orphans) : orphans'[i] = orphans[j]
        BY <4>1, <1>0, <1>1, <1>4, AddDistinct
      <4>3. \A i \in 1..Len(orphans') : ~Stored(status, orphans'[i])
        BY <4>2, <3>1, <1>0, <1>1 DEF HeldOK, Stored
      <4> QED
        BY <4>2, <4>3, <3>1, <1>0, <2>1 DEF HeldOK, Stored
    <3>2. CASE crashes # 0
      BY <3>2, <1>1 DEF HeldOK
    <3> QED
      BY <3>1, <3>2
  <2> QED
    BY <2>2, <2>3 DEF TipInv
<1> QED
  BY <1>3, <1>4 DEF ProcessBlock

\* connectBestChain.
LEMMA BestTip ==
  ASSUME ~Overlap, Inv, CoinInv, TipInv, ExtendTip \/ RejectTip \/ KeepTip \/ SwitchTip
  PROVE  TipInv'
<1> DEFINE b == req[Sync]
<1>0. /\ PathOK /\ ValidOK /\ HeldOK /\ OneCall /\ Sync \in Thread /\ tip \in Block
      /\ b \in Block /\ pc[Sync] = "best" /\ UNCHANGED <<tip, crashes, req, orphans>>
  BY TipFacts DEF TipInv, CoinInv, ExtendTip, RejectTip, KeepTip, SwitchTip, Holds, boundVars,
                  orphanVars
<1>1. b # Genesis
  BY <1>0 DEF Inv, ListsOK
<1>2. /\ \A u \in Thread \ {Sync} : pc[u] = "idle"
      /\ detach[Sync] = {} /\ attach[Sync] = {} /\ pc[Sync] \notin Busy
  BY <1>0, OthersQuiet DEF PathOK, Busy
<1>3. crashes = 0 => /\ \A n \in Chain[b] : Stored(status, n)
                     /\ ~KnownInvalid(status, b) /\ Stored(status, b)
  BY <1>0 DEF HeldOK
<1>4. ASSUME Keeps(Sync), crashes = 0 => Stores(status, status'),
             pc'[Sync] # "best", queue' \in {queue, <<>>}
      PROVE  TipInv'
  <2>1. Rests
    BY <1>0, <1>4 DEF Rests
  <2> QED
    BY <1>0, <1>4, <2>1, KeepsStep, RestsStep DEF TipInv
<1>5. /\ Return(Sync) => pc'[Sync] = "idle" /\ queue' = <<>>
      /\ Accepted(TRUE) \/ Accepted(FALSE) =>
           /\ pc'[Sync] = "accepted" /\ queue' = queue
           /\ Goto(Sync, "accepted") /\ UNCHANGED <<op, detach, attach>>
      /\ \A call, d, a : Reorganize(Sync, call, d, a) => pc'[Sync] = "reorg" /\ queue' = queue
  BY <1>0, TipFacts DEF Return, Accepted, Reorganize, Unlocked, Goto, listVars
<1>6. CASE ExtendTip
  <2>1. /\ Parent[b] = tip /\ status' = SetFlag(status, {b}, "valid")
        /\ Reorganize(Sync, "extend", {}, {b})
    BY <1>6 DEF ExtendTip, FlushIndex
  <2>2. crashes = 0 => Stores(status, status') /\ Spares(status, status')
    BY <2>1, <1>0, <1>3, SetMarks
  <2>3. crashes = 0 => Sound(status', b)
    BY <2>1, <1>0, <1>3 DEF Sound, KnownValid, KnownInvalid, SetFlag
  <2>4. Leads(tip, {}, {b})
    <3>1. tip \in Chain[tip] /\ tip \in Chain[b] /\ {b} = Chain[b] \ Chain[tip]
      BY <2>1, <1>0, <1>1, ParentFacts, ChainSelf
    <3> QED
      BY <3>1, <1>0 DEF Leads
  <2>5. Keeps(Sync)
    BY <1>0, <1>2, <2>1, <2>2, <2>3, <2>4, ReorganizeKeeps DEF Spares
  <2> QED
    BY <2>1, <2>2, <2>5, <1>4, <1>5
<1>7. CASE RejectTip
  <2>1. /\ Parent[b] = tip /\ status' = SetFlag(status, {b}, "failed") /\ Return(Sync)
    BY <1>7 DEF RejectTip, FlushIndex
  <2>2. {b} \cap Chain[tip] = {}
    BY <2>1, <1>0, <1>1, ParentFacts
  <2>3. crashes = 0 => Stores(status, status') /\ Spares(status, status')
    BY <2>1, <2>2, <1>0, <1>3, SetMarks
  <2> QED
    BY <2>1, <2>3, <1>0, <1>2, <1>4, <1>5, ReturnKeeps
<1>8. CASE KeepTip
  <2>1. Accepted(FALSE) /\ status' = status
    BY <1>8 DEF KeepTip, indexVars
  <2>2. Keeps(Sync)
    BY <2>1, <1>0, <1>2, <1>5, GotoKeeps
  <2> QED
    BY <2>1, <2>2, <1>4, <1>5 DEF Stores
<1>9. CASE SwitchTip
  <2>1. b \notin Chain[tip]
    BY <1>0, <1>9, PreferredOff DEF SwitchTip
  <2>2. CASE /\ status' = SetFlag(status, Tainted(status, b), "invalidAncestor")
             /\ Accepted(TRUE)
    <3>1. crashes = 0 => Stores(status, status') /\ Spares(status, status')
      BY <1>0, <1>3, <2>1, <2>2, TaintedMarks
    <3>2. Keeps(Sync)
      BY <3>1, <2>2, <1>0, <1>2, <1>5, GotoKeeps
    <3> QED
      BY <3>1, <3>2, <2>2, <1>4, <1>5
  <2>3. CASE ~((status' = SetFlag(status, Tainted(status, b), "invalidAncestor"))
               /\ Accepted(TRUE))
    <3>1. ReorganizeTo(Sync, "process", b, status, {})
      BY <1>9, <2>3 DEF SwitchTip, ReorganizeTo, FlushIndex, KeepDirty
    <3>2. crashes = 0 => Stores(status, status) /\ Spares(status, status)
      BY <1>0, MarksCompose
    <3>3. Keeps(Sync) /\ (crashes = 0 => Stores(status, status'))
      BY <3>1, <3>2, <1>0, <1>2, <1>3, <2>1, ReorganizeToKeeps
    <3>4. pc'[Sync] # "best" /\ queue' \in {queue, <<>>}
      BY <3>1, <1>5 DEF ReorganizeTo
    <3> QED
      BY <3>3, <3>4, <1>4
  <2> QED
    BY <2>2, <2>3
<1> QED
  BY <1>6, <1>7, <1>8, <1>9

\* The rest of ProcessBlock.
LEMMA OrphanTip ==
  ASSUME ~Overlap, Inv, CoinInv, TipInv,
         Connected \/ QueueAccepted \/ NextHash \/ OrphansDone \/ AdoptOrphan
  PROVE  TipInv'
<1>0. /\ PathOK /\ ValidOK /\ HeldOK /\ OneCall /\ Sync \in Thread /\ tip \in Block
      /\ req[Sync] \in Block /\ UNCHANGED <<tip, crashes>>
      /\ pc[Sync] \in {"reorg", "accepted", "orphans"}
  BY TipFacts DEF TipInv, CoinInv, Connected, QueueAccepted, NextHash, OrphansDone, AdoptOrphan,
                  Done, Holds, Relock, boundVars
<1>1. \A u \in Thread \ {Sync} : pc[u] = "idle"
  BY <1>0, OthersQuiet
<1>2. detach[Sync] = {} /\ attach[Sync] = {}
  BY <1>0 DEF PathOK, Busy, Connected, Done, QueueAccepted, NextHash, OrphansDone, AdoptOrphan,
              Relock, Holds
<1>3. ASSUME Keeps(Sync), Rests PROVE TipInv'
  BY <1>0, <1>3, KeepsStep, RestsStep DEF TipInv
<1>4. CASE Connected
  <2> DEFINE again == IF op[Sync] = "extend" /\ ~KnownValid(status, req[Sync])
                      THEN {req[Sync]} ELSE {}
  <2>1. /\ status' = SetFlag(status, again, "valid") /\ Goto(Sync, "accepted")
        /\ UNCHANGED <<op, detach, attach, queue, req, orphans>>
    BY <1>4 DEF Connected, FlushIndex, Accepted, Unlocked, listVars, orphanVars
  <2>2. again \in SUBSET Block /\ (crashes = 0 => \A n \in again : Stored(status, n))
    BY <1>0 DEF HeldOK
  <2> HIDE DEF again
  <2>3. crashes = 0 => Stores(status, status') /\ Spares(status, status')
    BY <1>0, <2>1, <2>2, SetMarks
  <2>4. Keeps(Sync)
    BY <1>0, <1>1, <1>2, <2>1, <2>3, GotoKeeps
  <2>5. Rests
    BY <1>0, <2>1, <2>3, TipFacts DEF Rests, Goto
  <2> QED
    BY <1>3, <2>4, <2>5
<1>5. CASE QueueAccepted
  <2>1. /\ status' = status /\ Goto(Sync, "orphans") /\ queue' = Append(queue, req[Sync])
        /\ UNCHANGED <<op, detach, attach, req, orphans>>
    BY <1>5 DEF QueueAccepted, Relock, indexVars, listVars, orphanVars
  <2>2. Keeps(Sync)
    BY <1>0, <1>1, <1>2, <2>1, GotoKeeps
  <2>3. Rests
    BY <1>0, <2>1, TipFacts DEF Rests, Goto, Stores
  <2> QED
    BY <1>3, <2>2, <2>3
<1>6. CASE NextHash
  <2>1. /\ status' = status /\ pc' = pc /\ queue # <<>> /\ queue' = Tail(queue)
        /\ UNCHANGED <<op, detach, attach, req, orphans>> /\ pc[Sync] = "orphans"
    BY <1>6 DEF NextHash, Holds, indexVars, listVars, orphanVars
  <2>2. Keeps(Sync)
    BY <1>0, <1>1, <2>1, StayKeeps DEF Busy, Spares
  <2>3. Rests
    BY <1>0, <2>1 DEF Rests, Stores
  <2> QED
    BY <1>3, <2>2, <2>3
<1>7. CASE OrphansDone
  <2>1. status' = status /\ Return(Sync) /\ UNCHANGED <<req, orphans>>
    BY <1>7 DEF OrphansDone, indexVars, orphanVars
  <2>2. Keeps(Sync)
    BY <1>0, <1>1, <1>2, <2>1, ReturnKeeps DEF Spares
  <2>3. Rests
    BY <1>0, <2>1, TipFacts DEF Rests, Return, Unlocked, Goto, Stores
  <2> QED
    BY <1>3, <2>2, <2>3
<1>8. CASE AdoptOrphan
  <2> DEFINE i == CHOOSE j \in Waiting : \A k \in Waiting : j <= k
  <2>1. /\ orphans \in Seq(Block \ {Genesis}) /\ queue # <<>> /\ Waiting # {}
        /\ pc[Sync] = "orphans" /\ queue \in Seq(Block)
    BY <1>8, TipFacts DEF AdoptOrphan, Holds
  <2>2. Waiting \in SUBSET Nat /\ Waiting \in SUBSET (1..Len(orphans))
    BY <2>1 DEF Waiting
  <2>3. \E j \in Waiting : \A k \in Waiting : j <= k
    BY <2>1, <2>2, LeastNat
  <2>4. i \in Waiting
    BY <2>3
  <2>5. orphans' = RemoveOrphan(orphans, orphans[i]) /\ Accept(orphans[i])
    BY <1>8 DEF AdoptOrphan
  <2> HIDE DEF i
  <2>6. PICK b \in Block \ {Genesis} :
          /\ b = orphans[i] /\ Parent[b] = Head(queue)
          /\ orphans' = RemoveOrphan(orphans, b) /\ Accept(b)
    BY <2>1, <2>2, <2>4, <2>5 DEF Waiting
  <2>7. crashes = 0 => status[b] = {} /\ ~Stored(status, b) /\ Stored(status, Parent[b])
    BY <1>0, <2>1, <2>2, <2>4, <2>6 DEF HeldOK
  <2>8. PathOK' /\ ValidOK'
    BY <1>0, <1>1, <2>1, <2>6, <2>7, AcceptKeeps, KeepsStep DEF Busy
  <2>9. HeldOK'
    <3>1. CASE crashes = 0
      <4>1. \A k, j \in 1..Len(orphans) : orphans[k] = orphans[j] => k = j
        BY <3>1, <1>0 DEF HeldOK
      <4>2. /\ \A k, j \in 1..Len(orphans') : orphans'[k] = orphans'[j] => k = j
            /\ \A k \in 1..Len(orphans') :
                 orphans'[k] # b /\ \E j \in 1..Len(orphans) : orphans'[k] = orphans[j]
        BY <4>1, <2>1, <2>6, RemoveDistinct
      <4>3. \A k \in 1..Len(orphans') : orphans'[k] # b /\ ~Stored(status, orphans'[k])
        BY <4>2, <3>1, <1>0 DEF HeldOK
      <4>4. orphans' \in Seq(Block \ {Genesis})
        BY <2>1, <2>6, RemoveOrphanFacts
      <4> QED
        BY <4>2, <4>3, <4>4, <3>1, <1>0, <2>6, <2>7, AcceptHeld
    <3>2. CASE crashes # 0
      BY <3>2, <1>0 DEF HeldOK
    <3> QED
      BY <3>1, <3>2
  <2> QED
    BY <2>8, <2>9 DEF TipInv
<1> QED
  BY <1>4, <1>5, <1>6, <1>7, <1>8

\* Lists that lead somewhere start at the tip and go on from its parent ...
LEMMA LeadsDown ==
  ASSUME NEW top \in Block, NEW d, NEW a, Leads(top, d, a), d # {}
  PROVE  /\ Highest(d) = top /\ top # Genesis /\ Leads(Parent[top], d \ {top}, a)
         /\ a # {} => Parent[Lowest(a)] = Parent[Lowest(d)]
<1>1. PICK f \in Chain[top], g \in Block : /\ f \in Chain[g]
                                           /\ d = Chain[top] \ Chain[f]
                                           /\ a = Chain[g] \ Chain[f]
  BY DEF Leads
<1>2. /\ Highest(d) = top /\ top # Genesis /\ f \in Chain[Parent[top]]
      /\ d \ {top} = Chain[Parent[top]] \ Chain[f]
  BY <1>1, DetachTop
<1>3. Leads(Parent[top], d \ {top}, a)
  BY <1>1, <1>2 DEF Leads
<1>4. Parent[Lowest(d)] = f
  BY <1>1, AttachBottom
<1>5. a # {} => Parent[Lowest(a)] = f
  BY <1>1, AttachBottom
<1> QED
  BY <1>2, <1>3, <1>4, <1>5

\* ... or go up from it.
LEMMA LeadsUp ==
  ASSUME NEW top \in Block, NEW a, Leads(top, {}, a), a # {}, NEW n, n = Lowest(a)
  PROVE  /\ n \in Block /\ n # Genesis /\ n \in a /\ Parent[n] = top
         /\ Leads(n, {}, a \ {n})
<1>1. PICK f \in Chain[top], g \in Block : /\ f \in Chain[g]
                                           /\ {} = Chain[top] \ Chain[f]
                                           /\ a = Chain[g] \ Chain[f]
  BY DEF Leads
<1>2. f = top
  <2>1. f \in Block /\ top \in Chain[f]
    BY <1>1, ChainSelf
  <2>2. f # top => Height[f] < Height[top] /\ Height[top] < Height[f]
    BY <1>1, <2>1, ChainDown
  <2> QED
    BY <2>1, <2>2, ChainSelf
<1>3. /\ n \in Chain[g] /\ n # Genesis /\ Parent[n] = f
      /\ a \ {n} = Chain[g] \ Chain[n]
  BY <1>1, AttachBottom
<1>4. a \in SUBSET Block
  BY <1>1, ChainSelf
<1>5. n \in a /\ n \in Block /\ n \in Chain[n] /\ {} = Chain[n] \ Chain[n]
  BY <1>4, LowestExists, ChainSelf
<1>6. Leads(n, {}, a \ {n})
  BY <1>1, <1>3, <1>5 DEF Leads
<1> QED
  BY <1>2, <1>3, <1>5, <1>6

\* A move of a thread that holds the lock or takes it lets Sync wait.
LEMMA MoveRests ==
  ASSUME Inv, NEW t \in Thread, lock \in {t, None}, NEW label, label # "best", Goto(t, label)
  PROVE  pc'[Sync] # "best"
<1>1. CASE t = Sync
  BY <1>1, TipFacts DEF Goto
<1>2. CASE t # Sync
  BY <1>2, TipFacts, SyncWaits DEF Goto
<1> QED
  BY <1>1, <1>2

\* A call that returns leaves the stored blocks alone.
LEMMA ReturnRests ==
  ASSUME Inv, NEW t \in Thread, lock \in {t, None}, Return(t), UNCHANGED <<crashes, orphans>>,
         req'[Sync] = req[Sync], crashes = 0 => Stores(status, status')
  PROVE  Rests
BY MoveRests DEF Rests, Return, Unlocked

\* Every step of reorganizeChain.
LEMMA StepTip ==
  ASSUME ~Overlap, Inv, CoinInv, TipInv, NEW t \in Thread, Step(t)
  PROVE  TipInv'
<1>0. /\ PathOK /\ ValidOK /\ HeldOK /\ OneCall /\ tip \in Block
      /\ pc[t] \in Busy /\ pc[t] # "idle" /\ lock \in {t, None}
      /\ UNCHANGED <<crashes, orphans>>
  BY TipFacts DEF TipInv, CoinInv, Step, DisconnectBlock, CommitDisconnect, ConnectBlock,
                  CommitConnect, Notified, Holds, Relock, boundVars, orphanVars, Busy
<1>1. \A u \in Thread \ {t} : pc[u] = "idle" /\ detach[u] = {} /\ attach[u] = {}
  BY <1>0, OthersQuiet DEF PathOK, Busy
<1>2. ASSUME Keeps(t), Rests PROVE TipInv'
  BY <1>0, <1>2, KeepsStep, RestsStep DEF TipInv
<1>3. ASSUME status' = status, NEW label \in {"commit", "reorg"}, Goto(t, label),
             UNCHANGED <<tip, req, op, queue, detach, attach>>
      PROVE  TipInv'
  <2>1. Keeps(t)
    BY <1>0, <1>1, <1>3, GotoKeeps DEF Busy
  <2>2. Rests
    BY <1>0, <1>3, MoveRests DEF Rests, Stores
  <2> QED
    BY <2>1, <2>2, <1>2
<1>4. CASE DisconnectBlock(t)
  <2>1. CASE /\ status' = status /\ Goto(t, "commit")
             /\ UNCHANGED <<tip, req, op, queue, detach, attach>>
    BY <1>3, <2>1
  <2>2. CASE Highest(detach[t]) # tip /\ Abort(t)
    <3>1. detach[t] # {} /\ lock = t /\ tip' = tip
      BY <1>4 DEF DisconnectBlock, Holds
    <3>2. crashes # 0
      BY <3>1, <2>2, <1>0, LeadsDown DEF PathOK
    <3>3. Return(t) /\ req' = req
      BY <2>2 DEF Abort
    <3>4. Keeps(t)
      BY <1>0, <1>1, <3>1, <3>2, <3>3, ReturnKeeps
    <3>5. Rests
      BY <1>0, <3>2, <3>3, ReturnRests
    <3> QED
      BY <3>4, <3>5, <1>2
  <2> QED
    BY <1>4, <2>1, <2>2 DEF DisconnectBlock, FlushIndex, callVars, listVars
<1>5. CASE ConnectBlock(t)
  <2> DEFINE n == Lowest(attach[t])
  <2>1. lock = t /\ pc[t] = "reorg" /\ detach[t] = {} /\ attach[t] # {}
    BY <1>5 DEF ConnectBlock, Holds
  <2>2. Parent[n] = tip
    BY <2>1, AttachNext
  <2>3. utxo = Chain[tip]
    BY <2>1, OneConnecting DEF CoinInv, CoinsMatchTip
  <2>4. /\ status' = status /\ Goto(t, "commit")
        /\ UNCHANGED <<tip, req, op, queue, detach, attach>>
    BY <1>5, <2>2, <2>3 DEF ConnectBlock, FlushIndex, callVars, listVars
  <2> QED
    BY <1>3, <2>4
<1>6. CASE Notified(t)
  BY <1>3, <1>6 DEF Notified, Relock, indexVars, callVars
<1>7. CASE CommitDisconnect(t)
  <2>1. lock = t /\ pc[t] = "commit" /\ detach[t] # {} /\ Highest(detach[t]) = tip
    BY <1>7 DEF CommitDisconnect, Holds, Inv, CommitOK
  <2>2. /\ tip' = Parent[tip] /\ status' = status /\ Goto(t, "notify")
        /\ detach'[t] = detach[t] \ {tip} /\ attach' = attach /\ op' = op
        /\ UNCHANGED <<req, queue>>
        /\ \A u \in Thread \ {t} : detach'[u] = detach[u]
    BY <1>7, <2>1 DEF CommitDisconnect, Unlocked, indexVars, callVars, Inv, TypeOK, CallType
  <2>3. pc'[t] = "notify"
    BY <2>2, TipFacts DEF Goto
  <2>4. tip # Genesis /\ Parent[tip] \in Block
    BY <2>1, NextInList
  <2>5. crashes = 0 \/ op[t] # "invalidate" => Leads(Parent[tip], detach[t] \ {tip}, attach[t])
    BY <1>0, <2>1, LeadsDown DEF PathOK
  <2>6. Leads(Parent[tip], {}, {})
    BY <2>4, EmptyLeads
  <2>7. PathOK'
    <3>1. \A u \in Thread : /\ crashes = 0 \/ op[u] # "invalidate" =>
                                 Leads(Parent[tip], detach'[u], attach'[u])
                            /\ pc'[u] \notin Busy => detach'[u] = {} /\ attach'[u] = {}
      BY <1>1, <2>2, <2>3, <2>5, <2>6 DEF Busy
    <3> QED
      BY <3>1, <1>0, <2>2 DEF PathOK, Leads
  <2>8. ValidOK'
    <3>1. ASSUME crashes = 0, NEW b \in Chain[Parent[tip]]
          PROVE  Sound(status, b) \/ b \in detach'[t]
      <4>1. b \in Chain[tip] /\ b # tip
        BY <1>0, <2>4, <3>1, ParentFacts
      <4> QED
        BY <4>1, <1>0, <1>1, <2>2, <3>1 DEF ValidOK
    <3>2. \A u \in Thread : \A b \in attach[u] : crashes = 0 => Sound(status, b)
      BY <1>0 DEF ValidOK
    <3> QED
      BY <3>1, <3>2, <1>0, <2>2 DEF ValidOK, Sound, KnownValid, KnownInvalid
  <2>9. Rests
    BY <1>0, <2>2, MoveRests DEF Rests, Stores
  <2> QED
    BY <1>0, <2>7, <2>8, <2>9, RestsStep DEF TipInv
<1>8. CASE CommitConnect(t)
  <2> DEFINE n == Lowest(attach[t])
  <2>1. lock = t /\ pc[t] = "commit" /\ detach[t] = {} /\ attach[t] # {} /\ Parent[n] = tip
    BY <1>8 DEF CommitConnect, Holds, Inv, CommitOK
  <2>2. /\ tip' = n /\ status' = status /\ Goto(t, "notify")
        /\ attach'[t] = attach[t] \ {n} /\ detach' = detach /\ op' = op
        /\ UNCHANGED <<req, queue>>
        /\ \A u \in Thread \ {t} : attach'[u] = attach[u]
    BY <1>8, <2>1 DEF CommitConnect, Unlocked, indexVars, callVars, Inv, TypeOK, CallType
  <2>3. pc'[t] = "notify"
    BY <2>2, TipFacts DEF Goto
  <2>4. n \in Block /\ n # Genesis /\ n \in attach[t]
    BY <2>1, NextInList
  <2>5. Leads(n, {}, {})
    BY <2>4, EmptyLeads
  <2> HIDE DEF n
  <2>6. crashes = 0 \/ op[t] # "invalidate" => Leads(n, {}, attach[t] \ {n})
    <3>1. crashes = 0 \/ op[t] # "invalidate" => Leads(tip, {}, attach[t])
      BY <1>0, <2>1 DEF PathOK
    <3>2. n = Lowest(attach[t]) /\ attach[t] # {}
      BY <2>1 DEF n
    <3> QED
      BY <1>0, <3>1, <3>2, LeadsUp
  <2>7. PathOK'
    <3>1. \A u \in Thread : /\ crashes = 0 \/ op[u] # "invalidate" =>
                                 Leads(n, detach[u], attach'[u])
                            /\ pc'[u] \notin Busy => detach[u] = {} /\ attach'[u] = {}
      BY <1>1, <2>1, <2>2, <2>3, <2>5, <2>6 DEF Busy
    <3> QED
      BY <3>1, <1>0, <2>2 DEF PathOK, Leads
  <2>8. ValidOK'
    <3>1. ASSUME crashes = 0, NEW b \in Chain[n] PROVE Sound(status, b)
      <4>1. b \in Chain[tip] \/ b = n
        BY <2>1, <2>4, <3>1, ParentFacts
      <4>2. \A u \in Thread : detach[u] = {}
        BY <1>1, <2>1
      <4> QED
        BY <4>1, <4>2, <1>0, <2>4, <3>1 DEF ValidOK
    <3>2. \A u \in Thread : \A b \in attach'[u] : crashes = 0 => Sound(status, b)
      BY <1>0, <1>1, <2>2 DEF ValidOK
    <3> QED
      BY <3>1, <3>2, <1>0, <2>2 DEF ValidOK, Sound, KnownValid, KnownInvalid
  <2>9. Rests
    BY <1>0, <2>2, MoveRests DEF Rests, Stores
  <2> QED
    BY <1>0, <2>7, <2>8, <2>9, RestsStep DEF TipInv
<1> QED
  BY <1>4, <1>5, <1>6, <1>7, <1>8 DEF Step

\* The steps of InvalidateBlock and ReconsiderBlock after they began.
LEMMA RpcTip ==
  ASSUME ~Overlap, Inv, CoinInv, TipInv, NEW t \in Rpcs,
         Detached(t) \/ PickBestTip(t) \/ Switched(t) \/ ReconsiderDone(t)
  PROVE  TipInv'
<1>0. /\ PathOK /\ ValidOK /\ HeldOK /\ OneCall /\ tip \in Block /\ t \in Thread
      /\ pc[t] # "idle" /\ lock \in {t, None} /\ UNCHANGED <<tip, crashes, orphans, req>>
  BY TipFacts DEF TipInv, CoinInv, Detached, PickBestTip, Switched, ReconsiderDone, Done, Holds,
                  boundVars, orphanVars, callVars
<1>1. \A u \in Thread \ {t} : pc[u] = "idle"
  BY <1>0, OthersQuiet
<1>2. detach[t] = {} /\ attach[t] = {}
  BY <1>0 DEF PathOK, Busy, Detached, PickBestTip, Switched, ReconsiderDone, Done, Holds
<1>3. ASSUME Keeps(t), Rests PROVE TipInv'
  BY <1>0, <1>3, KeepsStep, RestsStep DEF TipInv
<1>4. Stores(status, status) /\ Spares(status, status)
  BY <1>0, MarksCompose
<1>5. ASSUME Return(t), status' = status PROVE TipInv'
  BY <1>0, <1>1, <1>2, <1>3, <1>4, <1>5, ReturnKeeps, ReturnRests
<1>6. CASE Detached(t)
  <2>1. /\ status' = status /\ Goto(t, "tips") /\ UNCHANGED <<op, detach, attach, queue>>
    BY <1>6 DEF Detached, FlushIndex, callVars, listVars
  <2>2. Keeps(t)
    BY <1>0, <1>1, <1>2, <2>1, GotoKeeps
  <2>3. Rests
    BY <1>0, <1>4, <2>1, MoveRests DEF Rests
  <2> QED
    BY <1>3, <2>2, <2>3
<1>7. CASE Switched(t) \/ ReconsiderDone(t)
  BY <1>5, <1>7 DEF Switched, ReconsiderDone, FlushIndex, indexVars
<1>8. CASE PickBestTip(t)
  <2>1. CASE Return(t) /\ UNCHANGED indexVars
    BY <1>5, <2>1 DEF indexVars
  <2>2. ASSUME NEW b \in Tips \cup {tip}, b # tip, ReorganizeTo(t, "switch", b, status, {})
        PROVE  TipInv'
    <3>1. b \in Block /\ b \notin Chain[tip] /\ Indexed(b)
      BY <2>2 DEF Tips, InactiveTips
    <3>2. crashes = 0 => \A n \in Chain[b] : Stored(status, n)
      BY <1>0, <3>1 DEF HeldOK, Indexed
    <3>3. Keeps(t) /\ (crashes = 0 => Stores(status, status'))
      BY <1>0, <1>1, <1>4, <1>8, <2>2, <3>1, <3>2, ReorganizeToKeeps DEF PickBestTip, Holds, Busy
    <3>4. Rests
      <4>1. CASE Return(t)
        BY <1>0, <3>3, <4>1, ReturnRests
      <4>2. CASE \E d, a : Reorganize(t, "switch", d, a)
        BY <1>0, <3>3, <4>2, MoveRests DEF Reorganize, Rests
      <4> QED
        BY <2>2, <4>1, <4>2 DEF ReorganizeTo
    <3> QED
      BY <1>3, <3>3, <3>4
  <2> QED
    BY <1>8, <2>1, <2>2 DEF PickBestTip
<1> QED
  BY <1>6, <1>7, <1>8

\* Nothing above a block off the best chain is on it.
LEMMA AboveOff ==
  ASSUME tip \in Block, NEW x \in Block, x \notin Chain[tip]
  PROVE  Above(x) \cap Chain[tip] = {}
<1>1. ASSUME NEW b \in TipsOver(x), NEW y \in Chain[b] \ Chain[x], y \in Chain[tip] PROVE FALSE
  <2>1. b \in Block /\ x \in Chain[b] /\ y \in Block
    BY TipsType, ChainSelf, <1>1 DEF TipsOver
  <2>2. Height[x] \in Nat /\ Height[y] \in Nat
    BY <2>1, ChainSelf
  <2>3. ~(Height[y] <= Height[x])
    BY <1>1, <2>1, ChainLinear
  <2>4. x \in Chain[y]
    BY <1>1, <2>1, <2>2, <2>3, ChainLinear
  <2> QED
    BY <1>1, <2>4, ChainDown
<1> QED
  BY <1>1 DEF Above

\* InvalidateBlock marks stored blocks, and only the ones it names.
LEMMA InvalidatedMarks ==
  ASSUME tip \in Block, NEW x \in Block, NEW D \in SUBSET Block,
         \A b \in D \cup {x} : Stored(status, b)
  PROVE  /\ Stores(status, Invalidated(x, D))
         /\ \A b \in Chain[tip] \ (D \cup {x}) :
              Sound(status, b) => Sound(Invalidated(x, D), b)
<1>1. \A b \in Block : Stored(Invalidated(x, D), b) <=> Stored(status, b)
  BY DEF Invalidated, SetFlag, UnsetFlag, Stored
<1>2. \A b \in Block \ (D \cup {x}) : Invalidated(x, D)[b] = status[b]
  BY DEF Invalidated, SetFlag, UnsetFlag
<1>3. Chain[tip] \in SUBSET Block
  BY ChainSelf
<1> QED
  BY <1>1, <1>2, <1>3 DEF Stores, Sound, KnownValid, KnownInvalid

\* ReconsiderBlock only takes marks away that make a block invalid.
LEMMA ReconsideredMarks ==
  ASSUME tip \in Block, NEW x \in Block, \A b \in Block : status[b] # {} => Stored(status, b)
  PROVE  Stores(status, Reconsidered(x)) /\ Spares(status, Reconsidered(x))
<1>1. \A b \in Block : /\ Reconsidered(x)[b] \subseteq status[b]
                       /\ Stored(Reconsidered(x), b) <=> Stored(status, b)
                       /\ KnownValid(Reconsidered(x), b) <=> KnownValid(status, b)
  BY DEF Reconsidered, UnsetFlag, Stored, KnownValid
<1>2. Chain[tip] \in SUBSET Block
  BY ChainSelf
<1> QED
  BY <1>1, <1>2 DEF Stores, Spares, Sound, KnownInvalid

\* InvalidateBlock and ReconsiderBlock up to their first reorganization.
LEMMA StartTip ==
  ASSUME ~Overlap, Inv, CoinInv, TipInv, NEW t \in Rpcs, NEW x \in Block,
         InvalidateSide(t, x) \/ InvalidateMain(t, x) \/ ReconsiderBlock(t, x)
  PROVE  TipInv'
<1>0. /\ PathOK /\ ValidOK /\ HeldOK /\ OneCall /\ tip \in Block /\ t \in Thread
      /\ UNCHANGED <<tip, crashes, orphans>>
      /\ MayStart(t) /\ lock = None /\ pc[t] = "idle" /\ pc[t] \notin Busy
      /\ Indexed(x) /\ req' = [req EXCEPT ![t] = x]
  BY TipFacts DEF TipInv, CoinInv, InvalidateSide, InvalidateMain, ReconsiderBlock, StartRpc,
                  MayStart, orphanVars, Busy
<1>1. /\ \A u \in Thread \ {t} : pc[u] = "idle"
      /\ \A u \in Thread : detach[u] = {}
      /\ req'[Sync] = req[Sync] /\ pc[Sync] # "best"
  <2>1. \A u \in Thread \ {t} : pc[u] = "idle"
    BY <1>0, OthersQuiet
  <2>2. t # Sync
    BY TipFacts
  <2> QED
    BY <1>0, <2>1, <2>2, TipFacts DEF PathOK, Busy
<1>2. crashes = 0 => \A b \in Chain[tip] : Sound(status, b)
  BY <1>0, <1>1 DEF ValidOK
<1>3. crashes = 0 =>
        /\ \A b \in Block : status[b] # {} => \A c \in Chain[b] : Stored(status, c)
        /\ \A b \in Block : status[b] # {} => Stored(status, b)
  BY <1>0 DEF HeldOK
<1>4. crashes = 0 => \A b \in Tips \cup {tip} : status[b] # {} /\ b \in Block
  <2>1. tip \in Chain[tip]
    BY <1>0, ChainSelf
  <2> QED
    BY <1>0, <1>2, <2>1 DEF Sound, KnownValid, Tips, InactiveTips, Indexed
<1>5. ASSUME Keeps(t), Rests PROVE TipInv'
  BY <1>0, <1>5, KeepsStep, RestsStep DEF TipInv
<1>6. ASSUME crashes = 0 => Stores(status, status') /\ Spares(status, status'),
             UNCHANGED <<lock, pc, op, queue, main, listVars>>
      PROVE  TipInv'
  <2>1. Keeps(t)
    BY <1>0, <1>1, <1>6, StayKeeps DEF listVars
  <2>2. Rests
    BY <1>0, <1>1, <1>6 DEF Rests
  <2> QED
    BY <1>5, <2>1, <2>2
<1>7. \A call, d, a : Reorganize(t, call, d, a) =>
        Goto(t, "reorg") /\ queue' = queue /\ pc'[Sync] # "best"
  BY <1>0, MoveRests DEF Reorganize
<1>8. CASE InvalidateSide(t, x)
  <2> DEFINE D == {n \in Above(x) : ~KnownInvalid(status, n)}
  <2>1. /\ x \notin Chain[tip] /\ status' = Invalidated(x, D)
        /\ UNCHANGED <<lock, pc, op, queue, main, listVars>>
    BY <1>8 DEF InvalidateSide, FlushIndex
  <2>2. D \in SUBSET Block /\ (D \cup {x}) \cap Chain[tip] = {}
    BY <1>0, <2>1, AboveType, AboveOff
  <2>3. crashes = 0 => \A b \in D \cup {x} : Stored(status, b)
    <3>1. crashes = 0 => \A b \in TipsOver(x) : \A c \in Chain[b] : Stored(status, c)
      BY <1>3, <1>4 DEF TipsOver
    <3>2. crashes = 0 => Stored(status, x)
      BY <1>0, <1>3 DEF Indexed
    <3> QED
      BY <3>1, <3>2 DEF Above
  <2> HIDE DEF D
  <2>4. crashes = 0 => Stores(status, status') /\ Spares(status, status')
    BY <1>0, <2>1, <2>2, <2>3, InvalidatedMarks DEF Spares
  <2> QED
    BY <1>6, <2>1, <2>4
<1>9. CASE InvalidateMain(t, x)
  <2> DEFINE D == {n \in Chain[tip] \ Chain[x] : ~KnownInvalid(status, n)}
  <2>1. /\ x \in Chain[tip] \ {Genesis} /\ status' = Invalidated(x, D)
        /\ IF tip \in D \cup {x}
           THEN Reorganize(t, "invalidate", D \cup {x}, {})
           ELSE UNCHANGED <<lock, pc, op, queue, main, listVars>>
    BY <1>9 DEF InvalidateMain, KeepDirty
  <2>2. /\ D \in SUBSET Chain[tip] /\ Chain[tip] \in SUBSET Block
        /\ Parent[x] \in Block /\ Chain[x] = Chain[Parent[x]] \cup {x}
        /\ x \notin Chain[Parent[x]] /\ Parent[x] \in Chain[tip]
    <3>1. /\ Parent[x] \in Block /\ Chain[x] = Chain[Parent[x]] \cup {x}
          /\ x \notin Chain[Parent[x]] /\ Parent[x] \in Chain[Parent[x]]
      BY <2>1, ParentFacts, ChainSelf
    <3>2. Chain[x] \subseteq Chain[tip]
      BY <1>0, <2>1, ChainDown
    <3> QED
      BY <1>0, <3>1, <3>2, ChainSelf
  <2>3. crashes = 0 => /\ D \cup {x} = Chain[tip] \ Chain[Parent[x]]
                       /\ tip \in D \cup {x}
    <3>1. crashes = 0 => D = Chain[tip] \ Chain[x]
      BY <1>2 DEF Sound
    <3>2. tip \in Chain[x] => tip = x
      <4>1. tip \in Chain[x] /\ tip # x => Height[tip] < Height[x] /\ Height[x] < Height[tip]
        BY <1>0, <2>1, ChainDown
      <4> QED
        BY <1>0, <4>1, ChainSelf
    <3>3. tip \in Chain[tip]
      BY <1>0, ChainSelf
    <3> HIDE DEF D
    <3> QED
      BY <3>1, <3>2, <3>3, <2>1, <2>2
  <2>4. crashes = 0 => \A b \in D \cup {x} : Stored(status, b)
    BY <1>2, <1>3, <2>1, <2>2 DEF Sound, KnownValid
  <2> HIDE DEF D
  <2>5. crashes = 0 => /\ Stores(status, status')
                       /\ \A b \in Chain[tip] : Sound(status, b) =>
                            Sound(status', b) \/ b \in D \cup {x}
    BY <1>0, <2>1, <2>2, <2>4, InvalidatedMarks
  <2>6. CASE tip \in D \cup {x}
    <3>1. crashes = 0 => Leads(tip, D \cup {x}, {})
      <4>1. Parent[x] \in Chain[Parent[x]] /\ {} = Chain[Parent[x]] \ Chain[Parent[x]]
        BY <2>2, ChainSelf
      <4> QED
        BY <4>1, <2>2, <2>3 DEF Leads
    <3>2. Keeps(t)
      BY <1>0, <1>1, <2>1, <2>5, <2>6, <3>1, ReorganizeKeeps
    <3>3. Rests
      BY <1>0, <1>1, <1>7, <2>1, <2>5, <2>6 DEF Rests
    <3> QED
      BY <1>5, <3>2, <3>3
  <2>7. CASE tip \notin D \cup {x}
    BY <1>6, <2>1, <2>3, <2>7
  <2> QED
    BY <2>6, <2>7
<1>10. CASE ReconsiderBlock(t, x)
  <2>1. crashes = 0 => Stores(status, Reconsidered(x)) /\ Spares(status, Reconsidered(x))
    BY <1>0, <1>3, ReconsideredMarks
  <2>2. CASE /\ status' = Reconsidered(x)
             /\ UNCHANGED <<lock, pc, op, queue, main, listVars>>
    BY <1>6, <2>1, <2>2
  <2>3. ASSUME NEW b \in TipsOver(x), ShouldChangeTip(tip, b), NEW D,
               ReorganizeTo(t, "reconsider", b, Reconsidered(x), D)
        PROVE  TipInv'
    <3>1. b \in Block /\ b \in Tips \cup {tip}
      BY <1>0, <2>3, TipsType DEF TipsOver
    <3>2. b \notin Chain[tip]
      BY <1>0, <2>3, <3>1, PreferredOff
    <3>3. crashes = 0 => \A n \in Chain[b] : Stored(Reconsidered(x), n)
      BY <1>3, <1>4, <2>1, <3>1, ChainSelf DEF Stores
    <3>4. Keeps(t) /\ (crashes = 0 => Stores(status, status'))
      BY <1>0, <1>1, <2>1, <2>3, <3>1, <3>2, <3>3, ReorganizeToKeeps
    <3>5. Rests
      <4>1. CASE Return(t)
        BY <1>0, <1>1, <3>4, <4>1, ReturnRests
      <4>2. CASE \E d, a : Reorganize(t, "reconsider", d, a)
        BY <1>0, <1>1, <1>7, <3>4, <4>2 DEF Rests
      <4> QED
        BY <2>3, <4>1, <4>2 DEF ReorganizeTo
    <3> QED
      BY <1>5, <3>4, <3>5
  <2>4. tip \in TipsOver(x) => {tip} \subseteq TipsOver(x)
    OBVIOUS
  <2> QED
    BY <1>10, <2>2, <2>3, <2>4 DEF ReconsiderBlock, KeepDirty
<1> QED
  BY <1>8, <1>9, <1>10

\* Every step preserves the invariant; a restart ends what is claimed of a
\* node that has not crashed.
LEMMA TipInvStep ==
  ASSUME ~Overlap, Inv, CoinInv, TipInv, [Next]_vars
  PROVE  TipInv'
<1>1. CASE UNCHANGED vars
  <2>1. UNCHANGED <<status, tip, orphans, pc, op, req, detach, attach, queue, crashes>>
    BY <1>1 DEF vars, indexVars, orphanVars, callVars, listVars, boundVars
  <2> QED
    BY <2>1 DEF TipInv, PathOK, ValidOK, HeldOK, Leads, Sound, Stored, KnownValid, KnownInvalid
<1>2. CASE Restart
  <2>1. /\ crashes' = crashes + 1 /\ crashes \in Nat /\ tip' = disk.tip /\ disk.tip \in Block
        /\ detach' = [t \in Thread |-> {}] /\ attach' = [t \in Thread |-> {}]
    BY <1>2 DEF Restart, Inv, TypeOK, DiskType
  <2>2. crashes' # 0
    BY <2>1
  <2>3. Leads(tip', {}, {})
    BY <2>1, EmptyLeads
  <2>4. PathOK'
    BY <2>1, <2>3 DEF PathOK, Leads
  <2> QED
    BY <2>2, <2>4 DEF TipInv, ValidOK, HeldOK
<1>3. CASE FlushUtxoCache
  <2>1. UNCHANGED <<status, tip, orphans, pc, op, req, detach, attach, queue, crashes>>
    BY <1>3 DEF FlushUtxoCache, indexVars, orphanVars, callVars, listVars, boundVars
  <2> QED
    BY <2>1 DEF TipInv, PathOK, ValidOK, HeldOK, Leads, Sound, Stored, KnownValid, KnownInvalid
<1>4. CASE SyncStep
  BY <1>4, BestTip, OrphanTip, StepTip, TipFacts DEF SyncStep
<1>5. ASSUME NEW t \in Rpcs, RpcStep(t) PROVE TipInv'
  BY <1>5, RpcTip, StepTip, TipFacts DEF RpcStep
<1> QED
  BY <1>1, <1>2, <1>3, <1>4, <1>5, ProcessTip, StartTip DEF Next

\* The initial state satisfies it.
LEMMA InitTip ==
  ASSUME Init
  PROVE  TipInv
<1>0. Sync \in Thread /\ Genesis \in Block /\ Chain[Genesis] = {Genesis}
  BY BlockAssumption, NodeAssumption DEF Thread
<1>1. PathOK
  BY <1>0, EmptyLeads DEF Init, PathOK
<1>2. ValidOK
  BY <1>0 DEF Init, ValidOK, Sound, KnownValid, KnownInvalid
<1>3. \A b \in Block : Stored(status, b) <=> b = Genesis
  BY <1>0 DEF Init, Stored
<1>4. \A b \in Block : status[b] # {} => Stored(status, b)
  BY <1>0 DEF Init, Stored
<1>5. HeldOK
  BY <1>0, <1>3, <1>4 DEF Init, HeldOK
<1> QED
  BY <1>1, <1>2, <1>5 DEF TipInv

\* TipInv is an invariant of the chain when calls do not overlap.
THEOREM TipInvAlways ==
  ASSUME ~Overlap
  PROVE  Spec => []TipInv
<1>1. Init => TipInv
  BY InitTip
<1>2. Inv /\ CoinInv /\ TipInv /\ [Next]_vars => TipInv'
  BY TipInvStep
<1> QED
  BY <1>1, <1>2, InvAlways, CoinInvAlways, PTL DEF Spec

\* When calls do not overlap, the lists that reorganizeChain works through
\* always start at the tip and meet at the fork, so that none of its
\* AssertErrors can occur; after a crash, InvalidateBlock's may not.
THEOREM ListsStayInSync ==
  ASSUME ~Overlap
  PROVE  Spec => []ListsInSync
<1>1. ASSUME Inv, TipInv PROVE ListsInSync
  <2>1. SUFFICES ASSUME NEW t \in Thread, crashes = 0 \/ op[t] # "invalidate"
                 PROVE  /\ detach[t] # {} => Highest(detach[t]) = tip
                        /\ detach[t] = {} /\ attach[t] # {} => Parent[Lowest(attach[t])] = tip
                        /\ detach[t] # {} /\ attach[t] # {} =>
                             Parent[Lowest(attach[t])] = Parent[Lowest(detach[t])]
    BY DEF ListsInSync
  <2>2. tip \in Block /\ Leads(tip, detach[t], attach[t])
    BY <1>1, <2>1, TipFacts DEF TipInv, PathOK
  <2>3. PICK d, a : d = detach[t] /\ a = attach[t]
    OBVIOUS
  <2>4. Leads(tip, d, a)
    BY <2>2, <2>3
  <2>5. d # {} => Highest(d) = tip /\ (a # {} => Parent[Lowest(a)] = Parent[Lowest(d)])
    BY <2>2, <2>4, LeadsDown
  <2>6. d = {} /\ a # {} => Parent[Lowest(a)] = tip
    BY <2>2, <2>4, LeadsUp
  <2> QED
    BY <2>3, <2>5, <2>6
<1> QED
  BY <1>1, InvAlways, TipInvAlways, PTL

\* When calls do not overlap and the node has not crashed, every block of the
\* best chain is known to be valid, and none to be invalid, between calls:
\* InvalidateBlock and ReconsiderBlock never leave a block they marked on it.
THEOREM BestChainStaysValid ==
  ASSUME ~Overlap
  PROVE  Spec => []BestChainValid
<1>1. ASSUME TipInv PROVE BestChainValid
  BY <1>1 DEF TipInv, PathOK, ValidOK, BestChainValid, Quiet, Busy, Sound
<1> QED
  BY <1>1, TipInvAlways, PTL

-----------------------------------------------------------------------------
(* A node that was never asked to invalidate a block: order of arrival       *)

\* The node has not crashed, and no RPC has changed its chain.
Fresh == rpcs = 0 /\ crashes = 0

\* No block of b's chain breaks a rule.
Lawful(b) == Chain[b] \cap BadBlock = {}

\* The policy does not prefer b to g by a quarter of b's own work.
Near(b, g) == WorkSum[b] <= WorkSum[g] \/ WorkSum[b] - WorkSum[g] < Work[b] \div 4

\* d and a lead from top to g.
Heads(top, d, a, g) ==
  \E f \in Chain[top] :
    /\ f \in Chain[g]
    /\ d = Chain[top] \ Chain[f]
    /\ a = Chain[g] \ Chain[f]

\* g is as good as every lawful block of the index but the one that
\* connectBestChain is about to look at.
Covers(g) == \A b \in Block :
  Indexed(b) /\ Lawful(b) /\ ~(pc[Sync] = "best" /\ b = req[Sync]) => Near(b, g)

\* Only the checks of a block, or of one below it, made it invalid.
MarkedOK == \A b \in Block : KnownInvalid(status, b) => ~Lawful(b)

\* What ProcessBlock has reached, or is reorganizing to, is near the best.
GoalOK == \E g \in Block : Heads(tip, detach[Sync], attach[Sync], g) /\ Covers(g)

RpcsIdle == \A t \in Rpcs : pc[t] = "idle"

BestOK  == RpcsIdle /\ MarkedOK /\ GoalOK
BestInv == Fresh => BestOK

\* Lists of no block lead to the tip.
LEMMA EmptyHeads ==
  ASSUME NEW top \in Block
  PROVE  /\ Heads(top, {}, {}, top)
         /\ \A g \in Block : Heads(top, {}, {}, g) => g = top
<1>1. top \in Chain[top] /\ {} = Chain[top] \ Chain[top]
  BY ChainSelf
<1>2. ASSUME NEW g \in Block, Heads(top, {}, {}, g) PROVE g = top
  <2>1. PICK f \in Chain[top] : /\ f \in Chain[g]
                                /\ {} = Chain[top] \ Chain[f]
                                /\ {} = Chain[g] \ Chain[f]
    BY <1>2 DEF Heads
  <2>2. f \in Block /\ top \in Chain[f] /\ g \in Chain[f]
    BY <2>1, ChainSelf
  <2>3. Height[f] \in Nat /\ Height[top] \in Nat /\ Height[g] \in Nat
    BY <2>2, ChainSelf
  <2>4. /\ top # f => Height[top] < Height[f] /\ Height[f] < Height[top]
        /\ g # f => Height[g] < Height[f] /\ Height[f] < Height[g]
    BY <2>1, <2>2, ChainDown
  <2> QED
    BY <2>3, <2>4
<1> QED
  BY <1>1, <1>2 DEF Heads

\* disconnectBlock and connectBlock do not change where the lists lead.
LEMMA HeadsOn ==
  ASSUME NEW top \in Block, NEW d, NEW a, NEW g \in Block, Heads(top, d, a, g)
  PROVE  /\ d # {} => Heads(Parent[top], d \ {top}, a, g)
         /\ d = {} /\ a # {} => Heads(Lowest(a), {}, a \ {Lowest(a)}, g)
<1>1. PICK f \in Chain[top] : /\ f \in Chain[g]
                              /\ d = Chain[top] \ Chain[f]
                              /\ a = Chain[g] \ Chain[f]
  BY DEF Heads
<1>2. ASSUME d # {} PROVE Heads(Parent[top], d \ {top}, a, g)
  <2>1. f \in Chain[Parent[top]] /\ d \ {top} = Chain[Parent[top]] \ Chain[f]
    BY <1>1, <1>2, DetachTop
  <2> QED
    BY <1>1, <2>1 DEF Heads
<1>3. ASSUME d = {}, a # {} PROVE Heads(Lowest(a), {}, a \ {Lowest(a)}, g)
  <2>1. PICK n : n = Lowest(a)
    OBVIOUS
  <2>2. n \in Chain[g] /\ a \ {n} = Chain[g] \ Chain[n]
    BY <1>1, <1>3, <2>1, AttachBottom
  <2>3. n \in Block /\ n \in Chain[n] /\ {} = Chain[n] \ Chain[n]
    BY <2>2, ChainSelf
  <2>4. Heads(n, {}, a \ {n}, g)
    BY <2>2, <2>3 DEF Heads
  <2> QED
    BY <2>1, <2>4
<1> QED
  BY <1>2, <1>3

\* getReorganizeNodes of b returns lists that lead to b.
LEMMA BranchHeads ==
  ASSUME tip \in Block, NEW b \in Block
  PROVE  Heads(tip, Chain[tip] \ Chain[b], Branch(b), b)
<1> DEFINE f == FindFork(tip, b)
<1>1. f \in Chain[tip] /\ f \in Chain[b] /\ Chain[tip] \cap Chain[b] = Chain[f]
  BY ForkExists
<1> HIDE DEF f
<1>2. Chain[tip] \ Chain[b] = Chain[tip] \ Chain[f] /\ Branch(b) = Chain[b] \ Chain[f]
  BY <1>1 DEF Branch
<1> QED
  BY <1>1, <1>2 DEF Heads

\* Nothing is ahead of a block with more work that was not ahead before.
LEMMA NearGrows ==
  ASSUME NEW b \in Block, NEW g \in Block, NEW h \in Block, Near(b, g), WorkSum[g] <= WorkSum[h]
  PROVE  Near(b, h)
<1> DEFINE q == Work[b] \div 4
<1>1. /\ WorkSum[b] \in Nat /\ WorkSum[g] \in Nat /\ WorkSum[h] \in Nat /\ Work[b] \in Nat
  BY BlockAssumption, NodeAssumption
<1>2. q \in Int
  BY <1>1
<1>3. WorkSum[b] <= WorkSum[g] \/ WorkSum[b] - WorkSum[g] < q
  BY DEF Near
<1> HIDE DEF q
<1>4. WorkSum[b] <= WorkSum[h] \/ WorkSum[b] - WorkSum[h] < q
  BY <1>1, <1>2, <1>3
<1> QED
  BY <1>4 DEF Near, q

\* A block the policy does not change the tip for is near the tip.
LEMMA KeptNear ==
  ASSUME NEW b \in Block, NEW g \in Block, ~ShouldChangeTip(g, b)
  PROVE  Near(b, g)
<1> DEFINE m == IF Work[b] < Work[g] THEN Work[b] ELSE Work[g]
<1>1. /\ WorkSum[b] \in Nat /\ WorkSum[g] \in Nat /\ Work[b] \in Nat /\ Work[g] \in Nat
  BY BlockAssumption, NodeAssumption
<1>2. m \in Nat /\ m <= Work[b]
  BY <1>1
<1>3. ~(WorkSum[g] < WorkSum[b]) \/ ~(WorkSum[b] - WorkSum[g] >= m \div 4)
  BY DEF ShouldChangeTip
<1> HIDE DEF m
<1>4. m \div 4 <= Work[b] \div 4 /\ m \div 4 \in Nat /\ Work[b] \div 4 \in Nat
  BY <1>1, <1>2
<1> QED
  BY <1>1, <1>3, <1>4 DEF Near

\* A goal with no less work covers what the old one covered.
LEMMA CoversOn ==
  ASSUME NEW g \in Block, NEW h \in Block, Covers(g), WorkSum[g] <= WorkSum[h],
         \A b \in Block :
           /\ status'[b] # {} /\ Lawful(b) /\ ~(pc'[Sync] = "best" /\ b = req'[Sync])
           => Near(b, h) \/ (status[b] # {} /\ ~(pc[Sync] = "best" /\ b = req[Sync]))
  PROVE  Covers(h)'
<1>1. ASSUME NEW b \in Block, status'[b] # {}, Lawful(b),
             ~(pc'[Sync] = "best" /\ b = req'[Sync])
      PROVE  Near(b, h)
  <2>1. Near(b, h) \/ Near(b, g)
    BY <1>1 DEF Covers, Indexed
  <2> QED
    BY <2>1, NearGrows
<1> QED
  BY <1>1 DEF Covers, Indexed, Lawful, Near

\* What a block above an unlawful one is.
LEMMA AboveUnlawful ==
  ASSUME NEW b \in Block, NEW n \in Chain[b], ~Lawful(n)
  PROVE  ~Lawful(b)
BY ChainDown DEF Lawful

\* While BestOK is to be kept, Sync moves and the RPC threads stay idle.
LEMMA SyncMoves ==
  ASSUME Inv, RpcsIdle, NEW label, Goto(Sync, label)
  PROVE  pc'[Sync] = label /\ RpcsIdle'
BY TipFacts DEF Goto, RpcsIdle

\* Outside reorganizeChain the goal is the tip.
LEMMA TipGoal ==
  ASSUME Inv, PathOK, GoalOK, detach[Sync] = {}, attach[Sync] = {}
  PROVE  Covers(tip)
BY TipFacts, EmptyHeads DEF GoalOK

\* Where the lists stay or are emptied, and where the same blocks are indexed
\* and none but an unlawful one is marked, the goal stays.
LEMMA SameGoal ==
  ASSUME Inv, BestOK, RpcsIdle', tip' = tip, req'[Sync] = req[Sync],
         detach'[Sync] = detach[Sync], attach'[Sync] = attach[Sync],
         \A b \in Block : /\ status'[b] # {} => status[b] # {}
                          /\ KnownInvalid(status', b) => KnownInvalid(status, b) \/ ~Lawful(b),
         pc'[Sync] # "best",
         pc[Sync] = "best" => Near(req[Sync], tip) \/ ~Lawful(req[Sync]),
         pc[Sync] = "best" => detach[Sync] = {} /\ attach[Sync] = {}
  PROVE  BestOK'
<1>1. PICK g \in Block : Heads(tip, detach[Sync], attach[Sync], g) /\ Covers(g)
  BY DEF BestOK, GoalOK
<1>2. ASSUME pc[Sync] = "best" PROVE g = tip
  <2>1. tip \in Block /\ Heads(tip, {}, {}, g)
    BY <1>1, <1>2, TipFacts
  <2> QED
    BY <2>1, EmptyHeads
<1>3. WorkSum[g] <= WorkSum[g]
  BY NodeAssumption
<1>4. Covers(g)'
  BY <1>1, <1>2, <1>3, CoversOn
<1>5. GoalOK'
  BY <1>1, <1>4 DEF GoalOK, Heads
<1>6. MarkedOK'
  BY DEF BestOK, MarkedOK, KnownInvalid, Lawful
<1> QED
  BY <1>5, <1>6 DEF BestOK

\* A reorganization to a block with more work makes it the goal.
LEMMA NewGoal ==
  ASSUME Inv, BestOK, RpcsIdle', tip' = tip, req'[Sync] = req[Sync],
         detach[Sync] = {}, attach[Sync] = {}, NEW b \in Block, b = req[Sync],
         Heads(tip, detach'[Sync], attach'[Sync], b), WorkSum[tip] <= WorkSum[b],
         \A c \in Block : /\ status'[c] # {} => status[c] # {}
                          /\ KnownInvalid(status', c) => KnownInvalid(status, c) \/ ~Lawful(c)
  PROVE  BestOK'
<1>1. Covers(tip) /\ tip \in Block
  BY TipFacts, EmptyHeads DEF BestOK, GoalOK
<1>2. Near(b, b)
  BY NodeAssumption DEF Near
<1>3. Covers(b)'
  BY <1>1, <1>2, CoversOn
<1>4. GoalOK'
  BY <1>3 DEF GoalOK, Heads
<1>5. MarkedOK'
  BY DEF BestOK, MarkedOK, KnownInvalid, Lawful
<1> QED
  BY <1>4, <1>5 DEF BestOK

\* maybeAcceptBlock: the new block is left to connectBestChain.
LEMMA AcceptBest ==
  ASSUME Inv, PathOK, BestOK, pc[Sync] \notin Busy, pc[Sync] # "best", tip' = tip,
         NEW b \in Block, Accept(b)
  PROVE  BestOK'
<1>0. /\ detach[Sync] = {} /\ attach[Sync] = {} /\ Sync \in Thread /\ tip \in Block
      /\ status \in [Block -> SUBSET Flag] /\ RpcsIdle /\ MarkedOK /\ req \in [Thread -> Block]
  BY TipFacts DEF PathOK, BestOK
<1>1. CASE Return(Sync) /\ UNCHANGED <<req, indexVars>>
  <2>1. /\ pc'[Sync] = "idle" /\ RpcsIdle' /\ status' = status
        /\ detach'[Sync] = {} /\ attach'[Sync] = {}
    BY <1>0, <1>1, SyncMoves DEF Return, Unlocked, indexVars, Inv, TypeOK, CallType
  <2> QED
    BY <1>0, <1>1, <2>1, SameGoal
<1>2. CASE /\ status' = [status EXCEPT ![b] = {"stored"}] /\ Goto(Sync, "best")
           /\ req' = [req EXCEPT ![Sync] = b] /\ UNCHANGED listVars
  <2>1. /\ pc'[Sync] = "best" /\ RpcsIdle' /\ req'[Sync] = b
        /\ detach'[Sync] = {} /\ attach'[Sync] = {}
    BY <1>0, <1>2, SyncMoves DEF listVars
  <2>2. /\ status'[b] = {"stored"} /\ \A c \in Block : c # b => status'[c] = status[c]
    BY <1>0, <1>2
  <2>3. Covers(tip)
    BY <1>0, TipGoal DEF BestOK
  <2>4. WorkSum[tip] <= WorkSum[tip]
    BY <1>0, NodeAssumption
  <2>5. Covers(tip)'
    <3>1. PICK g \in Block : g = tip
      BY <1>0
    <3>2. Covers(g)'
      BY <3>1, <2>1, <2>2, <2>3, <2>4, CoversOn
    <3> QED
      BY <3>1, <3>2 DEF Covers
  <2>6. GoalOK'
    BY <1>0, <2>1, <2>5, EmptyHeads DEF GoalOK, Heads
  <2>7. MarkedOK'
    BY <1>0, <2>2 DEF MarkedOK, KnownInvalid, Lawful
  <2> QED
    BY <2>1, <2>6, <2>7 DEF BestOK
<1> QED
  BY <1>1, <1>2 DEF Accept

\* getReorganizeNodes marks no lawful block, and refuses none.
LEMMA TaintedUnlawful ==
  ASSUME tip \in Block, NEW b \in Block, b # Genesis, MarkedOK, Refused(status, b)
  PROVE  ~Lawful(b) /\ \A n \in Tainted(status, b) : n \in Block /\ ~Lawful(n)
<1>0. /\ Parent[b] \in Chain[b] /\ Parent[b] \in Block /\ Branch(b) \subseteq Chain[b]
      /\ Chain[b] \in SUBSET Block
  <2>1. Parent[b] \in Chain[Parent[b]] /\ Parent[b] \in Block
    BY ParentFacts, ChainSelf
  <2> QED
    BY <2>1, ParentFacts DEF Branch
<1>1. PICK n \in Chain[b] : n \in Branch(b) \cup {Parent[b]} /\ KnownInvalid(status, n)
  BY <1>0 DEF Refused
<1>2. ~Lawful(b)
  BY <1>0, <1>1, AboveUnlawful DEF MarkedOK
<1>3. CASE KnownInvalid(status, Parent[b])
  BY <1>2, <1>3 DEF Tainted
<1>4. CASE ~KnownInvalid(status, Parent[b])
  <2> DEFINE S == {m \in Branch(b) : KnownInvalid(status, m)}
             c == Highest(S)
  <2>1. S \in SUBSET Chain[b] /\ S # {}
    BY <1>0, <1>1, <1>4
  <2>2. c \in S
    BY <2>1, HighestExists
  <2>3. Tainted(status, b) = {m \in Branch(b) : Height[m] > Height[c]}
    BY <1>4 DEF Tainted
  <2> HIDE DEF c
  <2>4. c \in Chain[b] /\ c \in Block /\ ~Lawful(c)
    BY <2>2, <1>0 DEF MarkedOK
  <2>5. ASSUME NEW m \in Branch(b), Height[m] > Height[c] PROVE m \in Block /\ ~Lawful(m)
    <3>1. m \in Chain[b] /\ m \in Block /\ Height[m] \in Nat /\ Height[c] \in Nat
      BY <1>0, <2>4, ChainSelf
    <3>2. c \in Chain[m]
      BY <3>1, <2>4, <2>5, ChainLinear
    <3> QED
      BY <3>1, <3>2, <2>4, AboveUnlawful
  <2> QED
    BY <1>2, <2>3, <2>5
<1> QED
  BY <1>3, <1>4

\* Neither does verifyReorganizationValidity, and it fails no lawful block.
LEMMA VerifiedUnlawful ==
  ASSUME tip \in Block, NEW b \in Block
  PROVE  /\ Failing(status, b) # {} => ~Lawful(b)
         /\ \A n \in Block : KnownInvalid(Verified(status, b).st, n) =>
              KnownInvalid(status, n) \/ ~Lawful(n)
<1>0. Branch(b) \subseteq Chain[b] /\ Chain[b] \in SUBSET Block
  BY ChainSelf DEF Branch
<1>1. CASE Failing(status, b) = {}
  <2>1. Verified(status, b).st = SetFlag(status, Branch(b), "valid")
    BY <1>1 DEF Verified
  <2>2. \A n \in Block : KnownInvalid(Verified(status, b).st, n) => KnownInvalid(status, n)
    BY <2>1 DEF SetFlag, KnownInvalid
  <2> QED
    BY <1>1, <2>2
<1>2. CASE Failing(status, b) # {}
  <2> DEFINE f     == Lowest(Failing(status, b))
             below == {n \in Branch(b) : Height[n] < Height[f]}
             above == {n \in Branch(b) : Height[n] > Height[f]}
  <2>1. Failing(status, b) \in SUBSET Block
    BY <1>0 DEF Failing
  <2>2. f \in Failing(status, b)
    BY <1>2, <2>1, LowestExists
  <2>3. f \in Branch(b) /\ f \in BadBlock
    BY <2>2 DEF Failing
  <2>4. Verified(status, b).st =
          SetFlag(SetFlag(SetFlag(status, below, "valid"), {f}, "failed"), above, "invalidAncestor")
    BY <1>2 DEF Verified
  <2> HIDE DEF f
  <2>5. f \in Chain[b] /\ f \in Block /\ ~Lawful(f) /\ ~Lawful(b)
    <3>1. f \in Chain[b] /\ f \in Block
      BY <1>0, <2>3
    <3>2. f \in Chain[f]
      BY <3>1, ChainSelf
    <3> QED
      BY <3>1, <3>2, <2>3 DEF Lawful
  <2>6. ASSUME NEW n \in above PROVE ~Lawful(n)
    <3>1. n \in Chain[b] /\ n \in Block /\ Height[n] \in Nat /\ Height[f] \in Nat
      BY <1>0, <2>5, ChainSelf
    <3>2. f \in Chain[n]
      BY <3>1, <2>5, <2>6, ChainLinear
    <3> QED
      BY <3>1, <3>2, <2>5, AboveUnlawful
  <2> HIDE DEF above, below
  <2>7. \A n \in Block : KnownInvalid(Verified(status, b).st, n) =>
                           KnownInvalid(status, n) \/ n = f \/ n \in above
    BY <2>4 DEF SetFlag, KnownInvalid
  <2> QED
    BY <2>5, <2>6, <2>7
<1> QED
  BY <1>1, <1>2

\* Marks on stored blocks index none.
LEMMA StoresIndexed ==
  ASSUME HeldOK, crashes = 0, NEW st, Stores(status, st)
  PROVE  \A b \in Block : st[b] # {} => status[b] # {}
BY DEF HeldOK, Stores, Stored

\* Without a crash no step of reorganizeChain fails.
LEMMA StepShape ==
  ASSUME Inv, CoinInv, TipInv, crashes = 0, NEW t \in Thread, Step(t)
  PROVE  /\ UNCHANGED <<status, op, req, queue, orphans>>
         /\ pc[t] \in Busy
         /\ \E label \in Busy : Goto(t, label)
         /\ \/ UNCHANGED <<tip, detach, attach>>
            \/ /\ detach[t] # {} /\ tip' = Parent[tip] /\ attach' = attach
               /\ detach' = [detach EXCEPT ![t] = @ \ {tip}]
            \/ /\ detach[t] = {} /\ attach[t] # {} /\ tip' = Lowest(attach[t])
               /\ attach' = [attach EXCEPT ![t] = @ \ {Lowest(attach[t])}]
               /\ detach' = detach
<1>0. Leads(tip, detach[t], attach[t]) /\ tip \in Block
  BY TipFacts DEF TipInv, PathOK
<1>1. CASE DisconnectBlock(t)
  <2>1. detach[t] # {} /\ pc[t] = "reorg"
    BY <1>1 DEF DisconnectBlock, Holds
  <2>2. Highest(detach[t]) = tip
    BY <1>0, <2>1, LeadsDown
  <2> QED
    BY <1>1, <2>1, <2>2
       DEF DisconnectBlock, FlushIndex, callVars, listVars, orphanVars, Busy
<1>2. CASE ConnectBlock(t)
  <2> DEFINE n == Lowest(attach[t])
  <2>1. lock = t /\ pc[t] = "reorg" /\ detach[t] = {} /\ attach[t] # {}
    BY <1>2 DEF ConnectBlock, Holds
  <2>2. Parent[n] = tip
    BY <2>1, AttachNext
  <2>3. utxo = Chain[tip]
    BY <2>1, OneConnecting DEF CoinInv, CoinsMatchTip
  <2>4. /\ status' = status /\ Goto(t, "commit")
        /\ UNCHANGED <<tip, req, op, queue, detach, attach, orphans>>
    BY <1>2, <2>2, <2>3 DEF ConnectBlock, FlushIndex, callVars, listVars, orphanVars
  <2> QED
    BY <2>1, <2>4 DEF Busy
<1>3. CASE Notified(t)
  BY <1>3 DEF Notified, Relock, indexVars, callVars, orphanVars, Busy
<1>4. CASE CommitDisconnect(t)
  <2>1. pc[t] = "commit" /\ detach[t] # {} /\ Highest(detach[t]) = tip
    BY <1>4 DEF CommitDisconnect, Holds, Inv, CommitOK
  <2> QED
    BY <1>4, <2>1 DEF CommitDisconnect, Unlocked, indexVars, callVars, orphanVars, Busy
<1>5. CASE CommitConnect(t)
  <2>1. pc[t] = "commit" /\ detach[t] = {} /\ attach[t] # {}
    BY <1>5 DEF CommitConnect, Holds, Inv, CommitOK
  <2> QED
    BY <1>5, <2>1 DEF CommitConnect, Unlocked, indexVars, callVars, orphanVars, Busy
<1> QED
  BY <1>1, <1>2, <1>3, <1>4, <1>5 DEF Step

\* The steps of reorganizeChain lead to the goal.
LEMMA StepBest ==
  ASSUME Inv, CoinInv, TipInv, crashes = 0, BestOK, Step(Sync)
  PROVE  BestOK'
<1>0. /\ Sync \in Thread /\ tip \in Block /\ RpcsIdle /\ MarkedOK
      /\ detach \in [Thread -> SUBSET Block] /\ attach \in [Thread -> SUBSET Block]
  BY TipFacts DEF BestOK, Inv, TypeOK, CallType
<1>1. /\ UNCHANGED <<status, op, req, queue, orphans>>
      /\ pc[Sync] \in Busy
      /\ \E label \in Busy : Goto(Sync, label)
      /\ \/ UNCHANGED <<tip, detach, attach>>
         \/ /\ detach[Sync] # {} /\ tip' = Parent[tip] /\ attach' = attach
            /\ detach' = [detach EXCEPT ![Sync] = @ \ {tip}]
         \/ /\ detach[Sync] = {} /\ attach[Sync] # {} /\ tip' = Lowest(attach[Sync])
            /\ attach' = [attach EXCEPT ![Sync] = @ \ {Lowest(attach[Sync])}]
            /\ detach' = detach
  BY <1>0, StepShape
<1>2. RpcsIdle' /\ pc'[Sync] # "best"
  BY <1>0, <1>1, SyncMoves DEF Busy
<1>3. PICK g \in Block : Heads(tip, detach[Sync], attach[Sync], g) /\ Covers(g)
  BY DEF BestOK, GoalOK
<1>4. /\ detach[Sync] # {} => Heads(Parent[tip], detach[Sync] \ {tip}, attach[Sync], g)
      /\ detach[Sync] = {} /\ attach[Sync] # {} =>
           Heads(Lowest(attach[Sync]), {}, attach[Sync] \ {Lowest(attach[Sync])}, g)
  BY <1>0, <1>3, HeadsOn
<1>5. Heads(tip', detach'[Sync], attach'[Sync], g)
  <2>1. CASE UNCHANGED <<tip, detach, attach>>
    BY <1>3, <2>1
  <2>2. CASE /\ detach[Sync] # {} /\ tip' = Parent[tip] /\ attach' = attach
             /\ detach' = [detach EXCEPT ![Sync] = @ \ {tip}]
    BY <1>0, <1>4, <2>2
  <2>3. CASE /\ detach[Sync] = {} /\ attach[Sync] # {} /\ tip' = Lowest(attach[Sync])
             /\ attach' = [attach EXCEPT ![Sync] = @ \ {Lowest(attach[Sync])}]
             /\ detach' = detach
    BY <1>0, <1>4, <2>3
  <2> QED
    BY <1>1, <2>1, <2>2, <2>3
<1>6. WorkSum[g] <= WorkSum[g]
  BY NodeAssumption
<1>7. Covers(g)'
  BY <1>1, <1>2, <1>3, <1>6, CoversOn DEF Busy
<1>8. GoalOK'
  BY <1>5, <1>7 DEF GoalOK, Heads
<1>9. MarkedOK'
  BY <1>0, <1>1 DEF MarkedOK, KnownInvalid, Lawful
<1> QED
  BY <1>2, <1>8, <1>9 DEF BestOK

\* connectBestChain: a lawful block that has more work by the policy's
\* threshold becomes the goal, and any other is near it.
LEMMA ChooseBest ==
  ASSUME Inv, TipInv, crashes = 0, BestOK, ExtendTip \/ RejectTip \/ KeepTip \/ SwitchTip
  PROVE  BestOK'
<1> DEFINE b == req[Sync]
<1>0. /\ PathOK /\ HeldOK /\ Sync \in Thread /\ tip \in Block /\ RpcsIdle /\ MarkedOK
      /\ b \in Block /\ pc[Sync] = "best" /\ UNCHANGED <<tip, req>>
      /\ detach \in [Thread -> SUBSET Block] /\ attach \in [Thread -> SUBSET Block]
  BY TipFacts DEF TipInv, BestOK, ExtendTip, RejectTip, KeepTip, SwitchTip, Holds, Inv, TypeOK,
                  CallType
<1>1. b # Genesis /\ detach[Sync] = {} /\ attach[Sync] = {}
  BY <1>0 DEF Inv, ListsOK, PathOK, Busy
<1>2. /\ \A n \in Chain[b] : Stored(status, n)
      /\ Stored(status, b)
  BY <1>0 DEF HeldOK
<1>3. /\ Return(Sync) => /\ pc'[Sync] = "idle" /\ RpcsIdle'
                         /\ detach'[Sync] = {} /\ attach'[Sync] = {}
      /\ Accepted(TRUE) \/ Accepted(FALSE) =>
           /\ pc'[Sync] = "accepted" /\ RpcsIdle'
           /\ detach'[Sync] = {} /\ attach'[Sync] = {}
      /\ \A call, d, a : Reorganize(Sync, call, d, a) =>
           /\ pc'[Sync] = "reorg" /\ RpcsIdle' /\ detach'[Sync] = d /\ attach'[Sync] = a
  BY <1>0, <1>1, SyncMoves DEF Return, Accepted, Reorganize, Unlocked, listVars
<1>4. ASSUME Stores(status, status') PROVE \A c \in Block : status'[c] # {} => status[c] # {}
  BY <1>0, <1>4, StoresIndexed
<1>5. ASSUME Return(Sync) \/ Accepted(TRUE) \/ Accepted(FALSE), Stores(status, status'),
             \A c \in Block : KnownInvalid(status', c) => KnownInvalid(status, c) \/ ~Lawful(c),
             Near(b, tip) \/ ~Lawful(b)
      PROVE  BestOK'
  BY <1>0, <1>1, <1>3, <1>4, <1>5, SameGoal
<1>6. ASSUME NEW call, NEW d, NEW a, Reorganize(Sync, call, d, a), Stores(status, status'),
             \A c \in Block : KnownInvalid(status', c) => KnownInvalid(status, c) \/ ~Lawful(c),
             Heads(tip, d, a, b), WorkSum[tip] <= WorkSum[b]
      PROVE  BestOK'
  <2>1. RpcsIdle' /\ Heads(tip, detach'[Sync], attach'[Sync], b)
    BY <1>3, <1>6
  <2> QED
    BY <2>1, <1>0, <1>1, <1>4, <1>6, NewGoal
<1>7. CASE ExtendTip
  <2>1. /\ Parent[b] = tip /\ status' = SetFlag(status, {b}, "valid")
        /\ Reorganize(Sync, "extend", {}, {b})
    BY <1>7 DEF ExtendTip, FlushIndex
  <2>2. Stores(status, status')
    BY <2>1, <1>0, <1>2, SetMarks
  <2>3. \A c \in Block : KnownInvalid(status', c) => KnownInvalid(status, c)
    BY <2>1 DEF KnownInvalid, SetFlag
  <2>4. Heads(tip, {}, {b}, b)
    <3>1. /\ tip \in Chain[tip] /\ tip \in Chain[b] /\ {b} = Chain[b] \ Chain[tip]
          /\ {} = Chain[tip] \ Chain[tip]
      BY <2>1, <1>0, <1>1, ParentFacts, ChainSelf
    <3> QED
      BY <3>1 DEF Heads
  <2>5. WorkSum[tip] <= WorkSum[b]
    BY <2>1, <1>0, <1>1, BlockAssumption, NodeAssumption
  <2> QED
    BY <2>1, <2>2, <2>3, <2>4, <2>5, <1>6
<1>8. CASE RejectTip
  <2>1. b \in BadBlock /\ status' = SetFlag(status, {b}, "failed") /\ Return(Sync)
    BY <1>8 DEF RejectTip, FlushIndex
  <2>2. Stores(status, status')
    BY <2>1, <1>0, <1>2, SetMarks
  <2>3. ~Lawful(b)
    BY <2>1, <1>0, ChainSelf DEF Lawful
  <2>4. \A c \in Block : KnownInvalid(status', c) => KnownInvalid(status, c) \/ c = b
    BY <2>1 DEF KnownInvalid, SetFlag
  <2> QED
    BY <2>1, <2>2, <2>3, <2>4, <1>5
<1>9. CASE KeepTip
  <2>1. Accepted(FALSE) /\ status' = status /\ ~ShouldChangeTip(tip, b)
    BY <1>9 DEF KeepTip, indexVars
  <2>2. Near(b, tip)
    BY <2>1, <1>0, KeptNear
  <2> QED
    BY <2>1, <2>2, <1>5 DEF Stores
<1>10. CASE SwitchTip
  <2>1. WorkSum[tip] < WorkSum[b] /\ b \notin Chain[tip] /\ ShouldChangeTip(tip, b)
    BY <1>0, <1>10, PreferredOff DEF SwitchTip, ShouldChangeTip
  <2> DEFINE T == Tainted(status, b)
             v == Verified(status, b)
  <2>2. CASE Refused(status, b) /\ status' = SetFlag(status, T, "invalidAncestor") /\ Accepted(TRUE)
    <3>1. ~Lawful(b) /\ \A n \in T : ~Lawful(n)
      BY <2>2, <1>0, <1>1, TaintedUnlawful
    <3>2. Stores(status, SetFlag(status, T, "invalidAncestor"))
      BY <1>0, <1>2, <2>1, TaintedMarks
    <3> HIDE DEF T
    <3>3. \A c \in Block : KnownInvalid(status', c) => KnownInvalid(status, c) \/ c \in T
      BY <2>2 DEF KnownInvalid, SetFlag
    <3> QED
      BY <2>2, <3>1, <3>2, <3>3, <1>5
  <2>3. /\ Stores(status, v.st)
        /\ Failing(status, b) # {} => ~Lawful(b)
        /\ \A n \in Block : KnownInvalid(v.st, n) => KnownInvalid(status, n) \/ ~Lawful(n)
    <3>1. \A n \in Branch(b) : Stored(status, n)
      BY <1>2 DEF Branch
    <3>2. Stores(status, v.st)
      BY <1>0, <3>1, VerifiedMarks
    <3> QED
      BY <1>0, <3>2, VerifiedUnlawful
  <2> HIDE DEF v
  <2>4. CASE Failing(status, b) # {} /\ status' = v.st /\ Return(Sync)
    BY <2>3, <2>4, <1>5
  <2>5. CASE status' = v.st /\ Reorganize(Sync, "process", Chain[tip] \ Chain[b], Branch(b))
    <3>1. Heads(tip, Chain[tip] \ Chain[b], Branch(b), b)
      BY <1>0, BranchHeads
    <3>2. WorkSum[tip] <= WorkSum[b]
      BY <2>1, <1>0, NodeAssumption
    <3> QED
      BY <2>3, <2>5, <3>1, <3>2, <1>6
  <2> QED
    BY <1>10, <2>2, <2>4, <2>5 DEF SwitchTip, FlushIndex, KeepDirty, v
<1> QED
  BY <1>7, <1>8, <1>9, <1>10

\* The rest of ProcessBlock.
LEMMA OrphanBest ==
  ASSUME Inv, TipInv, crashes = 0, BestOK,
         Connected \/ QueueAccepted \/ NextHash \/ OrphansDone \/ AdoptOrphan
  PROVE  BestOK'
<1>0. /\ PathOK /\ HeldOK /\ Sync \in Thread /\ tip \in Block /\ RpcsIdle
      /\ req[Sync] \in Block /\ tip' = tip
      /\ pc[Sync] \in {"reorg", "accepted", "orphans"}
      /\ detach \in [Thread -> SUBSET Block] /\ attach \in [Thread -> SUBSET Block]
  BY TipFacts DEF TipInv, BestOK, Connected, QueueAccepted, NextHash, OrphansDone, AdoptOrphan,
                  Done, Holds, Relock, Inv, TypeOK, CallType
<1>1. CASE Connected
  <2> DEFINE again == IF op[Sync] = "extend" /\ ~KnownValid(status, req[Sync])
                      THEN {req[Sync]} ELSE {}
  <2>1. /\ status' = SetFlag(status, again, "valid") /\ Goto(Sync, "accepted")
        /\ UNCHANGED <<detach, attach, req>>
    BY <1>1 DEF Connected, FlushIndex, Accepted, Unlocked, listVars
  <2>2. again \in SUBSET Block /\ \A n \in again : Stored(status, n)
    BY <1>0 DEF HeldOK
  <2> HIDE DEF again
  <2>3. \A c \in Block : status'[c] # {} => status[c] # {}
    BY <1>0, <2>1, <2>2, SetMarks, StoresIndexed
  <2>4. \A c \in Block : KnownInvalid(status', c) => KnownInvalid(status, c)
    BY <2>1 DEF KnownInvalid, SetFlag
  <2>5. pc'[Sync] = "accepted" /\ RpcsIdle'
    BY <1>0, <2>1, SyncMoves
  <2> QED
    BY <1>0, <2>1, <2>3, <2>4, <2>5, SameGoal
<1>2. CASE QueueAccepted
  <2>1. status' = status /\ Goto(Sync, "orphans") /\ UNCHANGED <<detach, attach, req>>
    BY <1>2 DEF QueueAccepted, Relock, indexVars, listVars
  <2>2. pc'[Sync] = "orphans" /\ RpcsIdle'
    BY <1>0, <2>1, SyncMoves
  <2> QED
    BY <1>0, <2>1, <2>2, SameGoal
<1>3. CASE NextHash
  <2>1. UNCHANGED <<status, pc, detach, attach, req>>
    BY <1>3 DEF NextHash, indexVars, listVars
  <2> QED
    BY <1>0, <2>1, SameGoal DEF RpcsIdle
<1>4. CASE OrphansDone
  <2>1. status' = status /\ Return(Sync) /\ req' = req /\ pc[Sync] = "orphans"
    BY <1>4 DEF OrphansDone, Holds, indexVars
  <2>2. detach[Sync] = {} /\ attach[Sync] = {}
    BY <1>0, <2>1 DEF PathOK, Busy
  <2>3. pc'[Sync] = "idle" /\ RpcsIdle' /\ detach'[Sync] = {} /\ attach'[Sync] = {}
    BY <1>0, <2>1, SyncMoves DEF Return, Unlocked
  <2> QED
    BY <1>0, <2>1, <2>2, <2>3, SameGoal
<1>5. CASE AdoptOrphan
  <2>1. pc[Sync] = "orphans" /\ \E b \in Block : Accept(b)
    BY <1>5, AdoptedBlock DEF AdoptOrphan, Holds
  <2> QED
    BY <1>0, <2>1, AcceptBest DEF Busy
<1> QED
  BY <1>1, <1>2, <1>3, <1>4, <1>5

\* Variables that BestOK does not read may change.
LEMMA SameBest ==
  ASSUME BestOK, UNCHANGED <<status, tip, pc, req, detach, attach>>
  PROVE  BestOK'
BY DEF BestOK, RpcsIdle, MarkedOK, GoalOK, Covers, Heads, Indexed, Lawful, Near, KnownInvalid

\* Only Sync takes steps on a fresh node.
LEMMA FreshSteps ==
  ASSUME Inv, [Next]_vars, Fresh', Fresh => RpcsIdle
  PROVE  /\ Fresh
         /\ \/ \E b \in Block \ {Genesis} : ProcessBlock(b)
            \/ SyncStep
            \/ UNCHANGED <<status, tip, orphans, pc, op, req, detach, attach, queue>>
<1>0. rpcs \in Nat /\ crashes \in Nat
  BY DEF Inv, TypeOK
<1>1. ~Restart
  BY <1>0 DEF Restart, Fresh
<1>2. \A t \in Rpcs, x \in Block :
        ~InvalidateSide(t, x) /\ ~InvalidateMain(t, x) /\ ~ReconsiderBlock(t, x)
  BY <1>0 DEF InvalidateSide, InvalidateMain, ReconsiderBlock, StartRpc, Fresh
<1>3. CASE UNCHANGED vars
  BY <1>3 DEF vars, indexVars, orphanVars, callVars, listVars, boundVars, Fresh
<1>4. CASE FlushUtxoCache
  BY <1>4 DEF FlushUtxoCache, indexVars, orphanVars, callVars, listVars, boundVars, Fresh
<1>5. ASSUME NEW b \in Block \ {Genesis}, ProcessBlock(b) PROVE Fresh
  BY <1>5 DEF ProcessBlock, boundVars, Fresh
<1>6. ASSUME NEW t \in Thread, Step(t) PROVE Fresh /\ pc[t] # "idle"
  BY <1>6 DEF Step, DisconnectBlock, ConnectBlock, CommitDisconnect, CommitConnect, Notified,
              Holds, Relock, boundVars, Fresh
<1>7. CASE SyncStep
  BY <1>6, <1>7, TipFacts DEF SyncStep, ExtendTip, RejectTip, KeepTip, SwitchTip, Connected,
              QueueAccepted, AdoptOrphan, NextHash, OrphansDone, boundVars, Fresh
<1>8. ASSUME NEW t \in Rpcs, RpcStep(t) PROVE FALSE
  <2>1. Fresh /\ pc[t] # "idle"
    BY <1>6, <1>8, TipFacts DEF RpcStep, Detached, PickBestTip, Switched, ReconsiderDone, Done,
              Holds, boundVars, Fresh
  <2> QED
    BY <2>1 DEF RpcsIdle
<1> QED
  BY <1>1, <1>2, <1>3, <1>4, <1>5, <1>7, <1>8 DEF Next

\* Every step preserves the invariant.
LEMMA BestInvStep ==
  ASSUME Inv, CoinInv, TipInv, BestInv, [Next]_vars
  PROVE  BestInv'
<1>1. SUFFICES ASSUME Fresh' PROVE BestOK'
  BY DEF BestInv, Fresh
<1>2. /\ Fresh
      /\ \/ \E b \in Block \ {Genesis} : ProcessBlock(b)
         \/ SyncStep
         \/ UNCHANGED <<status, tip, orphans, pc, op, req, detach, attach, queue>>
  BY <1>1, FreshSteps DEF BestInv, BestOK
<1>3. BestOK /\ crashes = 0 /\ PathOK
  BY <1>2 DEF BestInv, Fresh, TipInv
<1>4. ASSUME NEW b \in Block \ {Genesis}, ProcessBlock(b) PROVE BestOK'
  <2>1. CASE Accept(b)
    BY <1>3, <1>4, <2>1, AcceptBest DEF ProcessBlock, MayStart, Busy
  <2>2. CASE UNCHANGED <<indexVars, lock, pc, callVars, listVars>>
    BY <1>3, <1>4, <2>2, SameBest DEF ProcessBlock, indexVars, callVars, listVars
  <2> QED
    BY <1>4, <2>1, <2>2 DEF ProcessBlock
<1>5. CASE SyncStep
  BY <1>3, <1>5, StepBest, ChooseBest, OrphanBest DEF SyncStep
<1> QED
  BY <1>2, <1>3, <1>4, <1>5, SameBest

\* The initial state satisfies it.
LEMMA InitBest ==
  ASSUME Init
  PROVE  BestInv
<1>0. /\ Sync \in Thread /\ Rpcs \subseteq Thread /\ Genesis \in Block
      /\ WorkSum[Genesis] \in Nat
  BY BlockAssumption, NodeAssumption DEF Thread
<1>1. Covers(Genesis)
  BY <1>0 DEF Init, Covers, Indexed, Near
<1>2. GoalOK
  BY <1>0, <1>1, EmptyHeads DEF Init, GoalOK
<1>3. RpcsIdle /\ MarkedOK
  BY <1>0 DEF Init, RpcsIdle, MarkedOK, KnownInvalid
<1> QED
  BY <1>2, <1>3 DEF BestInv, BestOK

\* When calls do not overlap, BestInv is an invariant of the chain.
THEOREM BestInvAlways ==
  ASSUME ~Overlap
  PROVE  Spec => []BestInv
<1>1. Init => BestInv
  BY InitBest
<1>2. Inv /\ CoinInv /\ TipInv /\ BestInv /\ [Next]_vars => BestInv'
  BY BestInvStep
<1> QED
  BY <1>1, <1>2, InvAlways, CoinInvAlways, TipInvAlways, PTL DEF Spec

\* In whatever order blocks arrive, wait as orphans and are adopted, a node
\* that has not crashed, and was not asked to invalidate a block, ends every
\* ProcessBlock on a tip no lawful block of its index is ahead of by a quarter
\* of that block's own work.
THEOREM TipIsNearBest ==
  ASSUME ~Overlap
  PROVE  Spec => [](Fresh => NearBest)
<1>1. ASSUME Inv, TipInv, BestInv PROVE Fresh => NearBest
  <2>1. SUFFICES ASSUME Fresh, Quiet PROVE \A b \in Block :
          Indexed(b) /\ Chain[b] \cap BadBlock = {} =>
            WorkSum[b] <= WorkSum[tip] \/ WorkSum[b] - WorkSum[tip] < Work[b] \div 4
    BY DEF NearBest
  <2>2. pc[Sync] = "idle" /\ detach[Sync] = {} /\ attach[Sync] = {}
    BY <1>1, <2>1, TipFacts DEF Quiet, TipInv, PathOK, Busy
  <2>3. Covers(tip)
    BY <1>1, <2>1, <2>2, TipGoal DEF BestInv, BestOK, TipInv
  <2> QED
    BY <2>2, <2>3 DEF Covers, Lawful, Near
<1> QED
  BY <1>1, InvAlways, TipInvAlways, BestInvAlways, PTL

-----------------------------------------------------------------------------
(* Orphans are adopted                                                       *)

\* No block has been found to be invalid so far.
NoneInvalid == \A b \in Block : ~KnownInvalid(status, b)

\* The labels of a ProcessBlock call whose block is not yet in processHashes.
Accepting == {"best", "reorg", "commit", "notify", "accepted"}

\* The call under way will look for the orphans that extend x.
Served(x) ==
  /\ pc[Sync] # "idle"
  /\ \/ \E j \in 1..Len(queue) : queue[j] = x
     \/ pc[Sync] \in Accepting /\ x = req[Sync]

WaitOK == \A i \in 1..Len(orphans) :
            Indexed(Parent[orphans[i]]) => Served(Parent[orphans[i]])

WaitInv == Fresh /\ NoneInvalid => WaitOK

\* A step that adds no orphan of an indexed block, serves the blocks it indexes
\* and goes on serving those that orphans wait for.
LEMMA WaitsOn ==
  ASSUME Inv, WaitOK,
         \A i \in 1..Len(orphans') :
           /\ orphans'[i] \in Block \ {Genesis}
           /\ \/ status'[Parent[orphans'[i]]] = {}
              \/ \E j \in 1..Len(orphans) : orphans'[i] = orphans[j],
         \A x \in Block : /\ status'[x] # {} => status[x] # {} \/ Served(x)'
                          /\ Served(x) => \/ Served(x)'
                                          \/ \A i \in 1..Len(orphans') : Parent[orphans'[i]] # x
  PROVE  WaitOK'
<1>1. ASSUME NEW x \in Block, NEW i \in 1..Len(orphans'), x = Parent[orphans'[i]],
             status'[x] # {}
      PROVE  Served(x)'
  <2>1. PICK j \in 1..Len(orphans) : orphans'[i] = orphans[j]
    BY <1>1
  <2>2. status[x] # {} => Served(x)
    BY <1>1, <2>1 DEF WaitOK, Indexed
  <2> QED
    BY <1>1, <2>2
<1>2. \A i \in 1..Len(orphans') : Parent[orphans'[i]] \in Block
  BY BlockAssumption
<1>3. \A i \in 1..Len(orphans') : status'[Parent[orphans'[i]]] # {} =>
        /\ pc'[Sync] # "idle"
        /\ \/ \E j \in 1..Len(queue') : queue'[j] = Parent[orphans'[i]]
           \/ pc'[Sync] \in Accepting /\ Parent[orphans'[i]] = req'[Sync]
  BY <1>1, <1>2 DEF Served, Accepting
<1> QED
  BY <1>3 DEF WaitOK, Indexed, Served, Accepting

\* Steps of ProcessBlock that leave the pool and the index as they are, or
\* only set flags of indexed blocks, and stay with the same block.
LEMMA SameWait ==
  ASSUME Inv, WaitOK, orphans' = orphans, queue' = queue, req'[Sync] = req[Sync],
         pc'[Sync] = pc[Sync] \/ pc'[Sync] \in Accepting,
         \A x \in Block : status'[x] # {} => status[x] # {}
  PROVE  WaitOK'
<1>1. \A i \in 1..Len(orphans') : /\ orphans'[i] \in Block \ {Genesis}
                                  /\ \E j \in 1..Len(orphans) : orphans'[i] = orphans[j]
  BY TipFacts
<1>2. \A x \in Block : Served(x) => Served(x)'
  BY DEF Served, Accepting
<1> QED
  BY <1>1, <1>2, WaitsOn

\* maybeAcceptBlock: the block it indexes is served until its orphans have
\* been looked for.
LEMMA AcceptWait ==
  ASSUME Inv, NoneInvalid => WaitOK, NoneInvalid', pc[Sync] \notin Accepting,
         NEW b \in Block, b # Genesis, status[b] = {}, Accept(b),
         orphans' \in Seq(Block \ {Genesis}),
         \A i \in 1..Len(orphans') : \E j \in 1..Len(orphans) : orphans'[i] = orphans[j]
  PROVE  WaitOK'
<1>0. /\ Sync \in Thread /\ status \in [Block -> SUBSET Flag] /\ req \in [Thread -> Block]
      /\ pc \in [Thread -> Label] /\ Parent[b] \in Block
  BY TipFacts, ParentFacts
<1>1. ~KnownInvalid(status, Parent[b])
  BY <1>0 DEF Accept, indexVars, NoneInvalid, KnownInvalid
<1>2. /\ status' = [status EXCEPT ![b] = {"stored"}] /\ queue' = queue
      /\ pc'[Sync] = "best" /\ req'[Sync] = b
  BY <1>0, <1>1 DEF Accept, Goto
<1>3. NoneInvalid
  BY <1>0, <1>2 DEF NoneInvalid, KnownInvalid
<1>4. \A x \in Block : /\ status'[x] # {} => status[x] # {} \/ Served(x)'
                       /\ Served(x) => Served(x)'
  <2>1. Served(b)'
    BY <1>2 DEF Served, Accepting
  <2>2. \A x \in Block : x # b => status'[x] = status[x]
    BY <1>0, <1>2
  <2>3. \A x \in Block : Served(x) => Served(x)'
    BY <1>2 DEF Served
  <2> QED
    BY <2>1, <2>2, <2>3
<1>5. \A i \in 1..Len(orphans') : orphans'[i] \in Block \ {Genesis}
  OBVIOUS
<1> QED
  BY <1>3, <1>4, <1>5, WaitsOn

\* verifyReorganizationValidity marks a block when it fails.
LEMMA FailingMarks ==
  ASSUME tip \in Block, NEW b \in Block, Failing(status, b) # {}
  PROVE  \E n \in Block : KnownInvalid(Verified(status, b).st, n)
<1> DEFINE f     == Lowest(Failing(status, b))
           below == {n \in Branch(b) : Height[n] < Height[f]}
           above == {n \in Branch(b) : Height[n] > Height[f]}
<1>1. Failing(status, b) \in SUBSET Block
  BY ChainSelf DEF Failing, Branch
<1>2. f \in Block
  BY <1>1, LowestExists
<1>3. Verified(status, b).st =
        SetFlag(SetFlag(SetFlag(status, below, "valid"), {f}, "failed"), above, "invalidAncestor")
  BY DEF Verified
<1> HIDE DEF f, below, above
<1> QED
  BY <1>2, <1>3 DEF SetFlag, KnownInvalid

\* connectBestChain: every error marks a block.
LEMMA ChooseWait ==
  ASSUME Inv, TipInv, crashes = 0, NoneInvalid => WaitOK, NoneInvalid',
         ExtendTip \/ RejectTip \/ KeepTip \/ SwitchTip
  PROVE  WaitOK'
<1> DEFINE b == req[Sync]
<1>0. /\ HeldOK /\ Sync \in Thread /\ tip \in Block /\ b \in Block /\ b # Genesis
      /\ pc \in [Thread -> Label] /\ pc[Sync] = "best" /\ UNCHANGED <<tip, req, orphans>>
  BY TipFacts DEF TipInv, ExtendTip, RejectTip, KeepTip, SwitchTip, Holds, Inv, ListsOK, orphanVars
<1>1. Stored(status, b) /\ \A n \in Branch(b) : Stored(status, n)
  BY <1>0 DEF HeldOK, Branch
<1>2. Parent[b] \in Block /\ Branch(b) \in SUBSET Block
  BY <1>0, ParentFacts, ChainSelf DEF Branch
<1>3. ASSUME Stores(status, status'), NoneInvalid, queue' = queue, pc'[Sync] \in Accepting
      PROVE  WaitOK'
  BY <1>0, <1>3, StoresIndexed, SameWait
<1>4. /\ Accepted(TRUE) \/ Accepted(FALSE) => queue' = queue /\ pc'[Sync] \in Accepting
      /\ \A call, d, a : Reorganize(Sync, call, d, a) => queue' = queue /\ pc'[Sync] \in Accepting
  BY <1>0 DEF Accepted, Reorganize, Unlocked, Goto, Accepting
<1>5. CASE ExtendTip
  <2>1. status' = SetFlag(status, {b}, "valid") /\ Reorganize(Sync, "extend", {}, {b})
    BY <1>5 DEF ExtendTip, FlushIndex
  <2>2. Stores(status, status')
    BY <2>1, <1>0, <1>1, SetMarks
  <2>3. NoneInvalid
    BY <2>1 DEF NoneInvalid, KnownInvalid, SetFlag
  <2> QED
    BY <2>1, <2>2, <2>3, <1>3, <1>4
<1>6. CASE RejectTip
  <2>1. status' = SetFlag(status, {b}, "failed")
    BY <1>6 DEF RejectTip, FlushIndex
  <2>2. KnownInvalid(status', b)
    BY <2>1, <1>0 DEF KnownInvalid, SetFlag
  <2> QED
    BY <2>2, <1>0 DEF NoneInvalid, KnownInvalid
<1>7. CASE KeepTip
  <2>1. status' = status /\ Accepted(FALSE)
    BY <1>7 DEF KeepTip, indexVars
  <2>2. NoneInvalid
    BY <2>1 DEF NoneInvalid, KnownInvalid
  <2> QED
    BY <2>1, <2>2, <1>3, <1>4 DEF Stores
<1>8. CASE SwitchTip
  <2> DEFINE T == Tainted(status, b)
             v == Verified(status, b)
  <2>1. CASE Refused(status, b) /\ status' = SetFlag(status, T, "invalidAncestor")
    <3>1. PICK n \in Block : KnownInvalid(status, n)
      BY <2>1, <1>2 DEF Refused
    <3> HIDE DEF T
    <3>2. KnownInvalid(status', n)
      BY <3>1, <2>1 DEF KnownInvalid, SetFlag
    <3> QED
      BY <3>2 DEF NoneInvalid, KnownInvalid
  <2>2. CASE Failing(status, b) # {} /\ status' = v.st
    <3>1. PICK n \in Block : KnownInvalid(v.st, n)
      BY <2>2, <1>0, FailingMarks
    <3> HIDE DEF v
    <3> QED
      BY <2>2, <3>1 DEF NoneInvalid, KnownInvalid
  <2>3. CASE /\ Failing(status, b) = {} /\ status' = v.st
             /\ Reorganize(Sync, "process", Chain[tip] \ Chain[b], Branch(b))
    <3>1. v.st = SetFlag(status, Branch(b), "valid")
      BY <2>3 DEF Verified
    <3> HIDE DEF v
    <3>2. Stores(status, status')
      BY <3>1, <2>3, <1>0, <1>1, <1>2, SetMarks
    <3>3. NoneInvalid
      BY <3>1, <2>3 DEF NoneInvalid, KnownInvalid, SetFlag
    <3> QED
      BY <2>3, <3>2, <3>3, <1>3, <1>4
  <2> QED
    BY <1>8, <2>1, <2>2, <2>3 DEF SwitchTip, FlushIndex, KeepDirty, v
<1> QED
  BY <1>5, <1>6, <1>7, <1>8

\* processOrphans: a hash is dropped only when no orphan waits for it.
LEMMA OrphanWait ==
  ASSUME Inv, TipInv, crashes = 0, NoneInvalid => WaitOK, NoneInvalid',
         Connected \/ QueueAccepted \/ NextHash \/ OrphansDone \/ AdoptOrphan
  PROVE  WaitOK'
<1>0. /\ HeldOK /\ Sync \in Thread /\ tip \in Block /\ req[Sync] \in Block
      /\ pc \in [Thread -> Label] /\ queue \in Seq(Block) /\ orphans \in Seq(Block \ {Genesis})
  BY TipFacts DEF TipInv
<1>1. CASE Connected
  <2> DEFINE again == IF op[Sync] = "extend" /\ ~KnownValid(status, req[Sync])
                      THEN {req[Sync]} ELSE {}
  <2>1. /\ status' = SetFlag(status, again, "valid") /\ pc'[Sync] = "accepted"
        /\ UNCHANGED <<queue, req, orphans>>
    BY <1>0, <1>1 DEF Connected, FlushIndex, Accepted, Unlocked, Goto, orphanVars
  <2>2. again \in SUBSET Block /\ \A n \in again : Stored(status, n)
    BY <1>0 DEF HeldOK
  <2> HIDE DEF again
  <2>3. \A c \in Block : status'[c] # {} => status[c] # {}
    BY <1>0, <2>1, <2>2, SetMarks, StoresIndexed
  <2>4. NoneInvalid
    BY <2>1 DEF NoneInvalid, KnownInvalid, SetFlag
  <2> QED
    BY <2>1, <2>3, <2>4, SameWait DEF Accepting
<1>2. ASSUME status' = status, orphans' = orphans, req'[Sync] = req[Sync],
             \A x \in Block : Served(x) => \/ Served(x)'
                                           \/ \A i \in 1..Len(orphans) : Parent[orphans[i]] # x
      PROVE  WaitOK'
  <2>1. NoneInvalid
    BY <1>2 DEF NoneInvalid, KnownInvalid
  <2>2. \A i \in 1..Len(orphans) : orphans[i] \in Block \ {Genesis}
    BY <1>0
  <2> QED
    BY <1>2, <2>1, <2>2, WaitsOn
<1>3. CASE QueueAccepted
  <2>1. /\ UNCHANGED <<status, orphans, req>> /\ queue' = Append(queue, req[Sync])
        /\ pc'[Sync] = "orphans"
    BY <1>0, <1>3 DEF QueueAccepted, Relock, Goto, indexVars, orphanVars
  <2>2. /\ Len(queue') = Len(queue) + 1 /\ queue'[Len(queue) + 1] = req[Sync]
        /\ \A j \in 1..Len(queue) : queue'[j] = queue[j]
        /\ Len(queue) \in Nat
    BY <1>0, <2>1, AppendProperties
  <2>3. \A x \in Block : Served(x) => \E j \in 1..Len(queue') : queue'[j] = x
    BY <2>2 DEF Served
  <2>4. \A x \in Block : Served(x) => Served(x)'
    BY <2>1, <2>3 DEF Served
  <2> QED
    BY <1>2, <2>1, <2>4
<1>4. CASE NextHash
  <2>1. /\ UNCHANGED <<status, orphans, req>> /\ queue # <<>> /\ queue' = Tail(queue)
        /\ pc[Sync] = "orphans" /\ pc' = pc /\ Waiting = {}
    BY <1>4 DEF NextHash, Holds, indexVars, orphanVars
  <2>2. ASSUME NEW x \in Block, Served(x), ~(\A i \in 1..Len(orphans) : Parent[orphans[i]] # x)
        PROVE  Served(x)'
    <3>1. PICK j \in 1..Len(queue) : queue[j] = x
      BY <2>1, <2>2 DEF Served, Accepting
    <3>2. x # Head(queue)
      BY <2>1, <2>2 DEF Waiting
    <3>3. j # 1 /\ Len(queue) \in Nat
      BY <1>0, <2>1, <3>1, <3>2
    <3>4. j - 1 \in 1..Len(queue') /\ queue'[j - 1] = x
      BY <1>0, <2>1, <3>1, <3>3
    <3> QED
      BY <2>1, <3>4 DEF Served
  <2> QED
    BY <1>2, <2>1, <2>2
<1>5. CASE OrphansDone
  <2>1. UNCHANGED <<status, orphans, req>> /\ queue = <<>> /\ pc[Sync] = "orphans"
    BY <1>5 DEF OrphansDone, Holds, indexVars, orphanVars
  <2>2. \A x \in Block : ~Served(x)
    BY <2>1 DEF Served, Accepting
  <2> QED
    BY <1>2, <2>1, <2>2
<1>6. CASE AdoptOrphan
  <2>1. pc[Sync] = "orphans"
    BY <1>6 DEF AdoptOrphan, Holds
  <2>2. PICK k \in 1..Len(orphans) :
          /\ orphans[k] \in Block \ {Genesis}
          /\ orphans' = RemoveOrphan(orphans, orphans[k])
          /\ Accept(orphans[k])
    BY <1>6, AdoptedBlock
  <2>3. PICK b \in Block \ {Genesis} : b = orphans[k]
    BY <2>2
  <2>4. status[b] = {}
    BY <1>0, <2>3 DEF HeldOK
  <2>5. \A i, j \in 1..Len(orphans) : orphans[i] = orphans[j] => i = j
    BY <1>0 DEF HeldOK
  <2>6. \A i \in 1..Len(orphans') : \E j \in 1..Len(orphans) : orphans'[i] = orphans[j]
    BY <1>0, <2>2, <2>5, RemoveDistinct
  <2>7. orphans' \in Seq(Block \ {Genesis})
    BY <1>0, <2>2, RemoveOrphanFacts
  <2>8. Accept(b)
    BY <2>2, <2>3
  <2> QED
    BY <2>1, <2>3, <2>4, <2>6, <2>7, <2>8, AcceptWait DEF Accepting
<1> QED
  BY <1>1, <1>3, <1>4, <1>5, <1>6

\* ProcessBlock: an orphan joins the pool only when its parent is not indexed.
LEMMA ProcessWait ==
  ASSUME Inv, TipInv, crashes = 0, NoneInvalid => WaitOK, NoneInvalid',
         NEW b \in Block \ {Genesis}, ProcessBlock(b)
  PROVE  WaitOK'
<1>0. /\ HeldOK /\ PoolType /\ orphans \in Seq(Block \ {Genesis})
      /\ \A i, j \in 1..Len(orphans) : orphans[i] = orphans[j] => i = j
  BY TipFacts DEF TipInv, HeldOK, Inv, TypeOK
<1>1. /\ pc[Sync] = "idle" /\ status[b] = {}
      /\ \A i \in 1..Len(orphans) : orphans[i] # b
  BY <1>0 DEF ProcessBlock, MayStart, Indexed, ToSet
<1>2. CASE Accept(b) /\ UNCHANGED orphanVars
  BY <1>0, <1>1, <1>2, AcceptWait DEF orphanVars, Accepting
<1>3. ASSUME ~Indexed(Parent[b]), NEW k \in 0..Len(orphans), AddOrphan(b, k),
             UNCHANGED <<indexVars, lock, pc, callVars, listVars>>
      PROVE  WaitOK'
  <2>1. UNCHANGED <<status, pc, req, queue>> /\ status[Parent[b]] = {}
    BY <1>3 DEF indexVars, callVars, Indexed
  <2>2. \A i \in 1..Len(orphans') :
          orphans'[i] = b \/ \E j \in 1..Len(orphans) : orphans'[i] = orphans[j]
    BY <1>0, <1>1, <1>3, AddDistinct
  <2>3. \A i \in 1..Len(orphans') :
          /\ orphans'[i] \in Block \ {Genesis}
          /\ \/ status'[Parent[orphans'[i]]] = {}
             \/ \E j \in 1..Len(orphans) : orphans'[i] = orphans[j]
    BY <1>0, <2>1, <2>2
  <2>4. \A x \in Block : Served(x) => Served(x)'
    BY <2>1 DEF Served
  <2>5. NoneInvalid
    BY <2>1 DEF NoneInvalid, KnownInvalid
  <2> QED
    BY <2>1, <2>3, <2>4, <2>5, WaitsOn
<1> QED
  BY <1>2, <1>3 DEF ProcessBlock

\* Every step preserves the invariant.
LEMMA WaitInvStep ==
  ASSUME Inv, CoinInv, TipInv, BestInv, WaitInv, [Next]_vars
  PROVE  WaitInv'
<1>1. SUFFICES ASSUME Fresh', NoneInvalid' PROVE WaitOK'
  BY DEF WaitInv
<1>2. /\ Fresh
      /\ \/ \E b \in Block \ {Genesis} : ProcessBlock(b)
         \/ SyncStep
         \/ UNCHANGED <<status, tip, orphans, pc, op, req, detach, attach, queue>>
  BY <1>1, FreshSteps DEF BestInv, BestOK
<1>3. (NoneInvalid => WaitOK) /\ crashes = 0 /\ Sync \in Thread
  BY <1>2, TipFacts DEF WaitInv, Fresh
<1>4. CASE Step(Sync)
  <2>1. /\ UNCHANGED <<status, req, queue, orphans>>
        /\ \E label \in Busy : Goto(Sync, label)
    BY <1>3, <1>4, StepShape
  <2>2. pc'[Sync] \in Accepting
    BY <2>1, TipFacts DEF Goto, Busy, Accepting
  <2>3. NoneInvalid
    BY <1>1, <2>1 DEF NoneInvalid, KnownInvalid
  <2> QED
    BY <1>3, <2>1, <2>2, <2>3, SameWait
<1>5. CASE UNCHANGED <<status, tip, orphans, pc, op, req, detach, attach, queue>>
  <2>1. NoneInvalid
    BY <1>1, <1>5 DEF NoneInvalid, KnownInvalid
  <2> QED
    BY <1>3, <1>5, <2>1, SameWait
<1> QED
  BY <1>1, <1>2, <1>3, <1>4, <1>5, ProcessWait, ChooseWait, OrphanWait DEF SyncStep

\* When calls do not overlap, WaitInv is an invariant of the chain.
THEOREM WaitInvAlways ==
  ASSUME ~Overlap
  PROVE  Spec => []WaitInv
<1>1. Init => WaitInv
  BY DEF Init, WaitInv, WaitOK
<1>2. Inv /\ CoinInv /\ TipInv /\ BestInv /\ WaitInv /\ [Next]_vars => WaitInv'
  BY WaitInvStep
<1> QED
  BY <1>1, <1>2, InvAlways, CoinInvAlways, TipInvAlways, BestInvAlways, PTL DEF Spec

\* On a node that has not crashed, was not asked to invalidate a block and has
\* not met one that breaks a rule, processOrphans leaves no orphan behind whose
\* parent is in the index.
THEOREM OrphansAreAdopted ==
  ASSUME ~Overlap
  PROVE  Spec => [](Fresh /\ NoneInvalid => NoStrandedOrphan)
<1>1. ASSUME Inv, TipInv, WaitInv PROVE Fresh /\ NoneInvalid => NoStrandedOrphan
  <2>1. SUFFICES ASSUME Fresh, NoneInvalid, Quiet, NEW i \in 1..Len(orphans),
                        Indexed(Parent[orphans[i]])
                 PROVE  FALSE
    BY DEF NoStrandedOrphan, ToSet
  <2>2. Served(Parent[orphans[i]])
    BY <1>1, <2>1 DEF WaitInv, WaitOK
  <2>3. pc[Sync] = "idle"
    BY <1>1, <2>1, TipFacts DEF Quiet
  <2> QED
    BY <2>2, <2>3 DEF Served
<1> QED
  BY <1>1, InvAlways, TipInvAlways, WaitInvAlways, PTL
=============================================================================
