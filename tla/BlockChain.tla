------------------------------ MODULE BlockChain ------------------------------
(***************************************************************************)
(* pearld's chain state machine (node/blockchain: process.go, accept.go,   *)
(* chain.go, blockindex.go, the block-level part of utxocache.go and       *)
(* chainio.go).                                                            *)
(*                                                                         *)
(* One thread, Sync, runs ProcessBlock (the sync manager's block handler   *)
(* goroutine); the threads in Rpcs run InvalidateBlock and ReconsiderBlock *)
(* (one goroutine per JSON-RPC request).  All of them hold chainLock, but  *)
(* connectBlock, disconnectBlock and maybeAcceptBlock release it while     *)
(* they deliver their notification: pc = "notify" and pc = "accepted" are  *)
(* those windows, and another thread may run its own steps in them.        *)
(*                                                                         *)
(* Variables whose name starts with db are the database as its readers see *)
(* it: a committed transaction is in ffldb's cache, which is written to    *)
(* disk only now and then.  The process may crash between any two          *)
(* transactions, and comes back with what the disk holds.                  *)
(*                                                                         *)
(* The utxo set is abstracted to the set of blocks whose transactions have *)
(* been applied to it; it is right when that set is the best chain.        *)
(***************************************************************************)
EXTENDS BlockTree, Sequences, SequencesExt

CONSTANTS
  Sync,        \* the sync manager's goroutine
  Rpcs,        \* RPC goroutines
  None,        \* no thread, no block
  MaxOrphans,  \* maxOrphanBlocks
  Overlap,     \* may an RPC run while another call is between two lock sections?
  MaxRpcs,     \* bound: RPC calls of a behaviour
  MaxCrashes   \* bound: crashes of a behaviour

ASSUME ChainAssumption ==
  /\ Sync \notin Rpcs /\ None \notin Rpcs \cup {Sync} /\ None \notin Block
  /\ MaxOrphans \in Nat \ {0}
  /\ Overlap \in BOOLEAN
  /\ MaxRpcs \in Nat /\ MaxCrashes \in Nat

Thread == Rpcs \cup {Sync}
Flag   == {"stored", "valid", "failed", "invalidAncestor"}
Label  == {"idle", "best", "reorg", "commit", "notify", "accepted", "orphans", "tips"}
Call   == {"none", "process", "extend", "invalidate", "switch", "reconsider"}

VARIABLES
  status,    \* blockNode.status by block; {} for a block not in the index
  dirty,     \* blockIndex.dirty
  tip,       \* bestChain.Tip() and stateSnapshot
  utxo,      \* the blocks applied to the utxo cache on top of its database
  orphans,   \* the orphan pool in order of arrival (and of expiration)
  oldest,    \* oldestOrphan, by hash
  dbStatus,  \* the block status bucket
  dbTip,     \* the best chain state
  dbUtxo,    \* the blocks applied to the utxo set bucket
  dbMark,    \* the utxo state consistency hash
  disk,      \* the last state of the four above that ffldb wrote to disk
  lock,      \* the holder of chainLock
  pc,        \* where each thread is
  op,        \* the call each thread serves
  req,       \* the block it is about
  detach,    \* detachNodes still to disconnect
  attach,    \* attachNodes still to connect
  snap,      \* the state connectBlock captured before its notification
  queue,     \* processHashes of processOrphans
  main,      \* isMainChain as connectBestChain returned it
  rpcs,      \* RPC calls so far
  crashes    \* crashes so far

indexVars  == <<status, dirty, dbStatus>>
coinVars   == <<utxo, dbUtxo, dbMark>>
orphanVars == <<orphans, oldest>>
callVars   == <<op, req, queue, main>>
listVars   == <<detach, attach, snap>>
boundVars  == <<rpcs, crashes>>
vars == <<indexVars, tip, dbTip, coinVars, disk, orphanVars, lock, pc, callVars,
          listVars, boundVars>>

\* The database as the transactions committed so far leave it.
DbState == [status |-> dbStatus, tip |-> dbTip, utxo |-> dbUtxo, mark |-> dbMark]

\* commitTx adds a transaction to ffldb's cache and, when the cache is full or
\* was last flushed long ago, writes everything committed so far to disk.  What
\* is on disk matters to the next crash only: it is not told apart once the
\* bound leaves none.
OnDisk(states) == disk' \in IF crashes' = MaxCrashes THEN {DbState'} ELSE states
Saves == OnDisk({disk, DbState'})

\* createChainState: dbStoreBlock runs last and overwrites the status it
\* stored for the genesis block.
Init ==
  /\ status   = [b \in Block |-> IF b = Genesis THEN {"stored", "valid"} ELSE {}]
  /\ dbStatus = [b \in Block |-> IF b = Genesis THEN {"stored"} ELSE {}]
  /\ dirty    = {}
  /\ tip = Genesis /\ dbTip = Genesis
  /\ utxo = {Genesis} /\ dbUtxo = {Genesis} /\ dbMark = Genesis
  /\ disk = DbState
  /\ orphans = <<>> /\ oldest = None
  /\ lock = None
  /\ pc     = [t \in Thread |-> "idle"]
  /\ op     = [t \in Thread |-> "none"]
  /\ req    = [t \in Thread |-> Genesis]
  /\ detach = [t \in Thread |-> {}]
  /\ attach = [t \in Thread |-> {}]
  /\ snap   = [t \in Thread |-> None]
  /\ queue = <<>> /\ main = FALSE
  /\ rpcs = 0 /\ crashes = 0

-----------------------------------------------------------------------------
(* The block index                                                           *)

Indexed(b)        == status[b] # {}
KnownValid(st, b)   == "valid" \in st[b]
KnownInvalid(st, b) == st[b] \cap {"failed", "invalidAncestor"} # {}

\* SetStatusFlags and UnsetStatusFlags on every block of S.
SetFlag(st, S, f)   == [b \in Block |-> IF b \in S THEN st[b] \cup {f} ELSE st[b]]
UnsetFlag(st, S, f) == [b \in Block |-> IF b \in S THEN st[b] \ {f} ELSE st[b]]

\* The statuses become st, the blocks of D dirty, and flushToDB writes every
\* dirty one in a database transaction of its own ...
FlushIndex(st, D) ==
  /\ status'   = st
  /\ dbStatus' = [b \in Block |-> IF b \in dirty \cup D THEN st[b] ELSE dbStatus[b]]
  /\ dirty'    = {}

\* ... or they stay dirty in memory.
KeepDirty(st, D) ==
  /\ status' = st
  /\ dirty'  = dirty \cup D
  /\ UNCHANGED dbStatus

-----------------------------------------------------------------------------
(* Threads and the chain lock                                                *)

\* A call may begin: the lock is free and, unless calls overlap, no other
\* call is in one of its notification windows.
MayStart(t) ==
  /\ lock = None
  /\ pc[t] = "idle"
  /\ Overlap \/ \A u \in Thread : pc[u] = "idle"

Holds(t, label) == lock = t /\ pc[t] = label

Goto(t, label) == pc' = [pc EXCEPT ![t] = label]

\* The thread releases chainLock to deliver a notification.
Unlocked(t, label) == lock' = None /\ Goto(t, label)

\* It takes chainLock back afterwards.
Relock(t, from, label) ==
  /\ lock = None /\ pc[t] = from
  /\ lock' = t /\ Goto(t, label)

\* The call returns and its deferred Unlock runs.
Return(t) ==
  /\ Unlocked(t, "idle")
  /\ op' = [op EXCEPT ![t] = "none"]
  /\ queue' = IF t = Sync THEN <<>> ELSE queue
  /\ detach' = [detach EXCEPT ![t] = {}]
  /\ attach' = [attach EXCEPT ![t] = {}]
  /\ snap' = [snap EXCEPT ![t] = None]
  /\ UNCHANGED main

\* A reorganization of thread t with these lists begins.
Reorganize(t, call, d, a) ==
  /\ lock' = t /\ Goto(t, "reorg")
  /\ op' = [op EXCEPT ![t] = call]
  /\ detach' = [detach EXCEPT ![t] = d]
  /\ attach' = [attach EXCEPT ![t] = a]
  /\ UNCHANGED <<queue, main, snap>>

-----------------------------------------------------------------------------
(* Planning a reorganization                                                 *)

\* A mutant of Branch: the walk stops one block above the fork point.
ShortBranch(b) == {n \in Chain[b] \ Chain[tip] : Parent[n] \notin Chain[tip]}

\* The blocks getReorganizeNodes walks from b down to the fork point.
Branch(b) == Chain[b] \ Chain[tip]

\* A mutant of Refused: only the parent is looked at.
RefusedByParent(st, b) == KnownInvalid(st, Parent[b])

\* getReorganizeNodes refuses b when its parent, or a deeper block of its
\* branch, is known to be invalid.
Refused(st, b) ==
  \E n \in Branch(b) \cup {Parent[b]} : KnownInvalid(st, n)

\* It then marks b, or the blocks above the highest invalid one.
Tainted(st, b) ==
  IF KnownInvalid(st, Parent[b])
  THEN {b}
  ELSE LET culprit == Highest({n \in Branch(b) : KnownInvalid(st, n)})
       IN  {n \in Branch(b) : Height[n] > Height[culprit]}

\* A mutant of Failing: everything but the new tip is checked.
FailingBelow(st, b) == {n \in Branch(b) \ {b} : n \in BadBlock /\ ~KnownValid(st, n)}

\* The blocks of the branch verifyReorganizationValidity finds to break a
\* rule; those known to be valid are not checked again.
Failing(st, b) == {n \in Branch(b) : n \in BadBlock /\ ~KnownValid(st, n)}

\* verifyReorganizationValidity stops at the first of them and marks it and
\* what follows; the ones it checked before that are valid.
Verified(st, b) ==
  IF Failing(st, b) = {}
  THEN [st |-> SetFlag(st, Branch(b), "valid"),
        dirty |-> {n \in Branch(b) : ~KnownValid(st, n)}]
  ELSE LET f     == Lowest(Failing(st, b))
           below == {n \in Branch(b) : Height[n] < Height[f]}
           above == {n \in Branch(b) : Height[n] > Height[f]}
       IN  [st |-> SetFlag(SetFlag(SetFlag(st, below, "valid"), {f}, "failed"),
                           above, "invalidAncestor"),
            dirty |-> {f} \cup above \cup {n \in below : ~KnownValid(st, n)}]

-----------------------------------------------------------------------------
(* ProcessBlock                                                              *)

\* maybeAcceptBlock up to connectBestChain: a block whose parent is known to
\* be invalid is an error, any other is stored with its status and indexed.
Accept(b) ==
  IF KnownInvalid(status, Parent[b])
  THEN /\ Return(Sync)
       /\ UNCHANGED <<req, indexVars>>
  ELSE /\ status'   = [status EXCEPT ![b] = {"stored"}]
       /\ dbStatus' = [dbStatus EXCEPT ![b] = {"stored"}]
       /\ lock' = Sync /\ Goto(Sync, "best")
       /\ op'  = [op EXCEPT ![Sync] = "process"]
       /\ req' = [req EXCEPT ![Sync] = b]
       /\ UNCHANGED <<dirty, queue, main, listVars>>

\* A mutant of RemoveOrphan: the slot of the orphan list is cleared and kept.
ClearOrphan(pool, b) ==
  [i \in 1..Len(pool) |-> IF pool[i] = b THEN None ELSE pool[i]]

\* removeOrphanBlock, by hash: no effect when the pool does not hold b.
RemoveOrphan(pool, b) ==
  IF \E i \in 1..Len(pool) : pool[i] = b
  THEN RemoveAt(pool, CHOOSE i \in 1..Len(pool) : pool[i] = b)
  ELSE pool

\* A mutant of AddOrphan: the limit is compared before the block is counted.
AddOrphanLate(b, k) ==
  LET live   == SubSeq(orphans, k + 1, Len(orphans))
      victim == IF oldest = None /\ live # <<>> THEN Head(live) ELSE oldest
  IN  IF Len(live) > MaxOrphans
      THEN /\ orphans' = Append(RemoveOrphan(live, victim), b)
           /\ oldest'  = None
      ELSE /\ orphans' = Append(live, b)
           /\ oldest'  = victim

\* addOrphanBlock drops expired orphans (the k oldest) and, when the pool is
\* full, the one oldestOrphan names.  The pointer is only ever replaced after
\* that removal: it may name an orphan that has left the pool.
AddOrphan(b, k) ==
  LET live   == SubSeq(orphans, k + 1, Len(orphans))
      victim == IF oldest = None /\ live # <<>> THEN Head(live) ELSE oldest
  IN  IF Len(live) + 1 > MaxOrphans
      THEN /\ orphans' = Append(RemoveOrphan(live, victim), b)
           /\ oldest'  = None
      ELSE /\ orphans' = Append(live, b)
           /\ oldest'  = victim

\* The sync manager hands over a block that is neither indexed nor an orphan.
ProcessBlock(b) ==
  /\ MayStart(Sync)
  /\ ~Indexed(b) /\ b \notin ToSet(orphans)
  /\ \/ /\ Indexed(Parent[b])
        /\ Accept(b)
        /\ UNCHANGED orphanVars
     \/ /\ ~Indexed(Parent[b])
        /\ \E k \in 0..Len(orphans) : AddOrphan(b, k)
        /\ UNCHANGED <<indexVars, lock, pc, callVars, listVars>>
  /\ UNCHANGED <<tip, dbTip, coinVars, boundVars>>
  /\ Saves

\* connectBestChain, block extends the best chain and passes
\* checkConnectBlock.
ExtendTip ==
  LET b == req[Sync] IN
  /\ Holds(Sync, "best") /\ Parent[b] = tip /\ b \notin BadBlock
  /\ FlushIndex(SetFlag(status, {b}, "valid"), {b})
  /\ Reorganize(Sync, "extend", {}, {b})
  /\ UNCHANGED <<req, tip, dbTip, coinVars, orphanVars, boundVars>>
  /\ Saves

\* ... or does not: an error, so that its orphans are not looked at.
RejectTip ==
  LET b == req[Sync] IN
  /\ Holds(Sync, "best") /\ Parent[b] = tip /\ b \in BadBlock
  /\ FlushIndex(SetFlag(status, {b}, "failed"), {b})
  /\ Return(Sync)
  /\ UNCHANGED <<req, tip, dbTip, coinVars, orphanVars, boundVars>>
  /\ Saves

\* connectBestChain returned without an error: NTBlockAccepted goes out.
Accepted(onMain) ==
  /\ Unlocked(Sync, "accepted")
  /\ main' = onMain
  /\ UNCHANGED <<op, queue, listVars>>

\* connectBestChain, block is on a side chain the policy does not prefer.
KeepTip ==
  LET b == req[Sync] IN
  /\ Holds(Sync, "best") /\ Parent[b] # tip /\ ~ShouldChangeTip(tip, b)
  /\ Accepted(FALSE)
  /\ UNCHANGED <<req, tip, dbTip, indexVars, coinVars, disk, orphanVars, boundVars>>

\* connectBestChain, the policy prefers the side chain.  With refused lists
\* reorganizeChain has nothing to do and succeeds.
SwitchTip ==
  LET b == req[Sync]
      v == Verified(status, b)
  IN
  /\ Holds(Sync, "best") /\ Parent[b] # tip /\ ShouldChangeTip(tip, b)
  /\ \/ /\ Refused(status, b)
        /\ LET T == Tainted(status, b)
           IN  FlushIndex(SetFlag(status, T, "invalidAncestor"), T)
        /\ Accepted(TRUE)
     \/ /\ ~Refused(status, b) /\ Failing(status, b) # {}
        /\ FlushIndex(v.st, v.dirty)
        /\ Return(Sync)
     \/ /\ ~Refused(status, b) /\ Failing(status, b) = {}
        /\ KeepDirty(v.st, v.dirty)
        /\ Reorganize(Sync, "process", Chain[tip] \ Chain[b], Branch(b))
  /\ UNCHANGED <<req, tip, dbTip, coinVars, orphanVars, boundVars>>
  /\ Saves

-----------------------------------------------------------------------------
(* reorganizeChain, shared by every call                                     *)

\* A mutant of Abort: the failed step is tried again.
Retry(t) == UNCHANGED <<indexVars, lock, pc, callVars, listVars>>

\* reorganizeChain failed.  connectBestChain and the second reorganization of
\* InvalidateBlock flush the index all the same.
Abort(t) ==
  /\ IF op[t] \in {"extend", "process", "switch"}
     THEN FlushIndex(status, {})
     ELSE UNCHANGED indexVars
  /\ Return(t)
  /\ UNCHANGED req

\* disconnectBlock before its transaction: the block must be the tip, and
\* status changes are written first.
DisconnectBlock(t) ==
  /\ Holds(t, "reorg") /\ detach[t] # {}
  /\ \/ /\ Highest(detach[t]) = tip
        /\ FlushIndex(status, {})
        /\ Goto(t, "commit")
        /\ UNCHANGED <<lock, callVars, listVars>>
     \/ /\ Highest(detach[t]) # tip
        /\ Abort(t)
  /\ UNCHANGED <<tip, dbTip, coinVars, orphanVars, boundVars>>
  /\ Saves

\* Mutants of CommitDisconnect: the spent coins are not restored ...
KeepCoins(t) ==
  LET n == Highest(detach[t]) IN
  /\ Holds(t, "commit") /\ detach[t] # {}
  /\ tip' = Parent[n] /\ dbTip' = Parent[n] /\ dbMark' = Parent[n]
  /\ dbUtxo' = utxo
  /\ detach' = [detach EXCEPT ![t] = @ \ {n}]
  /\ Unlocked(t, "notify")
  /\ UNCHANGED <<utxo, indexVars, orphanVars, callVars, attach, snap, boundVars>>
  /\ Saves

\* ... and the cache is not flushed with the new best state.
SkipFlush(t) ==
  LET n == Highest(detach[t]) IN
  /\ Holds(t, "commit") /\ detach[t] # {}
  /\ tip' = Parent[n] /\ dbTip' = Parent[n]
  /\ utxo' = utxo \ {n}
  /\ detach' = [detach EXCEPT ![t] = @ \ {n}]
  /\ Unlocked(t, "notify")
  /\ UNCHANGED <<dbUtxo, dbMark, indexVars, orphanVars, callVars, attach, snap, boundVars>>
  /\ Saves

\* Its transaction: the best state, the flushed cache, then the restored
\* coins.  The notification is sent without the lock.
CommitDisconnect(t) ==
  LET n == Highest(detach[t]) IN
  /\ Holds(t, "commit") /\ detach[t] # {}
  /\ tip' = Parent[n] /\ dbTip' = Parent[n]
  /\ utxo' = utxo \ {n} /\ dbUtxo' = utxo \ {n}
  /\ dbMark' = Parent[n]
  /\ detach' = [detach EXCEPT ![t] = @ \ {n}]
  /\ Unlocked(t, "notify")
  /\ UNCHANGED <<indexVars, orphanVars, callVars, attach, snap, boundVars>>
  /\ Saves

\* utxoCache.connectTransactions runs before connectBlock looks at the tip.
\* It fails for want of an input only when the cache does not hold the
\* block's ancestry, and then leaves some of its transactions applied.
ConnectBlock(t) ==
  LET n    == Lowest(attach[t])
      good == Chain[Parent[n]] \subseteq utxo
  IN
  /\ Holds(t, "reorg") /\ detach[t] = {} /\ attach[t] # {}
  /\ \/ /\ utxo' = utxo \cup {n} /\ Parent[n] = tip
        /\ FlushIndex(status, {})
        /\ Goto(t, "commit")
        /\ UNCHANGED <<lock, callVars, listVars>>
     \/ /\ utxo' = utxo \cup {n} /\ Parent[n] # tip
        /\ Abort(t)
     \/ /\ ~good /\ utxo' \in {utxo, utxo \cup {n}}
        /\ Abort(t)
  /\ UNCHANGED <<tip, dbTip, dbUtxo, dbMark, orphanVars, boundVars>>
  /\ Saves

\* connectBlock's transaction, with the flush that pruning may ask for.
CommitConnect(t) ==
  LET n == Lowest(attach[t]) IN
  /\ Holds(t, "commit") /\ detach[t] = {}
  /\ tip' = n /\ dbTip' = n
  /\ \/ UNCHANGED <<dbUtxo, dbMark>>
     \/ dbUtxo' = utxo /\ dbMark' = n
  /\ attach' = [attach EXCEPT ![t] = @ \ {n}]
  /\ snap' = [snap EXCEPT ![t] = n]
  /\ Unlocked(t, "notify")
  /\ UNCHANGED <<indexVars, utxo, orphanVars, callVars, detach, boundVars>>
  /\ Saves

\* After the notification: connectBlock flushes a full cache as of the state
\* it captured before the lock was released, unless it was flushed in that
\* state already (lastFlushHash is dbMark while any call is under way, save
\* for a tip that was only replayed and no call has connected since).
Notified(t) ==
  /\ Relock(t, "notify", "reorg")
  /\ \/ UNCHANGED <<dbUtxo, dbMark>>
     \/ /\ snap[t] \notin {None, dbMark}
        /\ dbUtxo' = utxo /\ dbMark' = snap[t]
  /\ snap' = [snap EXCEPT ![t] = None]
  /\ UNCHANGED <<indexVars, tip, dbTip, utxo, orphanVars, callVars, detach,
                 attach, boundVars>>
  /\ Saves

Done(t, call) ==
  /\ Holds(t, "reorg") /\ op[t] = call
  /\ detach[t] = {} /\ attach[t] = {}

\* Back in connectBestChain.  A block that extended the tip and has lost its
\* valid flag meanwhile gets it again.
Connected ==
  LET b     == req[Sync]
      again == IF op[Sync] = "extend" /\ ~KnownValid(status, b) THEN {b} ELSE {}
  IN
  /\ Done(Sync, "extend") \/ Done(Sync, "process")
  /\ FlushIndex(SetFlag(status, again, "valid"), again)
  /\ Accepted(TRUE)
  /\ UNCHANGED <<req, tip, dbTip, coinVars, orphanVars, boundVars>>
  /\ Saves

-----------------------------------------------------------------------------
(* processOrphans                                                            *)

\* A mutant of QueueAccepted: an adopted orphan is not processed in turn.
QueueFirstOnly ==
  /\ Relock(Sync, "accepted", "orphans")
  /\ queue' = IF queue = <<>> THEN <<req[Sync]>> ELSE queue
  /\ UNCHANGED <<indexVars, tip, dbTip, coinVars, disk, orphanVars, op, req, main,
                 listVars, boundVars>>

\* maybeAcceptBlock has returned; its block joins the hashes to process.
QueueAccepted ==
  /\ Relock(Sync, "accepted", "orphans")
  /\ queue' = Append(queue, req[Sync])
  /\ UNCHANGED <<indexVars, tip, dbTip, coinVars, disk, orphanVars, op, req, main,
                 listVars, boundVars>>

\* prevOrphans of the block being processed, by place in the pool.
Waiting == {i \in 1..Len(orphans) : Parent[orphans[i]] = Head(queue)}

\* It leaves the pool and is accepted; an error ends ProcessBlock.
AdoptOrphan ==
  /\ Holds(Sync, "orphans") /\ queue # <<>> /\ Waiting # {}
  /\ LET i == CHOOSE j \in Waiting : \A k \in Waiting : j <= k
     IN  /\ orphans' = RemoveOrphan(orphans, orphans[i])
         /\ Accept(orphans[i])
  /\ UNCHANGED <<oldest, tip, dbTip, coinVars, boundVars>>
  /\ Saves

\* A mutant of NextHash: the processed hash is not popped.
SameHash ==
  /\ Holds(Sync, "orphans") /\ queue # <<>> /\ Waiting = {}
  /\ UNCHANGED vars

\* No orphan of the pool extends the block: on to the next one.
NextHash ==
  /\ Holds(Sync, "orphans") /\ queue # <<>> /\ Waiting = {}
  /\ queue' = Tail(queue)
  /\ UNCHANGED <<indexVars, tip, dbTip, coinVars, disk, orphanVars, lock, pc, op, req,
                 main, listVars, boundVars>>

\* processHashes is empty and ProcessBlock returns.
OrphansDone ==
  /\ Holds(Sync, "orphans") /\ queue = <<>>
  /\ Return(Sync)
  /\ UNCHANGED <<req, indexVars, tip, dbTip, coinVars, disk, orphanVars, boundVars>>

-----------------------------------------------------------------------------
(* InvalidateBlock and ReconsiderBlock                                       *)

Tips == InactiveTips({b \in Block : Indexed(b)}, tip)

\* The indexed blocks above x: the walk from every tip back to x meets them.
TipsOver(x) == {b \in Tips \cup {tip} : x \in Chain[b]}
Above(x)    == UNION {Chain[b] \ Chain[x] : b \in TipsOver(x)}

StartRpc(t, x) ==
  /\ MayStart(t) /\ rpcs < MaxRpcs
  /\ Indexed(x)
  /\ rpcs' = rpcs + 1
  /\ req' = [req EXCEPT ![t] = x]

\* The statuses when x is marked as failed and the blocks of D as its
\* descendants.
Invalidated(x, D) ==
  UnsetFlag(SetFlag(SetFlag(status, {x}, "failed"), D, "invalidAncestor"),
            D \cup {x}, "valid")

\* InvalidateBlock of a side-chain block marks the branches above it.
InvalidateSide(t, x) ==
  LET D == {n \in Above(x) : ~KnownInvalid(status, n)} IN
  /\ StartRpc(t, x)
  /\ x \notin Chain[tip] /\ ~KnownInvalid(status, x)
  /\ FlushIndex(Invalidated(x, D), D \cup {x})
  /\ UNCHANGED <<tip, dbTip, coinVars, orphanVars, lock, pc, op, queue, main,
                 listVars, crashes>>
  /\ Saves

\* InvalidateBlock of a best-chain block marks and detaches what is above it
\* and not yet invalid; reorganizeChain refuses a list that does not start at
\* the tip.
InvalidateMain(t, x) ==
  LET D == {n \in Chain[tip] \ Chain[x] : ~KnownInvalid(status, n)} IN
  /\ StartRpc(t, x)
  /\ x \in Chain[tip] \ {Genesis} /\ ~KnownInvalid(status, x)
  /\ KeepDirty(Invalidated(x, D), D \cup {x})
  /\ IF tip \in D \cup {x}
     THEN Reorganize(t, "invalidate", D \cup {x}, {})
     ELSE UNCHANGED <<lock, pc, op, queue, main, listVars>>
  /\ UNCHANGED <<tip, dbTip, coinVars, orphanVars, crashes>>
  /\ Saves

\* x and what was above it are disconnected, and the index is flushed.
Detached(t) ==
  /\ Done(t, "invalidate")
  /\ FlushIndex(status, {})
  /\ Goto(t, "tips")
  /\ UNCHANGED <<tip, dbTip, coinVars, orphanVars, lock, callVars, listVars,
                 boundVars>>
  /\ Saves

\* getReorganizeNodes(b), verifyReorganizationValidity and, if they pass, the
\* start of the reorganization to b that call asks for.
ReorganizeTo(t, call, b, st, D) ==
  LET v == Verified(st, b)
      T == Tainted(st, b)
  IN
  \/ /\ Refused(st, b)
     /\ FlushIndex(SetFlag(st, T, "invalidAncestor"), D \cup T)
     /\ Return(t)
  \/ /\ ~Refused(st, b) /\ Failing(st, b) # {}
     /\ FlushIndex(v.st, D \cup v.dirty)
     /\ Return(t)
  \/ /\ ~Refused(st, b) /\ Failing(st, b) = {}
     /\ IF call = "reconsider" THEN FlushIndex(v.st, D \cup v.dirty)
                              ELSE KeepDirty(v.st, D \cup v.dirty)
     /\ Reorganize(t, call, Chain[tip] \ Chain[b], Branch(b))

\* The parent of x is the tip: look for a tip with more work, the inactive
\* ones (in no particular order) before the active one.  When every tip is
\* known to be invalid (another call ran in a notification window) the code
\* dereferences a nil bestTip: the panic ends the call.
PickBestTip(t) ==
  LET fit  == {b \in Tips \cup {tip} : ~KnownInvalid(status, b)}
      best == {b \in fit : \A c \in fit : WorkSum[c] <= WorkSum[b]}
  IN
  /\ Holds(t, "tips")
  /\ \/ /\ best \subseteq {tip}
        /\ Return(t)
        /\ UNCHANGED indexVars
     \/ \E b \in best \ {tip} :
          ReorganizeTo(t, "switch", b, status, {})
  /\ UNCHANGED <<req, tip, dbTip, coinVars, orphanVars, boundVars>>
  /\ Saves

\* The second reorganization of InvalidateBlock flushes the index again.
Switched(t) ==
  /\ Done(t, "switch")
  /\ FlushIndex(status, {})
  /\ Return(t)
  /\ UNCHANGED <<req, tip, dbTip, coinVars, orphanVars, boundVars>>
  /\ Saves

\* The statuses after ReconsiderBlock cleared x and its descendants.
Reconsidered(x) ==
  UnsetFlag(UnsetFlag(status, Above(x) \cup {x}, "invalidAncestor"), {x}, "failed")

\* ReconsiderBlock reorganizes to the last tip above x that it met: the
\* active one if it is above x, otherwise any.  When the policy keeps the
\* tip, the cleared statuses stay unwritten.
ReconsiderBlock(t, x) ==
  LET D == Above(x) \cup {x} IN
  /\ StartRpc(t, x) /\ ~KnownValid(status, x)
  /\ \E b \in IF tip \in TipsOver(x) THEN {tip} ELSE TipsOver(x) :
       \/ /\ ~ShouldChangeTip(tip, b)
          /\ KeepDirty(Reconsidered(x), D)
          /\ UNCHANGED <<lock, pc, op, queue, main, listVars>>
       \/ /\ ShouldChangeTip(tip, b)
          /\ ReorganizeTo(t, "reconsider", b, Reconsidered(x), D)
  /\ UNCHANGED <<tip, dbTip, coinVars, orphanVars, crashes>>
  /\ Saves

ReconsiderDone(t) ==
  /\ Done(t, "reconsider")
  /\ Return(t)
  /\ UNCHANGED <<req, indexVars, tip, dbTip, coinVars, disk, orphanVars, boundVars>>

-----------------------------------------------------------------------------
(* Flushing the utxo cache, crash and restart                                *)

\* FlushUtxoCache, which the sync manager calls between blocks.
FlushUtxoCache ==
  /\ MayStart(Sync)
  /\ dbUtxo' = utxo /\ dbMark' = tip
  /\ UNCHANGED <<indexVars, tip, dbTip, utxo, orphanVars, lock, pc, callVars,
                 listVars, boundVars>>
  /\ Saves

\* A mutant of Replay: the loop ends before the tip.
ReplayShort(best, flushed) ==
  Chain[best] \ (Chain[FindFork(best, flushed)] \cup {best})

\* The blocks InitConsistentState connects again: those between the fork of
\* the last flushed block with the best chain and its tip.
Replay(best, flushed) == Chain[best] \ Chain[FindFork(best, flushed)]

\* The process dies and starts again with what is on disk.  initChainState
\* loads the index, marks the best chain valid and flushes that;
\* InitConsistentState replays the blocks from the last flush to the tip, and
\* may flush at one of them, m.  ffldb writes none, one or both of these two
\* transactions to disk.
Restart ==
  LET best   == Chain[disk.tip]
      replay == Replay(disk.tip, disk.mark)
      loaded == SetFlag(disk.status, best, "valid")
  IN
  /\ crashes < MaxCrashes
  /\ crashes' = crashes + 1
  /\ status' = loaded /\ dbStatus' = loaded /\ dirty' = {}
  /\ tip' = disk.tip /\ dbTip' = disk.tip
  /\ utxo' = disk.utxo \cup replay
  /\ \/ dbUtxo' = disk.utxo /\ dbMark' = disk.mark
     \/ \E m \in replay : /\ dbUtxo' = disk.utxo \cup (replay \cap Chain[m])
                           /\ dbMark' = m
  /\ OnDisk({disk, [disk EXCEPT !.status = loaded], DbState'})
  /\ orphans' = <<>> /\ oldest' = None
  /\ lock' = None
  /\ pc'     = [t \in Thread |-> "idle"]
  /\ op'     = [t \in Thread |-> "none"]
  /\ detach' = [t \in Thread |-> {}]
  /\ attach' = [t \in Thread |-> {}]
  /\ snap'   = [t \in Thread |-> None]
  /\ queue' = <<>>
  /\ UNCHANGED <<req, main, rpcs>>

-----------------------------------------------------------------------------

\* The steps of a call that has begun.
Step(t) ==
  \/ DisconnectBlock(t) \/ CommitDisconnect(t)
  \/ ConnectBlock(t) \/ CommitConnect(t)
  \/ Notified(t)

SyncStep ==
  \/ Step(Sync)
  \/ ExtendTip \/ RejectTip \/ KeepTip \/ SwitchTip
  \/ Connected \/ QueueAccepted
  \/ AdoptOrphan \/ NextHash \/ OrphansDone

RpcStep(t) ==
  \/ Step(t)
  \/ Detached(t) \/ PickBestTip(t) \/ Switched(t) \/ ReconsiderDone(t)

Next ==
  \/ \E b \in Block \ {Genesis} : ProcessBlock(b)
  \/ SyncStep
  \/ \E t \in Rpcs, x \in Block :
       InvalidateSide(t, x) \/ InvalidateMain(t, x) \/ ReconsiderBlock(t, x)
  \/ \E t \in Rpcs : RpcStep(t)
  \/ FlushUtxoCache
  \/ Restart

\* The Go scheduler keeps running a goroutine that is not waiting for the
\* lock, and sync.Mutex hands the lock to every waiter in the end.
Fairness == WF_vars(SyncStep) /\ \A t \in Rpcs : WF_vars(RpcStep(t))

Spec == Init /\ [][Next]_vars /\ Fairness

-----------------------------------------------------------------------------
(* Properties                                                                *)

Quiet == \A t \in Thread : pc[t] = "idle"

\* The block that connectTransactions has applied and whose transaction is
\* still to come.
Connecting ==
  {Lowest(attach[t]) : t \in {u \in Thread : pc[u] = "commit" /\ detach[u] = {}}}

IndexType ==
  /\ status \in [Block -> SUBSET Flag] /\ dbStatus \in [Block -> SUBSET Flag]
  /\ dirty \in SUBSET Block

ChainType ==
  /\ tip \in Block /\ dbTip \in Block /\ dbMark \in Block
  /\ utxo \in SUBSET Block /\ dbUtxo \in SUBSET Block

DiskType ==
  disk \in [status : [Block -> SUBSET Flag], tip : Block,
            utxo : SUBSET Block, mark : Block]

PoolType == orphans \in Seq(Block \ {Genesis}) /\ oldest \in Block \cup {None}

CallType ==
  /\ lock \in Thread \cup {None}
  /\ pc \in [Thread -> Label] /\ op \in [Thread -> Call]
  /\ req \in [Thread -> Block]
  /\ detach \in [Thread -> SUBSET Block] /\ attach \in [Thread -> SUBSET Block]
  /\ snap \in [Thread -> Block \cup {None}]
  /\ queue \in Seq(Block) /\ main \in BOOLEAN

\* Every variable has its type.
TypeOK ==
  /\ IndexType /\ ChainType /\ DiskType /\ PoolType /\ CallType
  /\ rpcs \in 0..MaxRpcs /\ crashes \in 0..MaxCrashes

\* The utxo cache holds exactly the best chain's blocks, through every
\* reorganization, invalidation, flush and restart.
CoinsMatchTip == utxo = Chain[tip] \cup Connecting

\* Whatever a crash leaves behind can be replayed, in ffldb's cache and on
\* disk: the utxo bucket is the one of its consistency mark, and the mark is
\* on the stored best chain.
Replayable ==
  \A s \in {DbState, disk} : s.utxo = Chain[s.mark] /\ s.mark \in Chain[s.tip]

\* The chain implements Ledger: no call or flush makes the best chain jump, a
\* crash takes it back to the tip last saved and to no other, and it never
\* passes through a block that breaks a rule or parts from the coins.
L == INSTANCE Ledger WITH best <- tip, coins <- utxo \ Connecting,
                          saved <- disk.tip
RefinesLedger == L!LedgerSpec

\* No block that breaks a rule is ever on the best chain or marked valid, in
\* memory or in the database.
NoBadBlock ==
  /\ Chain[tip] \cap BadBlock = {}
  /\ \A b \in BadBlock : ~KnownValid(status, b) /\ ~KnownValid(dbStatus, b)

\* reorganizeChain's lists stay in sync with the end of the best chain: none
\* of its AssertErrors can occur.  InvalidateBlock leaves blocks it finds
\* invalid out of its list, and after a crash those may lie in the middle of
\* the best chain: its own lists are in sync on a node that has not crashed.
ListsInSync ==
  \A t \in Thread :
    /\ pc[t] \in {"reorg", "commit", "notify"}
    /\ crashes = 0 \/ op[t] # "invalidate"
    =>
    /\ detach[t] # {} => Highest(detach[t]) = tip
    /\ detach[t] = {} /\ attach[t] # {} => Parent[Lowest(attach[t])] = tip
    /\ detach[t] # {} /\ attach[t] # {} =>
         Parent[Lowest(attach[t])] = Parent[Lowest(detach[t])]

\* Between calls, every block of the best chain is known to be valid and none
\* to be invalid.  A crash between disconnectBlock's index flush and its
\* transaction breaks this, so it is claimed of a node that has not crashed.
BestChainValid ==
  Quiet /\ crashes = 0 => \A b \in Chain[tip] : KnownValid(status, b) /\ ~KnownInvalid(status, b)

\* Between calls the tip is the best the policy lets the node have: no sound
\* block it knows is ahead by a quarter of that block's own work.
NearBest ==
  Quiet => \A b \in Block :
    Indexed(b) /\ Chain[b] \cap BadBlock = {} =>
      \/ WorkSum[b] <= WorkSum[tip]
      \/ WorkSum[b] - WorkSum[tip] < Work[b] \div 4

\* Between calls no orphan waits for a parent that is in the index and not
\* known to be invalid.
NoStrandedOrphan ==
  Quiet => \A b \in ToSet(orphans) :
             Indexed(Parent[b]) => KnownInvalid(status, Parent[b])

\* The orphan pool exceeds its limit by at most one.
OrphanBound == Len(orphans) <= MaxOrphans + 1

\* Every call that has begun returns.
CallsReturn == \A t \in Thread : pc[t] # "idle" ~> pc[t] = "idle"

-----------------------------------------------------------------------------
(* What the documentation says, and the code does not do                     *)

\* ShouldChangeTip: "The work advantage is at least half the lesser of the
\* two tips' individual block work values".
AdvantageIsHalf ==
  [][\A b \in Block :
       /\ pc[Sync] = "best" /\ b = req[Sync]
       /\ pc'[Sync] = "reorg" /\ op'[Sync] = "process"
       => \/ 2 * (WorkSum[b] - WorkSum[tip]) >= Work[b]
          \/ 2 * (WorkSum[b] - WorkSum[tip]) >= Work[tip]]_vars

\* connectBestChain: "It returns whether or not the block ended up on the
\* main chain".
MainChainReported ==
  pc[Sync] = "accepted" => (main <=> req[Sync] \in Chain[tip])

\* addOrphanBlock: "imposes a maximum limit on the number of outstanding
\* orphan blocks".
OrphanLimit == Len(orphans) <= MaxOrphans

=============================================================================
