# A verification project for Pearl

Pearl is a proof-of-work chain whose work is matrix multiplication. The
repository holds a full node (`node/`, pearld, descended from btcd), a light
client (`spv/`, from neutrino), a wallet (`wallet/`, Oyster, from btcwallet),
the mining side (`miner/`, Python and CUDA), proof code (`zk-pow/`, Rust),
seeders, a caching proxy, mobile bindings and a desktop wallet.

This directory models the node from its block files up to its peers, and the
light client's query scheduler: the parts with state that several goroutines,
crashes or peers act on.

## Inventory

| component | state | operations | hard behaviour | module |
| --- | --- | --- | --- | --- |
| `node/blockchain` | block index with statuses, best chain view, utxo cache, orphan pool; all but the pool in the database, which writes to disk once an hour by default | ProcessBlock, InvalidateBlock, ReconsiderBlock, FlushUtxoCache, New | chainLock is released inside a reorganization for every notification; crashes between transactions; stale pointers and snapshots; out-of-order blocks | BlockChain |
| its utxo cache | entries with fresh, modified and spent flags, spend journal, flush mark | connect, disconnect, fetch, flush, prune, replay | an entry dropped that the disk has, a flush whose transaction fails, pruning what a replay needs | UtxoCache |
| `node/database/ffldb` | block files, leveldb metadata, a write cache | Update, View, prune, flush, Close, reconcile on open | crash or failure between file write and metadata commit; readers between the steps of a flush | Ffldb |
| `node/mempool` | pool, spend index, fee heap, orphans by input and by peer | ProcessTransaction, RemoveTransaction, processOrphans | the chain changes first and tells the pool later; replacement; eviction | Mempool |
| `node/netsync` | sync peer, requested blocks, header list | handlers for peers, blocks, headers, invs and timers, in one goroutine | a peer leaves with answers in flight; stalls; checkpoints | NetSync |
| `node/connmgr`, `node/server.go` | connection requests, peer lists, group counts | dial, retry, replace, handshake, add, done, operator commands | a connection ends in every state; the limit on failed attempts | ConnManager |
| `spv/query` | work queue, workers, batches, peer ranks | Query, dispatch, retry, cancel | timeouts racing answers, peers that reconnect, quit | WorkManager |
| `node/peer`, `addrmgr`, `v2transport` | connections, addresses | handshakes, queue handlers | timeouts | taken as the environment of ConnManager and NetSync |
| `node/mining`, `node/blockchain/indexers`, `node/rpcserver` | templates, index tips, clients | NewBlockTemplate, catch-up, one goroutine per request | concurrent calls into blockchain | the RPC threads of BlockChain |
| `spv` besides `query` | header store, filters, subscriptions, broadcast set, bans | block manager, rescans | reorganizations under a rescan | none |
| `wallet` | credits, debits, unconfirmed set, sync tip | insert, rollback, remove unmined | reorganizations, double spends | none |
| `miner/pearl-gateway` | the current template, a work cache | scheduler refresh, getwork, submit | templates replaced while a miner works on them | none |
| `dnsseeder`, `coredns-dnsseed`, `proxy` | peer tables, a response cache | crawl, answer, single-flight | concurrent refresh | none |
| `zk-pow`, `xmss`, `pearl-blake3`, `plonky2`, `pearl-gemm` | none | pure computation | | none |

The components meet at `blockchain`: ffldb carries it, netsync hands it blocks
that connmgr's peers sent, the RPC server calls InvalidateBlock and
ReconsiderBlock from goroutines of its own, and the mempool, the indexers, the
websocket clients and (through them) the wallets learn of its changes by the
notifications it sends *without* its lock.

What makes the system correct: the coins are those of the best chain, at all
times and after any crash, which may set the chain back; a block that breaks a rule is never part of it; the
best tip the policy allows is found whatever the order of arrival; the database
commits whole transactions and never loses a flushed one; the pool can always
be mined; a node with a reachable honest peer becomes current and keeps its
outbound slots filled; and every call and query is answered, once.

## Modules

| module | models |
| --- | --- |
| `BlockTree` | the tree of blocks, chain views, FindFork, InactiveTips, ShouldChangeTip |
| `Ledger` | the abstract specification: a best chain that moves by one sound block at a time, its coins, and the tip that a crash goes back to |
| `BlockChain` | the chain state machine: `process.go`, `accept.go`, `chain.go`, `blockindex.go`, `utxocache.go`, `chainio.go` |
| `UtxoCache` | the utxo cache entry by entry, over the same trees (EXTENDS BlockTree) |
| `Ffldb` | the block database: `db.go`, `blockio.go`, `dbcache.go`, `reconcile.go` |
| `Mempool` | `mempool.go`, `fee_heap.go`, and netsync's handler of chain notifications |
| `NetSync` | `netsync/manager.go`, `priority.go` |
| `ConnManager` | `connmgr/connmanager.go` and the peer lifecycle of `server.go` |
| `WorkManager` | `spv/query` |
| `MC*` | the instances for TLC |
| `*Proofs` | the theorems: `BlockTreeProofs`, `BlockChainProofs`, `UtxoCacheProofs`, `FfldbProofs`, `MempoolProofs`, `NetSyncProofs`, `ConnManagerProofs`, `WorkManagerProofs` |

The modules stack by assumption. BlockChain and UtxoCache take a database
transaction as atomic, and a crash as going back to the state after some earlier
transaction, not before the last flush of ffldb's cache; Ffldb shows this of its
commits (CommittedView and Recoverable). BlockChain takes the coins of a block as
one unit, which UtxoCache shows of the entries; Mempool sees a chain that moves
by whole blocks and notifies afterwards, which Ledger states; NetSync takes peers
that come and go, which ConnManager produces.

What is durable. commitTx puts a transaction into ffldb's cache, in memory; the
cache goes to disk as a whole when it is 100 MiB large or, by default, an hour
old (dbcacheflushinterval). Both
modules therefore keep the database twice: as committed, which is what the
running node reads, and `disk`, the state that was last written. Each transaction
either leaves `disk` as it is or brings it up to what is committed (Saves), so
that a crash may undo any number of transactions, several blocks of the best
chain included. `disk` is read by the next crash only; once the bound on crashes
is used up it follows the committed state, to keep states that no step can tell
apart from being counted twice. Block files are not part of it: they are deleted
at once (below, UtxoCache).

### How BlockChain corresponds to the code

State. `status` and `dirty` are the block index, `tip` is the chain view's tip
and the state snapshot, `utxo` is the utxo cache over its database, `orphans`
and `oldest` are the orphan pool and its `oldestOrphan` pointer. `dbStatus`,
`dbTip`, `dbUtxo` and `dbMark` are the buckets as committed, `disk` what a crash
leaves of them. `lock` is
chainLock; `pc`, `op`, `req`, `detach`, `attach`, `snap`, `queue` and `main` are
the local variables of the calls that are under way.

Abstraction. A block is a model value: its parent, work and the values
newBlockNode derives from its parent are constants, and BadBlock says which
blocks checkConnectBlock rejects. The utxo set is the set of blocks applied to
it. A list of nodes on one branch is a set of blocks, ordered by height. A block
that fails a context-free check or a check of checkBlockContext is never
indexed, so it is not part of the tree.

Steps. A thread holds the lock in every label but `idle`, `notify` and
`accepted`. An action is a section of code between two points where another
thread or a crash can come in: a release of the lock or a database transaction.

| code | actions |
| --- | --- |
| ProcessBlock, maybeAcceptBlock | ProcessBlock, AdoptOrphan (both through Accept) |
| addOrphanBlock, removeOrphanBlock | AddOrphan, RemoveOrphan |
| connectBestChain | ExtendTip, RejectTip, KeepTip, SwitchTip, Connected |
| getReorganizeNodes, verifyReorganizationValidity | Branch, Refused, Tainted, Failing, Verified |
| reorganizeChain, disconnectBlock, connectBlock | DisconnectBlock, CommitDisconnect, ConnectBlock, CommitConnect, Notified |
| processOrphans | QueueAccepted, AdoptOrphan, NextHash, OrphansDone |
| InvalidateBlock | InvalidateSide, InvalidateMain, Detached, PickBestTip, Switched |
| ReconsiderBlock | ReconsiderBlock, ReconsiderDone |
| FlushUtxoCache | FlushUtxoCache |
| initChainState, InitConsistentState | Restart |

The constant Overlap says whether an RPC may begin while another call is in a
notification window. The code lets it; with Overlap = FALSE the model shows what
holds when an operator's calls do not race with block processing, and the
overlap run shows what is left when they do.

### UtxoCache

`utxo`, `mark`, `journal`, `stored` and `tip` are the database as committed, `disk`
what a crash leaves of it, and `files` the blocks whose file has not been deleted;
`cache` maps each outpoint to an entry that is absent, nil (a cached miss), clean, fresh or spent.
A coin is the block that created it, so that the same transaction in two
branches makes two different coins. The chain thread's call is Start (extension
or reorganization), Disconnect and Connect for each block, FlushIfNeeded and
pruning at its end. A disconnect goes through a view straight to the database
and removes the entries from the cache; a connect spends and adds through the
cache. FetchEntry is any reader that fills the cache while chainLock is free. A
flush that is periodic or needed keeps or erases the cache, because its memory
count is abstracted: it may be full at any time. Restart and Replay are
InitConsistentState. TxsAssumption is what checkConnectBlock and BIP0030 leave of
a branch: a transaction spends only coins that its branch has, and no coin is
spent or made twice on one. PruneBlocks deletes files before the transaction
commits that says so, and long before that transaction is on disk: Connect removes
blocks from `files` also when its transaction fails, a crash brings back rows of
`stored` without their files, and a replay that needs such a block ends in "lost"
(the node does not start). CoinsAt, the reference, says of each block which
coins its chain made and did not spend, without going through the blocks.

### Ffldb

A block record is two units, so that a failed write can leave half of one.
`files` holds the contents and the synced length of each file, `wc` the write
cursor. Update runs the caller's function (StoreBlock, PruneBlocks) in one step,
because it only touches the transaction; the commit is DeleteFile, SavePosition,
WriteBlock, PutCursor, then CommitCache or FlushSync, FlushTreaps, FlushClear,
CommitDirect, each a step at which a crash, a failure (DeleteFails, WriteFails,
CommitFails) or a reader's SnapshotLdb and SnapshotCache may come. Open is
reconcileDB. A crash keeps of each file at least what was synced; CloseDurable
says whether a file closed without a sync survives, as on most file systems.
The history `hist` is the metadata after each commit.

### Mempool

One call of the pool is one step (its mutex covers it), except that
processOrphans is a step per orphan: `todo` is its list of outputs and `tried`
the orphans it has been through for the first of them; ProcessOrphan tries one
more, NextOutput goes on to the next output. The mutex stays with the caller,
so that nothing else moves in between. ConnectBlock and DisconnectBlock change
the chain and leave the handler its list of calls in `note`; Notify makes one of
them, so that ProcessTransaction comes in between. The handler does nothing for a
connected block when sm.current() says no (manager.go:1615), and `note` is then
empty. The answer depends on the clock and on the height that the sync peer has
announced, so it is an input of ConnectBlock: a node that was current is not while
its sync peer is two blocks ahead, with a pool that is full. `missed` is a history
variable: such a block was connected while the pool or the orphan pool was not
empty. The comment at 1612 says that this does not happen, and
InputsAvailable and NotConfirmed are claimed while it is right. A transaction is
a number, its inputs, outputs, fee and size are constants; a failed policy check
is membership of NonStd.

The code's recursions are closed forms: descendants are what can be reached over
spent outputs (Reach, Spenders), and the evictions of trimToSize are the lowest
part of the heap's order that makes the rest fit, with their descendants (Evict).

### NetSync

blockHandler is one goroutine, so a message or a timer is one step, which
includes the requests it sends and what the honest remote peer answers to them:
the answers are put in `inbox` and arrive in order per peer, except that a block
may overtake (Overtake, findBestBlockMsg). The getblocks that one inv provokes,
one per root of an orphan it names, are sent in one step (PushGetBlocks takes the
set of stops and answers them in ascending order). Drop, Stall and DonePeer leave
answers in flight. A block is its height: the chain is one, and every peer is
honest. Announce and Submit make it grow.

### ConnManager

`going` counts the goroutines and timers that will dial, find an address,
replace a request or make a peer of it. A message to connHandler is handled when
it is received. Peers go through handshake, adding and handled; AddPeer and
DonePeer are peerHandler's handlers with the calls they make to the sync manager.

### WorkManager

`pc` is the dispatcher, `at` each worker. A send on an unbuffered channel is one
step of both ends. The dispatcher offers the first job of the queue to the free
workers in the order of their rank, and otherwise waits for a result, a new
batch, a peer or quit. A result is ok, timeout, disconnected or cancelled.

## Runs

| run | instance | properties | shows |
| --- | --- | --- | --- |
| sync | BlockChain: 8 blocks in any order, the heaviest branch ends in a bad block, limit of 2 orphans | TypeOK, NearBest, NoStrandedOrphan, OrphanBound, CallsReturn | order of arrival does not matter and the best sound tip wins |
| calls | BlockChain: 6 blocks, C2 bad, two RPC calls, one crash that loses any number of transactions, calls do not overlap | CoinsMatchTip, ListsInSync, BestChainValid, Replayable, RefinesLedger | any sequence of invalidations and reconsiderations with a crash between any two transactions: recovery, refinement of Ledger, no AssertError (in InvalidateBlock's own lists, until a crash) |
| overlap | BlockChain: 5 blocks, C2 bad, two RPC threads in the windows | NoBadBlock, CallsReturn | what survives overlapping calls |
| coins | UtxoCache: two branches that share a transaction, 4 chain changes, pruning, one crash | CacheIsExact, MarkIsExact, FreshIsNew, NoAssert, ReplayBlocksKept | the cache over the database is the coins of the tip, the database, committed and on disk, those of its mark; the files have what a replay of the committed state needs |
| store | Ffldb: 5 blocks in files of two, 4 transactions, cache of two entries, one failure, two crashes or closes | FfldbTypeOK, CommittedView, Recoverable, RowsReadable, NeverCorrupt | commits are atomic in every step, rows point at their blocks |
| pool | Mempool: 7 transactions that conflict, chain and orphan each other, a pool of three, replacements that evict two at most, chains of up to three blocks of one transaction, connected to a node that is current or not | IndexesExact, InputsAvailable, NotConfirmed, ReplacementPays | the pool stays consistent, and minable while no block was ignored over its head |
| headers | NetSync: a full and a pruned inbound peer, one checkpoint, one fault | NilSafe, RequestsOwned, ListLinked, SyncCompletes | the node becomes current |
| outbound | ConnManager: a permanent, an automatic, an operator's and an inbound connection, one fault | OneOwner, SlotsKept, GroupsExact, SyncPeersLive, PoolFills | no slot is lost or doubled and the pool fills again |
| query | WorkManager: a batch of two queries, a stable and an unstable peer | OneAnswer, OkMeansAnswered, NoQueryLost, SlotsAgree, BatchAnswered | one answer, and it comes |

The type invariants of the last six modules but Ffldb are conjuncts of
FreshIsNew, IndexesExact, RequestsOwned, OneOwner and SlotsAgree.

Three runs show where the code and its own comments disagree (the findings of
PROJECT.json quote the lines):

| run | property | what happens |
| --- | --- | --- |
| window | CoinsMatchTip | an invalidation in a notification window leaves coins of a block off the chain |
| reinsert | InputsAvailable | a disconnected child whose parent could not be put back leaves its own children in the pool |
| snapshot | ReaderSeesCommitted | a read transaction that begins around a flush misses what was committed before |

Bounds, and why they are enough.

* BlockChain: MCBlockChain's tree is G <- A1 <- A2, and G <- B1 <- {B2 <- B3,
  C2 <- C3}; the works put B3 and C3 ahead of A2 by between a quarter and a half
  of a block, so that the policy's threshold decides. MaxOrphans (2 or 1 instead
  of 25) lets the pool fill up: a chain of three orphans, siblings and an
  eviction all occur. The calls run takes G, A1, B1, B2, B3 and C2, a switch of
  branch by three blocks and a bad block next to it, and one crash (515,349
  states); with two crashes, the second of which can strike after a recovery that
  flushed midway, it reaches 2,654,928 states without a violation, in four
  minutes.
* UtxoCache: the transaction that both branches hold, a coin created and spent
  in one block, and a chain that reorganizes there and back (MaxCalls 4). The
  run also passes with two crashes and MaxCalls 3.
* Ffldb: a third file is reached and the first pruned while a transaction is
  being written; one failure at any operation combines with two crashes.
  CacheLimit 2 makes both a commit that fits and one that must flush occur.
  Blocks are symmetric.
* Mempool: MaxReplacementEvictions is 2 instead of 100, so that a replacement that
  evicts a chain of two and one that is refused for evicting three occur; a full pool with ties in
  the fee heap, an orphan with two missing parents; MaxChanges 4 lets a block be
  connected, disconnected and replaced, and three blocks let a confirmed
  transaction lose its only output to the next block.
* NetSync: batches of one header and one inventory make every "more follows"
  path occur with a chain of three blocks and a checkpoint in the middle.
* ConnManager: MaxPeers is only reached while a closed peer is still listed;
  every kind of request and one fault at every point occur.
* WorkManager: two queries and two peers make a retry on the other peer, a
  worker that dies with a job, and a batch cancelled between two results occur.

The bounds MaxRpcs, MaxCrashes, MaxCalls, MaxFails, MaxFaults, MaxTx, MaxReadTx,
MaxChanges, MaxSubmits and Workers only limit how often something begins.
SlotsKept names calls because each one-shot connect adds a request.

Fairness.

* CallsReturn: weak fairness of every thread's steps. A goroutine that is not
  waiting for chainLock runs, and Go's sync.Mutex hands the lock to a waiter
  after a millisecond of starvation. Blocks, RPC calls, flushes and crashes are
  not fair; calls cannot begin without bound in these runs.
* BatchAnswered: weak fairness of the dispatcher and of each worker (a worker's
  timer always ends a wait), strong fairness of the dispatcher's receiving a
  stable peer's connection: Go's select picks at random among ready cases. The
  property assumes a peer that never disconnects (Stable).
* PoolFills: weak fairness of the goroutines and timers of every request and
  peer; connections, drops and operator commands are not fair, and faults are
  bounded, as "connections stop failing" says.
* SyncCompletes: an answer in flight is received or its connection goes (the
  first conjunct of Fairness, which is weak fairness of Receive for a queue that
  is not emptied otherwise), the stall timer and the retry timer fire, DonePeer
  is delivered, outbound peers connect, and a retry that could choose any of
  several peers does not avoid one for ever (pickSyncCandidate picks one at random).

Deadlock is checked in BlockChain's runs. The other systems may stop: a manager
quits, a chain stops growing, or a bound is used up.

## Proofs

`BlockTreeProofs` proves, for every tree that satisfies BlockTree's assumptions:
a chain view is closed under parents and linear, every two blocks have a fork
point that is the last common block, the top of what is detached is the tip, and
the bottom of what is attached is a child of the fork point. Each is an
induction over heights, done by taking the lowest counterexample.

`BlockChainProofs` proves that Inv is inductive:

* TypeOK;
* LockOK: a thread holds the lock exactly in its locked labels, so that at most
  one thread is in a lock section;
* ListsOK: no list holds the genesis block, and what is to be detached lies on
  one branch (otherwise "the next block" would be undefined);
* CommitOK: what disconnectBlock and connectBlock checked about the tip still
  holds when their transaction commits, because the lock is held in between;
* PoolOK: a pool above its limit has lost its oldestOrphan pointer, so that the
  next removal removes a real orphan;
* SoundOK: blocks about to be attached are sound, the stored tip is the tip, and
  the block of an "extend" call passed its check;
* DiskOK: the best chain on disk has no bad block, and no bad block is marked
  valid there. A state comes to disk by a transaction of the running node (whose
  invariant it takes with it) or by the loading of the index in a restart
  (DiskStep, RestartSaves).

NoBadBlock alone is not inductive: CommitConnect moves the tip to the lowest
block of attach, which is sound only because of SoundOK, and extends the tip only
because of CommitOK. The proof shows that every step but Restart moves one
thread that holds or takes the lock (NextMoves), that statuses stay Clean
(IndexClean) and that the tip moves over sound blocks (TipStep).

Theorems: TypeCorrect, OrphanPoolBounded and BadBlocksStayOut, for every value
of the constants: overlapping calls and crashes are included.

Its second part assumes that calls do not overlap (~Overlap; the window run
and the counterexample to Replayable listed below show that the assumption is
needed) and proves that CoinInv is
inductive next to Inv:

* OneCall: at most one call is under way;
* CallOK: a thread's lists lead from the tip down to a fork point and up to the
  new tip, a thread without a call has nothing to attach, and the state that
  connectBlock captured is still the tip's when it flushes;
* CoinsMatchTip and Replayable.

CoinsMatchTip needs CallOK because connectBlock spends the coins before it looks
at the tip: only lists that continue the tip keep the failing branches of
ConnectBlock out of reach. It needs Replayable because Restart builds the cache
from the bucket on disk, and Replayable needs CoinsMatchTip because a flush stores
the cache. Most steps leave tip and coins alone (Plans, NextPlans); the others have a
lemma each. Theorems: CoinsFollowTip, CrashesReplayable, and ImplementsLedger,
which maps best to tip, coins to utxo \ Connecting and saved to disk.tip, and
shows that every step is a step of Ledger or a stutter: a transaction moves the
tip by at most one block (TipMoves holds even when calls overlap) and leaves
`saved` or makes it the new tip (TipSaved), and a restart goes to `saved`.

The rest is about statuses, again for calls that do not overlap.
TipInv is inductive next to Inv and CoinInv:

* PathOK: each call's lists lead from the tip down to a fork point and up to the
  new tip, and a call that is not inside reorganizeChain has none;
* ValidOK: until a crash, a block of the best chain is known to be valid or is
  in a list to be detached, and what will be attached is known to be valid;
* HeldOK: until a crash, the index holds whole branches of stored blocks, no
  orphan is indexed or held twice, and the block that connectBestChain works on
  is not known to be invalid.

Theorems: ListsStayInSync and BestChainStaysValid. PathOK needs ValidOK:
InvalidateBlock detaches the *valid* blocks above the one it was given, and that
is the whole upper part of the best chain only while the best chain is valid.
ValidOK needs HeldOK: RejectTip and the marking of descendants change statuses of
blocks that must not be on the best chain. Both stop at a crash for the same
reason: disconnectBlock flushes the marks before it commits, so that a crash in
between comes back with a best chain that has invalid blocks in it. Two
counterexamples below show that neither property can be stated without that
condition.

The last part is about the order in which blocks arrive. A node is Fresh as long
as no RPC has touched its chain and it has not crashed; TLC finds NearBest violated
after one invalidation, and after a crash between the steps that store a block and
connect it, which no restart resumes. BestInv says of a fresh node:

* MarkedOK: a block known to be invalid breaks a rule or has an ancestor that does,
  so that getReorganizeNodes refuses no lawful branch;
* GoalOK: the block that the lists lead to (the tip, outside reorganizeChain) is
  near the best of all lawful blocks in the index, but for the one that
  connectBestChain has yet to look at;
* RpcsIdle: only the sync manager's goroutine takes steps.

NearBest is a claim about the tip and is false in the middle of a reorganization,
which passes through the fork point; the goal is what never loses work. Theorem:
TipIsNearBest. WaitInv is the counterpart for the orphan pool: until a block is
found to be invalid (NoneInvalid), an orphan whose parent is indexed has its parent
in processHashes, or its parent is the block that the call under way will put
there. It needs StepShape (without a crash no step of reorganizeChain fails),
because every other early return of ProcessBlock marks a block or meets a marked
one. Theorem: OrphansAreAdopted. NoneInvalid is needed: the row on
NoStrandedOrphan below has the counterexample.

`FfldbProofs` proves CommitsAtomic: CommittedView and Recoverable hold in every
reachable state, for every set of blocks, file size, cache limit, prune target
and number of transactions, faults and crashes. Neither is inductive. AtomicInv
adds:

* HistOK: each entry of the history carries its number, so that "which
  transaction is this" can be read off leveldb;
* LdbOK: leveldb is one entry of the history, no older than the last flush;
* SeenOK: leveldb under the cache is the last entry, and a database that is not
  open has neither cache nor transaction;
* TxOK: the transaction under way works on the last entry and will write the
  next number; after FlushTreaps leveldb is what is seen, and before
  CommitDirect the cache is empty, so that writing the transaction over leveldb
  gives what writing it over the cache would have given.

The lemmas about Merge show that a flush followed by the removal of the cache
changes nothing that is seen, and that merging twice is merging the merged keys.

The same invariant gives FlushedDurable (Recoverable alone, without the open
database that CommittedView is about).

Its second part goes on from AtomicInv to the block files:

* TypeInv: types, and a position to go back to while a transaction is written
  (theorem TypesKept);
* StoreInv: in the order leveldb's cursor, the cursor that is seen, the write
  cursor, none is behind the one before, and everything up to leveldb's cursor
  survives a crash;
* RowsInv: every row of leveldb lies before leveldb's cursor and its record
  survives a crash; every row that is seen lies before the cursor that is seen
  and its record is there; likewise the rows a transaction is about to commit;
* CleanInv: while nothing has failed, the rows of deleted files go with the
  transaction that deleted them.

Theorems OpensAgain (NeverCorrupt) and BlocksReadable (RowsReadable) have two
hypotheses. CloseDurable is about the file system. PruneBehind says that a prune
deletes only files before the one of the flushed write cursor. pearld's prune
target is at least three files (1536 MiB), its metadata is flushed every hour by
default or at 100 MiB, so that a violation takes more than a gigabyte of blocks in
one flush interval; the code does not exclude it. The condition is sufficient and
not necessary: the store run prunes files that leveldb has not heard of, and both
invariants hold there too. Rows of the table below show a loss without either
hypothesis.

`UtxoCacheProofs` proves UtxoInv inductive when no database transaction fails
(Failing = {}; the two rows of the table below with Failing show why):

* UtxoTypeOK and MarkIsExact;
* CacheOK: what the cache shows over the bucket is the coins of the tip, and
  during a replay those of the block it has come to; a fresh entry has nothing
  below it and a clean one equals what is below;
* PlanOK: what is left of a reorganization leads down to a fork block and up to a
  target, through stored blocks;
* ViewOK: the view of the disconnects agrees with the coins of the tip where it
  has an entry;
* JournalOK: the journal of a stored block holds what that block spent;
* ReplayOK: files are a part of what the rows name, and before the first crash all
  of it; up to the end of the first replay, the blocks above the mark have rows;
* DiskInv: MarkIsExact and JournalOK of what is on disk, whose rows name every file
  there is and, before the first crash, every block above its mark. Files only
  go, and rows reach the disk only as a committed state that satisfies the rest of
  the invariant (DiskMoves, DiskSaved).

The lemmas under it are about CoinsAt: going up by a block is connecting its
transactions in order, going down is disconnecting them in reverse order with
the journal's coins; each is an induction on the transactions of one block, by
the least one that fails. Theorems, for every tree, every set of transactions
and any number of calls, fetches, flushes, prunings and crashes: CoinsSeen,
MarkHolds, FreshSafe, BlocksKept and NeverAsserts. What they say of pruning is
limited in two ways by what the code does. No file is deleted that the *committed*
state would need for a replay, and a state on disk had its blocks when it was
written; but pruning goes on while that state stays on disk, so that the replay
after a crash can find a file gone. NoAssert says that this is the only way for
the first replay to fail: the rows on disk still name a file that is gone. And
after a replay lastFlushHash names a tip that was not flushed, so that pruning may
delete even what the committed state would need; both properties say nothing of
pruning then. Rows of the table below have the counterexamples.

`NetSyncProofs` proves SyncInv inductive, for every set of peers, checkpoints,
batch sizes and chain length and any number of stalls and lost connections:

* Owned and Linked: RequestsOwned and ListLinked, as predicates of a state of the
  manager;
* Synced: NilSafe;
* LinkOK: the manager has a state for exactly the peers whose connection it was
  told of and has not yet been told the end of, and messages come from those.

The properties need LinkOK: a block is asked of the peer whose message is being
handled, and its mark is owned only if that peer is known. The states inside a
handler do not satisfy the invariant: handleDonePeerMsg removes the peer before
it replaces the sync peer, so that updateSyncPeer is proved from Kept (SyncInv
without Synced) and establishes Synced. Each helper has a lemma on what it leaves
alone: Sends for those that only ask and put the answer in a peer's inbox,
Touched for those that change fields the invariant is not about. Nth, which orders
the blocks of an answer, is shown to name an element by counting the elements
below. Theorems: NilSafeSafe, RequestsOwnedSafe and ListLinkedSafe, without
hypotheses. AnchorKept, which a comment of the code claims, is not among them: it
is false (below).

`ConnManagerProofs` proves ConnInv inductive, for every number of requests,
peers, faults and commands:

* HeldInv: of each request, what goroutine or timer is under way, or that a peer
  runs on it, decides whether it is pending, connected or neither;
* PeerInv: no two peers run on one request;
* SlotsKept, GroupsExact, SyncPeersLive and the types.

OneOwner counts owners; HeldInv says which one, which is what connHandler's cases
need, and SlotsKept needs it because a request leaves the count exactly when its
last owner does. Theorems: OneOwnerSafe, SlotsKeptSafe, GroupsExactSafe and
SyncPeersLiveSafe.

`WorkManagerProofs` proves WorkInv inductive, for every number of batches,
queries, peers, workers and retries:

* CountInv: a batch's rem is the number of its queries without an answer, so that
  the batch is answered exactly once, and with nil only when none is left;
* PlaceInv and CoverInv: a query of an open batch is in one place: answered,
  queued, or with one worker;
* TriesInv, AskedInv, CurrentInv, OfferInv and AddrInv, which say what the
  dispatcher's loop knows at each label;
* SlotInv: without early reconnection (~Reconnect) the worker of an address is
  the one in the dispatcher's map, with its job as the active one.

Theorems: OneAnswerSafe, OkMeansAnsweredSafe and NoQueryLostSafe, with
reconnections; SlotsAgreeSafe and NoNilSlot without them: the row on
ResultDelivered below shows the nil dereference with them.

`MempoolProofs` proves PoolInv inductive, for every set of transactions and
blocks, every limit and any number of chain changes:

* Exact: the types, the spend index, the orphan index, the fee heap and the byte
  count are functions of the pool and the orphans;
* LoopOK: the outputs that processOrphans has left belong to known transactions,
  and `tried` is empty between two outputs;
* ChainOK: every block of the chain spends only coins that the blocks below it
  made and left, so that Utxo can be followed over connect and disconnect;
* NoteOK: which calls a notification still has to make, and in which order: for
  each transaction of a connected block, remove comes before doubles, orphan and
  orphans, and all of them stand in the order of the block;
* ConfirmedOK: unless a block was missed, a confirmed transaction is in the pool
  only while its removal is pending, and a Lasting one is an orphan only while its removal as an orphan is;
* InputsOK: unless a block was missed, each input of a pool transaction is an
  unspent coin or an output of the pool, or a call is pending that will remove the spender (doubles) or put the
  parent back (accept). The last case holds only when no block contains a
  transaction together with one that spends it (Independent).

Settled states have no pending call, and there the last two are NotConfirmed and
InputsAvailable. They are not inductive because submitters come in between the
calls of a notification; and a transaction that comes in then is checked against
the chain's coins *and* the pool, which is why a pending call must be known for
every input that neither has. A block that the handler ignores leaves no call: then
the pool was empty, or `missed` is set and the two properties claim nothing more
(IgnoredStep). Theorems: IndexesExactSafe and NotConfirmedSafe without hypotheses;
InputsAvailableSafe under Independent, which the reinsert run
shows to be needed; ReplacementPaysSafe when the relay fee and the fee rates are
above zero. The last one rests on validateReplacement's two conditions: the fee
covers every conflict's fee, and is above it by the relay fee for the new size.
Its lemmas count fees as pairs (Units), so that sums over sets are cardinalities.

Only model-checked:

* everything under fairness, which the prover does not handle: CallsReturn,
  BatchAnswered, PoolFills and SyncCompletes;
* NoStrandedOrphan after a block was rejected: it holds on the sync run, whose bad
  block B3 has no sibling, and not on every tree.

## Disagreements without a run

Each of these was found by TLC on the property named (it is defined in its
module), with the run's constants changed as given.

| module | property | change | what happens |
| --- | --- | --- | --- |
| BlockChain | AdvantageIsHalf | sync, BadBlock {} | the threshold is a quarter of the lesser work (chain.go:1157), the comment at 1144 says half |
| BlockChain | MainChainReported | sync, BadBlock {B1} | a block on a refused branch is reported to be on the main chain (chain.go:1310, doc at 1167) |
| BlockChain | OrphanLimit | sync, BadBlock {} | a stale oldestOrphan lets the pool exceed its limit by one (chain.go:315, doc at 294) |
| BlockChain | NoStrandedOrphan | sync, BadBlock {B2} | a rejected orphan strands its siblings until they expire (process.go:129, doc at 88) |
| BlockChain | BestChainValid without `crashes = 0` | calls, Block {G, A1, A2}, one call, one crash | a crash inside InvalidateBlock leaves a tip marked both valid and failed (chainio.go:1306, comment at 1294) |
| BlockChain | ListsInSync without `crashes = 0` | calls, Block {G, B1, B2, B3}, BadBlock {}, four calls, one crash | InvalidateBlock(B2) crashes after the marks were flushed and before a disconnection was committed: the best chain still ends in B3, which the restart marks valid, above an invalid B2; after InvalidateBlock, ReconsiderBlock and InvalidateBlock of B1 the list to detach has a gap (chain.go:1940, the AssertError at 718) |
| BlockChain | Replayable | window's constants | connectBlock's last flush stores a mark that is no longer on the best chain (chain.go:708, utxocache.go:699) |
| UtxoCache | CacheIsExact | Failing {"flush"}, MaxFails 1, Pruning FALSE, MaxCalls 2, no crash | the cache is erased inside a transaction that then fails (utxocache.go:530) |
| UtxoCache | MarkIsExact | Failing {"connect"}, otherwise the same | connectBlock's transaction fails after the block's coins went to the cache, and a flush stores them under the old mark (chain.go:1233, utxocache.go:558) |
| UtxoCache | ReplayBlocksKept with `files = stored` in place of `crashes = 0` | MaxCalls 3, two crashes | a replay sets lastFlushHash to a tip that was not flushed; pruning then deletes what the next replay needs (utxocache.go:766, comment at 790) |
| UtxoCache | ReplayFindsBlocks | coins | a block connects and is flushed, the next connection prunes it, and the process crashes before ffldb has written any of this to disk: the database comes back with the old mark and the replay does not find its block (db.go:1577, dbcache.go:576; utxocache.go:789 says "we always need to have the blocks since the utxo cache flush last happened") |
| UtxoCache | ReorgCompletes | MaxCalls 2, no crash | a reorganization below the pruned blocks fails after its first disconnect (chain.go:726, comment at 1079) |
| WorkManager | ResultDelivered | Peer {p1}, Stable {}, Reconnect TRUE | an address that reconnects before its old worker has exited shares that worker's entry of the dispatcher's map: its result frees the wrong slot, or finds no entry and dereferences nil, and no other result is taken any more (workmanager.go:309) |
| WorkManager | TimeoutHonoured | Peer {p1}, Stable {}, Size 1, Workers 1 | a batch's timeout is only looked at when a result arrives (workmanager.go:444, interface.go:86) |
| WorkManager | RetriedBeforeFailing | Size 1 | the first attempt counts as a retry (workmanager.go:374, interface.go:38) |
| WorkManager | NoWastedWork | Size 2, Workers 1 | a batch that failed deletes its entry without closing the cancel channel of its other jobs (workmanager.go:385, comment at 449) |
| Mempool | PoolEmptyBehind | pool | a node that was current and is behind the height its sync peer has announced connects a block with transactions in its pool, and the handler returns before it removes any (manager.go:1615; the comment at 1612 says "The mempool is empty ... unless we're caught up"); without `~missed` InputsAvailable and NotConfirmed are refuted by the same constants |
| Mempool | NotConfirmed without `~Lasting(t)` | none | a confirmed transaction whose outputs are all spent is not recognized when it is sent again and is kept as an orphan until it expires (mempool.go:1393) |
| ConnManager | RemovedStaysGone | none | a removed persistent peer's request stays permanent and is dialled again (server.go:1980, rpcserverhelp.go:35) |
| NetSync | AnchorKept | Inbound {}, Limited {}, Checkpoints {1, 2}, SPECIFICATION Spec | a block that was asked for before the list was reset equals its anchor and removes it (manager.go:764); the comment at manager.go:1049 says an empty list cannot occur |
| Ffldb | RowsReadable | store, CloseDurable FALSE | a full file is closed without a sync when the next one is opened (blockio.go:462) |
| Ffldb | RowsReadable | store, PruneTarget 4, MaxFaults 3 | files that a reopening could not remove (a failed truncation) make the prune delete the file the write cursor is open in, and the next records go to a file without a name (db.go:1577) |
| Ffldb | NeverCorrupt | store, PruneTarget 4, CacheLimit 8, MaxTx 5, no fault | files are pruned before the transaction that says so is durable (db.go:1577); after a crash and one more restart the database reports corruption |

Smaller ones seen while reading: current reads syncPeer twice without a lock on
the goroutine of an RPC call (manager.go:1596); two dials at the same time may
pick the same address group (server.go:3170); processOrphans of the mempool stops at the
first orphan of an output that fails (mempool.go:1014); startSync skips a peer
whose announced block is in our orphan pool (manager.go:365); one-shot connects
of the operator add to the automatic connections (connmanager.go:149); honest
peers are disconnected when an answer to an earlier sync arrives late
(HonestPeersKept); commitTx's failure does not roll the block files back, although
Commit's comment says so.

## Not modelled

* The consensus rules, scripts, wire encoding, keys, proofs and kernels: pure
  computation over data that a model abstracts to its verdict. They are most of
  the repository's lines, together with generated code (protobuf, RPC help),
  command-line and RPC plumbing, bindings and user interfaces. This is why the
  mapped lines are a small share of the whole: a model of a state machine has
  nothing to say about them.
* BFFastAdd; the life of the process after a panic in InvalidateBlock (the model
  ends the call).
* Mempool: the fee estimator, the rate limiter, the address index; what makes
  sm.current() answer yes or no when a block is connected (an input), and
  therefore what a pool that missed a block goes on to hold.
* NetSync: transactions requested from peers, dishonest peers, eviction from
  full request maps, pause and shutdown.
* ConnManager: bans and user agents (a refusal), DNS seeds, the choice of an
  address, Tor, shutdown.
* Ffldb: nested buckets and cursors, the treap (a function), the pool of open
  read files, block regions.
* WorkManager: the values of the timeouts (2 s doubled up to 32 s).
* spv besides the query scheduler, the wallet, the gateway, the seeders and the
  proxy: they have state of their own worth a module (below); what they submit
  to the node is checked by the code modelled here.

## Plan

Modules: wallet's `wtxmgr` under reorganizations, `pearl-gateway`'s work
cache, spv's header store and rescan.
