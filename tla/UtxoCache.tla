------------------------------ MODULE UtxoCache ------------------------------
(***************************************************************************)
(* The utxo cache of pearld, entry by entry (node/blockchain:              *)
(* utxocache.go, utxoviewpoint.go, and the parts of chain.go that use      *)
(* them): the nil, clean, fresh and spent entries of the cache, the views  *)
(* that disconnect blocks straight in the database, flushes that erase or  *)
(* keep the cache, pruning, failed database transactions, crashes and the  *)
(* replay that follows.  BlockChain takes a block's coins as one unit; this *)
(* module shows what that rests on.                                        *)
(*                                                                         *)
(* A coin is the block that created it (its height and data); None is no   *)
(* coin.  The blocks of the tree passed checkConnectBlock.                 *)
(***************************************************************************)
EXTENDS BlockTree, Sequences

CONSTANTS
  Out,        \* outpoints
  Txs,        \* the transactions of each block: inputs and spendable outputs
  None,
  Pruning,    \* is pruneTarget set?
  MaxCalls,   \* bound: chain changes asked for
  Failing,    \* transactions that may fail: those of connectBlock, of flushes
  MaxCrashes, \* bound: crashes
  MaxFails    \* bound: database transactions that fail

ASSUME UtxoAssumption ==
  /\ None \notin Block
  /\ DOMAIN Txs = Block
  /\ \A b \in Block : Txs[b] \in Seq([ins : SUBSET Out, outs : SUBSET Out])
  /\ Pruning \in BOOLEAN /\ Failing \subseteq {"connect", "flush"}
  /\ MaxCalls \in Nat /\ MaxCrashes \in Nat /\ MaxFails \in Nat

\* Transaction i of block c and transaction j of block d are on one chain, and
\* the first comes before the second.
Earlier(c, i, d, j) == c \in Chain[d] /\ (c # d \/ i < j)

\* checkConnectBlock: a transaction spends only coins that its branch has, and
\* on no branch is a coin spent twice.  No outpoint is made twice either: the
\* transactions of a branch differ (BIP0030, BIP0034).
ASSUME TxsAssumption ==
  /\ Txs[Genesis] = <<>>
  /\ \A d \in Block : \A j \in DOMAIN Txs[d] :
       /\ \A o \in Txs[d][j].ins : \E c \in Block : \E i \in DOMAIN Txs[c] :
            Earlier(c, i, d, j) /\ o \in Txs[c][i].outs
       /\ \A c \in Block : \A i \in DOMAIN Txs[c] :
            Earlier(c, i, d, j) => /\ Txs[c][i].ins \cap Txs[d][j].ins = {}
                                   /\ Txs[c][i].outs \cap Txs[d][j].outs = {}

VARIABLES
  utxo,      \* database: the utxo set
  mark,      \* database: the block the utxo set is consistent with
  journal,   \* database: the spend journal
  stored,    \* database: the block index rows of blocks that are not pruned
  tip,       \* the best state, in the database and in memory
  files,     \* the blocks whose file has not been deleted
  disk,      \* the last state of the database that ffldb wrote to disk
  cache,     \* cachedEntries
  lastFlush, \* lastFlushHash
  view,      \* reorganizeChain's view
  detach, attach, oldBest,
  pc,        \* what the chain thread is at
  at,        \* the block up to which the utxo set has been replayed
  calls, crashes, fails

db     == <<utxo, mark, journal, stored, tip>>
onDisk == <<files, disk>>
counts == <<calls, crashes, fails>>
vars   == <<db, onDisk, cache, lastFlush, view, detach, attach, oldBest, pc, at, counts>>

\* The database as the transactions committed so far leave it.
Committed == [utxo |-> utxo, mark |-> mark, journal |-> journal, stored |-> stored, tip |-> tip]

\* commitTx adds a transaction to ffldb's cache and may write everything
\* committed so far to disk.  What is on disk matters to the next crash only:
\* it is not told apart once the bound leaves none.
Saves == disk' \in IF crashes' = MaxCrashes THEN {Committed'} ELSE {disk, Committed'}

-----------------------------------------------------------------------------
(* Entries                                                                   *)

Entry(k, v) == [kind |-> k, coin |-> v]
Absent == Entry("absent", None)
Nil    == Entry("nil", None)
Spent  == Entry("spent", None)
Empty  == [o \in Out |-> Absent]

Ins(b) == UNION {Txs[b][i].ins : i \in DOMAIN Txs[b]}
With(f, S, e) == [o \in Out |-> IF o \in S THEN e ELSE f[o]]

\* fetchEntries: a miss is cached too, as a nil entry.
Fetched(c, S) ==
  [o \in Out |-> IF o \notin S \/ c[o] # Absent THEN c[o]
                 ELSE IF utxo[o] = None THEN Nil ELSE Entry("clean", utxo[o])]

\* addTxIn: a fresh entry is dropped, the database never saw it; any other
\* stays until the coin on disk is deleted.
SpendIns(c, S) ==
  [o \in Out |-> IF o \notin S THEN c[o]
                 ELSE IF c[o].kind = "fresh" THEN Absent ELSE Spent]

\* A mutant of SpendIns: every spent entry is dropped.
DropIns(c, S) == With(c, S, Absent)

\* A mutant of AddOuts: entries are not marked as modified.
AddClean(c, S, b) == With(c, S, Entry("clean", b))

AddOuts(c, S, b) == With(c, S, Entry("fresh", b))

\* connectTransaction: the cache, the spent coins and whether an input was
\* missing, after transaction tx of block b.
ConnectTransaction(s, tx, b) ==
  LET in == Fetched(s.cache, tx.ins)
  IN  [cache   |-> AddOuts(SpendIns(in, tx.ins), tx.outs, b),
       stxos   |-> [o \in Out |-> IF o \in tx.ins THEN in[o].coin ELSE s.stxos[o]],
       missing |-> s.missing \/ \E o \in tx.ins : in[o] = Nil]

\* connectTransactions, from the first transaction to the last.
ConnectTransactions(c, b) ==
  LET after[n \in 0..Len(Txs[b])] ==
        IF n = 0 THEN [cache |-> c, stxos |-> [o \in Out |-> None], missing |-> FALSE]
        ELSE ConnectTransaction(after[n - 1], Txs[b][n], b)
  IN  after[Len(Txs[b])]

-----------------------------------------------------------------------------
(* Flushes: writeCache                                                       *)

\* The utxo set after a flush of cache c.
Written(c) ==
  [o \in Out |-> CASE c[o].kind \in {"nil", "spent"} -> None
                   [] c[o].kind = "fresh" -> c[o].coin
                   [] OTHER -> utxo[o]]

\* A mutant of Kept: entries stay fresh.
KeptFresh(c) == [o \in Out |-> IF c[o].kind \in {"nil", "spent"} THEN Absent ELSE c[o]]

\* The cache after a flush that does not erase it.
Kept(c) ==
  [o \in Out |-> CASE c[o].kind \in {"nil", "spent"} -> Absent
                   [] c[o].kind = "fresh" -> Entry("clean", c[o].coin)
                   [] OTHER -> c[o]]

Flush(c, b, erase) ==
  /\ utxo' = Written(c) /\ mark' = b /\ lastFlush' = b
  /\ cache' = IF erase THEN Empty ELSE Kept(c)

\* writeCache ran, but its transaction failed afterwards.
FailedFlush(b) ==
  /\ "flush" \in Failing /\ fails < MaxFails /\ fails' = fails + 1
  /\ cache' = Empty /\ lastFlush' = b

-----------------------------------------------------------------------------
(* Views                                                                     *)

\* findInputsToFetch: inputs made earlier in the block are not asked for; all
\* outputs of the transaction that made them join the view.
InFlight(b) ==
  UNION {Txs[b][i].outs : i \in
           {j \in DOMAIN Txs[b] : \E k \in DOMAIN Txs[b] :
              j < k /\ Txs[b][j].outs \cap Txs[b][k].ins # {}}}

\* fetchInputUtxos: copies of the cache's entries join the view.
FetchInputs(v, c, b) ==
  LET known == With(v, InFlight(b), Entry("mod", b))
  IN  [o \in Out |->
         IF o \in Ins(b) /\ known[o] = Absent
         THEN IF c[o].kind = "fresh" THEN Entry("mod", c[o].coin) ELSE c[o]
         ELSE known[o]]

\* disconnectTransactions, from the last transaction to the first.
DisconnectTransaction(v, tx, b) ==
  [o \in Out |-> IF o \in tx.ins THEN Entry("mod", journal[b][o])
                 ELSE IF o \in tx.outs THEN Spent ELSE v[o]]
DisconnectTransactions(v, b) ==
  LET undone[n \in 0..Len(Txs[b])] ==
        IF n = 0 THEN v
        ELSE DisconnectTransaction(undone[n - 1], Txs[b][Len(Txs[b]) - n + 1], b)
  IN  undone[Len(Txs[b])]

\* dbPutUtxoView
PutView(u, v) ==
  [o \in Out |-> CASE v[o].kind = "spent" -> None
                   [] v[o].kind = "mod" -> v[o].coin
                   [] OTHER -> u[o]]

\* commit toggles the modified flag.
CommitView(v) ==
  [o \in Out |-> CASE v[o].kind \in {"nil", "spent"} -> Absent
                   [] v[o].kind = "mod" -> Entry("clean", v[o].coin)
                   [] v[o].kind = "clean" -> Entry("mod", v[o].coin)
                   [] OTHER -> v[o]]
-----------------------------------------------------------------------------
(* The chain thread                                                          *)

Init ==
  /\ utxo = [o \in Out |-> None] /\ mark = Genesis
  /\ journal = [b \in Block |-> [o \in Out |-> None]] /\ stored = Block
  /\ tip = Genesis /\ files = Block /\ disk = Committed
  /\ cache = Empty /\ lastFlush = Genesis
  /\ view = Empty /\ detach = {} /\ attach = {} /\ oldBest = Genesis
  /\ pc = "idle" /\ at = Genesis
  /\ calls = 0 /\ crashes = 0 /\ fails = 0

\* A block extends the tip, or reorganizeChain is called: verification loads
\* every block that is to be detached or attached, and caches their inputs.
Start(b) ==
  /\ pc = "idle" /\ calls < MaxCalls
  /\ b # tip /\ calls' = calls + 1
  /\ detach' = Chain[tip] \ Chain[b] /\ attach' = Chain[b] \ Chain[tip]
  /\ detach' \cup attach' \subseteq files
  /\ cache' = Fetched(cache, UNION {Ins(c) : c \in detach' \cup attach'})
  /\ oldBest' = tip /\ view' = Empty /\ pc' = "reorg"
  /\ UNCHANGED <<db, onDisk, lastFlush, at, crashes, fails>>

Return == detach' = {} /\ attach' = {} /\ view' = Empty /\ pc' = "idle"

\* A mutant of Flushed: the flush before a disconnect keeps the cache.
FlushedKeeping == Kept(cache)

\* "Flush the cache on every disconnect": the cache after it.
Flushed == Empty

\* disconnectBlock: one transaction moves the tip, flushes the cache and undoes
\* the block in the database.  Only here is the parent's block loaded.
Disconnect ==
  LET b == Highest(detach)
      v == DisconnectTransactions(FetchInputs(view, Fetched(cache, Ins(b)), b), b)
  IN
  /\ pc = "reorg" /\ detach # {}
  /\ \/ /\ Parent[b] \in files
        /\ utxo' = PutView(Written(cache), v)
        /\ tip' = Parent[b] /\ mark' = Parent[b] /\ lastFlush' = Parent[b]
        /\ cache' = Flushed
        /\ journal' = [journal EXCEPT ![b] = [o \in Out |-> None]]
        /\ view' = CommitView(v) /\ detach' = detach \ {b}
        /\ pc' = IF detach' \cup attach = {} THEN "idle" ELSE "reorg"
        /\ UNCHANGED <<stored, attach, oldBest, fails>>
     \/ /\ Parent[b] \in files
        /\ FailedFlush(Parent[b]) /\ Return
        /\ UNCHANGED <<db, oldBest>>
     \/ /\ Parent[b] \notin files
        /\ cache' = Fetched(cache, Ins(b)) /\ Return
        /\ UNCHANGED <<db, oldBest, lastFlush, fails>>
  /\ UNCHANGED <<files, at, calls, crashes>>
  /\ Saves

\* A mutant of FlushNeededAfterPrune: a boundary block is taken to be safe.
FlushIfPast(gone) ==
  lastFlush = None \/ \E b \in gone : Height[b] > Height[lastFlush] + 1

FlushNeededAfterPrune(gone) ==
  lastFlush = None \/ \E b \in gone : Height[b] >= Height[lastFlush]

\* PruneBlocks deletes the oldest files: the blocks up to some height.
Prunable(b) ==
  {{}} \cup IF Pruning
            THEN {{c \in files : Height[c] <= h} : h \in 0..(Height[b] - 1)} ELSE {}

\* connectTransactions and connectBlock up to its notification.  The cache is
\* changed before the transaction and stays changed when it fails.  The files
\* are deleted before the transaction commits, and stay deleted too.
Connect ==
  LET b == Lowest(attach)
      r == ConnectTransactions(cache, b)
  IN
  /\ pc = "reorg" /\ detach = {} /\ attach # {}
  /\ \/ /\ r.missing
        /\ pc' = "assert" /\ cache' = r.cache
        /\ UNCHANGED <<db, files, lastFlush, attach, detach, oldBest, view, fails>>
     \/ /\ ~r.missing
        /\ \E gone \in Prunable(b) :
             /\ files' = files \ gone /\ stored' = stored \ gone
             /\ journal' = [c \in Block |->
                  IF c = b THEN r.stxos
                  ELSE IF c \in gone THEN [o \in Out |-> None] ELSE journal[c]]
             /\ IF gone # {} /\ FlushNeededAfterPrune(gone)
                THEN Flush(r.cache, b, TRUE)
                ELSE cache' = r.cache /\ UNCHANGED <<utxo, mark, lastFlush>>
        /\ tip' = b /\ attach' = attach \ {b} /\ pc' = "flush"
        /\ UNCHANGED <<detach, oldBest, view, fails>>
     \/ /\ ~r.missing /\ "connect" \in Failing
        /\ fails < MaxFails /\ fails' = fails + 1
        /\ \E gone \in Prunable(b) :
             /\ files' = files \ gone
             /\ IF gone # {} /\ FlushNeededAfterPrune(gone)
                THEN cache' = Empty /\ lastFlush' = b
                ELSE cache' = r.cache /\ UNCHANGED lastFlush
        /\ Return
        /\ UNCHANGED <<db, oldBest>>
  /\ UNCHANGED <<at, calls, crashes>>
  /\ Saves

\* connectBlock after its notification: FlushIfNeeded.
FlushIfNeeded ==
  /\ pc = "flush"
  /\ pc' = IF attach = {} THEN "idle" ELSE "reorg"
  /\ \/ /\ lastFlush # tip
        /\ \/ Flush(cache, tip, TRUE) /\ UNCHANGED fails
           \/ FailedFlush(tip) /\ UNCHANGED <<utxo, mark>>
     \/ UNCHANGED <<utxo, mark, cache, lastFlush, fails>>
  /\ UNCHANGED <<journal, stored, tip, files, view, detach, attach, oldBest, at, calls, crashes>>
  /\ Saves

\* FlushUtxoCache(FlushPeriodic)
FlushPeriodic ==
  /\ pc = "idle"
  /\ \/ \E erase \in BOOLEAN : Flush(cache, tip, erase) /\ UNCHANGED fails
     \/ FailedFlush(tip) /\ UNCHANGED <<utxo, mark>>
  /\ UNCHANGED <<journal, stored, tip, files, view, detach, attach, oldBest, pc, at, calls,
                 crashes>>
  /\ Saves

\* Wherever chainLock is free FetchUtxoView and FetchUtxoEntry fill the cache.
FetchEntry(o) ==
  /\ pc \in {"idle", "reorg", "flush"} /\ cache[o] = Absent
  /\ cache' = Fetched(cache, {o})
  /\ UNCHANGED <<db, onDisk, lastFlush, view, detach, attach, oldBest, pc, at, counts>>

-----------------------------------------------------------------------------
(* Crash, shutdown and restart                                               *)

Forget ==
  /\ cache' = Empty /\ lastFlush' = None /\ view' = Empty
  /\ detach' = {} /\ attach' = {} /\ pc' = "down"

\* The database is back at what was on disk; deleted files stay deleted.
Crash ==
  /\ pc # "down" /\ crashes < MaxCrashes /\ crashes' = crashes + 1
  /\ Forget
  /\ utxo' = disk.utxo /\ mark' = disk.mark /\ journal' = disk.journal
  /\ stored' = disk.stored /\ tip' = disk.tip
  /\ UNCHANGED <<onDisk, oldBest, at, calls, fails>>

\* InitConsistentState up to its loop.
Restart ==
  /\ pc = "down"
  /\ at' = mark
  /\ \/ mark = tip /\ pc' = "idle" /\ lastFlush' = tip
     \/ mark # tip /\ pc' = "replay" /\ UNCHANGED lastFlush
  /\ UNCHANGED <<db, onDisk, cache, view, detach, attach, oldBest, counts>>

\* A mutant of NextToReplay: the block of the mark is replayed again.
FromMark == IF at = mark /\ at # Genesis THEN at ELSE Lowest(Chain[tip] \ Chain[at])

NextToReplay == Lowest(Chain[tip] \ Chain[at])

\* One turn of the loop: the next block, and FlushIfNeeded.  A block whose
\* file is gone ends it, and the node does not start.
Replay ==
  LET b == NextToReplay
      r == ConnectTransactions(cache, b)
  IN
  /\ pc = "replay" /\ at # tip
  /\ \/ /\ b \notin files /\ pc' = "lost"
        /\ UNCHANGED <<utxo, mark, cache, lastFlush, at>>
     \/ /\ b \in files /\ r.missing /\ pc' = "assert"
        /\ cache' = r.cache
        /\ UNCHANGED <<utxo, mark, lastFlush, at>>
     \/ /\ b \in files /\ ~r.missing
        /\ at' = b
        /\ \/ cache' = r.cache /\ UNCHANGED <<utxo, mark, lastFlush>>
           \/ Flush(r.cache, b, TRUE)
        /\ UNCHANGED pc
  /\ UNCHANGED <<journal, stored, tip, files, view, detach, attach, oldBest, counts>>
  /\ Saves

Replayed ==
  /\ pc = "replay" /\ at = tip
  /\ pc' = "idle" /\ lastFlush' = tip
  /\ UNCHANGED <<db, onDisk, cache, view, detach, attach, oldBest, at, counts>>

Next ==
  \/ \E b \in Block : Start(b)
  \/ Disconnect \/ Connect \/ FlushIfNeeded \/ FlushPeriodic
  \/ \E o \in Out : FetchEntry(o)
  \/ Crash \/ Restart \/ Replay \/ Replayed

Spec == Init /\ [][Next]_vars

-----------------------------------------------------------------------------
(* Properties                                                                *)

\* The coins of the chain that ends in b: what its blocks made and did not
\* spend, with the block that made it.
Outs(b) == UNION {Txs[b][i].outs : i \in DOMAIN Txs[b]}
CoinsAt[b \in Block] ==
  [o \in Out |->
     IF \E d \in Chain[b] : o \in Ins(d) THEN None
     ELSE IF \E c \in Chain[b] : o \in Outs(c) THEN CHOOSE c \in Chain[b] : o \in Outs(c)
     ELSE None]

Kind == {"absent", "nil", "clean", "fresh", "spent", "mod"}
UtxoTypeOK ==
  /\ utxo \in [Out -> Block \cup {None}] /\ mark \in Block
  /\ journal \in [Block -> [Out -> Block \cup {None}]]
  /\ stored \subseteq Block /\ tip \in Block /\ files \subseteq Block
  /\ disk \in [utxo : [Out -> Block \cup {None}], mark : Block,
               journal : [Block -> [Out -> Block \cup {None}]],
               stored : SUBSET Block, tip : Block]
  /\ cache \in [Out -> [kind : Kind \ {"mod"}, coin : Block \cup {None}]]
  /\ view \in [Out -> [kind : Kind \ {"fresh"}, coin : Block \cup {None}]]
  /\ lastFlush \in Block \cup {None}
  /\ detach \subseteq Block /\ attach \subseteq Block
  /\ oldBest \in Block /\ at \in Block
  /\ pc \in {"idle", "reorg", "flush", "replay", "down", "assert", "lost"}

Visible(o) ==
  CASE cache[o] = Absent -> utxo[o]
    [] cache[o].kind \in {"clean", "fresh"} -> cache[o].coin
    [] OTHER -> None

\* Whoever looks a coin up while chainLock is free sees the coin of the best
\* chain, with the block that created it, also between two blocks of a
\* reorganization and after a crash.
CacheIsExact ==
  pc \in {"idle", "reorg", "flush"} => \A o \in Out : Visible(o) = CoinsAt[tip][o]

\* The database, as committed and as on disk, always holds the coins of the
\* block its mark names, and that block is on its best chain: the coins can be
\* recovered from a crash at any point.
MarkIsExact ==
  \A s \in {Committed, disk} : s.utxo = CoinsAt[s.mark] /\ s.mark \in Chain[s.tip]

\* A fresh entry is one the database has never seen: if it had, spending the
\* coin would drop the entry and leave the coin on disk.
FreshIsNew == UtxoTypeOK /\ \A o \in Out : cache[o].kind = "fresh" => utxo[o] = None

\* No input is ever missing ("missing input"), in a connection or a replay; and
\* the replay after a first crash meets a deleted block only where the database
\* on disk still has its row, that is, where ffldb had not yet written the
\* transaction that pruned it.
NoAssert == pc # "assert" /\ (pc = "lost" /\ crashes = 1 => files # stored)

\* flushNeededAfterPrune: "we always need to have the blocks since the utxo
\* cache flush last happened".  The files have all that the committed state
\* would have to replay, and those of the state on disk had it when it was
\* written.  A replay sets lastFlushHash to a tip that was not flushed, so it
\* is claimed of a node that has not replayed.
ReplayBlocksKept ==
  crashes = 0 => /\ Chain[tip] \ Chain[mark] \subseteq files
                 /\ Chain[disk.tip] \ Chain[disk.mark] \subseteq disk.stored

-----------------------------------------------------------------------------
(* What the documentation says, and the code does not do                     *)

\* flushNeededAfterPrune: "In order for the utxo cache to be reconstructed, we
\* always need to have the blocks since the utxo cache flush last happened":
\* no restart lacks a block.
ReplayFindsBlocks == pc # "lost"

\* verifyReorganizationValidity: "This approach catches these issues before ever
\* modifying the chain": no error ends a reorganization halfway.
ReorgCompletes ==
  [][pc = "reorg" /\ pc' = "idle" => (attach = {} /\ tip' # tip) \/ tip = oldBest]_vars
=============================================================================
