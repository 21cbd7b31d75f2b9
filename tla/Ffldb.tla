-------------------------------- MODULE Ffldb --------------------------------
(***************************************************************************)
(* The block database (node/database/ffldb): blocks go to numbered flat    *)
(* files through a write cursor (blockio.go), their locations and all      *)
(* other metadata to a write cache over leveldb (dbcache.go).  One write   *)
(* transaction runs at a time and commits in many steps (db.go); readers   *)
(* take their snapshot between those steps; after a crash the files are    *)
(* reconciled with the metadata (reconcile.go).                            *)
(*                                                                         *)
(* A block record is two units long, so a failing write can leave one.     *)
(* Each committed transaction also writes its number under "tip", as the   *)
(* chain writes its best state.                                            *)
(***************************************************************************)
EXTENDS Integers, FiniteSets, Sequences

CONSTANTS
  Block,
  FileCap,       \* maxBlockFileSize, in units
  PruneTarget,   \* the caller's PruneBlocks target, in units
  CacheLimit,    \* entries the cache may hold before a commit must flush
  CloseDurable,  \* does a file that was closed without a sync survive a power loss?
  MaxBlocks,     \* bound: blocks stored by one transaction
  MaxTx,         \* bound: write transactions begun
  MaxReadTx,     \* bound: a reader begins while at most that many have begun
  MaxFaults,     \* bound: failing file and leveldb operations
  MaxCrashes     \* bound: crashes and closes

RecLen == 2
Hole == "hole"   \* what a file holds where nothing was written
Key == Block \cup {"cur", "tip"}

ASSUME FfldbAssumption ==
  /\ Block \cap {"cur", "tip", "hole"} = {}
  /\ FileCap \in Nat /\ RecLen <= FileCap
  /\ PruneTarget \in Nat /\ FileCap <= PruneTarget
  /\ CacheLimit \in Nat /\ CloseDurable \in BOOLEAN
  /\ MaxBlocks \in Nat /\ MaxTx \in Nat /\ MaxReadTx \in Nat
  /\ MaxFaults \in Nat /\ MaxCrashes \in Nat

VARIABLES
  files,    \* the flat files on disk: contents and how much of each is synced
  wc,       \* the write cursor
  ldb,      \* the metadata in leveldb
  cache,    \* the metadata committed and not yet flushed
  tx,       \* the write transaction
  rd,       \* a read transaction
  state,    \* "open", "down" or "corrupt"
  hist,     \* the metadata after each committed transaction (history)
  flushed,  \* how many of them were flushed (history)
  gone,     \* locations whose file was pruned (history)
  txs, faults, crashes

vars == <<files, wc, ldb, cache, tx, rd, state, hist, flushed, gone, txs, faults, crashes>>

NoKeys == <<>>
EmptyCache == [keys |-> NoKeys, remove |-> {}]
NoTx == [pc |-> "idle", blocks |-> <<>>, del |-> <<>>, snap |-> NoKeys, keys |-> NoKeys,
         remove |-> {}, old |-> [file |-> 0, off |-> 0]]
NoReader == [pc |-> "idle", ldb |-> NoKeys, view |-> NoKeys, since |-> 0]

------------------------------------------------------------------------------
(* Keys.  A snapshot answers from the removed keys first, then from the    *)
(* cached ones, then from leveldb; a flush puts, then deletes.             *)

Merge(kv, keys, remove) ==
  [k \in (DOMAIN kv \cup DOMAIN keys) \ remove |->
     IF k \in DOMAIN keys THEN keys[k] ELSE kv[k]]

PutKey(kv, k, v) == [j \in DOMAIN kv \cup {k} |-> IF j = k THEN v ELSE kv[j]]
Without(kv, S) == [k \in DOMAIN kv \ S |-> kv[k]]

View == Merge(ldb, cache.keys, cache.remove)

(* commitTx applied to the cache *)
CommitTreaps(c, keys, remove) ==
  [keys   |-> Without([k \in DOMAIN c.keys \cup DOMAIN keys |->
                         IF k \in DOMAIN keys THEN keys[k] ELSE c.keys[k]], remove),
   remove |-> (c.remove \ DOMAIN keys) \cup remove]

------------------------------------------------------------------------------
(* Flat files *)

NoData == [data |-> <<>>, synced |-> 0]
Unit(s, i) == IF i <= Len(s) THEN s[i] ELSE Hole
SmallerOf(a, b) == IF a < b THEN a ELSE b
LargerOf(a, b) == IF a < b THEN b ELSE a

(* n units of block b at offset off: WriteAt leaves a hole before and      *)
(* whatever was there behind.                                              *)
WriteAt(f, off, b, n) ==
  [f EXCEPT !.data = [i \in 1..LargerOf(Len(f.data), off + n) |->
                        IF off < i /\ i <= off + n THEN b ELSE Unit(f.data, i)],
            !.synced = SmallerOf(@, off)]
Truncated(f, off) == [data |-> [i \in 1..off |-> Unit(f.data, i)], synced |-> off]
Synced(f) == [f EXCEPT !.synced = Len(f.data)]

OpenWriteFile(fs, n) == IF n \in DOMAIN fs THEN fs ELSE PutKey(fs, n, NoData)

(* scanBlockFiles *)
NoFiles == files = <<>>
First == CHOOSE n \in DOMAIN files : \A m \in DOMAIN files : n <= m
Last == CHOOSE n \in DOMAIN files : \A m \in DOMAIN files : m <= n
LastLen == Len(files[Last].data)

Before(c, d) == c.file < d.file \/ (c.file = d.file /\ c.off < d.off)
Cursor(w) == [file |-> w.file, off |-> w.off]

(* readBlock: the network, the length and the checksum must all be there   *)
ReadBlock(loc, b) ==
  /\ loc.file \in DOMAIN files
  /\ \A i \in 1..RecLen : Unit(files[loc.file].data, loc.off + i) = b

(* handleRollback to position old: what the files and the cursor may be    *)
(* afterwards.  Files are deleted from the newest down; a delete that      *)
(* fails (it does when the file is missing) ends the rollback, and so does *)
(* a failing truncate.  The cursor is put back whatever happens.           *)
Deleted(fs, old, w, stop) == Without(fs, (stop + 1)..w.file)
Rollback(fs, w, old, stop, ok) ==
  IF old = Cursor(w) THEN [files |-> fs, wc |-> w]
  ELSE LET kept == Deleted(fs, old, w, stop)
           opened == IF w.file = old.file /\ w.open THEN kept ELSE OpenWriteFile(kept, old.file)
       IN IF stop # old.file
          THEN [files |-> kept, wc |-> [file |-> old.file, off |-> old.off, open |-> FALSE]]
          ELSE [files |-> IF ok /\ old.file \in DOMAIN opened
                          THEN PutKey(opened, old.file, Truncated(opened[old.file], old.off))
                          ELSE opened,
                wc |-> [file |-> old.file, off |-> old.off, open |-> TRUE]]
(* the file at which deleting stops when no delete fails by itself         *)
Stop(fs, w, old) ==
  LET missing == {n \in (old.file + 1)..w.file : n \notin DOMAIN fs}
  IN IF missing = {} THEN old.file ELSE CHOOSE n \in missing : \A m \in missing : m <= n
RolledBack(r, fs, w, old) ==
  Before(Cursor(w), old) \/ r = Rollback(fs, w, old, Stop(fs, w, old), TRUE)
HandleRollback(fs, w, old) ==
  {Rollback(fs, w, old, Stop(fs, w, old), TRUE)}
  \cup (IF faults < MaxFaults
        THEN {Rollback(fs, w, old, n, FALSE) : n \in Stop(fs, w, old)..w.file} ELSE {})

------------------------------------------------------------------------------
(* Write transactions *)

Init ==
  /\ files = <<>> /\ wc = [file |-> 0, off |-> 0, open |-> FALSE]
  /\ ldb = [k \in {"cur", "tip"} |-> IF k = "tip" THEN 0 ELSE [file |-> 0, off |-> 0]]
  /\ cache = EmptyCache /\ tx = NoTx /\ rd = NoReader /\ state = "open"
  /\ hist = <<ldb>> /\ flushed = 1 /\ gone = {}
  /\ txs = 0 /\ faults = 0 /\ crashes = 0

Fault == faults < MaxFaults /\ faults' = faults + 1
Abort == tx' = NoTx

(* PruneBlocks: the oldest files, until the estimate is within the target  *)
TotalSize == LastLen + FileCap * (Last - First)
Excess == TotalSize - PruneTarget
PruneCount ==
  IF NoFiles THEN 0
  ELSE IF First = Last \/ TotalSize <= PruneTarget THEN 0
  ELSE SmallerOf(Last - First, (Excess + FileCap - 1) \div FileCap)
PruneBlocks == IF PruneCount = 0 THEN <<>> ELSE [i \in 1..PruneCount |-> First + i - 1]
PrunedRows(view, del) ==
  {b \in DOMAIN view \cap Block : \E i \in 1..Len(del) : view[b].file = del[i]}

(* Update: begin takes the write lock and a snapshot; the caller's         *)
(* function prunes or does not, then stores blocks that have no row.       *)
StoreBlock(view, pruned, bs) ==
  /\ Len(bs) <= MaxBlocks
  /\ \A i, j \in 1..Len(bs) : i # j => bs[i] # bs[j]
  /\ \A i \in 1..Len(bs) : bs[i] \notin DOMAIN view \ pruned

Update(bs, prune) ==
  /\ state = "open" /\ tx.pc = "idle" /\ txs < MaxTx
  /\ txs' = txs + 1
  /\ LET del == IF prune THEN PruneBlocks ELSE <<>>
     IN /\ (prune => del # <<>>)
        /\ StoreBlock(View, PrunedRows(View, del), bs)
        /\ tx' = [NoTx EXCEPT !.pc = "delete", !.blocks = bs, !.del = del, !.snap = View,
                              !.keys = PutKey(NoKeys, "tip", Len(hist)),
                              !.remove = PrunedRows(View, del)]
  /\ UNCHANGED <<files, wc, ldb, cache, rd, state, hist, flushed, gone, faults, crashes>>

(* writePendingAndCommit deletes the pruned files first; a failing delete  *)
(* ends the commit.                                                        *)
DeleteFile ==
  /\ tx.pc = "delete" /\ tx.del # <<>> /\ Head(tx.del) \in DOMAIN files
  /\ files' = Without(files, {Head(tx.del)})
  /\ gone' = gone \cup {[file |-> Head(tx.del), off |-> o] : o \in 0..FileCap}
  /\ tx' = [tx EXCEPT !.del = Tail(@)]
  /\ UNCHANGED <<wc, ldb, cache, rd, state, hist, flushed, txs, faults, crashes>>
DeleteFails ==
  /\ tx.pc = "delete" /\ tx.del # <<>> /\ Abort
  /\ IF Head(tx.del) \in DOMAIN files THEN Fault ELSE UNCHANGED faults
  /\ UNCHANGED <<files, wc, ldb, cache, rd, state, hist, flushed, gone, txs, crashes>>
SavePosition ==
  /\ tx.pc = "delete" /\ tx.del = <<>>
  /\ tx' = [tx EXCEPT !.pc = "write", !.old = Cursor(wc)]
  /\ UNCHANGED <<files, wc, ldb, cache, rd, state, hist, flushed, gone, txs, faults, crashes>>

(* writeBlock.  Rotate closes a full file; the next one is opened and n of *)
(* the record's units are written.  A file deleted while it is open takes  *)
(* writes that nobody will find.                                           *)
(* mutant: the size of the record to come is not counted *)
FullAfter == wc.off > FileCap
Full == wc.off + RecLen > FileCap
Rotate == IF Full THEN [file |-> wc.file + 1, off |-> 0, open |-> FALSE] ELSE wc
Closed(fs) ==
  IF Full /\ CloseDurable /\ wc.file \in DOMAIN fs
  THEN PutKey(fs, wc.file, Synced(fs[wc.file])) ELSE fs
WriteUnits(b, n) ==
  LET w == Rotate
      fs == IF w.open THEN Closed(files) ELSE OpenWriteFile(Closed(files), w.file)
  IN /\ files' = IF w.file \in DOMAIN fs
                 THEN PutKey(fs, w.file, WriteAt(fs[w.file], w.off, b, n)) ELSE fs
     /\ wc' = [w EXCEPT !.off = @ + n, !.open = TRUE]

(* mutant: the location is taken before the file is rotated *)
WriteBlockStale ==
  /\ tx.pc = "write" /\ tx.blocks # <<>>
  /\ WriteUnits(Head(tx.blocks), RecLen)
  /\ LET loc == Cursor(wc)
     IN /\ tx' = [tx EXCEPT !.blocks = Tail(@), !.keys = PutKey(@, Head(tx.blocks), loc),
                            !.remove = @ \ {Head(tx.blocks)}]
        /\ gone' = gone \ {loc}
  /\ UNCHANGED <<ldb, cache, rd, state, hist, flushed, txs, faults, crashes>>

WriteBlock ==
  /\ tx.pc = "write" /\ tx.blocks # <<>>
  /\ WriteUnits(Head(tx.blocks), RecLen)
  /\ LET loc == Cursor(Rotate)
     IN /\ tx' = [tx EXCEPT !.blocks = Tail(@), !.keys = PutKey(@, Head(tx.blocks), loc),
                            !.remove = @ \ {Head(tx.blocks)}]
        /\ gone' = gone \ {loc}
  /\ UNCHANGED <<ldb, cache, rd, state, hist, flushed, txs, faults, crashes>>

(* the new file cannot be opened, or only a part of the record is written  *)
WriteFails ==
  /\ tx.pc = "write" /\ tx.blocks # <<>> /\ Fault
  /\ \/ ~Rotate.open /\ wc' = Rotate /\ files' = Closed(files)
     \/ \E n \in 0..(RecLen - 1) : WriteUnits(Head(tx.blocks), n)
  /\ tx' = [tx EXCEPT !.pc = "rollback"]
  /\ UNCHANGED <<ldb, cache, rd, state, hist, flushed, gone, txs, crashes>>

(* one fault is spent when the rollback itself does not get through        *)
TxRollback ==
  /\ tx.pc = "rollback" /\ Abort
  /\ \E r \in HandleRollback(files, wc, tx.old) :
       /\ files' = r.files /\ wc' = r.wc
       /\ faults' = IF RolledBack(r, files, wc, tx.old) THEN faults ELSE faults + 1
  /\ UNCHANGED <<ldb, cache, rd, state, hist, flushed, gone, txs, crashes>>

(* The metadata's cursor follows the files, then commitTx chooses: into    *)
(* the cache, or flush the cache and write through.  The flush interval    *)
(* may pass at any time; a cache over its limit always flushes.            *)
PutCursor ==
  /\ tx.pc = "write" /\ tx.blocks = <<>>
  /\ tx' = [tx EXCEPT !.pc = "commit", !.keys = PutKey(@, "cur", Cursor(wc))]
  /\ UNCHANGED <<files, wc, ldb, cache, rd, state, hist, flushed, gone, txs, faults, crashes>>

NeedsFlush == Cardinality(DOMAIN cache.keys) + Cardinality(cache.remove) > CacheLimit

CommitCache ==
  /\ tx.pc = "commit" /\ ~NeedsFlush /\ Abort
  /\ cache' = CommitTreaps(cache, tx.keys, tx.remove)
  /\ hist' = Append(hist, Merge(tx.snap, tx.keys, tx.remove))
  /\ UNCHANGED <<files, wc, ldb, rd, state, flushed, gone, txs, faults, crashes>>

(* flush: sync the write file, commit the cache to leveldb, empty it       *)
(* mutant: nothing is synced before the metadata is written *)
SyncNothing(fs) == fs
SyncBlocks(fs) ==
  IF wc.open /\ wc.file \in DOMAIN fs THEN PutKey(fs, wc.file, Synced(fs[wc.file])) ELSE fs
(* mutant: the transaction is written through a cache that was not flushed *)
FlushSkipped ==
  /\ tx.pc = "commit"
  /\ files' = SyncBlocks(files)
  /\ tx' = [tx EXCEPT !.pc = "direct"]
  /\ UNCHANGED <<wc, ldb, cache, rd, state, hist, flushed, gone, txs, faults, crashes>>
FlushSync ==
  /\ tx.pc = "commit"
  /\ files' = SyncBlocks(files)
  /\ tx' = [tx EXCEPT !.pc = IF cache = EmptyCache THEN "direct" ELSE "flush"]
  /\ UNCHANGED <<wc, ldb, cache, rd, state, hist, flushed, gone, txs, faults, crashes>>
(* mutant: the pending transaction is flushed along with the cache *)
FlushPending ==
  /\ tx.pc = "flush"
  /\ ldb' = Merge(View, tx.keys, tx.remove) /\ flushed' = Len(hist)
  /\ tx' = [tx EXCEPT !.pc = "clear"]
  /\ UNCHANGED <<files, wc, cache, rd, state, hist, gone, txs, faults, crashes>>
FlushTreaps ==
  /\ tx.pc = "flush"
  /\ ldb' = View /\ flushed' = Len(hist)
  /\ tx' = [tx EXCEPT !.pc = "clear"]
  /\ UNCHANGED <<files, wc, cache, rd, state, hist, gone, txs, faults, crashes>>
FlushClear ==
  /\ tx.pc = "clear" /\ cache' = EmptyCache
  /\ tx' = [tx EXCEPT !.pc = "direct"]
  /\ UNCHANGED <<files, wc, ldb, rd, state, hist, flushed, gone, txs, faults, crashes>>
CommitDirect ==
  /\ tx.pc = "direct" /\ Abort
  /\ ldb' = Merge(ldb, tx.keys, tx.remove)
  /\ hist' = Append(hist, Merge(tx.snap, tx.keys, tx.remove))
  /\ flushed' = Len(hist) + 1
  /\ UNCHANGED <<files, wc, cache, rd, state, gone, txs, faults, crashes>>

(* a sync or a leveldb transaction fails: the commit returns the error and *)
(* the blocks it wrote stay in the files                                   *)
CommitFails ==
  /\ tx.pc \in {"commit", "flush", "direct"} /\ Fault /\ Abort
  /\ UNCHANGED <<files, wc, ldb, cache, rd, state, hist, flushed, gone, txs, crashes>>

------------------------------------------------------------------------------
(* Read transactions: Snapshot takes leveldb's snapshot first and the      *)
(* cache's under its own lock afterwards.                                  *)

SnapshotLdb ==
  /\ state = "open" /\ rd.pc = "idle" /\ txs <= MaxReadTx
  /\ rd' = [NoReader EXCEPT !.pc = "half", !.ldb = ldb, !.since = Len(hist)]
  /\ UNCHANGED <<files, wc, ldb, cache, tx, state, hist, flushed, gone, txs, faults, crashes>>
SnapshotCache ==
  /\ rd.pc = "half"
  /\ rd' = [rd EXCEPT !.pc = "open", !.view = Merge(rd.ldb, cache.keys, cache.remove),
                      !.ldb = NoKeys]
  /\ UNCHANGED <<files, wc, ldb, cache, tx, state, hist, flushed, gone, txs, faults, crashes>>
ReadEnd ==
  /\ rd.pc = "open" /\ rd' = NoReader
  /\ UNCHANGED <<files, wc, ldb, cache, tx, state, hist, flushed, gone, txs, faults, crashes>>

------------------------------------------------------------------------------
(* Close, crash and open *)

(* Close waits for every transaction, then flushes; when the flush fails   *)
(* the database is closed all the same.                                    *)
Close ==
  /\ state = "open" /\ tx.pc = "idle" /\ rd.pc = "idle" /\ crashes < MaxCrashes
  /\ state' = "down" /\ crashes' = crashes + 1 /\ cache' = EmptyCache
  /\ \/ /\ files' = SyncBlocks(files) /\ ldb' = View
        /\ flushed' = Len(hist) /\ UNCHANGED faults
     \/ Fault /\ UNCHANGED <<files, ldb, flushed>>
  /\ wc' = [wc EXCEPT !.open = FALSE]
  /\ hist' = SubSeq(hist, 1, ldb'["tip"] + 1)
  /\ UNCHANGED <<tx, rd, gone, txs>>

(* The process stops (a full disk ends it too), or the machine does: of    *)
(* each file at least what was synced remains.                             *)
Survives(f) == {[data |-> SubSeq(f.data, 1, n), synced |-> n] : n \in f.synced..Len(f.data)}
Crash ==
  /\ state = "open" /\ crashes < MaxCrashes
  /\ state' = "down" /\ crashes' = crashes + 1
  /\ files' \in {fs \in [DOMAIN files -> UNION {Survives(files[n]) : n \in DOMAIN files}] :
                   \A n \in DOMAIN files : fs[n] \in Survives(files[n])}
  /\ cache' = EmptyCache /\ tx' = NoTx /\ rd' = NoReader
  /\ wc' = [wc EXCEPT !.open = FALSE]
  /\ hist' = SubSeq(hist, 1, ldb["tip"] + 1)
  /\ UNCHANGED <<ldb, flushed, gone, txs, faults>>

(* openDB: newBlockStore puts the cursor behind the last file, reconcileDB *)
(* rolls the files back to the metadata's cursor or reports corruption.    *)
Scanned ==
  IF NoFiles THEN [file |-> 0, off |-> 0, open |-> FALSE]
  ELSE [file |-> Last, off |-> LastLen, open |-> FALSE]
Opened ==
  IF Before(Cursor(Scanned), ldb["cur"]) THEN {[files |-> files, wc |-> Scanned]}
  ELSE HandleRollback(files, Scanned, ldb["cur"])
Open ==
  /\ state = "down"
  /\ state' = IF Before(Cursor(Scanned), ldb["cur"]) THEN "corrupt" ELSE "open"
  /\ \E r \in Opened :
       /\ files' = r.files /\ wc' = r.wc
       /\ faults' = IF RolledBack(r, files, Scanned, ldb["cur"]) THEN faults ELSE faults + 1
  /\ UNCHANGED <<ldb, cache, tx, rd, hist, flushed, gone, txs, crashes>>

------------------------------------------------------------------------------

BlockSeqs == UNION {[1..n -> Block] : n \in 0..MaxBlocks}

Next ==
  \/ \E bs \in BlockSeqs, prune \in BOOLEAN : Update(bs, prune)
  \/ DeleteFile \/ DeleteFails \/ SavePosition
  \/ WriteBlock \/ WriteFails \/ TxRollback \/ PutCursor
  \/ CommitCache \/ FlushSync \/ FlushTreaps \/ FlushClear \/ CommitDirect \/ CommitFails
  \/ SnapshotLdb \/ SnapshotCache \/ ReadEnd
  \/ Close \/ Crash \/ Open

Spec == Init /\ [][Next]_vars

------------------------------------------------------------------------------
(* Properties *)

Loc == [file : Nat, off : 0..FileCap]
IsView(v) ==
  DOMAIN v \subseteq Key /\ \A k \in DOMAIN v : v[k] \in (IF k = "tip" THEN Nat ELSE Loc)

(* Type invariant.  A transaction that is rolled back or still writing     *)
(* always has a position to go back to, and it lies before the cursor.     *)
FfldbTypeOK ==
  /\ \A n \in DOMAIN files : /\ n \in Nat /\ files[n].synced \in 0..Len(files[n].data)
                             /\ Len(files[n].data) <= FileCap
  /\ wc.file \in Nat /\ wc.off \in 0..FileCap /\ wc.open \in BOOLEAN
  /\ IsView(ldb) /\ IsView(cache.keys) /\ cache.remove \subseteq Block
  /\ tx.pc \in {"idle", "delete", "write", "rollback", "commit", "flush", "clear", "direct"}
  /\ IsView(tx.keys) /\ tx.remove \subseteq Block
  /\ (tx.pc \in {"write", "rollback"} => ~Before(Cursor(wc), tx.old))
  /\ state \in {"open", "down", "corrupt"}

(* Whatever step a commit or a flush is in, and whatever failed before,    *)
(* what transactions see is exactly the result of the last one that        *)
(* committed: nothing of an aborted one, and no key lost or resurrected    *)
(* between the cache and leveldb (commitTx, flush).                        *)
CommittedView == state = "open" => View = hist[Len(hist)]

(* A crash at this moment would leave the metadata of a whole number of    *)
(* transactions, with none of those that were flushed missing (flush,      *)
(* commitTreaps).                                                          *)
Recoverable ==
  /\ ldb["tip"] < Len(hist) /\ ldb = hist[ldb["tip"] + 1]
  /\ flushed <= ldb["tip"] + 1

(* Every block that has a row can be read at its location and is the right *)
(* one (writeBlock, handleRollback, reconcileDB), unless a prune deleted   *)
(* the file and its transaction is not over, or failed or was lost.        *)
RowsReadable ==
  state = "open" =>
    \A b \in DOMAIN View \cap Block :
      \/ ReadBlock(View[b], b)
      \/ View[b] \in gone /\ (tx.pc # "idle" \/ faults + crashes > 0)

(* Opening never reports corruption: the metadata's cursor is never ahead  *)
(* of what a crash leaves of the files (reconcileDB, syncBlocks).          *)
NeverCorrupt == state # "corrupt"

(* A read transaction sees the metadata as some committed transaction      *)
(* left it, no older than when it began (Snapshot).                        *)
ReaderSeesCommitted ==
  rd.pc = "open" => \E n \in rd.since..Len(hist) : rd.view = hist[n]

==============================================================================
