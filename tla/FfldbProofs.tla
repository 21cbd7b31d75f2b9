---------------------------- MODULE FfldbProofs ----------------------------
(***************************************************************************)
(* Commits of the block database are atomic and flushed ones durable, for  *)
(* every set of blocks, file size, cache limit and number of transactions, *)
(* faults and crashes.                                                     *)
(***************************************************************************)
EXTENDS Ffldb, WellFoundedInduction, TLAPS

IsMap(f) == f = [k \in DOMAIN f |-> f[k]]

(* The entries of hist carry their numbers; leveldb is one of them, and no *)
(* older than the last flush; what is seen is the last of them.            *)
HistOK ==
  /\ \E S : hist \in Seq(S)
  /\ Len(hist) \in Nat \ {0}
  /\ \A n \in 1..Len(hist) : "tip" \in DOMAIN hist[n] /\ hist[n]["tip"] = n - 1
LdbOK ==
  /\ IsMap(ldb) /\ "tip" \in DOMAIN ldb
  /\ ldb["tip"] \in Nat /\ ldb["tip"] < Len(hist) /\ ldb = hist[ldb["tip"] + 1]
  /\ flushed \in Nat /\ flushed <= ldb["tip"] + 1
SeenOK ==
  /\ View = hist[Len(hist)]
  /\ state # "open" => cache = EmptyCache /\ tx = NoTx

(* A transaction works on what was last committed and will write the next  *)
(* number.  Once it has flushed, leveldb holds what is seen; once the      *)
(* cache was emptied, it stays so until the transaction is written.        *)
TxOK ==
  /\ tx = [pc |-> tx.pc, blocks |-> tx.blocks, del |-> tx.del, snap |-> tx.snap,
           keys |-> tx.keys, remove |-> tx.remove, old |-> tx.old]
  /\ tx.blocks \in Seq(Block)
  /\ tx.pc = "idle" => tx = NoTx
  /\ tx.pc # "idle" =>
       /\ tx.snap = View
       /\ "tip" \in DOMAIN tx.keys /\ tx.keys["tip"] = Len(hist)
       /\ "tip" \notin tx.remove
  /\ tx.pc = "clear" => ldb = View
  /\ tx.pc = "direct" => cache = EmptyCache

AtomicInv == HistOK /\ LdbOK /\ SeenOK /\ TxOK

------------------------------------------------------------------------------
(* Merging keys *)

(* The names of metadata keys are no blocks. *)
LEMMA TipIsNoBlock == "tip" \notin Block
BY FfldbAssumption

LEMMA MergeEmpty ==
  ASSUME NEW kv, IsMap(kv)
  PROVE  Merge(kv, NoKeys, {}) = kv
BY DEF Merge, NoKeys, IsMap

LEMMA MergeMap ==
  ASSUME NEW kv, NEW ks, NEW rm
  PROVE  IsMap(Merge(kv, ks, rm))
BY DEF Merge, IsMap

LEMMA MergeTwice ==
  ASSUME NEW kv, NEW ks, NEW rm
  PROVE  Merge(Merge(kv, ks, rm), ks, rm) = Merge(kv, ks, rm)
BY DEF Merge

(* Adding a transaction to the cache shows what writing it through would. *)
LEMMA MergeCache ==
  ASSUME NEW kv, NEW c, NEW ks, NEW rm
  PROVE  LET d == CommitTreaps(c, ks, rm)
         IN Merge(kv, d.keys, d.remove) = Merge(Merge(kv, c.keys, c.remove), ks, rm)
BY DEF Merge, CommitTreaps, Without

LEMMA MergeTip ==
  ASSUME NEW kv, NEW ks, NEW rm, "tip" \in DOMAIN ks, "tip" \notin rm
  PROVE  "tip" \in DOMAIN Merge(kv, ks, rm) /\ Merge(kv, ks, rm)["tip"] = ks["tip"]
BY DEF Merge

LEMMA PutKeyOther ==
  ASSUME NEW kv, NEW k, NEW j, NEW v, j \in DOMAIN kv, j # k
  PROVE  j \in DOMAIN PutKey(kv, k, v) /\ PutKey(kv, k, v)[j] = kv[j]
BY DEF PutKey

LEMMA PutKeySame ==
  ASSUME NEW kv, NEW k, NEW v
  PROVE  k \in DOMAIN PutKey(kv, k, v) /\ PutKey(kv, k, v)[k] = v
BY DEF PutKey

------------------------------------------------------------------------------
(* The history grows by one numbered entry, or falls back to a prefix. *)

LEMMA AppendHist ==
  ASSUME NEW h, NEW S, h \in Seq(S), NEW x
  PROVE  /\ Append(h, x) \in Seq(S \cup {x})
         /\ Len(Append(h, x)) = Len(h) + 1
         /\ \A n \in 1..Len(h) : Append(h, x)[n] = h[n]
         /\ Append(h, x)[Len(h) + 1] = x
OBVIOUS

LEMMA PrefixHist ==
  ASSUME NEW h, NEW S, h \in Seq(S), NEW m \in 1..Len(h)
  PROVE  /\ SubSeq(h, 1, m) \in Seq(S)
         /\ Len(SubSeq(h, 1, m)) = m
         /\ \A n \in 1..m : SubSeq(h, 1, m)[n] = h[n]
OBVIOUS

(* A step that leaves the metadata, its history and the transaction's      *)
(* contents alone keeps the invariant.                                     *)
LEMMA Quiescent ==
  ASSUME AtomicInv, UNCHANGED <<ldb, cache, hist, flushed, state, tx>>
  PROVE  AtomicInv'
BY DEF AtomicInv, HistOK, LdbOK, SeenOK, TxOK, View

(* The transaction ends and nothing of it was committed. *)
LEMMA AbortStep ==
  ASSUME AtomicInv, Abort, UNCHANGED <<ldb, cache, hist, flushed, state>>
  PROVE  AtomicInv'
<1>1. HistOK' /\ LdbOK' /\ SeenOK'
  BY DEF AtomicInv, HistOK, LdbOK, SeenOK, Abort, View
<1>2. TxOK'
  BY DEF Abort, TxOK, NoTx
<1> QED BY <1>1, <1>2 DEF AtomicInv

LEMMA InitAtomic == Init => AtomicInv
<1> SUFFICES ASSUME Init PROVE AtomicInv
  OBVIOUS
<1>1. IsMap(ldb) /\ "tip" \in DOMAIN ldb /\ ldb["tip"] = 0
  BY DEF Init, IsMap
<1>2. hist \in Seq({ldb}) /\ Len(hist) = 1 /\ hist[1] = ldb
  BY DEF Init
<1>3. HistOK
  BY <1>1, <1>2 DEF HistOK
<1>4. LdbOK
  BY <1>1, <1>2 DEF LdbOK, Init
<1>5. SeenOK
  BY <1>1, <1>2, MergeEmpty DEF SeenOK, View, EmptyCache, Init
<1>6. TxOK
  BY DEF TxOK, Init, NoTx
<1> QED BY <1>3, <1>4, <1>5, <1>6 DEF AtomicInv

------------------------------------------------------------------------------
(* One lemma per kind of step *)

(* The transaction moves on; what it will write keeps its number. *)
LEMMA TxStep ==
  ASSUME AtomicInv, tx.pc # "idle", NEW p, NEW bs, NEW dl, NEW ks, NEW rm, NEW od,
         tx' = [pc |-> p, blocks |-> bs, del |-> dl, snap |-> tx.snap, keys |-> ks,
                remove |-> rm, old |-> od],
         bs \in Seq(Block), p \notin {"idle", "clear", "direct"},
         "tip" \in DOMAIN ks, ks["tip"] = tx.keys["tip"], "tip" \notin rm,
         UNCHANGED <<ldb, cache, hist, flushed, state>>
  PROVE  AtomicInv'
<1>1. HistOK' /\ LdbOK' /\ View' = View
  BY DEF AtomicInv, HistOK, LdbOK, View
<1>2. SeenOK'
  BY <1>1 DEF AtomicInv, SeenOK, NoTx
<1>3. TxOK'
  BY <1>1 DEF AtomicInv, TxOK
<1> QED BY <1>1, <1>2, <1>3 DEF AtomicInv

LEMMA UpdateStep ==
  ASSUME AtomicInv, NEW bs \in BlockSeqs, NEW prune \in BOOLEAN, Update(bs, prune)
  PROVE  AtomicInv'
<1> DEFINE del == IF prune THEN PruneBlocks ELSE <<>>
           ks == PutKey(NoKeys, "tip", Len(hist))
           rm == PrunedRows(View, del)
<1>1. HistOK' /\ LdbOK' /\ View' = View
  BY DEF AtomicInv, HistOK, LdbOK, View, Update
<1>2. SeenOK'
  BY <1>1 DEF AtomicInv, SeenOK, Update
<1>3. tx' = [pc |-> "delete", blocks |-> bs, del |-> del, snap |-> View, keys |-> ks,
             remove |-> rm, old |-> [file |-> 0, off |-> 0]]
  BY DEF Update, NoTx
<1>4. bs \in Seq(Block)
  BY DEF BlockSeqs
<1>5. "tip" \in DOMAIN ks /\ ks["tip"] = Len(hist)
  BY PutKeySame
<1>6. "tip" \notin rm
  BY TipIsNoBlock DEF PrunedRows
<1>7. hist' = hist
  BY DEF Update
<1>8. TxOK'
  <2> HIDE DEF del, ks, rm
  <2> QED BY <1>1, <1>3, <1>4, <1>5, <1>6, <1>7 DEF TxOK
<1> QED BY <1>1, <1>2, <1>8 DEF AtomicInv

(* A transaction is appended to the history: CommitCache, CommitDirect.    *)
LEMMA CommitStep ==
  ASSUME AtomicInv, tx.pc # "idle", Abort, state = "open", UNCHANGED state,
         hist' = Append(hist, Merge(tx.snap, tx.keys, tx.remove))
  PROVE  /\ HistOK' /\ TxOK'
         /\ Len(hist') = Len(hist) + 1
         /\ hist'[Len(hist')] = Merge(View, tx.keys, tx.remove)
         /\ \A n \in 1..Len(hist) : hist'[n] = hist[n]
         /\ Merge(View, tx.keys, tx.remove)["tip"] = Len(hist)
<1> DEFINE new == Merge(View, tx.keys, tx.remove)
<1>1. "tip" \in DOMAIN new /\ new["tip"] = Len(hist)
  BY MergeTip DEF AtomicInv, TxOK
<1>2. hist' = Append(hist, new)
  BY DEF AtomicInv, TxOK
<1>3. PICK S : hist \in Seq(S)
  BY DEF AtomicInv, HistOK
<1> HIDE DEF new
<1>4. /\ hist' \in Seq(S \cup {new}) /\ Len(hist') = Len(hist) + 1
      /\ \A n \in 1..Len(hist) : hist'[n] = hist[n]
      /\ hist'[Len(hist) + 1] = new
  BY <1>2, <1>3, AppendHist
<1>5. HistOK'
  BY <1>1, <1>4 DEF AtomicInv, HistOK
<1>6. TxOK'
  BY DEF TxOK, Abort, NoTx
<1> QED BY <1>1, <1>4, <1>5, <1>6 DEF new

LEMMA CommitCacheStep ==
  ASSUME AtomicInv, CommitCache
  PROVE  AtomicInv'
<1>1. state = "open"
  BY DEF AtomicInv, SeenOK, CommitCache, NoTx
<1>2. /\ HistOK' /\ TxOK' /\ Len(hist') = Len(hist) + 1
      /\ hist'[Len(hist')] = Merge(View, tx.keys, tx.remove)
      /\ \A n \in 1..Len(hist) : hist'[n] = hist[n]
  BY <1>1, CommitStep DEF CommitCache
<1>3. View' = Merge(View, tx.keys, tx.remove)
  BY MergeCache DEF CommitCache, View
<1>4. SeenOK'
  BY <1>1, <1>2, <1>3 DEF SeenOK, CommitCache
<1>5. LdbOK'
  BY <1>2 DEF AtomicInv, HistOK, LdbOK, CommitCache
<1> QED BY <1>2, <1>4, <1>5 DEF AtomicInv

LEMMA CommitDirectStep ==
  ASSUME AtomicInv, CommitDirect
  PROVE  AtomicInv'
<1>1. state = "open"
  BY DEF AtomicInv, SeenOK, CommitDirect, NoTx
<1>2. /\ HistOK' /\ TxOK' /\ Len(hist') = Len(hist) + 1
      /\ hist'[Len(hist')] = Merge(View, tx.keys, tx.remove)
      /\ Merge(View, tx.keys, tx.remove)["tip"] = Len(hist)
  BY <1>1, CommitStep DEF CommitDirect
<1> DEFINE ck == cache.keys
           cr == cache.remove
<1>0. cache = EmptyCache /\ cache' = cache
  BY DEF AtomicInv, TxOK, CommitDirect
<1>a. ck = NoKeys /\ cr = {} /\ ck' = NoKeys /\ cr' = {}
  BY <1>0 DEF EmptyCache
<1>3. View = ldb
  <2>1. IsMap(ldb)
    BY DEF AtomicInv, LdbOK
  <2>2. Merge(ldb, NoKeys, {}) = ldb
    BY <2>1, MergeEmpty
  <2> QED BY <1>a, <2>2 DEF View
<1>4. ldb' = Merge(View, tx.keys, tx.remove)
  BY <1>3 DEF CommitDirect
<1>5. IsMap(ldb') /\ "tip" \in DOMAIN ldb'
  BY <1>4, MergeMap, MergeTip DEF AtomicInv, TxOK, CommitDirect
<1>6. View' = ldb'
  <2>1. Merge(ldb', NoKeys, {}) = ldb'
    BY <1>5, MergeEmpty
  <2> QED BY <1>a, <2>1 DEF View
<1>7. SeenOK'
  BY <1>1, <1>2, <1>4, <1>6 DEF SeenOK, CommitDirect
<1>8. LdbOK'
  BY <1>2, <1>4, <1>5 DEF AtomicInv, HistOK, LdbOK, CommitDirect
<1> QED BY <1>2, <1>7, <1>8 DEF AtomicInv

(* The three steps of a flush: nothing that is seen changes. *)
LEMMA FlushStep ==
  ASSUME AtomicInv, FlushSync \/ FlushTreaps \/ FlushClear
  PROVE  AtomicInv'
<1>1. CASE FlushSync
  <2>1. HistOK' /\ LdbOK' /\ View' = View /\ state = "open" /\ state' = state
    BY <1>1 DEF AtomicInv, HistOK, LdbOK, SeenOK, NoTx, View, FlushSync
  <2>2. SeenOK'
    BY <1>1, <2>1 DEF AtomicInv, SeenOK, FlushSync
  <2>3. /\ tx' = [pc |-> tx'.pc, blocks |-> tx.blocks, del |-> tx.del, snap |-> tx.snap,
                  keys |-> tx.keys, remove |-> tx.remove, old |-> tx.old]
        /\ tx'.pc = IF cache = EmptyCache THEN "direct" ELSE "flush"
    BY <1>1 DEF AtomicInv, TxOK, FlushSync
  <2>4. TxOK'
    BY <1>1, <2>1, <2>3 DEF AtomicInv, TxOK, FlushSync
  <2> QED BY <2>1, <2>2, <2>4 DEF AtomicInv
<1>2. CASE FlushTreaps
  <2>1. HistOK' /\ state = "open" /\ state' = state /\ Len(hist) \in Nat \ {0}
    BY <1>2 DEF AtomicInv, HistOK, SeenOK, NoTx, FlushTreaps
  <2>2. View = hist[Len(hist)] /\ IsMap(View)
    BY MergeMap DEF AtomicInv, SeenOK, View
  <2>3. "tip" \in DOMAIN View /\ View["tip"] = Len(hist) - 1
    BY <2>1, <2>2 DEF AtomicInv, HistOK
  <2>4. ldb' = View /\ cache' = cache /\ hist' = hist /\ flushed' = Len(hist)
    BY <1>2 DEF FlushTreaps
  <2>5. LdbOK'
    BY <2>1, <2>2, <2>3, <2>4 DEF LdbOK
  <2>6. View' = View
    <3>1. Merge(View, cache.keys, cache.remove) = View
      BY MergeTwice DEF View
    <3> QED BY <2>4, <3>1 DEF View
  <2>7. SeenOK'
    BY <2>1, <2>2, <2>4, <2>6 DEF SeenOK
  <2>8. tx' = [pc |-> "clear", blocks |-> tx.blocks, del |-> tx.del, snap |-> tx.snap,
               keys |-> tx.keys, remove |-> tx.remove, old |-> tx.old]
    BY <1>2 DEF AtomicInv, TxOK, FlushTreaps
  <2>9. TxOK'
    BY <1>2, <2>4, <2>6, <2>8 DEF AtomicInv, TxOK, FlushTreaps
  <2> QED BY <2>1, <2>5, <2>7, <2>9 DEF AtomicInv
<1>3. CASE FlushClear
  <2>1. HistOK' /\ LdbOK' /\ state = "open" /\ state' = state /\ hist' = hist /\ ldb' = ldb
    BY <1>3 DEF AtomicInv, HistOK, LdbOK, SeenOK, NoTx, FlushClear
  <2>2. cache' = EmptyCache
    BY <1>3 DEF FlushClear
  <2>3. View' = ldb
    <3>1. Merge(ldb, NoKeys, {}) = ldb
      BY MergeEmpty DEF AtomicInv, LdbOK
    <3>2. cache'.keys = NoKeys /\ cache'.remove = {}
      BY <2>2 DEF EmptyCache
    <3> QED BY <2>1, <3>1, <3>2 DEF View
  <2>4. View' = View
    BY <1>3, <2>3 DEF AtomicInv, TxOK, FlushClear
  <2>5. SeenOK'
    BY <2>1, <2>4 DEF AtomicInv, SeenOK
  <2>6. tx' = [pc |-> "direct", blocks |-> tx.blocks, del |-> tx.del, snap |-> tx.snap,
               keys |-> tx.keys, remove |-> tx.remove, old |-> tx.old]
    BY <1>3 DEF AtomicInv, TxOK, FlushClear
  <2>7. TxOK'
    BY <1>3, <2>1, <2>2, <2>4, <2>6 DEF AtomicInv, TxOK, FlushClear
  <2> QED BY <2>1, <2>5, <2>7 DEF AtomicInv
<1> QED BY <1>1, <1>2, <1>3

(* What is left after a crash or a close: leveldb and the transactions in  *)
(* it.                                                                     *)
LEMMA DownStep ==
  ASSUME AtomicInv, cache' = EmptyCache, tx' = NoTx, state' = "down",
         IsMap(ldb'), "tip" \in DOMAIN ldb', ldb'["tip"] \in Nat, ldb'["tip"] < Len(hist),
         ldb' = hist[ldb'["tip"] + 1],
         flushed' \in Nat, flushed' <= ldb'["tip"] + 1,
         hist' = SubSeq(hist, 1, ldb'["tip"] + 1)
  PROVE  AtomicInv'
<1> DEFINE m == ldb'["tip"] + 1
<1>1. PICK S : hist \in Seq(S)
  BY DEF AtomicInv, HistOK
<1>2. m \in 1..Len(hist)
  BY DEF AtomicInv, HistOK
<1> HIDE DEF m
<1>3. /\ SubSeq(hist, 1, m) \in Seq(S) /\ Len(SubSeq(hist, 1, m)) = m
      /\ \A n \in 1..m : SubSeq(hist, 1, m)[n] = hist[n]
  BY <1>1, <1>2, PrefixHist
<1>4. hist' \in Seq(S) /\ Len(hist') = m /\ \A n \in 1..m : hist'[n] = hist[n]
  BY <1>3 DEF m
<1>5. HistOK'
  <2>1. m \in Nat \ {0} /\ 1..m \subseteq 1..Len(hist)
    BY <1>2 DEF AtomicInv, HistOK
  <2>2. \A n \in 1..m : "tip" \in DOMAIN hist[n] /\ hist[n]["tip"] = n - 1
    BY <2>1 DEF AtomicInv, HistOK
  <2>3. \A n \in 1..Len(hist') : "tip" \in DOMAIN hist'[n] /\ hist'[n]["tip"] = n - 1
    BY <1>4, <2>2
  <2> QED BY <1>4, <2>1, <2>3 DEF HistOK
<1>6. ldb' = hist[m] /\ ldb'["tip"] = m - 1
  BY DEF m
<1>7. LdbOK'
  BY <1>2, <1>4, <1>6 DEF LdbOK
<1>8. cache'.keys = NoKeys /\ cache'.remove = {}
  BY DEF EmptyCache
<1>9. View' = ldb'
  <2>1. Merge(ldb', NoKeys, {}) = ldb'
    BY MergeEmpty
  <2> QED BY <1>8, <2>1 DEF View
<1>10. SeenOK'
  BY <1>2, <1>4, <1>6, <1>9 DEF SeenOK
<1>11. TxOK'
  BY DEF TxOK, NoTx
<1> QED BY <1>5, <1>7, <1>10, <1>11 DEF AtomicInv

LEMMA CloseStep ==
  ASSUME AtomicInv, Close
  PROVE  AtomicInv'
<1>1. tx' = NoTx /\ cache' = EmptyCache /\ state' = "down"
      /\ hist' = SubSeq(hist, 1, ldb'["tip"] + 1)
  BY DEF AtomicInv, TxOK, Close
<1>2. CASE ldb' = View /\ flushed' = Len(hist)
  <2>1. View = hist[Len(hist)] /\ IsMap(View) /\ Len(hist) \in Nat \ {0}
    BY MergeMap DEF AtomicInv, SeenOK, HistOK, View
  <2>2. "tip" \in DOMAIN View /\ View["tip"] = Len(hist) - 1
    BY <2>1 DEF AtomicInv, HistOK
  <2> QED BY <1>1, <1>2, <2>1, <2>2, DownStep
<1>3. CASE UNCHANGED <<ldb, flushed>>
  <2>1. /\ IsMap(ldb) /\ "tip" \in DOMAIN ldb /\ ldb["tip"] \in Nat
        /\ ldb["tip"] < Len(hist) /\ ldb = hist[ldb["tip"] + 1]
        /\ flushed \in Nat /\ flushed <= ldb["tip"] + 1
    BY DEF AtomicInv, LdbOK
  <2> QED BY <1>1, <1>3, <2>1, DownStep
<1> QED BY <1>2, <1>3 DEF Close

LEMMA CrashStep ==
  ASSUME AtomicInv, Crash
  PROVE  AtomicInv'
<1>1. /\ tx' = NoTx /\ cache' = EmptyCache /\ state' = "down"
      /\ hist' = SubSeq(hist, 1, ldb["tip"] + 1) /\ ldb' = ldb /\ flushed' = flushed
  BY DEF Crash
<1>2. /\ IsMap(ldb) /\ "tip" \in DOMAIN ldb /\ ldb["tip"] \in Nat
      /\ ldb["tip"] < Len(hist) /\ ldb = hist[ldb["tip"] + 1]
      /\ flushed \in Nat /\ flushed <= ldb["tip"] + 1
  BY DEF AtomicInv, LdbOK
<1> QED BY <1>1, <1>2, DownStep

LEMMA OpenStep ==
  ASSUME AtomicInv, Open
  PROVE  AtomicInv'
<1>1. cache = EmptyCache /\ tx = NoTx
  BY DEF AtomicInv, SeenOK, Open
<1>2. UNCHANGED <<ldb, cache, tx, hist, flushed>> /\ View' = View
  BY DEF Open, View
<1>3. HistOK' /\ LdbOK'
  BY <1>2 DEF AtomicInv, HistOK, LdbOK
<1>4. SeenOK'
  BY <1>1, <1>2 DEF AtomicInv, SeenOK
<1>5. TxOK'
  BY <1>2 DEF AtomicInv, TxOK
<1> QED BY <1>3, <1>4, <1>5 DEF AtomicInv

(* The steps of a commit before it chooses between cache and leveldb. *)
LEMMA WorkStep ==
  ASSUME AtomicInv,
         DeleteFile \/ SavePosition \/ WriteBlock \/ WriteFails \/ PutCursor
  PROVE  AtomicInv'
<1>1. /\ tx = [pc |-> tx.pc, blocks |-> tx.blocks, del |-> tx.del, snap |-> tx.snap,
               keys |-> tx.keys, remove |-> tx.remove, old |-> tx.old]
      /\ tx.blocks \in Seq(Block)
      /\ tx.pc # "idle" => "tip" \in DOMAIN tx.keys /\ "tip" \notin tx.remove
  BY DEF AtomicInv, TxOK
<1>2. CASE DeleteFile
  <2>1. tx.pc = "delete" /\ UNCHANGED <<ldb, cache, hist, flushed, state>>
        /\ tx' = [pc |-> "delete", blocks |-> tx.blocks, del |-> Tail(tx.del),
                  snap |-> tx.snap, keys |-> tx.keys, remove |-> tx.remove, old |-> tx.old]
    BY <1>1, <1>2 DEF DeleteFile
  <2> QED BY <1>1, <2>1, TxStep
<1>3. CASE SavePosition
  <2>1. tx.pc = "delete" /\ UNCHANGED <<ldb, cache, hist, flushed, state>>
        /\ tx' = [pc |-> "write", blocks |-> tx.blocks, del |-> tx.del,
                  snap |-> tx.snap, keys |-> tx.keys, remove |-> tx.remove,
                  old |-> Cursor(wc)]
    BY <1>1, <1>3 DEF SavePosition
  <2> QED BY <1>1, <2>1, TxStep
<1>4. CASE WriteBlock
  <2> DEFINE b == Head(tx.blocks)
             ks == PutKey(tx.keys, b, Cursor(Rotate))
  <2>1. tx.pc = "write" /\ UNCHANGED <<ldb, cache, hist, flushed, state>>
        /\ tx' = [pc |-> "write", blocks |-> Tail(tx.blocks), del |-> tx.del,
                  snap |-> tx.snap, keys |-> ks, remove |-> tx.remove \ {b}, old |-> tx.old]
    BY <1>1, <1>4 DEF WriteBlock
  <2>2. b \in Block /\ Tail(tx.blocks) \in Seq(Block)
    BY <1>1, <1>4 DEF WriteBlock
  <2>3. "tip" \in DOMAIN ks /\ ks["tip"] = tx.keys["tip"]
    BY <1>1, <2>1, <2>2, TipIsNoBlock, PutKeyOther
  <2> HIDE DEF b, ks
  <2> QED BY <1>1, <2>1, <2>2, <2>3, TxStep
<1>5. CASE WriteFails
  <2>1. tx.pc = "write" /\ UNCHANGED <<ldb, cache, hist, flushed, state>>
        /\ tx' = [pc |-> "rollback", blocks |-> tx.blocks, del |-> tx.del,
                  snap |-> tx.snap, keys |-> tx.keys, remove |-> tx.remove, old |-> tx.old]
    BY <1>1, <1>5 DEF WriteFails
  <2> QED BY <1>1, <2>1, TxStep
<1>6. CASE PutCursor
  <2> DEFINE ks == PutKey(tx.keys, "cur", Cursor(wc))
  <2>1. tx.pc = "write" /\ UNCHANGED <<ldb, cache, hist, flushed, state>>
        /\ tx' = [pc |-> "commit", blocks |-> tx.blocks, del |-> tx.del,
                  snap |-> tx.snap, keys |-> ks, remove |-> tx.remove, old |-> tx.old]
    BY <1>1, <1>6 DEF PutCursor
  <2>2. "tip" \in DOMAIN ks /\ ks["tip"] = tx.keys["tip"]
    BY <1>1, <2>1, PutKeyOther
  <2> HIDE DEF ks
  <2> QED BY <1>1, <2>1, <2>2, TxStep
<1> QED BY <1>2, <1>3, <1>4, <1>5, <1>6

(* Every step keeps the invariant. *)
LEMMA NextAtomic == AtomicInv /\ [Next]_vars => AtomicInv'
<1> SUFFICES ASSUME AtomicInv, [Next]_vars PROVE AtomicInv'
  OBVIOUS
<1>1. CASE UNCHANGED vars
  BY <1>1, Quiescent DEF vars
<1>2. ASSUME NEW bs \in BlockSeqs, NEW prune \in BOOLEAN, Update(bs, prune) PROVE AtomicInv'
  BY <1>2, UpdateStep
<1>3. CASE DeleteFile \/ SavePosition \/ WriteBlock \/ WriteFails \/ PutCursor
  BY <1>3, WorkStep
<1>4. CASE DeleteFails \/ TxRollback \/ CommitFails
  BY <1>4, AbortStep DEF DeleteFails, TxRollback, CommitFails
<1>5. CASE CommitCache
  BY <1>5, CommitCacheStep
<1>6. CASE CommitDirect
  BY <1>6, CommitDirectStep
<1>7. CASE FlushSync \/ FlushTreaps \/ FlushClear
  BY <1>7, FlushStep
<1>8. CASE SnapshotLdb \/ SnapshotCache \/ ReadEnd
  BY <1>8, Quiescent DEF SnapshotLdb, SnapshotCache, ReadEnd
<1>9. CASE Close
  BY <1>9, CloseStep
<1>10. CASE Crash
  BY <1>10, CrashStep
<1>11. CASE Open
  BY <1>11, OpenStep
<1> QED
  BY <1>1, <1>2, <1>3, <1>4, <1>5, <1>6, <1>7, <1>8, <1>9, <1>10, <1>11 DEF Next

(* Commits are atomic and durable (commitTx, flush, Close, a crash at any  *)
(* step): transactions see exactly what the last committed one left, and   *)
(* leveldb holds a whole number of transactions, at least those flushed.   *)
THEOREM CommitsAtomic == Spec => [](CommittedView /\ Recoverable)
<1>1. AtomicInv => CommittedView /\ Recoverable
  BY DEF AtomicInv, SeenOK, LdbOK, CommittedView, Recoverable
<1> QED BY <1>1, InitAtomic, NextAtomic, PTL DEF Spec

(* A crash at any moment leaves the metadata of a whole number of          *)
(* transactions, with none of those that were flushed missing (flush,      *)
(* commitTreaps): whatever fails, and whatever the cache limit.            *)
THEOREM FlushedDurable == Spec => []Recoverable
<1>1. AtomicInv => Recoverable
  BY DEF AtomicInv, LdbOK, Recoverable
<1> QED BY <1>1, InitAtomic, NextAtomic, PTL DEF Spec

------------------------------------------------------------------------------
(* The flat files: the types of everything the database keeps and, as long  *)
(* as no prune deletes a file that the flushed metadata still writes to,    *)
(* that no crash or failing operation can put the metadata ahead of the     *)
(* files or lose a block that has a row.                                    *)

Zero == [file |-> 0, off |-> 0]
AtOrBefore(c, d) == ~Before(d, c)

FileRec == [data : Seq(Block \cup {Hole}), synced : Nat]
FileOK(f) == f \in FileRec /\ f.synced <= Len(f.data) /\ Len(f.data) <= FileCap
FilesOK(fs) ==
  /\ IsMap(fs) /\ DOMAIN fs \subseteq Nat
  /\ \E m \in Nat : \A n \in DOMAIN fs : n <= m
  /\ \A n \in DOMAIN fs : FileOK(fs[n])
CursorRec == [file : Nat, off : 0..FileCap, open : BOOLEAN]

------------------------------------------------------------------------------
(* Numbers of files *)

LEMMA LeastOf ==
  ASSUME NEW S, S \subseteq Nat, S # {}
  PROVE  \E n \in S : \A m \in S : n <= m
<1> DEFINE R == OpToRel(<, Nat)
<1>1. PICK x \in S : \A y \in S : <<y, x>> \notin R
  BY NatLessThanWellFounded, WFMin, Zenon
<1>2. \A y \in S : y \in Nat /\ x \in Nat /\ ~(y < x)
  BY <1>1 DEF OpToRel
<1> QED BY <1>2

LEMMA GreatestOf ==
  ASSUME NEW S, S \subseteq Nat, S # {}, NEW k \in Nat, \A n \in S : n <= k
  PROVE  \E n \in S : \A m \in S : m <= n
<1> DEFINE U == {u \in Nat : \A n \in S : n <= u}
<1>1. PICK u \in U : \A v \in U : u <= v
  <2>1. U \subseteq Nat /\ U # {}
    OBVIOUS
  <2> QED BY <2>1, LeastOf
<1>2. u \in S
  <2> SUFFICES ASSUME u \notin S PROVE FALSE
    OBVIOUS
  <2>1. \A n \in S : n \in Nat /\ n < u
    OBVIOUS
  <2>2. u - 1 \in Nat
    <3>1. PICK n \in S : TRUE
      OBVIOUS
    <3>2. n \in Nat /\ n < u /\ u \in Nat
      BY <2>1
    <3> QED BY <3>2
  <2>3. \A n \in S : n <= u - 1
    BY <2>1, <2>2
  <2>4. u - 1 \in U
    BY <2>2, <2>3
  <2> QED BY <1>1, <2>2, <2>4
<1> QED BY <1>2

(* scanBlockFiles finds the lowest and the highest numbered file. *)
LEMMA NoFilesLeft ==
  ASSUME NEW fs, IsMap(fs)
  PROVE  fs = <<>> <=> DOMAIN fs = {}
BY DEF IsMap

LEMMA FirstLast ==
  ASSUME FilesOK(files), ~NoFiles
  PROVE  /\ First \in DOMAIN files /\ \A m \in DOMAIN files : First <= m
         /\ Last \in DOMAIN files /\ \A m \in DOMAIN files : m <= Last
<1>0. DOMAIN files # {}
  BY NoFilesLeft DEF NoFiles, FilesOK
<1>1. \E n \in DOMAIN files : \A m \in DOMAIN files : n <= m
  BY <1>0, LeastOf DEF FilesOK
<1>2. \E n \in DOMAIN files : \A m \in DOMAIN files : m <= n
  BY <1>0, GreatestOf DEF FilesOK
<1> QED BY <1>1, <1>2 DEF First, Last

------------------------------------------------------------------------------
(* Contents of files *)

LEMMA FuncSeq ==
  ASSUME NEW n \in Nat, NEW S, NEW f \in [1..n -> S]
  PROVE  f \in Seq(S) /\ Len(f) = n
OBVIOUS

LEMMA UnitType ==
  ASSUME NEW s \in Seq(Block \cup {Hole}), NEW i \in Nat, 1 <= i
  PROVE  Unit(s, i) \in Block \cup {Hole}
BY DEF Unit

LEMMA NoDataOK == FileOK(NoData) /\ Len(NoData.data) = 0 /\ NoData.synced = 0
<1>1. NoData.data = <<>> /\ NoData.synced = 0
  BY DEF NoData
<1>2. <<>> \in Seq(Block \cup {Hole}) /\ Len(<<>>) = 0
  OBVIOUS
<1> QED BY <1>1, <1>2, FfldbAssumption DEF FileOK, FileRec, NoData

(* A write leaves what lies before its offset, synced or not. *)
LEMMA WriteAtDoes ==
  ASSUME NEW f, FileOK(f), NEW off \in Nat, NEW n \in Nat, off + n <= FileCap, NEW b \in Block
  PROVE  LET g == WriteAt(f, off, b, n)
         IN /\ FileOK(g)
            /\ Len(f.data) <= Len(g.data) /\ off + n <= Len(g.data)
            /\ g.synced = SmallerOf(f.synced, off)
            /\ \A i \in Nat : 1 <= i /\ i <= off => Unit(g.data, i) = Unit(f.data, i)
            /\ \A i \in Nat : off < i /\ i <= off + n => Unit(g.data, i) = b
<1> DEFINE g == WriteAt(f, off, b, n)
           m == LargerOf(Len(f.data), off + n)
           d == [i \in 1..m |-> IF off < i /\ i <= off + n THEN b ELSE Unit(f.data, i)]
<1>1. f.data \in Seq(Block \cup {Hole}) /\ Len(f.data) \in Nat /\ f.synced \in Nat
      /\ f.synced <= Len(f.data) /\ Len(f.data) <= FileCap /\ FileCap \in Nat
  BY FfldbAssumption DEF FileOK, FileRec
<1>2. m \in Nat /\ Len(f.data) <= m /\ off + n <= m /\ m <= FileCap
      /\ (m = Len(f.data) \/ m = off + n)
  BY <1>1 DEF LargerOf
<1>3. g.data = d /\ g.synced = SmallerOf(f.synced, off) /\ g = [data |-> d, synced |-> g.synced]
  <2> DEFINE z == SmallerOf(f.synced, off)
  <2>1. g = [f EXCEPT !.data = d, !.synced = z]
    BY DEF WriteAt
  <2> HIDE DEF g, d, z
  <2>2. g = [data |-> d, synced |-> z]
    BY <2>1 DEF FileOK, FileRec
  <2> QED BY <2>2 DEF z
<1>4. d \in [1..m -> Block \cup {Hole}]
  <2>1. ASSUME NEW i \in 1..m PROVE Unit(f.data, i) \in Block \cup {Hole}
    <3>1. i \in Nat /\ 1 <= i
      BY <1>2
    <3> QED BY <1>1, <3>1, UnitType, Zenon
  <2> QED BY <2>1
<1>5. d \in Seq(Block \cup {Hole}) /\ Len(d) = m
  <2> HIDE DEF d, m
  <2> QED BY <1>2, <1>4, FuncSeq
<1>6. g.synced \in Nat /\ g.synced <= m
  BY <1>1, <1>2, <1>3 DEF SmallerOf
<1>7. FileOK(g)
  <2> HIDE DEF d, m, g
  <2> QED BY <1>2, <1>3, <1>5, <1>6 DEF FileOK, FileRec
<1>8. ASSUME NEW i \in Nat, 1 <= i, i <= off PROVE Unit(g.data, i) = Unit(f.data, i)
  <2>1. i <= m /\ d[i] = Unit(f.data, i)
    BY <1>2, <1>8
  <2> QED BY <1>3, <1>5, <2>1 DEF Unit
<1>9. ASSUME NEW i \in Nat, off < i, i <= off + n PROVE Unit(g.data, i) = b
  <2>1. i <= m /\ d[i] = b
    BY <1>2, <1>9
  <2> QED BY <1>3, <1>5, <2>1 DEF Unit
<1> QED BY <1>2, <1>3, <1>5, <1>7, <1>8, <1>9

LEMMA TruncatedDoes ==
  ASSUME NEW f, FileOK(f), NEW off \in 0..FileCap
  PROVE  LET g == Truncated(f, off)
         IN /\ FileOK(g) /\ Len(g.data) = off /\ g.synced = off
            /\ \A i \in Nat : 1 <= i /\ i <= off => Unit(g.data, i) = Unit(f.data, i)
<1> DEFINE d == [i \in 1..off |-> Unit(f.data, i)]
           g == Truncated(f, off)
<1>1. f.data \in Seq(Block \cup {Hole}) /\ FileCap \in Nat /\ off \in Nat /\ off <= FileCap
  BY FfldbAssumption DEF FileOK, FileRec
<1>2. d \in [1..off -> Block \cup {Hole}]
  <2>1. ASSUME NEW i \in 1..off PROVE Unit(f.data, i) \in Block \cup {Hole}
    <3>1. i \in Nat /\ 1 <= i
      BY <1>1
    <3> QED BY <1>1, <3>1, UnitType, Zenon
  <2> QED BY <2>1
<1>3. d \in Seq(Block \cup {Hole}) /\ Len(d) = off
  <2> HIDE DEF d
  <2> QED BY <1>1, <1>2, FuncSeq
<1>4. g.data = d /\ g.synced = off /\ g = [data |-> d, synced |-> off]
  BY DEF Truncated
<1>5. \A i \in Nat : 1 <= i /\ i <= off => Unit(g.data, i) = Unit(f.data, i)
  BY <1>1, <1>3, <1>4 DEF Unit
<1>6. FileOK(g)
  <2> HIDE DEF d, g
  <2> QED BY <1>1, <1>3, <1>4 DEF FileOK, FileRec
<1> QED BY <1>3, <1>4, <1>5, <1>6

LEMMA SyncedDoes ==
  ASSUME NEW f, FileOK(f)
  PROVE  FileOK(Synced(f)) /\ Synced(f).data = f.data /\ Synced(f).synced = Len(f.data)
BY DEF FileOK, FileRec, Synced

(* What a crash leaves: all that was synced. *)
LEMMA SurvivesDoes ==
  ASSUME NEW f, FileOK(f), NEW g \in Survives(f)
  PROVE  /\ FileOK(g) /\ f.synced <= g.synced
         /\ \A i \in Nat : 1 <= i /\ i <= g.synced => Unit(g.data, i) = Unit(f.data, i)
<1>1. PICK n \in f.synced..Len(f.data) : g = [data |-> SubSeq(f.data, 1, n), synced |-> n]
  BY DEF Survives
<1>2. f.data \in Seq(Block \cup {Hole}) /\ FileCap \in Nat /\ f.synced \in Nat
      /\ n \in Nat /\ f.synced <= n /\ n <= Len(f.data) /\ Len(f.data) \in Nat
      /\ Len(f.data) <= FileCap
  BY FfldbAssumption DEF FileOK, FileRec
<1>3. /\ SubSeq(f.data, 1, n) \in Seq(Block \cup {Hole}) /\ Len(SubSeq(f.data, 1, n)) = n
      /\ \A i \in 1..n : SubSeq(f.data, 1, n)[i] = f.data[i]
  BY <1>2
<1>4. FileOK(g)
  BY <1>1, <1>2, <1>3 DEF FileOK, FileRec
<1> QED BY <1>1, <1>2, <1>3, <1>4 DEF Unit

------------------------------------------------------------------------------
(* The set of files *)

LEMMA PutFile ==
  ASSUME NEW fs, FilesOK(fs), NEW n \in Nat, NEW f, FileOK(f)
  PROVE  /\ FilesOK(PutKey(fs, n, f)) /\ DOMAIN PutKey(fs, n, f) = DOMAIN fs \cup {n}
         /\ PutKey(fs, n, f)[n] = f
         /\ \A m \in DOMAIN fs : m # n => PutKey(fs, n, f)[m] = fs[m]
<1> DEFINE g == PutKey(fs, n, f)
<1>1. /\ DOMAIN g = DOMAIN fs \cup {n} /\ g[n] = f
      /\ \A m \in DOMAIN fs : m # n => g[m] = fs[m]
  BY DEF PutKey
<1> HIDE DEF g
<1>2. PICK k \in Nat : \A m \in DOMAIN fs : m <= k
  BY DEF FilesOK
<1>0. IsMap(g)
  BY DEF IsMap, PutKey, g
<1>3. DOMAIN g \subseteq Nat /\ \A m \in DOMAIN g : FileOK(g[m])
  BY <1>1 DEF FilesOK
<1>4. \E j \in Nat : \A m \in DOMAIN g : m <= j
  <2>1. k + n \in Nat /\ \A m \in DOMAIN g : m <= k + n
    BY <1>1, <1>2 DEF FilesOK
  <2> QED BY <2>1
<1> QED BY <1>0, <1>1, <1>3, <1>4 DEF FilesOK, g

LEMMA WithoutFiles ==
  ASSUME NEW fs, FilesOK(fs), NEW S
  PROVE  /\ FilesOK(Without(fs, S)) /\ DOMAIN Without(fs, S) = DOMAIN fs \ S
         /\ \A m \in DOMAIN fs \ S : Without(fs, S)[m] = fs[m]
BY DEF Without, FilesOK, IsMap

LEMMA OpenFile ==
  ASSUME NEW fs, FilesOK(fs), NEW n \in Nat
  PROVE  LET g == OpenWriteFile(fs, n)
         IN /\ FilesOK(g) /\ DOMAIN g = DOMAIN fs \cup {n}
            /\ \A m \in DOMAIN fs : g[m] = fs[m]
            /\ n \notin DOMAIN fs => g[n] = NoData
<1>1. CASE n \in DOMAIN fs
  <2>1. OpenWriteFile(fs, n) = fs /\ DOMAIN fs = DOMAIN fs \cup {n}
    BY <1>1 DEF OpenWriteFile
  <2> QED BY <1>1, <2>1
<1>2. CASE n \notin DOMAIN fs
  <2>1. OpenWriteFile(fs, n) = PutKey(fs, n, NoData)
    BY <1>2 DEF OpenWriteFile
  <2>2. \A m \in DOMAIN fs : m # n
    BY <1>2
  <2>3. FileOK(NoData)
    BY NoDataOK
  <2>4. /\ FilesOK(PutKey(fs, n, NoData)) /\ DOMAIN PutKey(fs, n, NoData) = DOMAIN fs \cup {n}
        /\ PutKey(fs, n, NoData)[n] = NoData
        /\ \A m \in DOMAIN fs : m # n => PutKey(fs, n, NoData)[m] = fs[m]
    BY <2>3, PutFile, PutKeySame
  <2> QED BY <2>1, <2>2, <2>4
<1> QED BY <1>1, <1>2

(* What lies before position c stays: its contents, and what of it was     *)
(* synced.                                                                 *)
Upto(n, k, c) == n < c.file \/ (n = c.file /\ k <= c.off)
Keeps(fs, gs, c) ==
  \A n \in DOMAIN fs : n <= c.file =>
    /\ n \in DOMAIN gs
    /\ \A k \in Nat : Upto(n, k, c) =>
         /\ k <= Len(fs[n].data) => k <= Len(gs[n].data)
         /\ k <= fs[n].synced => k <= gs[n].synced
         /\ 1 <= k => Unit(gs[n].data, k) = Unit(fs[n].data, k)

LEMMA KeepsLess ==
  ASSUME NEW fs, DOMAIN fs \subseteq Nat, NEW gs, NEW c \in Loc, NEW d \in Loc,
         AtOrBefore(c, d), Keeps(fs, gs, d)
  PROVE  Keeps(fs, gs, c)
<1> SUFFICES ASSUME NEW n \in DOMAIN fs, n <= c.file
             PROVE  /\ n \in DOMAIN gs
                    /\ \A k \in Nat : Upto(n, k, c) =>
                         /\ k <= Len(fs[n].data) => k <= Len(gs[n].data)
                         /\ k <= fs[n].synced => k <= gs[n].synced
                         /\ 1 <= k => Unit(gs[n].data, k) = Unit(fs[n].data, k)
  BY DEF Keeps
<1>1. /\ c.file \in Nat /\ d.file \in Nat /\ c.off \in Nat /\ d.off \in Nat /\ n \in Nat
      /\ c.file < d.file \/ (c.file = d.file /\ c.off <= d.off)
  BY FfldbAssumption DEF Loc, AtOrBefore, Before
<1>2. n <= d.file /\ \A k \in Nat : Upto(n, k, c) => Upto(n, k, d)
  BY <1>1 DEF Upto
<1> QED BY <1>2 DEF Keeps

Writing(w, n) == w.open /\ w.file = n

(* handleRollback leaves the files before the old position's alone, that   *)
(* one as it is or cut at the position, and the cursor at the position.    *)
(* The cursor is left without an open file only when nothing was done or   *)
(* when the write had moved on to another file.                            *)
RolledTo(fs, w, old, r) ==
  /\ FilesOK(r.files) /\ r.wc \in CursorRec /\ Cursor(r.wc) = old
  /\ \A n \in DOMAIN fs : n <= old.file => n \in DOMAIN r.files
  /\ \A n \in DOMAIN r.files : n \in DOMAIN fs \/ n = old.file
  /\ \A n \in DOMAIN fs : n < old.file => r.files[n] = fs[n]
  /\ old.file \in DOMAIN fs =>
       r.files[old.file] \in {fs[old.file], Truncated(fs[old.file], old.off)}
  /\ r.wc.open => old.file \in DOMAIN r.files \/ (Writing(w, old.file) /\ old.file \notin DOMAIN fs)
  /\ ~r.wc.open =>
       /\ old.file \in DOMAIN fs => r.files[old.file] = fs[old.file]
       /\ w.file > old.file \/ (r.wc = w /\ r.files = fs)

LEMMA RollbackDoes ==
  ASSUME NEW fs, FilesOK(fs), NEW w \in CursorRec, NEW old \in Loc, NEW stop \in Nat,
         NEW ok \in BOOLEAN, old.file <= stop, stop <= w.file
  PROVE  RolledTo(fs, w, old, Rollback(fs, w, old, stop, ok))
<1> DEFINE r == Rollback(fs, w, old, stop, ok)
<1> SUFFICES RolledTo(fs, w, old, r)
  OBVIOUS
<1>1. CASE old = Cursor(w)
  <2>1. r.files = fs /\ r.wc = w
    BY <1>1 DEF Rollback
  <2> HIDE DEF r
  <2>2. w.open /\ old.file \notin DOMAIN fs => Writing(w, old.file)
    BY <1>1 DEF Writing, Cursor
  <2> QED BY <1>1, <2>1, <2>2 DEF RolledTo, Cursor
<1>2. CASE old # Cursor(w) /\ stop # old.file
  <2> DEFINE kept == Deleted(fs, old, w, stop)
  <2>1. r.files = kept /\ r.wc = [file |-> old.file, off |-> old.off, open |-> FALSE]
    BY <1>2 DEF Rollback
  <2>2. /\ FilesOK(kept) /\ DOMAIN kept = DOMAIN fs \ ((stop + 1)..w.file)
        /\ \A m \in DOMAIN fs \ ((stop + 1)..w.file) : kept[m] = fs[m]
    BY WithoutFiles DEF Deleted
  <2>3. r.wc \in CursorRec /\ Cursor(r.wc) = old /\ ~r.wc.open
    BY <2>1 DEF CursorRec, Cursor, Loc
  <2>4. w.file > old.file /\ old.file \in Nat
    BY <1>2 DEF CursorRec, Loc
  <2>5. \A n \in DOMAIN fs : n <= old.file => n \in Nat /\ n \notin (stop + 1)..w.file
    BY DEF FilesOK, Loc, CursorRec
  <2> HIDE DEF r, kept
  <2>6. \A n \in DOMAIN fs : n <= old.file => n \in DOMAIN r.files /\ r.files[n] = fs[n]
    BY <2>1, <2>2, <2>5
  <2> QED BY <2>1, <2>2, <2>3, <2>4, <2>6 DEF RolledTo, FilesOK
<1>3. CASE old # Cursor(w) /\ stop = old.file
  <2> DEFINE kept == Deleted(fs, old, w, stop)
             opened == IF w.file = old.file /\ w.open THEN kept ELSE OpenWriteFile(kept, old.file)
             cut == PutKey(opened, old.file, Truncated(opened[old.file], old.off))
  <2>1. /\ r.wc = [file |-> old.file, off |-> old.off, open |-> TRUE]
        /\ r.files = IF ok /\ old.file \in DOMAIN opened THEN cut ELSE opened
    BY <1>3 DEF Rollback
  <2>2. /\ FilesOK(kept) /\ DOMAIN kept = DOMAIN fs \ ((stop + 1)..w.file)
        /\ \A m \in DOMAIN fs \ ((stop + 1)..w.file) : kept[m] = fs[m]
    BY WithoutFiles DEF Deleted
  <2>3. r.wc \in CursorRec /\ Cursor(r.wc) = old /\ r.wc.open
    BY <2>1 DEF CursorRec, Cursor, Loc
  <2>4. old.file \in Nat /\ old.off \in 0..FileCap
    BY DEF Loc
  <2>5. \A n \in DOMAIN fs : n <= old.file => n \in DOMAIN kept /\ kept[n] = fs[n]
    BY <1>3, <2>2, <2>4 DEF FilesOK, CursorRec
  <2> HIDE DEF kept
  <2>6. /\ FilesOK(opened) /\ DOMAIN kept \subseteq DOMAIN opened
        /\ DOMAIN opened \subseteq DOMAIN kept \cup {old.file}
        /\ \A n \in DOMAIN kept : opened[n] = kept[n]
        /\ old.file \in DOMAIN opened \/ Writing(w, old.file)
    <3>1. CASE w.file = old.file /\ w.open
      <4>1. opened = kept
        BY <3>1
      <4> QED BY <2>2, <3>1, <4>1 DEF Writing
    <3>2. CASE ~(w.file = old.file /\ w.open)
      <4>1. opened = OpenWriteFile(kept, old.file)
        BY <3>2
      <4> HIDE DEF opened
      <4>2. /\ FilesOK(opened) /\ DOMAIN opened = DOMAIN kept \cup {old.file}
            /\ \A m \in DOMAIN kept : opened[m] = kept[m]
        BY <2>2, <2>4, <4>1, OpenFile
      <4> QED BY <4>2
    <3> QED BY <3>1, <3>2
  <2> HIDE DEF opened
  <2>7. old.file \in DOMAIN opened =>
          /\ FilesOK(cut) /\ DOMAIN cut = DOMAIN opened
          /\ cut[old.file] = Truncated(opened[old.file], old.off)
          /\ \A n \in DOMAIN opened : n # old.file => cut[n] = opened[n]
    <3> SUFFICES ASSUME old.file \in DOMAIN opened
                 PROVE  /\ FilesOK(cut) /\ DOMAIN cut = DOMAIN opened
                        /\ cut[old.file] = Truncated(opened[old.file], old.off)
                        /\ \A n \in DOMAIN opened : n # old.file => cut[n] = opened[n]
      OBVIOUS
    <3> DEFINE t == Truncated(opened[old.file], old.off)
    <3>1. FileOK(t)
      BY <2>4, <2>6, TruncatedDoes DEF FilesOK
    <3>2. DOMAIN opened = DOMAIN opened \cup {old.file}
      OBVIOUS
    <3> HIDE DEF t
    <3>3. cut = PutKey(opened, old.file, t)
      BY DEF t
    <3>4. FilesOK(cut) /\ DOMAIN cut = DOMAIN opened /\ cut[old.file] = t
          /\ \A n \in DOMAIN opened : n # old.file => cut[n] = opened[n]
      <4> HIDE DEF cut
      <4>1. cut[old.file] = t
        BY <3>3, PutKeySame
      <4>2. FilesOK(cut) /\ DOMAIN cut = DOMAIN opened \cup {old.file}
        <5>1. FilesOK(opened) /\ old.file \in Nat
          BY <2>4, <2>6
        <5>2. FilesOK(PutKey(opened, old.file, t))
          BY <5>1, <3>1, PutFile
        <5>3. DOMAIN PutKey(opened, old.file, t) = DOMAIN opened \cup {old.file}
          BY DEF PutKey
        <5> QED BY <3>3, <5>2, <5>3
      <4>3. \A n \in DOMAIN opened : n # old.file => cut[n] = opened[n]
        BY <3>3, PutKeyOther
      <4> QED BY <3>2, <4>1, <4>2, <4>3
    <3> QED BY <3>4 DEF t
  <2> HIDE DEF cut, r
  <2>8. /\ FilesOK(r.files) /\ DOMAIN r.files = DOMAIN opened
        /\ \A n \in DOMAIN opened : n # old.file => r.files[n] = opened[n]
        /\ old.file \in DOMAIN opened =>
             r.files[old.file] \in {opened[old.file], Truncated(opened[old.file], old.off)}
    BY <2>1, <2>6, <2>7
  <2>9. \A n \in DOMAIN fs : n <= old.file => n \in DOMAIN r.files
    BY <2>5, <2>6, <2>8
  <2>10. \A n \in DOMAIN r.files : n \in DOMAIN fs \/ n = old.file
    BY <2>2, <2>6, <2>8
  <2>11. \A n \in DOMAIN fs : n < old.file => r.files[n] = fs[n]
    <3> SUFFICES ASSUME NEW n \in DOMAIN fs, n < old.file PROVE r.files[n] = fs[n]
      OBVIOUS
    <3>1. n \in Nat /\ n <= old.file /\ n # old.file
      BY <2>4 DEF FilesOK
    <3> QED BY <2>5, <2>6, <2>8, <3>1, Zenon
  <2>12. old.file \in DOMAIN fs =>
           r.files[old.file] \in {fs[old.file], Truncated(fs[old.file], old.off)}
    <3>1. old.file <= old.file
      BY <2>4
    <3>2. old.file \in DOMAIN fs => old.file \in DOMAIN opened /\ opened[old.file] = fs[old.file]
      BY <2>5, <2>6, <3>1
    <3> QED BY <2>8, <3>2, Zenon
  <2>13. old.file \in DOMAIN r.files \/ (Writing(w, old.file) /\ old.file \notin DOMAIN fs)
    BY <2>4, <2>6, <2>8, <2>9
  <2> QED BY <2>3, <2>8, <2>9, <2>10, <2>11, <2>12, <2>13 DEF RolledTo
<1> QED BY <1>1, <1>2, <1>3

(* A rollback keeps what lies before the position it goes back to. *)
LEMMA RolledKeeps ==
  ASSUME NEW fs, FilesOK(fs), NEW w \in CursorRec, NEW old \in Loc, NEW r,
         RolledTo(fs, w, old, r)
  PROVE  Keeps(fs, r.files, old)
<1> SUFFICES ASSUME NEW n \in DOMAIN fs, n <= old.file
             PROVE  /\ n \in DOMAIN r.files
                    /\ \A k \in Nat : Upto(n, k, old) =>
                         /\ k <= Len(fs[n].data) => k <= Len(r.files[n].data)
                         /\ k <= fs[n].synced => k <= r.files[n].synced
                         /\ 1 <= k => Unit(r.files[n].data, k) = Unit(fs[n].data, k)
  BY DEF Keeps
<1>1. n \in Nat /\ old.file \in Nat /\ old.off \in 0..FileCap /\ FileCap \in Nat
      /\ n \in DOMAIN r.files /\ FileOK(fs[n])
  BY FfldbAssumption DEF FilesOK, Loc, RolledTo
<1>2. CASE r.files[n] = fs[n]
  BY <1>1, <1>2
<1>3. CASE n = old.file /\ r.files[n] = Truncated(fs[n], old.off)
  <2>1. \A k \in Nat : Upto(n, k, old) => k <= old.off
    BY <1>1, <1>3 DEF Upto
  <2>2. /\ Len(r.files[n].data) = old.off /\ r.files[n].synced = old.off
        /\ \A i \in Nat : 1 <= i /\ i <= old.off =>
             Unit(r.files[n].data, i) = Unit(fs[n].data, i)
    BY <1>1, <1>3, TruncatedDoes
  <2> QED BY <1>1, <2>1, <2>2
<1> QED BY <1>1, <1>2, <1>3 DEF RolledTo

(* Deleting stops between the old position's file and the newest. *)
LEMMA StopRange ==
  ASSUME NEW fs, NEW w \in CursorRec, NEW old \in Loc, old.file <= w.file
  PROVE  Stop(fs, w, old) \in old.file..w.file
<1> DEFINE missing == {n \in (old.file + 1)..w.file : n \notin DOMAIN fs}
<1>1. old.file \in Nat /\ w.file \in Nat
  BY DEF Loc, CursorRec
<1>2. CASE missing = {}
  BY <1>1, <1>2 DEF Stop
<1>3. CASE missing # {}
  <2>1. missing \subseteq Nat /\ \A n \in missing : n <= w.file
    BY <1>1
  <2> HIDE DEF missing
  <2>2. \E n \in missing : \A m \in missing : m <= n
    BY <1>1, <1>3, <2>1, GreatestOf
  <2>3. (CHOOSE n \in missing : \A m \in missing : m <= n) \in missing
    BY <2>2
  <2>4. Stop(fs, w, old) = CHOOSE n \in missing : \A m \in missing : m <= n
    BY <1>3 DEF Stop, missing
  <2>5. Stop(fs, w, old) \in missing
    BY <2>3, <2>4
  <2> QED BY <1>1, <2>5 DEF missing
<1> QED BY <1>2, <1>3

LEMMA HandleRollbackDoes ==
  ASSUME FilesOK(files), NEW w \in CursorRec, NEW old \in Loc, AtOrBefore(old, Cursor(w)),
         NEW r \in HandleRollback(files, w, old)
  PROVE  RolledTo(files, w, old, r)
<1>1. old.file \in Nat /\ w.file \in Nat /\ old.file <= w.file
  BY DEF AtOrBefore, Before, Cursor, Loc, CursorRec
<1>2. Stop(files, w, old) \in old.file..w.file
  BY <1>1, StopRange
<1>3. PICK n \in Stop(files, w, old)..w.file, ok \in BOOLEAN : r = Rollback(files, w, old, n, ok)
  <2>1. CASE r = Rollback(files, w, old, Stop(files, w, old), TRUE)
    <3>1. Stop(files, w, old) \in Stop(files, w, old)..w.file
      BY <1>1, <1>2
    <3> QED BY <2>1, <3>1
  <2>2. CASE r \in {Rollback(files, w, old, n, FALSE) : n \in Stop(files, w, old)..w.file}
    BY <2>2
  <2> QED BY <2>1, <2>2 DEF HandleRollback
<1>4. n \in Nat /\ old.file <= n /\ n <= w.file
  BY <1>1, <1>2
<1> QED BY <1>3, <1>4, RollbackDoes

------------------------------------------------------------------------------
(* writeBlock and the syncs *)

LEMMA RotateDoes ==
  ASSUME wc \in CursorRec
  PROVE  /\ Rotate \in CursorRec /\ Rotate.off + RecLen <= FileCap
         /\ AtOrBefore(Cursor(wc), Cursor(Rotate))
         /\ Full => Rotate.file = wc.file + 1 /\ Rotate.off = 0 /\ ~Rotate.open
         /\ ~Full => Rotate = wc
         /\ Full => wc.off # 0
<1>1. wc.file \in Nat /\ wc.off \in Nat /\ wc.off <= FileCap /\ FileCap \in Nat /\ 2 <= FileCap
  BY FfldbAssumption DEF CursorRec, RecLen
<1>2. CASE Full
  <2>1. Rotate = [file |-> wc.file + 1, off |-> 0, open |-> FALSE]
    BY <1>2 DEF Rotate
  <2>2. Rotate \in CursorRec /\ Rotate.file = wc.file + 1 /\ Rotate.off = 0 /\ ~Rotate.open
    BY <1>1, <2>1 DEF CursorRec
  <2>3. wc.off # 0
    BY <1>1, <1>2 DEF Full, RecLen
  <2> QED BY <1>1, <1>2, <2>2, <2>3 DEF AtOrBefore, Before, Cursor, RecLen
<1>3. CASE ~Full
  <2>1. Rotate = wc
    BY <1>3 DEF Rotate
  <2>2. wc.off + RecLen <= FileCap
    BY <1>1, <1>3 DEF Full, RecLen
  <2> QED BY <1>1, <1>3, <2>1, <2>2 DEF AtOrBefore, Before, Cursor
<1> QED BY <1>2, <1>3

(* Syncing a file changes none. *)
SyncOf(fs, gs) ==
  /\ FilesOK(gs) /\ DOMAIN gs = DOMAIN fs
  /\ \A n \in DOMAIN fs : gs[n].data = fs[n].data /\ fs[n].synced <= gs[n].synced

LEMMA SyncOne ==
  ASSUME NEW fs, FilesOK(fs), NEW n \in DOMAIN fs
  PROVE  LET gs == PutKey(fs, n, Synced(fs[n]))
         IN SyncOf(fs, gs) /\ gs[n].synced = Len(fs[n].data)
<1> DEFINE f == Synced(fs[n])
           gs == PutKey(fs, n, f)
<1>1. FileOK(fs[n]) /\ n \in Nat
  BY DEF FilesOK
<1>2. FileOK(f) /\ f.data = fs[n].data /\ f.synced = Len(fs[n].data)
  BY <1>1, SyncedDoes
<1> HIDE DEF f
<1>3. FilesOK(gs)
  BY <1>1, <1>2, PutFile
<1>4. DOMAIN gs = DOMAIN fs /\ gs[n] = f /\ \A m \in DOMAIN fs : m # n => gs[m] = fs[m]
  BY DEF PutKey
<1>5. \A m \in DOMAIN fs : fs[m].synced \in Nat /\ fs[m].synced <= Len(fs[m].data)
  BY DEF FilesOK, FileOK, FileRec
<1> HIDE DEF gs
<1>6. \A m \in DOMAIN fs : gs[m].data = fs[m].data /\ fs[m].synced <= gs[m].synced
  BY <1>2, <1>4, <1>5
<1>7. SyncOf(fs, gs) /\ gs[n].synced = Len(fs[n].data)
  BY <1>2, <1>3, <1>4, <1>6 DEF SyncOf
<1> QED BY <1>7 DEF gs, f

LEMMA SyncNone ==
  ASSUME NEW fs, FilesOK(fs)
  PROVE  SyncOf(fs, fs)
BY DEF SyncOf, FilesOK, FileOK, FileRec

LEMMA SyncKeeps ==
  ASSUME NEW fs, FilesOK(fs), NEW gs, SyncOf(fs, gs), NEW c
  PROVE  Keeps(fs, gs, c)
<1> SUFFICES ASSUME NEW n \in DOMAIN fs, NEW k \in Nat
             PROVE  /\ n \in DOMAIN gs
                    /\ k <= Len(fs[n].data) => k <= Len(gs[n].data)
                    /\ k <= fs[n].synced => k <= gs[n].synced
                    /\ 1 <= k => Unit(gs[n].data, k) = Unit(fs[n].data, k)
  BY DEF Keeps
<1>1. /\ n \in DOMAIN gs /\ gs[n].data = fs[n].data /\ fs[n].synced <= gs[n].synced
      /\ fs[n].synced \in Nat /\ gs[n].synced \in Nat
  BY DEF SyncOf, FilesOK, FileOK, FileRec
<1> QED BY <1>1

LEMMA ClosedDoes ==
  ASSUME FilesOK(files)
  PROVE  /\ SyncOf(files, Closed(files))
         /\ Full /\ CloseDurable /\ wc.file \in DOMAIN files =>
              Closed(files)[wc.file].synced = Len(files[wc.file].data)
<1>1. CASE Full /\ CloseDurable /\ wc.file \in DOMAIN files
  <2>1. Closed(files) = PutKey(files, wc.file, Synced(files[wc.file]))
    BY <1>1 DEF Closed
  <2> QED BY <1>1, <2>1, SyncOne
<1>2. CASE ~(Full /\ CloseDurable /\ wc.file \in DOMAIN files)
  <2>1. Closed(files) = files
    BY <1>2 DEF Closed
  <2> QED BY <1>2, <2>1, SyncNone
<1> QED BY <1>1, <1>2

LEMMA SyncBlocksDoes ==
  ASSUME FilesOK(files)
  PROVE  /\ SyncOf(files, SyncBlocks(files))
         /\ wc.open /\ wc.file \in DOMAIN files =>
              SyncBlocks(files)[wc.file].synced = Len(files[wc.file].data)
<1>1. CASE wc.open /\ wc.file \in DOMAIN files
  <2>1. SyncBlocks(files) = PutKey(files, wc.file, Synced(files[wc.file]))
    BY <1>1 DEF SyncBlocks
  <2> QED BY <1>1, <2>1, SyncOne
<1>2. CASE ~(wc.open /\ wc.file \in DOMAIN files)
  <2>1. SyncBlocks(files) = files
    BY <1>2 DEF SyncBlocks
  <2> QED BY <1>2, <2>1, SyncNone
<1> QED BY <1>1, <1>2

(* writeBlock appends at the cursor, or at the start of the next file. *)
LEMMA WriteDoes ==
  ASSUME FilesOK(files), wc \in CursorRec, NEW b \in Block, NEW n \in 0..RecLen,
         WriteUnits(b, n)
  PROVE  /\ FilesOK(files') /\ wc' \in CursorRec
         /\ wc'.file = Rotate.file /\ wc'.off = Rotate.off + n /\ wc'.open
         /\ AtOrBefore(Cursor(wc), Cursor(wc'))
         /\ Keeps(files, files', Cursor(Rotate))
         /\ DOMAIN files \subseteq DOMAIN files'
         /\ DOMAIN files' \subseteq DOMAIN files \cup {Rotate.file}
         /\ Rotate.file \in DOMAIN files \/ ~Rotate.open =>
              /\ Rotate.file \in DOMAIN files'
              /\ wc'.off <= Len(files'[Rotate.file].data)
              /\ \A i \in Nat : Rotate.off < i /\ i <= Rotate.off + n =>
                   Unit(files'[Rotate.file].data, i) = b
         /\ Full /\ CloseDurable /\ wc.file \in DOMAIN files =>
              files'[wc.file].synced = Len(files[wc.file].data)
<1>1. PICK w : w = Rotate
  OBVIOUS
<1>2. PICK cl : cl = Closed(files)
  OBVIOUS
<1>3. PICK fs : fs = IF w.open THEN cl ELSE OpenWriteFile(cl, w.file)
  OBVIOUS
<1>4. /\ w \in CursorRec /\ w.off + RecLen <= FileCap /\ AtOrBefore(Cursor(wc), Cursor(w))
      /\ Full => w.file = wc.file + 1
      /\ w.file \in Nat /\ w.off \in Nat /\ n \in Nat /\ n <= RecLen /\ RecLen \in Nat
      /\ FileCap \in Nat
  BY <1>1, RotateDoes, FfldbAssumption DEF CursorRec, RecLen
<1>5. w.off + n <= FileCap
  BY <1>4
<1>6. SyncOf(files, cl) /\ FilesOK(cl) /\ DOMAIN cl = DOMAIN files
  BY <1>2, ClosedDoes DEF SyncOf
<1>7. Full /\ CloseDurable /\ wc.file \in DOMAIN files =>
        cl[wc.file].synced = Len(files[wc.file].data)
  BY <1>2, ClosedDoes
<1>8. /\ FilesOK(fs) /\ DOMAIN cl \subseteq DOMAIN fs /\ DOMAIN fs \subseteq DOMAIN cl \cup {w.file}
      /\ \A m \in DOMAIN cl : fs[m] = cl[m]
      /\ ~w.open => w.file \in DOMAIN fs
  <2>1. CASE w.open
    BY <1>3, <1>6, <2>1
  <2>2. CASE ~w.open
    <3>1. fs = OpenWriteFile(cl, w.file)
      BY <1>3, <2>2
    <3>2. /\ FilesOK(fs) /\ DOMAIN fs = DOMAIN cl \cup {w.file}
          /\ \A m \in DOMAIN cl : fs[m] = cl[m]
      BY <1>4, <1>6, <3>1, OpenFile
    <3> QED BY <3>2
  <2> QED BY <2>1, <2>2
<1>9. /\ files' = IF w.file \in DOMAIN fs
                  THEN PutKey(fs, w.file, WriteAt(fs[w.file], w.off, b, n)) ELSE fs
      /\ wc' = [w EXCEPT !.off = @ + n, !.open = TRUE]
  BY <1>1, <1>2, <1>3 DEF WriteUnits
<1>10. wc' \in CursorRec /\ wc'.file = w.file /\ wc'.off = w.off + n /\ wc'.open
  <2>1. PICK o : o = w.off + n
    OBVIOUS
  <2>2. o \in 0..FileCap
    BY <1>4, <1>5, <2>1
  <2>3. wc' = [w EXCEPT !.off = o, !.open = TRUE]
    BY <1>9, <2>1
  <2>4. wc' = [file |-> w.file, off |-> o, open |-> TRUE]
    BY <1>4, <2>3 DEF CursorRec
  <2> QED BY <1>4, <2>1, <2>2, <2>4 DEF CursorRec
<1>11. AtOrBefore(Cursor(wc), Cursor(wc'))
  <2>1. wc.file < w.file \/ (wc.file = w.file /\ wc.off <= w.off)
    BY <1>4 DEF AtOrBefore, Before, Cursor, CursorRec
  <2>2. wc.file \in Nat /\ wc.off \in Nat
    BY FfldbAssumption DEF CursorRec
  <2> QED BY <1>4, <1>10, <2>1, <2>2 DEF AtOrBefore, Before, Cursor
<1>12. Keeps(files, cl, Cursor(w)) /\ \A m \in DOMAIN files : cl[m].data = files[m].data
  BY <1>6, SyncKeeps DEF SyncOf
<1>13. CASE w.file \notin DOMAIN fs
  <2>1. files' = fs /\ w.file \notin DOMAIN cl /\ DOMAIN fs = DOMAIN cl
    BY <1>8, <1>9, <1>13
  <2>2. Keeps(files, files', Cursor(w))
    BY <1>6, <1>8, <1>12, <2>1 DEF Keeps
  <2>3. /\ ~(w.file \in DOMAIN files \/ ~w.open)
        /\ Full /\ CloseDurable /\ wc.file \in DOMAIN files =>
              files'[wc.file].synced = Len(files[wc.file].data)
    BY <1>6, <1>7, <1>8, <1>13, <2>1
  <2> QED BY <1>1, <1>6, <1>8, <1>10, <1>11, <2>1, <2>2, <2>3
<1>14. CASE w.file \in DOMAIN fs
  <2>1. PICK f : f = fs[w.file]
    OBVIOUS
  <2>2. PICK g : g = WriteAt(f, w.off, b, n)
    OBVIOUS
  <2>3. FileOK(f) /\ f.synced \in Nat
    BY <1>8, <1>14, <2>1 DEF FilesOK, FileOK, FileRec
  <2>4. /\ FileOK(g) /\ Len(f.data) <= Len(g.data) /\ w.off + n <= Len(g.data)
        /\ g.synced = SmallerOf(f.synced, w.off)
        /\ \A i \in Nat : 1 <= i /\ i <= w.off => Unit(g.data, i) = Unit(f.data, i)
        /\ \A i \in Nat : w.off < i /\ i <= w.off + n => Unit(g.data, i) = b
    <3>1. PICK o \in Nat : o = w.off /\ o + n <= FileCap
      BY <1>4, <1>5
    <3>a. g = WriteAt(f, o, b, n) /\ n \in Nat
      BY <1>4, <2>2, <3>1
    <3>2. /\ FileOK(g) /\ Len(f.data) <= Len(g.data) /\ o + n <= Len(g.data)
          /\ g.synced = SmallerOf(f.synced, o)
          /\ \A i \in Nat : 1 <= i /\ i <= o => Unit(g.data, i) = Unit(f.data, i)
          /\ \A i \in Nat : o < i /\ i <= o + n => Unit(g.data, i) = b
      BY <2>3, <3>1, <3>a, WriteAtDoes
    <3> QED BY <3>1, <3>2
  <2>5. files' = PutKey(fs, w.file, g)
    BY <1>9, <1>14, <2>1, <2>2
  <2>6. FilesOK(files')
    BY <1>4, <1>8, <2>4, <2>5, PutFile
  <2>7. /\ DOMAIN files' = DOMAIN fs /\ files'[w.file] = g
        /\ \A m \in DOMAIN fs : m # w.file => files'[m] = fs[m]
    BY <1>14, <2>5 DEF PutKey
  <2>8. Len(f.data) \in Nat /\ Len(g.data) \in Nat /\ g.synced \in Nat
    BY <2>3, <2>4 DEF FileOK, FileRec
  <2>9. Keeps(files, files', Cursor(w))
    <3> SUFFICES ASSUME NEW m \in DOMAIN files, m <= w.file
                 PROVE  /\ m \in DOMAIN files'
                        /\ \A k \in Nat : Upto(m, k, Cursor(w)) =>
                             /\ k <= Len(files[m].data) => k <= Len(files'[m].data)
                             /\ k <= files[m].synced => k <= files'[m].synced
                             /\ 1 <= k => Unit(files'[m].data, k) = Unit(files[m].data, k)
      BY DEF Keeps, Cursor
    <3>1. m \in DOMAIN cl /\ fs[m] = cl[m] /\ m \in DOMAIN fs /\ m \in DOMAIN files'
      BY <1>6, <1>8, <2>7
    <3>2. \A k \in Nat : Upto(m, k, Cursor(w)) =>
            /\ k <= Len(files[m].data) => k <= Len(fs[m].data)
            /\ k <= files[m].synced => k <= fs[m].synced
            /\ 1 <= k => Unit(fs[m].data, k) = Unit(files[m].data, k)
      BY <1>12, <3>1 DEF Keeps, Cursor
    <3>3. CASE m # w.file
      <4>1. files'[m] = fs[m]
        BY <2>7, <3>1, <3>3
      <4> QED BY <3>1, <3>2, <4>1
    <3>4. CASE m = w.file
      <4>1. files'[m] = g /\ fs[m] = f
        BY <2>1, <2>7, <3>4
      <4>2. \A k \in Nat : Upto(m, k, Cursor(w)) => k <= w.off
        BY <1>4, <3>4 DEF Upto, Cursor
      <4>3. \A k \in Nat : Upto(m, k, Cursor(w)) =>
              /\ k <= Len(f.data) => k <= Len(g.data)
              /\ k <= f.synced => k <= g.synced
              /\ 1 <= k => Unit(g.data, k) = Unit(f.data, k)
        BY <1>4, <2>3, <2>4, <2>8, <4>2 DEF SmallerOf
      <4>4. \A k \in Nat : Upto(m, k, Cursor(w)) =>
              /\ k <= Len(files[m].data) => k <= Len(f.data)
              /\ k <= files[m].synced => k <= f.synced
              /\ 1 <= k => Unit(f.data, k) = Unit(files[m].data, k)
        BY <3>2, <4>1
      <4> QED BY <3>1, <4>1, <4>3, <4>4
    <3> QED BY <3>3, <3>4
  <2>10. /\ w.file \in DOMAIN files' /\ wc'.off <= Len(files'[w.file].data)
         /\ \A i \in Nat : w.off < i /\ i <= w.off + n => Unit(files'[w.file].data, i) = b
    BY <1>10, <1>14, <2>4, <2>7
  <2>11. Full /\ CloseDurable /\ wc.file \in DOMAIN files =>
           files'[wc.file].synced = Len(files[wc.file].data)
    <3> SUFFICES ASSUME Full, CloseDurable, wc.file \in DOMAIN files
                 PROVE  files'[wc.file].synced = Len(files[wc.file].data)
      OBVIOUS
    <3>1. wc.file # w.file
      BY <1>4 DEF CursorRec
    <3>2. wc.file \in DOMAIN cl /\ fs[wc.file] = cl[wc.file] /\ wc.file \in DOMAIN fs
      BY <1>6, <1>8
    <3>3. files'[wc.file] = cl[wc.file]
      BY <2>7, <3>1, <3>2
    <3> QED BY <1>7, <3>3
  <2>12. DOMAIN files \subseteq DOMAIN files' /\ DOMAIN files' \subseteq DOMAIN files \cup {w.file}
    BY <1>6, <1>8, <2>7
  <2> QED BY <1>1, <1>10, <1>11, <2>6, <2>9, <2>10, <2>11, <2>12
<1> QED BY <1>13, <1>14

------------------------------------------------------------------------------
(* Types *)

TypeInv ==
  /\ FilesOK(files) /\ wc \in CursorRec
  /\ IsView(ldb) /\ "cur" \in DOMAIN ldb
  /\ IsView(cache.keys) /\ cache.remove \subseteq Block
  /\ tx.pc \in {"idle", "delete", "write", "rollback", "commit", "flush", "clear", "direct"}
  /\ IsView(tx.keys) /\ tx.remove \subseteq Block
  /\ tx.old \in Loc /\ tx.del \in Seq(Nat)
  /\ tx.pc \in {"write", "rollback"} => AtOrBefore(tx.old, Cursor(wc))
  /\ state \in {"open", "down", "corrupt"}

LEMMA NoBlockNames == "cur" \notin Block /\ "tip" \notin Block /\ Hole \notin Block
BY FfldbAssumption DEF Hole

LEMMA CursorLoc ==
  ASSUME NEW w \in CursorRec
  PROVE  /\ Cursor(w) \in Loc /\ Cursor(w).file = w.file /\ Cursor(w).off = w.off
         /\ w.file \in Nat /\ w.off \in Nat /\ w.off <= FileCap
BY FfldbAssumption DEF CursorRec, Cursor, Loc

LEMMA LocNat ==
  ASSUME NEW c \in Loc
  PROVE  c.file \in Nat /\ c.off \in Nat /\ c.off <= FileCap /\ c = [file |-> c.file, off |-> c.off]
BY FfldbAssumption DEF Loc

LEMMA MergeView ==
  ASSUME NEW kv, NEW ks, NEW rm, IsView(kv), IsView(ks)
  PROVE  IsView(Merge(kv, ks, rm))
BY DEF IsView, Merge

LEMMA MergeCur ==
  ASSUME NEW kv, NEW ks, NEW rm, rm \subseteq Block, "cur" \in DOMAIN kv \cup DOMAIN ks
  PROVE  /\ "cur" \in DOMAIN Merge(kv, ks, rm)
         /\ "cur" \in DOMAIN ks => Merge(kv, ks, rm)["cur"] = ks["cur"]
BY NoBlockNames DEF Merge

LEMMA TreapsView ==
  ASSUME NEW c, NEW ks, NEW rm, IsView(c.keys), IsView(ks),
         c.remove \subseteq Block, rm \subseteq Block
  PROVE  IsView(CommitTreaps(c, ks, rm).keys) /\ CommitTreaps(c, ks, rm).remove \subseteq Block
BY DEF IsView, CommitTreaps, Without

LEMMA PutView ==
  ASSUME NEW kv, IsView(kv), NEW k \in Key, NEW v, v \in (IF k = "tip" THEN Nat ELSE Loc)
  PROVE  IsView(PutKey(kv, k, v))
BY DEF IsView, PutKey

LEMMA NoKeysView == IsView(NoKeys) /\ DOMAIN NoKeys = {}
BY DEF IsView, NoKeys

LEMMA EmptyCacheIs == EmptyCache.keys = NoKeys /\ EmptyCache.remove = {}
BY DEF EmptyCache

LEMMA NoTxIs ==
  /\ NoTx.pc = "idle" /\ NoTx.keys = NoKeys /\ NoTx.remove = {} /\ NoTx.old = Zero
  /\ NoTx.del = <<>> /\ Zero \in Loc /\ <<>> \in Seq(Nat)
BY FfldbAssumption DEF NoTx, Zero, Loc

(* What is seen is a view with a cursor. *)
LEMMA SeenView ==
  ASSUME TypeInv
  PROVE  /\ IsView(View) /\ "cur" \in DOMAIN View /\ View["cur"] \in Loc
         /\ ldb["cur"] \in Loc
<1>1. IsView(View) /\ "cur" \in DOMAIN View
  BY MergeView, MergeCur DEF TypeInv, View
<1> QED BY <1>1 DEF IsView, TypeInv

(* How each step of a commit moves the transaction. *)
TxGoes(p, ks, rm, od, dl) ==
  /\ tx'.pc = p /\ tx'.keys = ks /\ tx'.remove = rm /\ tx'.old = od /\ tx'.del = dl

LEMMA TxMoves ==
  ASSUME TxOK
  PROVE  /\ DeleteFile => TxGoes("delete", tx.keys, tx.remove, tx.old, Tail(tx.del))
         /\ SavePosition => TxGoes("write", tx.keys, tx.remove, Cursor(wc), tx.del)
         /\ WriteBlock => TxGoes("write", PutKey(tx.keys, Head(tx.blocks), Cursor(Rotate)),
                                tx.remove \ {Head(tx.blocks)}, tx.old, tx.del)
         /\ WriteFails => TxGoes("rollback", tx.keys, tx.remove, tx.old, tx.del)
         /\ PutCursor => TxGoes("commit", PutKey(tx.keys, "cur", Cursor(wc)), tx.remove,
                               tx.old, tx.del)
         /\ FlushSync => TxGoes(IF cache = EmptyCache THEN "direct" ELSE "flush",
                               tx.keys, tx.remove, tx.old, tx.del)
         /\ FlushTreaps => TxGoes("clear", tx.keys, tx.remove, tx.old, tx.del)
         /\ FlushClear => TxGoes("direct", tx.keys, tx.remove, tx.old, tx.del)
<1>1. PICK p, bs, dl, sn, ks, rm, od :
        tx = [pc |-> p, blocks |-> bs, del |-> dl, snap |-> sn, keys |-> ks, remove |-> rm,
              old |-> od]
  BY DEF TxOK
<1>2. DeleteFile => TxGoes("delete", tx.keys, tx.remove, tx.old, Tail(tx.del))
  BY <1>1 DEF DeleteFile, TxGoes
<1>3. SavePosition => TxGoes("write", tx.keys, tx.remove, Cursor(wc), tx.del)
  BY <1>1 DEF SavePosition, TxGoes
<1>4. WriteBlock => TxGoes("write", PutKey(tx.keys, Head(tx.blocks), Cursor(Rotate)),
                           tx.remove \ {Head(tx.blocks)}, tx.old, tx.del)
  BY <1>1 DEF WriteBlock, TxGoes
<1>5. WriteFails => TxGoes("rollback", tx.keys, tx.remove, tx.old, tx.del)
  BY <1>1 DEF WriteFails, TxGoes
<1>6. PutCursor => TxGoes("commit", PutKey(tx.keys, "cur", Cursor(wc)), tx.remove,
                          tx.old, tx.del)
  BY <1>1 DEF PutCursor, TxGoes
<1>7. FlushSync => TxGoes(IF cache = EmptyCache THEN "direct" ELSE "flush",
                          tx.keys, tx.remove, tx.old, tx.del)
  BY <1>1 DEF FlushSync, TxGoes
<1>8. FlushTreaps => TxGoes("clear", tx.keys, tx.remove, tx.old, tx.del)
  BY <1>1 DEF FlushTreaps, TxGoes
<1>9. FlushClear => TxGoes("direct", tx.keys, tx.remove, tx.old, tx.del)
  BY <1>1 DEF FlushClear, TxGoes
<1> QED BY <1>2, <1>3, <1>4, <1>5, <1>6, <1>7, <1>8, <1>9

(* PruneBlocks names consecutive files, from the first, and not the last. *)
LEMMA PruneBlocksDoes ==
  ASSUME FilesOK(files)
  PROVE  /\ PruneBlocks \in Seq(Nat)
         /\ PruneBlocks # <<>> => ~NoFiles /\ Len(PruneBlocks) <= Last - First
         /\ \A i \in 1..Len(PruneBlocks) : PruneBlocks[i] = First + i - 1
<1>1. CASE PruneCount = 0
  BY <1>1 DEF PruneBlocks
<1>2. CASE PruneCount # 0
  <2>1. ~NoFiles /\ First # Last /\ ~(TotalSize <= PruneTarget)
    BY <1>2 DEF PruneCount
  <2>2. First \in Nat /\ Last \in Nat /\ First <= Last /\ FileOK(files[Last])
    BY <2>1, FirstLast DEF FilesOK
  <2>3. LastLen \in Nat /\ FileCap \in Nat \ {0} /\ PruneTarget \in Nat
    BY <2>2, FfldbAssumption DEF LastLen, FileOK, FileRec, RecLen
  <2>4. TotalSize \in Int
    BY <2>2, <2>3 DEF TotalSize
  <2>5. Excess \in Nat /\ Excess > 0
    BY <2>1, <2>3, <2>4 DEF Excess
  <2>6. (Excess + FileCap - 1) \div FileCap \in Nat
    BY <2>3, <2>5
  <2>7. PruneCount = SmallerOf(Last - First, (Excess + FileCap - 1) \div FileCap)
    BY <2>1 DEF PruneCount
  <2>8. PruneCount \in Nat /\ PruneCount <= Last - First
    BY <2>2, <2>6, <2>7 DEF SmallerOf
  <2>9. PruneBlocks = [i \in 1..PruneCount |-> First + i - 1]
    BY <1>2 DEF PruneBlocks
  <2>10. \A i \in 1..PruneCount : First + i - 1 \in Nat
    BY <2>2, <2>8
  <2>11. PruneBlocks \in [1..PruneCount -> Nat]
    BY <2>9, <2>10
  <2>12. PruneBlocks \in Seq(Nat) /\ Len(PruneBlocks) = PruneCount
    BY <2>8, <2>11, FuncSeq
  <2> QED BY <2>1, <2>8, <2>9, <2>12
<1> QED BY <1>1, <1>2

LEMMA UpdateDoes ==
  ASSUME TypeInv, NEW bs, NEW prune \in BOOLEAN, Update(bs, prune)
  PROVE  /\ TxGoes("delete", PutKey(NoKeys, "tip", Len(hist)), PrunedRows(View, tx'.del), Zero,
                   tx'.del)
         /\ tx'.del \in Seq(Nat) /\ (tx'.del = <<>> \/ tx'.del = PruneBlocks)
<1>1. PICK dl : dl = IF prune THEN PruneBlocks ELSE <<>>
  OBVIOUS
<1>2. dl \in Seq(Nat) /\ (dl = <<>> \/ dl = PruneBlocks)
  BY <1>1, PruneBlocksDoes DEF TypeInv
<1>3. tx' = [NoTx EXCEPT !.pc = "delete", !.blocks = bs, !.del = dl, !.snap = View,
                         !.keys = PutKey(NoKeys, "tip", Len(hist)),
                         !.remove = PrunedRows(View, dl)]
  BY <1>1 DEF Update
<1>4. TxGoes("delete", PutKey(NoKeys, "tip", Len(hist)), PrunedRows(View, dl), Zero, dl)
  BY <1>3 DEF NoTx, TxGoes, Zero
<1> QED BY <1>2, <1>4 DEF TxGoes

LEMMA CrashDoes ==
  ASSUME TypeInv, Crash
  PROVE  /\ FilesOK(files') /\ DOMAIN files' = DOMAIN files
         /\ \A n \in DOMAIN files : files'[n] \in Survives(files[n])
         /\ wc' \in CursorRec
<1>1. /\ DOMAIN files' = DOMAIN files /\ IsMap(files')
      /\ \A n \in DOMAIN files : files'[n] \in Survives(files[n])
  BY DEF Crash, IsMap
<1>2. \A n \in DOMAIN files : FileOK(files'[n])
  BY <1>1, SurvivesDoes DEF TypeInv, FilesOK
<1>3. FilesOK(files')
  BY <1>1, <1>2 DEF TypeInv, FilesOK
<1>4. wc' \in CursorRec
  BY DEF Crash, TypeInv, CursorRec
<1> QED BY <1>1, <1>3, <1>4

(* newBlockStore: the cursor is behind the last file. *)
LEMMA ScannedDoes ==
  ASSUME FilesOK(files)
  PROVE  /\ Scanned \in CursorRec /\ ~Scanned.open
         /\ \A n \in DOMAIN files :
              /\ n <= Scanned.file
              /\ n = Scanned.file => Scanned.off = Len(files[n].data)
<1>1. CASE NoFiles
  <2>1. Scanned = [file |-> 0, off |-> 0, open |-> FALSE] /\ DOMAIN files = {}
    BY <1>1 DEF Scanned, NoFiles
  <2> QED BY <2>1, FfldbAssumption DEF CursorRec
<1>2. CASE ~NoFiles
  <2>1. Scanned = [file |-> Last, off |-> LastLen, open |-> FALSE]
    BY <1>2 DEF Scanned
  <2>2. Last \in DOMAIN files /\ Last \in Nat /\ \A n \in DOMAIN files : n <= Last
    BY <1>2, FirstLast DEF FilesOK
  <2>3. LastLen \in 0..FileCap /\ LastLen = Len(files[Last].data)
    BY <2>2, FfldbAssumption DEF LastLen, FilesOK, FileOK, FileRec
  <2> QED BY <2>1, <2>2, <2>3 DEF CursorRec
<1> QED BY <1>1, <1>2

LEMMA OpenDoes ==
  ASSUME TypeInv, Open
  PROVE  \/ /\ state' = "corrupt" /\ Before(Cursor(Scanned), ldb["cur"])
            /\ files' = files /\ wc' = Scanned
         \/ /\ state' = "open" /\ AtOrBefore(ldb["cur"], Cursor(Scanned))
            /\ \E r : files' = r.files /\ wc' = r.wc /\ RolledTo(files, Scanned, ldb["cur"], r)
<1>1. FilesOK(files) /\ Scanned \in CursorRec /\ ldb["cur"] \in Loc
  BY ScannedDoes, SeenView DEF TypeInv
<1>2. PICK r \in Opened : files' = r.files /\ wc' = r.wc
  BY DEF Open
<1>3. CASE Before(Cursor(Scanned), ldb["cur"])
  BY <1>2, <1>3 DEF Open, Opened
<1>4. CASE ~Before(Cursor(Scanned), ldb["cur"])
  <2>1. state' = "open" /\ AtOrBefore(ldb["cur"], Cursor(Scanned))
    BY <1>4 DEF Open, AtOrBefore
  <2>2. r \in HandleRollback(files, Scanned, ldb["cur"])
    BY <1>2, <1>4 DEF Opened
  <2>3. RolledTo(files, Scanned, ldb["cur"], r)
    BY <1>1, <2>1, <2>2, HandleRollbackDoes
  <2> QED BY <1>2, <2>1, <2>3
<1> QED BY <1>3, <1>4

LEMMA TxRollbackDoes ==
  ASSUME TypeInv, TxRollback
  PROVE  \E r : files' = r.files /\ wc' = r.wc /\ RolledTo(files, wc, tx.old, r)
<1>1. PICK r \in HandleRollback(files, wc, tx.old) : files' = r.files /\ wc' = r.wc
  BY DEF TxRollback
<1>2. AtOrBefore(tx.old, Cursor(wc)) /\ FilesOK(files) /\ wc \in CursorRec /\ tx.old \in Loc
  BY DEF TypeInv, TxRollback
<1>3. RolledTo(files, wc, tx.old, r)
  BY <1>1, <1>2, HandleRollbackDoes
<1> QED BY <1>1, <1>3

(* A write that fails leaves the cursor where the next write would go, or  *)
(* behind a part of the record.                                            *)
LEMMA WriteFailsDoes ==
  ASSUME WriteFails, TxOK
  PROVE  /\ Head(tx.blocks) \in Block
         /\ \/ ~Rotate.open /\ wc' = Rotate /\ files' = Closed(files)
            \/ \E n \in 0..RecLen : WriteUnits(Head(tx.blocks), n)
<1>1. tx.blocks \in Seq(Block) /\ tx.blocks # <<>>
  BY DEF TxOK, WriteFails
<1>2. \/ ~Rotate.open /\ wc' = Rotate /\ files' = Closed(files)
      \/ \E n \in 0..RecLen : WriteUnits(Head(tx.blocks), n)
  <2>1. 0..(RecLen - 1) \subseteq 0..RecLen
    BY DEF RecLen
  <2> QED BY <2>1 DEF WriteFails
<1> QED BY <1>1, <1>2

LEMMA InitTypes == Init => TypeInv
<1> SUFFICES ASSUME Init PROVE TypeInv
  OBVIOUS
<1>1. FilesOK(files)
  BY DEF Init, FilesOK, IsMap
<1>2. wc \in CursorRec
  BY FfldbAssumption DEF Init, CursorRec
<1>3. IsView(ldb) /\ "cur" \in DOMAIN ldb
  <2>1. ldb = [k \in {"cur", "tip"} |-> IF k = "tip" THEN 0 ELSE Zero]
    BY DEF Init, Zero
  <2>2. Zero \in Loc
    BY NoTxIs
  <2>3. DOMAIN ldb = {"cur", "tip"} /\ ldb["tip"] = 0 /\ ldb["cur"] = Zero
    BY <2>1
  <2> QED BY <2>2, <2>3 DEF IsView, Key
<1>4. IsView(cache.keys) /\ cache.remove \subseteq Block
  BY EmptyCacheIs, NoKeysView DEF Init
<1>5. /\ tx.pc = "idle" /\ tx.keys = NoKeys /\ tx.remove = {} /\ tx.old \in Loc
      /\ tx.del \in Seq(Nat) /\ state = "open"
  BY NoTxIs DEF Init
<1> QED BY <1>1, <1>2, <1>3, <1>4, <1>5, NoKeysView DEF TypeInv

(* A step that moves the transaction on and leaves the cache alone. *)
LEMMA TypesMove ==
  ASSUME TypeInv, NEW p, NEW ks, NEW rm, NEW od, NEW dl, TxGoes(p, ks, rm, od, dl),
         p \in {"idle", "delete", "write", "rollback", "commit", "flush", "clear", "direct"},
         IsView(ks), rm \subseteq Block, od \in Loc, dl \in Seq(Nat),
         FilesOK(files'), wc' \in CursorRec, UNCHANGED <<cache, state>>,
         p \in {"write", "rollback"} => AtOrBefore(od, Cursor(wc')),
         UNCHANGED ldb \/ ldb' = View
  PROVE  TypeInv'
<1>1. IsView(ldb') /\ "cur" \in DOMAIN ldb'
  BY SeenView DEF TypeInv
<1>2. IsView(cache'.keys) /\ cache'.remove \subseteq Block /\ state' \in {"open", "down", "corrupt"}
  BY DEF TypeInv
<1>3. AtOrBefore(od, Cursor(wc'))  \/ p \notin {"write", "rollback"}
  OBVIOUS
<1> QED BY <1>1, <1>2, <1>3 DEF TypeInv, TxGoes

(* The transaction is over. *)
LEMMA TypesEnd ==
  ASSUME tx' = NoTx, FilesOK(files'), wc' \in CursorRec, IsView(ldb'), "cur" \in DOMAIN ldb',
         IsView(cache'.keys), cache'.remove \subseteq Block, state' \in {"open", "down", "corrupt"}
  PROVE  TypeInv'
<1>1. /\ tx'.pc = "idle" /\ IsView(tx'.keys) /\ tx'.remove = {} /\ tx'.old \in Loc
      /\ tx'.del \in Seq(Nat)
  BY NoTxIs, NoKeysView
<1> QED BY <1>1 DEF TypeInv

LEMMA WorkTypes ==
  ASSUME AtomicInv, TypeInv,
         DeleteFile \/ SavePosition \/ WriteBlock \/ WriteFails \/ PutCursor \/ FlushSync
         \/ FlushTreaps \/ FlushClear
  PROVE  TypeInv'
<1> USE DEF AtomicInv
<1>0. /\ TxOK /\ FilesOK(files) /\ wc \in CursorRec /\ tx.old \in Loc /\ tx.del \in Seq(Nat)
      /\ IsView(tx.keys) /\ tx.remove \subseteq Block /\ Cursor(wc) \in Loc
      /\ tx.pc \in {"write", "rollback"} => AtOrBefore(tx.old, Cursor(wc))
  BY CursorLoc DEF TypeInv
<1>1. CASE DeleteFile
  <2>1. TxGoes("delete", tx.keys, tx.remove, tx.old, Tail(tx.del))
    BY <1>0, <1>1, TxMoves
  <2>2. Tail(tx.del) \in Seq(Nat)
    BY <1>0, <1>1 DEF DeleteFile
  <2>3. FilesOK(files') /\ UNCHANGED <<cache, state, ldb, wc>>
    BY <1>0, <1>1, WithoutFiles DEF DeleteFile
  <2> QED BY <1>0, <2>1, <2>2, <2>3, TypesMove
<1>2. CASE SavePosition
  <2>1. TxGoes("write", tx.keys, tx.remove, Cursor(wc), tx.del)
    BY <1>0, <1>2, TxMoves
  <2>2. UNCHANGED <<cache, state, ldb, wc, files>> /\ AtOrBefore(Cursor(wc), Cursor(wc))
    BY <1>0, <1>2, CursorLoc DEF SavePosition, AtOrBefore, Before
  <2> QED BY <1>0, <2>1, <2>2, TypesMove
<1>3. CASE WriteBlock
  <2>1. PICK b \in Block : b = Head(tx.blocks) /\ WriteUnits(b, RecLen)
    BY <1>0, <1>3 DEF WriteBlock, TxOK
  <2>2. TxGoes("write", PutKey(tx.keys, b, Cursor(Rotate)), tx.remove \ {b}, tx.old, tx.del)
    BY <1>0, <1>3, <2>1, TxMoves
  <2>3. RecLen \in 0..RecLen
    BY DEF RecLen
  <2>4. FilesOK(files') /\ wc' \in CursorRec /\ AtOrBefore(Cursor(wc), Cursor(wc'))
    BY <1>0, <2>1, <2>3, WriteDoes
  <2>5. Cursor(Rotate) \in Loc
    BY <1>0, RotateDoes, CursorLoc
  <2>6. IsView(PutKey(tx.keys, b, Cursor(Rotate)))
    BY <1>0, <2>1, <2>5, PutView, NoBlockNames DEF Key
  <2>7. AtOrBefore(tx.old, Cursor(wc))
    BY <1>0, <1>3 DEF WriteBlock
  <2>8. AtOrBefore(tx.old, Cursor(wc'))
    BY <1>0, <2>4, <2>7, CursorLoc, LocNat DEF AtOrBefore, Before
  <2>9. UNCHANGED <<cache, state, ldb>>
    BY <1>3 DEF WriteBlock
  <2> QED BY <1>0, <2>2, <2>4, <2>6, <2>8, <2>9, TypesMove
<1>4. CASE WriteFails
  <2>1. TxGoes("rollback", tx.keys, tx.remove, tx.old, tx.del)
    BY <1>0, <1>4, TxMoves
  <2>2. FilesOK(files') /\ wc' \in CursorRec /\ AtOrBefore(Cursor(wc), Cursor(wc'))
    <3>1. CASE ~Rotate.open /\ wc' = Rotate /\ files' = Closed(files)
      BY <1>0, <3>1, RotateDoes, ClosedDoes DEF SyncOf
    <3>2. ASSUME NEW n \in 0..RecLen, WriteUnits(Head(tx.blocks), n)
          PROVE  FilesOK(files') /\ wc' \in CursorRec /\ AtOrBefore(Cursor(wc), Cursor(wc'))
      BY <1>0, <1>4, <3>2, WriteDoes, WriteFailsDoes
    <3> QED BY <1>0, <1>4, <3>1, <3>2, WriteFailsDoes
  <2>3. AtOrBefore(tx.old, Cursor(wc))
    BY <1>0, <1>4 DEF WriteFails
  <2>4. AtOrBefore(tx.old, Cursor(wc'))
    BY <1>0, <2>2, <2>3, CursorLoc, LocNat DEF AtOrBefore, Before
  <2>5. UNCHANGED <<cache, state, ldb>>
    BY <1>4 DEF WriteFails
  <2> QED BY <1>0, <2>1, <2>2, <2>4, <2>5, TypesMove
<1>5. CASE PutCursor
  <2>1. TxGoes("commit", PutKey(tx.keys, "cur", Cursor(wc)), tx.remove, tx.old, tx.del)
    BY <1>0, <1>5, TxMoves
  <2>2. IsView(PutKey(tx.keys, "cur", Cursor(wc)))
    BY <1>0, PutView DEF Key
  <2>3. UNCHANGED <<cache, state, ldb, wc, files>>
    BY <1>5 DEF PutCursor
  <2> QED BY <1>0, <2>1, <2>2, <2>3, TypesMove
<1>6. CASE FlushSync
  <2>1. TxGoes(IF cache = EmptyCache THEN "direct" ELSE "flush", tx.keys, tx.remove, tx.old, tx.del)
    BY <1>0, <1>6, TxMoves
  <2>2. FilesOK(files') /\ UNCHANGED <<cache, state, ldb, wc>>
    BY <1>0, <1>6, SyncBlocksDoes DEF FlushSync, SyncOf
  <2> QED BY <1>0, <2>1, <2>2, TypesMove
<1>7. CASE FlushTreaps
  <2>1. TxGoes("clear", tx.keys, tx.remove, tx.old, tx.del)
    BY <1>0, <1>7, TxMoves
  <2>2. UNCHANGED <<cache, state, wc, files>> /\ ldb' = View
    BY <1>7 DEF FlushTreaps
  <2> QED BY <1>0, <2>1, <2>2, TypesMove
<1>8. CASE FlushClear
  <2>1. TxGoes("direct", tx.keys, tx.remove, tx.old, tx.del)
    BY <1>0, <1>8, TxMoves
  <2>2. UNCHANGED <<state, wc, files, ldb>> /\ cache' = EmptyCache
    BY <1>8 DEF FlushClear
  <2>3. IsView(cache'.keys) /\ cache'.remove \subseteq Block
    BY <2>2, EmptyCacheIs, NoKeysView
  <2> QED BY <1>0, <2>1, <2>2, <2>3 DEF TypeInv, TxGoes
<1> QED BY <1>1, <1>2, <1>3, <1>4, <1>5, <1>6, <1>7, <1>8

LEMMA EndTypes ==
  ASSUME AtomicInv, TypeInv,
         DeleteFails \/ TxRollback \/ CommitCache \/ CommitDirect \/ CommitFails \/ Close \/ Crash
         \/ Open
  PROVE  TypeInv'
<1>0. /\ FilesOK(files) /\ wc \in CursorRec /\ IsView(ldb) /\ "cur" \in DOMAIN ldb
      /\ IsView(cache.keys) /\ cache.remove \subseteq Block /\ state \in {"open", "down", "corrupt"}
      /\ IsView(tx.keys) /\ tx.remove \subseteq Block
  BY DEF TypeInv
<1>a. IsView(EmptyCache.keys) /\ EmptyCache.remove \subseteq Block
  BY EmptyCacheIs, NoKeysView
<1>1. CASE DeleteFails \/ CommitFails
  BY <1>0, <1>1, TypesEnd DEF DeleteFails, CommitFails, Abort
<1>2. CASE TxRollback
  <2>1. PICK r : files' = r.files /\ wc' = r.wc /\ RolledTo(files, wc, tx.old, r)
    BY <1>2, TxRollbackDoes
  <2>2. FilesOK(files') /\ wc' \in CursorRec
    BY <2>1 DEF RolledTo
  <2> QED BY <1>0, <1>2, <2>2, TypesEnd DEF TxRollback, Abort
<1>3. CASE CommitCache
  <2>1. IsView(cache'.keys) /\ cache'.remove \subseteq Block
    BY <1>0, <1>3, TreapsView DEF CommitCache
  <2> QED BY <1>0, <1>3, <2>1, TypesEnd DEF CommitCache, Abort
<1>4. CASE CommitDirect
  <2>1. IsView(ldb') /\ "cur" \in DOMAIN ldb'
    BY <1>0, <1>4, MergeView, MergeCur DEF CommitDirect
  <2> QED BY <1>0, <1>4, <2>1, TypesEnd DEF CommitDirect, Abort
<1>5. CASE Close
  <2>1. tx' = NoTx /\ cache' = EmptyCache /\ state' = "down"
    BY <1>5 DEF Close, AtomicInv, TxOK
  <2>2. wc' \in CursorRec
    BY <1>0, <1>5 DEF Close, CursorRec
  <2>3. FilesOK(files') /\ IsView(ldb') /\ "cur" \in DOMAIN ldb'
    <3>1. CASE files' = SyncBlocks(files) /\ ldb' = View
      BY <1>0, <3>1, SyncBlocksDoes, SeenView DEF SyncOf
    <3>2. CASE UNCHANGED <<files, ldb>>
      BY <1>0, <3>2
    <3> QED BY <1>5, <3>1, <3>2 DEF Close
  <2> QED BY <1>a, <2>1, <2>2, <2>3, TypesEnd
<1>6. CASE Crash
  BY <1>0, <1>a, <1>6, CrashDoes, TypesEnd DEF Crash
<1>7. CASE Open
  <2>1. tx' = NoTx /\ UNCHANGED <<ldb, cache>>
    BY <1>7 DEF Open, AtomicInv, SeenOK
  <2>2. FilesOK(files') /\ wc' \in CursorRec /\ state' \in {"open", "corrupt"}
    <3>1. CASE state' = "corrupt" /\ files' = files /\ wc' = Scanned
      BY <1>0, <3>1, ScannedDoes
    <3>2. ASSUME NEW r, state' = "open", files' = r.files, wc' = r.wc,
                 RolledTo(files, Scanned, ldb["cur"], r)
          PROVE  FilesOK(files') /\ wc' \in CursorRec /\ state' \in {"open", "corrupt"}
      BY <3>2 DEF RolledTo
    <3> QED BY <1>7, <3>1, <3>2, OpenDoes
  <2> QED BY <1>0, <2>1, <2>2, TypesEnd
<1> QED BY <1>1, <1>2, <1>3, <1>4, <1>5, <1>6, <1>7

LEMMA NextTypes == AtomicInv /\ TypeInv /\ [Next]_vars => TypeInv'
<1> SUFFICES ASSUME AtomicInv, TypeInv, [Next]_vars PROVE TypeInv'
  OBVIOUS
<1>1. CASE UNCHANGED <<files, wc, ldb, cache, tx, state>>
  BY <1>1 DEF TypeInv
<1>2. ASSUME NEW bs \in BlockSeqs, NEW prune \in BOOLEAN, Update(bs, prune) PROVE TypeInv'
  <2>1. /\ TxGoes("delete", PutKey(NoKeys, "tip", Len(hist)), PrunedRows(View, tx'.del), Zero,
                  tx'.del)
        /\ tx'.del \in Seq(Nat)
    BY <1>2, UpdateDoes
  <2>2. IsView(PutKey(NoKeys, "tip", Len(hist)))
    BY PutView, NoKeysView DEF AtomicInv, HistOK, Key
  <2>3. PrunedRows(View, tx'.del) \subseteq Block
    BY DEF PrunedRows
  <2>4. UNCHANGED <<files, wc, ldb, cache, state>> /\ FilesOK(files) /\ wc \in CursorRec
    BY <1>2 DEF Update, TypeInv
  <2> QED BY <2>1, <2>2, <2>3, <2>4, NoTxIs, TypesMove
<1>3. CASE DeleteFile \/ SavePosition \/ WriteBlock \/ WriteFails \/ PutCursor \/ FlushSync
           \/ FlushTreaps \/ FlushClear
  BY <1>3, WorkTypes
<1>4. CASE DeleteFails \/ TxRollback \/ CommitCache \/ CommitDirect \/ CommitFails \/ Close
           \/ Crash \/ Open
  BY <1>4, EndTypes
<1>5. CASE SnapshotLdb \/ SnapshotCache \/ ReadEnd \/ UNCHANGED vars
  BY <1>1, <1>5 DEF SnapshotLdb, SnapshotCache, ReadEnd, vars
<1> QED BY <1>2, <1>3, <1>4, <1>5 DEF Next

(* Everything the database keeps has its type, and a transaction that is   *)
(* being written or rolled back has a position before the cursor to go     *)
(* back to (writePendingAndCommit, handleRollback).                        *)
THEOREM TypesKept == Spec => []FfldbTypeOK
<1>1. TypeInv => FfldbTypeOK
  <2> SUFFICES ASSUME TypeInv PROVE FfldbTypeOK
    OBVIOUS
  <2>1. \A n \in DOMAIN files : /\ n \in Nat /\ files[n].synced \in 0..Len(files[n].data)
                                /\ Len(files[n].data) <= FileCap
    BY DEF TypeInv, FilesOK, FileOK, FileRec
  <2>2. wc.file \in Nat /\ wc.off \in 0..FileCap /\ wc.open \in BOOLEAN
    BY DEF TypeInv, CursorRec
  <2>3. tx.pc \in {"write", "rollback"} => ~Before(Cursor(wc), tx.old)
    BY DEF TypeInv, AtOrBefore
  <2> QED BY <2>1, <2>2, <2>3 DEF TypeInv, FfldbTypeOK
<1> QED BY <1>1, InitAtomic, NextAtomic, InitTypes, NextTypes, PTL DEF Spec

------------------------------------------------------------------------------
(* Positions that are safe *)

Pos == [file : Nat, off : Nat]

(* A position is kept when all before it in its file is synced, and held   *)
(* when it was written and its file is synced or still being written.      *)
KeptIn(fs, c) == c = Zero \/ (c.file \in DOMAIN fs /\ c.off <= fs[c.file].synced)
HeldIn(fs, w, c) ==
  c = Zero \/ /\ c.file \in DOMAIN fs /\ c.off <= Len(fs[c.file].data)
              /\ Writing(w, c.file) \/ c.off <= fs[c.file].synced

LEMMA LocPos ==
  ASSUME NEW c \in Loc
  PROVE  c \in Pos
BY FfldbAssumption DEF Loc, Pos

LEMMA AtTrans ==
  ASSUME NEW a \in Pos, NEW b \in Pos, NEW c \in Pos, AtOrBefore(a, b), AtOrBefore(b, c)
  PROVE  AtOrBefore(a, c)
BY DEF Pos, AtOrBefore, Before

LEMMA AtSelf ==
  ASSUME NEW a \in Pos
  PROVE  AtOrBefore(a, a)
BY DEF Pos, AtOrBefore, Before

LEMMA FileFacts ==
  ASSUME NEW fs, FilesOK(fs), NEW n \in DOMAIN fs
  PROVE  /\ n \in Nat /\ fs[n].synced \in Nat /\ Len(fs[n].data) \in Nat
         /\ fs[n].synced <= Len(fs[n].data) /\ fs[n].data \in Seq(Block \cup {Hole})
         /\ Len(fs[n].data) <= FileCap
BY DEF FilesOK, FileOK, FileRec

LEMMA HeldKept ==
  ASSUME NEW fs, FilesOK(fs), NEW w, NEW c \in Pos
  PROVE  /\ HeldIn(fs, w, c) /\ ~Writing(w, c.file) => KeptIn(fs, c)
         /\ KeptIn(fs, c) => HeldIn(fs, w, c)
<1>1. HeldIn(fs, w, c) /\ ~Writing(w, c.file) => KeptIn(fs, c)
  BY DEF HeldIn, KeptIn
<1>2. ASSUME KeptIn(fs, c), c # Zero PROVE HeldIn(fs, w, c)
  <2>1. c.file \in DOMAIN fs /\ c.off <= fs[c.file].synced /\ c.off \in Nat
    BY <1>2 DEF KeptIn, Pos
  <2>2. c.off <= Len(fs[c.file].data)
    BY <2>1, FileFacts
  <2> QED BY <2>1, <2>2 DEF HeldIn
<1> QED BY <1>1, <1>2 DEF HeldIn

LEMMA UptoAt ==
  ASSUME NEW c \in Pos, NEW d \in Pos, AtOrBefore(c, d)
  PROVE  c.file <= d.file /\ Upto(c.file, c.off, d)
BY DEF Pos, AtOrBefore, Before, Upto

LEMMA KeptStays ==
  ASSUME NEW fs, FilesOK(fs), NEW gs, NEW c \in Pos, NEW d \in Pos,
         AtOrBefore(c, d), Keeps(fs, gs, d), KeptIn(fs, c)
  PROVE  KeptIn(gs, c)
<1>1. c.file <= d.file /\ Upto(c.file, c.off, d) /\ c.off \in Nat
  BY UptoAt DEF Pos
<1> QED BY <1>1 DEF KeptIn, Keeps

LEMMA HeldStays ==
  ASSUME NEW fs, FilesOK(fs), NEW gs, NEW c \in Pos, NEW d \in Pos, NEW v, NEW w,
         AtOrBefore(c, d), Keeps(fs, gs, d), HeldIn(fs, w, c),
         Writing(v, c.file) \/ ~Writing(w, c.file)
  PROVE  HeldIn(gs, v, c)
<1>1. c.file <= d.file /\ Upto(c.file, c.off, d) /\ c.off \in Nat
  BY UptoAt DEF Pos
<1>2. CASE c = Zero
  BY <1>2 DEF HeldIn
<1>3. CASE c # Zero
  <2>1. c.file \in DOMAIN fs /\ c.off <= Len(fs[c.file].data)
    BY <1>3 DEF HeldIn
  <2>2. c.file \in DOMAIN gs /\ c.off <= Len(gs[c.file].data)
    BY <1>1, <2>1 DEF Keeps
  <2>3. ~Writing(w, c.file) => c.off <= fs[c.file].synced
    BY <1>3 DEF HeldIn
  <2>4. ~Writing(w, c.file) => c.off <= gs[c.file].synced
    BY <1>1, <2>1, <2>3 DEF Keeps
  <2> QED BY <2>2, <2>4 DEF HeldIn
<1> QED BY <1>2, <1>3

(* The cursor advances: a position before it stays held, because a file    *)
(* that is left behind is synced.                                          *)
Advances ==
  /\ FilesOK(files') /\ wc' \in CursorRec
  /\ Keeps(files, files', Cursor(Rotate)) /\ wc'.file = Rotate.file
  /\ AtOrBefore(Cursor(wc), Cursor(wc'))
  /\ Full /\ wc.file \in DOMAIN files => files'[wc.file].synced = Len(files[wc.file].data)
  /\ ~Full /\ wc.open => wc'.open
  /\ DOMAIN files \subseteq DOMAIN files'
  /\ DOMAIN files' \subseteq DOMAIN files \cup {Rotate.file}

LEMMA WriteAdvances ==
  ASSUME CloseDurable, FilesOK(files), wc \in CursorRec, NEW b \in Block, NEW n \in 0..RecLen,
         WriteUnits(b, n)
  PROVE  Advances
BY WriteDoes DEF Advances

LEMMA WriteFailsAdvances ==
  ASSUME CloseDurable, FilesOK(files), wc \in CursorRec, TxOK, WriteFails
  PROVE  Advances
<1>1. CASE ~Rotate.open /\ wc' = Rotate /\ files' = Closed(files)
  <2>1. SyncOf(files, files')
    BY <1>1, ClosedDoes
  <2>2. Keeps(files, files', Cursor(Rotate)) /\ FilesOK(files') /\ DOMAIN files' = DOMAIN files
    BY <2>1, SyncKeeps DEF SyncOf
  <2>3. wc' \in CursorRec /\ AtOrBefore(Cursor(wc), Cursor(wc')) /\ (~Full => wc' = wc)
    BY <1>1, RotateDoes
  <2>4. Full /\ wc.file \in DOMAIN files => files'[wc.file].synced = Len(files[wc.file].data)
    BY <1>1, ClosedDoes
  <2> QED BY <1>1, <2>2, <2>3, <2>4 DEF Advances
<1>2. ASSUME NEW n \in 0..RecLen, WriteUnits(Head(tx.blocks), n) PROVE Advances
  BY <1>2, WriteFailsDoes, WriteAdvances
<1> QED BY <1>1, <1>2, WriteFailsDoes

LEMMA AdvanceKeeps ==
  ASSUME FilesOK(files), wc \in CursorRec, Advances, NEW c \in Pos, AtOrBefore(c, Cursor(wc))
  PROVE  /\ KeptIn(files, c) => KeptIn(files', c)
         /\ HeldIn(files, wc, c) => HeldIn(files', wc', c)
<1>1. /\ Cursor(wc) \in Pos /\ Cursor(Rotate) \in Pos /\ AtOrBefore(Cursor(wc), Cursor(Rotate))
      /\ Cursor(wc).file = wc.file /\ wc.file \in Nat
  BY RotateDoes, CursorLoc, LocPos
<1>2. AtOrBefore(c, Cursor(Rotate)) /\ Keeps(files, files', Cursor(Rotate)) /\ FilesOK(files')
  BY <1>1, AtTrans DEF Advances
<1>3. KeptIn(files, c) => KeptIn(files', c)
  BY <1>1, <1>2, KeptStays
<1>4. ASSUME HeldIn(files, wc, c) PROVE HeldIn(files', wc', c)
  <2>1. CASE ~Writing(wc, c.file)
    BY <1>1, <1>2, <1>4, <2>1, HeldStays
  <2>2. CASE Writing(wc, c.file) /\ ~Full
    <3>1. wc'.file = wc.file /\ wc'.open
      BY <2>2, RotateDoes DEF Advances, Writing
    <3>2. Writing(wc', c.file)
      BY <2>2, <3>1 DEF Writing
    <3> QED BY <1>1, <1>2, <1>4, <3>2, HeldStays
  <2>3. CASE Writing(wc, c.file) /\ Full /\ c # Zero
    <3>1. wc.file = c.file /\ c.file \in DOMAIN files /\ c.off <= Len(files[c.file].data)
      BY <1>4, <2>3 DEF Writing, HeldIn
    <3>2. files'[c.file].synced = Len(files[c.file].data) /\ c.file \in DOMAIN files'
      BY <2>3, <3>1 DEF Advances
    <3>3. KeptIn(files', c)
      BY <3>1, <3>2 DEF KeptIn
    <3> QED BY <1>2, <3>3, HeldKept
  <2>4. CASE c = Zero
    BY <2>4 DEF HeldIn
  <2> QED BY <2>1, <2>2, <2>3, <2>4
<1> QED BY <1>3, <1>4

LEMMA RollbackKeeps ==
  ASSUME NEW fs, FilesOK(fs), NEW w \in CursorRec, NEW old \in Loc, NEW r, RolledTo(fs, w, old, r),
         AtOrBefore(old, Cursor(w)), NEW c \in Pos, AtOrBefore(c, old)
  PROVE  /\ KeptIn(fs, c) => KeptIn(r.files, c)
         /\ HeldIn(fs, w, c) => HeldIn(r.files, r.wc, c)
<1>1. Keeps(fs, r.files, old) /\ old \in Pos /\ FilesOK(r.files)
  BY RolledKeeps, LocPos DEF RolledTo
<1>2. KeptIn(fs, c) => KeptIn(r.files, c)
  BY <1>1, KeptStays
<1>3. /\ r.wc.file = old.file /\ c.file \in Nat /\ old.file \in Nat /\ w.file \in Nat
      /\ c.file <= old.file /\ old.file <= w.file
  <2>1. Cursor(r.wc) = old /\ Cursor(r.wc).file = r.wc.file
    BY DEF RolledTo, Cursor
  <2>2. c.file <= old.file /\ old.file <= w.file
    BY LocNat, CursorLoc DEF AtOrBefore, Before, Pos
  <2> QED BY <2>1, <2>2, LocNat, CursorLoc DEF Pos
<1>4. ASSUME HeldIn(fs, w, c) PROVE HeldIn(r.files, r.wc, c)
  <2>1. CASE ~Writing(w, c.file)
    BY <1>1, <1>4, <2>1, HeldStays
  <2>2. CASE Writing(w, c.file) /\ r.wc.open
    <3>1. c.file = old.file
      BY <1>3, <2>2 DEF Writing
    <3>2. Writing(r.wc, c.file)
      BY <1>3, <2>2, <3>1 DEF Writing
    <3> QED BY <1>1, <1>4, <3>2, HeldStays
  <2>3. CASE Writing(w, c.file) /\ ~r.wc.open
    <3>1. ~(w.file > old.file)
      BY <1>3, <2>3 DEF Writing
    <3>2. r.wc = w /\ r.files = fs
      BY <2>3, <3>1 DEF RolledTo
    <3> QED BY <1>4, <3>2
  <2> QED BY <2>1, <2>2, <2>3
<1> QED BY <1>2, <1>4

(* syncBlocks makes what is held kept. *)
LEMMA SyncMakesKept ==
  ASSUME FilesOK(files), wc \in CursorRec, NEW c \in Pos
  PROVE  /\ KeptIn(files, c) => KeptIn(SyncBlocks(files), c)
         /\ HeldIn(files, wc, c) => KeptIn(SyncBlocks(files), c) /\ HeldIn(SyncBlocks(files), wc, c)
<1>1. PICK gs : gs = SyncBlocks(files)
  OBVIOUS
<1>2. /\ SyncOf(files, gs) /\ FilesOK(gs) /\ Keeps(files, gs, c)
      /\ wc.open /\ wc.file \in DOMAIN files => gs[wc.file].synced = Len(files[wc.file].data)
  BY <1>1, SyncBlocksDoes, SyncKeeps DEF SyncOf
<1>3. KeptIn(files, c) => KeptIn(gs, c)
  BY <1>2, AtSelf, KeptStays
<1>4. ASSUME HeldIn(files, wc, c), c # Zero PROVE KeptIn(gs, c)
  <2>1. CASE ~Writing(wc, c.file)
    BY <1>3, <1>4, <2>1, HeldKept
  <2>2. CASE Writing(wc, c.file)
    <3>1. c.file = wc.file /\ c.file \in DOMAIN files /\ c.off <= Len(files[c.file].data)
      BY <1>4, <2>2 DEF Writing, HeldIn
    <3>2. gs[c.file].synced = Len(files[c.file].data) /\ c.file \in DOMAIN gs
      BY <1>2, <2>2, <3>1 DEF Writing, SyncOf
    <3> QED BY <3>1, <3>2 DEF KeptIn
  <2> QED BY <2>1, <2>2
<1>5. KeptIn(gs, c) => HeldIn(gs, wc, c)
  BY <1>2, HeldKept
<1>6. HeldIn(files, wc, c) => KeptIn(gs, c)
  BY <1>4 DEF KeptIn
<1> QED BY <1>1, <1>3, <1>5, <1>6

------------------------------------------------------------------------------
(* The metadata's cursor is never ahead of the files. *)

(* The metadata's cursor is kept, in leveldb; what is seen, the cursor and *)
(* the position of a transaction are held, in this order; before leveldb   *)
(* is written, what will be written is kept.                               *)
StoreInv ==
  /\ KeptIn(files, ldb["cur"]) /\ state # "corrupt"
  /\ state = "open" =>
       /\ HeldIn(files, wc, View["cur"])
       /\ AtOrBefore(ldb["cur"], View["cur"]) /\ AtOrBefore(View["cur"], Cursor(wc))
       /\ tx.pc # "rollback" => HeldIn(files, wc, Cursor(wc))
  /\ wc.open => wc.file \in DOMAIN files
  /\ tx.pc \in {"write", "rollback"} =>
       HeldIn(files, wc, tx.old) /\ AtOrBefore(View["cur"], tx.old)
  /\ tx.pc \in {"commit", "flush", "clear", "direct"} =>
       "cur" \in DOMAIN tx.keys /\ tx.keys["cur"] = Cursor(wc)
  /\ tx.pc \in {"flush", "clear", "direct"} =>
       KeptIn(files, View["cur"]) /\ KeptIn(files, Cursor(wc))

(* The condition under which files and metadata stay together: a prune     *)
(* deletes only files that lie before the cursor of the flushed metadata.  *)
PruneBehind == DeleteFile => Head(tx.del) < ldb["cur"].file

(* What every step may use: the invariants before, the types after. *)
Sound == CloseDurable /\ AtomicInv /\ AtomicInv' /\ TypeInv /\ TypeInv' /\ StoreInv

LEMMA SoundFacts ==
  ASSUME Sound
  PROVE  /\ FilesOK(files) /\ FilesOK(files') /\ wc \in CursorRec /\ wc' \in CursorRec /\ TxOK
         /\ ldb["cur"] \in Pos /\ View["cur"] \in Pos /\ ldb["cur"] \in Loc
         /\ tx.old \in Pos /\ tx.old \in Loc
         /\ Cursor(wc) \in Pos /\ Cursor(wc') \in Pos
         /\ tx.pc # "idle" => state = "open"
         /\ hist' = hist => View' = View
<1>1. hist' = hist => View' = View
  BY DEF Sound, AtomicInv, SeenOK
<1>2. tx.pc # "idle" => state = "open"
  BY NoTxIs DEF Sound, AtomicInv, SeenOK
<1> QED BY <1>1, <1>2, SeenView, LocPos, CursorLoc DEF Sound, TypeInv, AtomicInv

LEMMA SeenAfterDown ==
  ASSUME AtomicInv', cache' = EmptyCache
  PROVE  View' = ldb'
<1>1. cache'.keys = NoKeys /\ cache'.remove = {}
  BY EmptyCacheIs
<1>2. IsMap(ldb')
  BY DEF AtomicInv, LdbOK
<1>3. Merge(ldb', NoKeys, {}) = ldb'
  BY <1>2, MergeEmpty
<1> QED BY <1>1, <1>3 DEF View

(* The files and the cursor are left alone. *)
LEMMA StoreStill ==
  ASSUME Sound, UNCHANGED <<files, wc, ldb, hist, state>>,
         DeleteFails \/ SavePosition \/ PutCursor \/ FlushClear \/ CommitFails
         \/ (UNCHANGED tx)
         \/ \E bs \in BlockSeqs, prune \in BOOLEAN : Update(bs, prune)
  PROVE  StoreInv'
<1>0. /\ View' = View /\ TxOK /\ (tx.pc # "idle" => state = "open") /\ TypeInv
      /\ Cursor(wc) \in Pos
  BY SoundFacts DEF Sound
<1>1. CASE DeleteFails \/ CommitFails
  <2>1. tx'.pc = "idle" /\ tx.pc # "rollback"
    BY <1>1, NoTxIs DEF DeleteFails, CommitFails, Abort
  <2> QED BY <1>0, <2>1 DEF Sound, StoreInv
<1>2. CASE SavePosition
  <2>1. TxGoes("write", tx.keys, tx.remove, Cursor(wc), tx.del) /\ tx.pc = "delete"
    BY <1>0, <1>2, TxMoves DEF SavePosition
  <2> QED BY <1>0, <2>1 DEF Sound, StoreInv, TxGoes
<1>3. CASE PutCursor
  <2>1. TxGoes("commit", PutKey(tx.keys, "cur", Cursor(wc)), tx.remove, tx.old, tx.del)
        /\ tx.pc = "write"
    BY <1>0, <1>3, TxMoves DEF PutCursor
  <2>2. "cur" \in DOMAIN tx'.keys /\ tx'.keys["cur"] = Cursor(wc)
    BY <2>1, PutKeySame DEF TxGoes
  <2> QED BY <1>0, <2>1, <2>2 DEF Sound, StoreInv, TxGoes
<1>4. CASE FlushClear
  <2>1. TxGoes("direct", tx.keys, tx.remove, tx.old, tx.del) /\ tx.pc = "clear"
    BY <1>0, <1>4, TxMoves DEF FlushClear
  <2> QED BY <1>0, <2>1 DEF Sound, StoreInv, TxGoes
<1>5. CASE UNCHANGED tx
  BY <1>0, <1>5 DEF Sound, StoreInv
<1>6. ASSUME NEW bs \in BlockSeqs, NEW prune \in BOOLEAN, Update(bs, prune)
      PROVE  StoreInv'
  <2>1. tx'.pc = "delete" /\ tx.pc = "idle"
    BY <1>0, <1>6, UpdateDoes DEF TxGoes, Update
  <2> QED BY <1>0, <2>1 DEF Sound, StoreInv
<1> QED BY <1>1, <1>2, <1>3, <1>4, <1>5, <1>6

LEMMA StoreDelete ==
  ASSUME Sound, DeleteFile, PruneBehind
  PROVE  StoreInv'
<1>0. /\ FilesOK(files) /\ FilesOK(files') /\ wc \in CursorRec /\ state = "open"
      /\ ldb["cur"] \in Pos /\ View["cur"] \in Pos /\ Cursor(wc) \in Pos /\ View' = View
      /\ UNCHANGED <<wc, ldb, state>> /\ tx.pc = "delete"
  BY SoundFacts DEF DeleteFile
<1>1. TxGoes("delete", tx.keys, tx.remove, tx.old, Tail(tx.del))
  BY TxMoves DEF Sound, AtomicInv, DeleteFile
<1>2. PICK h : h = Head(tx.del) /\ h < ldb["cur"].file /\ h \in DOMAIN files
  BY DEF PruneBehind, DeleteFile
<1>3. files' = Without(files, {h})
  BY <1>2 DEF DeleteFile
<1>4. /\ DOMAIN files' = DOMAIN files \ {h} /\ \A m \in DOMAIN files \ {h} : files'[m] = files[m]
  BY <1>0, <1>3, WithoutFiles
<1>5. ASSUME NEW c \in Pos, AtOrBefore(ldb["cur"], c)
      PROVE  /\ KeptIn(files, c) => KeptIn(files', c)
             /\ HeldIn(files, wc, c) => HeldIn(files', wc, c)
  <2>1. h \in Nat /\ c.file \in Nat /\ h # c.file
    BY <1>0, <1>2, <1>5 DEF FilesOK, Pos, AtOrBefore, Before
  <2> QED BY <1>4, <2>1 DEF KeptIn, HeldIn
<1>6. /\ AtOrBefore(ldb["cur"], View["cur"]) /\ AtOrBefore(View["cur"], Cursor(wc))
      /\ KeptIn(files, ldb["cur"]) /\ HeldIn(files, wc, View["cur"])
      /\ HeldIn(files, wc, Cursor(wc)) /\ state # "corrupt"
  BY <1>0 DEF Sound, StoreInv
<1>7. AtOrBefore(ldb["cur"], Cursor(wc)) /\ AtOrBefore(ldb["cur"], ldb["cur"])
  BY <1>0, <1>6, AtTrans, AtSelf
<1>8. /\ KeptIn(files', ldb["cur"]) /\ HeldIn(files', wc, View["cur"])
      /\ HeldIn(files', wc, Cursor(wc))
  BY <1>0, <1>5, <1>6, <1>7
<1>9. wc.open => wc.file \in DOMAIN files'
  <2>1. wc.file # h
    BY <1>0, <1>2, <1>7, CursorLoc DEF FilesOK, Pos, AtOrBefore, Before
  <2> QED BY <1>4, <2>1 DEF Sound, StoreInv
<1> QED BY <1>0, <1>1, <1>6, <1>8, <1>9 DEF StoreInv, TxGoes

LEMMA StoreWrite ==
  ASSUME Sound, WriteBlock \/ WriteFails
  PROVE  StoreInv'
<1>0. /\ FilesOK(files) /\ FilesOK(files') /\ wc \in CursorRec /\ wc' \in CursorRec /\ TxOK
      /\ ldb["cur"] \in Pos /\ View["cur"] \in Pos /\ Cursor(wc) \in Pos /\ Cursor(wc') \in Pos
      /\ tx.old \in Pos /\ state = "open" /\ View' = View
      /\ UNCHANGED <<ldb, state>> /\ tx.pc = "write" /\ CloseDurable
  BY SoundFacts DEF WriteBlock, WriteFails, Sound
<1>1. PICK b \in Block : b = Head(tx.blocks)
  BY <1>0 DEF TxOK, WriteBlock, WriteFails
<1>2. WriteBlock => WriteUnits(b, RecLen) /\ RecLen \in 0..RecLen
  BY <1>1 DEF WriteBlock, RecLen
<1>3. Advances
  BY <1>0, <1>2, WriteAdvances, WriteFailsAdvances
<1>4. tx'.old = tx.old /\ (WriteBlock => tx'.pc = "write") /\ (WriteFails => tx'.pc = "rollback")
  BY <1>0, TxMoves DEF TxGoes
<1>5. /\ KeptIn(files, ldb["cur"]) /\ HeldIn(files, wc, View["cur"]) /\ HeldIn(files, wc, Cursor(wc))
      /\ AtOrBefore(ldb["cur"], View["cur"]) /\ AtOrBefore(View["cur"], Cursor(wc))
      /\ HeldIn(files, wc, tx.old) /\ AtOrBefore(View["cur"], tx.old)
      /\ AtOrBefore(tx.old, Cursor(wc)) /\ state # "corrupt"
  BY <1>0 DEF Sound, StoreInv, TypeInv
<1>6. AtOrBefore(ldb["cur"], Cursor(wc)) /\ AtOrBefore(View["cur"], Cursor(wc'))
  BY <1>0, <1>3, <1>5, AtTrans DEF Advances
<1>7. /\ KeptIn(files', ldb["cur"]) /\ HeldIn(files', wc', View["cur"]) /\ HeldIn(files', wc', tx.old)
  BY <1>0, <1>3, <1>5, <1>6, AdvanceKeeps
<1>a. Rotate.file \in DOMAIN files \/ ~Rotate.open
  <2>1. Rotate.open => Rotate = wc
    BY <1>0, RotateDoes
  <2> QED BY <2>1 DEF Sound, StoreInv
<1>9. wc'.open => wc'.file \in DOMAIN files'
  <2>1. CASE \E n \in 0..RecLen : WriteUnits(b, n)
    BY <1>0, <1>a, <2>1, WriteDoes
  <2>2. CASE wc' = Rotate /\ ~Rotate.open
    BY <2>2
  <2> QED BY <1>0, <1>1, <1>2, <2>1, <2>2, WriteFailsDoes
<1>b. WriteBlock => HeldIn(files', wc', Cursor(wc'))
  <2> SUFFICES ASSUME WriteBlock PROVE HeldIn(files', wc', Cursor(wc'))
    OBVIOUS
  <2>1. /\ Rotate.file \in DOMAIN files' /\ wc'.off <= Len(files'[Rotate.file].data)
        /\ wc'.file = Rotate.file /\ wc'.open
    BY <1>0, <1>2, <1>a, WriteDoes
  <2> QED BY <1>0, <2>1, CursorLoc DEF HeldIn, Writing
<1> QED BY <1>0, <1>4, <1>5, <1>6, <1>7, <1>9, <1>b DEF StoreInv

LEMMA StoreRollback ==
  ASSUME Sound, TxRollback
  PROVE  StoreInv'
<1>0. /\ FilesOK(files) /\ FilesOK(files') /\ wc \in CursorRec /\ wc' \in CursorRec /\ TxOK
      /\ ldb["cur"] \in Pos /\ View["cur"] \in Pos /\ tx.old \in Pos /\ tx.old \in Loc
      /\ state = "open" /\ View' = View /\ UNCHANGED <<ldb, state>> /\ tx.pc = "rollback"
      /\ tx' = NoTx
  BY SoundFacts DEF TxRollback, Abort
<1>1. PICK r : files' = r.files /\ wc' = r.wc /\ RolledTo(files, wc, tx.old, r)
  BY TxRollbackDoes DEF Sound
<1>2. /\ KeptIn(files, ldb["cur"]) /\ HeldIn(files, wc, View["cur"]) /\ HeldIn(files, wc, tx.old)
      /\ AtOrBefore(ldb["cur"], View["cur"]) /\ AtOrBefore(View["cur"], tx.old)
      /\ AtOrBefore(tx.old, Cursor(wc)) /\ (wc.open => wc.file \in DOMAIN files)
  BY <1>0 DEF Sound, StoreInv, TypeInv
<1>3. AtOrBefore(ldb["cur"], tx.old) /\ AtOrBefore(tx.old, tx.old)
  BY <1>0, <1>2, AtTrans, AtSelf
<1>4. /\ KeptIn(files', ldb["cur"]) /\ HeldIn(files', wc', View["cur"])
      /\ HeldIn(files', wc', tx.old)
  BY <1>0, <1>1, <1>2, <1>3, RollbackKeeps
<1>5. Cursor(wc') = tx.old /\ wc'.file = tx.old.file
  BY <1>1 DEF RolledTo, Cursor
<1>6. wc'.open => wc'.file \in DOMAIN files'
  BY <1>1, <1>2, <1>5 DEF RolledTo, Writing
<1>7. tx'.pc = "idle"
  BY <1>0, NoTxIs
<1> QED BY <1>0, <1>2, <1>4, <1>5, <1>6, <1>7 DEF StoreInv

LEMMA StoreFlush ==
  ASSUME Sound, FlushSync \/ FlushTreaps
  PROVE  StoreInv'
<1>0. /\ FilesOK(files) /\ wc \in CursorRec /\ TxOK /\ ldb["cur"] \in Pos /\ View["cur"] \in Pos
      /\ Cursor(wc) \in Pos /\ state = "open" /\ View' = View /\ UNCHANGED <<wc, state>>
      /\ tx.pc \in {"commit", "flush"}
  BY SoundFacts DEF FlushSync, FlushTreaps
<1>1. /\ KeptIn(files, ldb["cur"]) /\ HeldIn(files, wc, View["cur"])
      /\ AtOrBefore(ldb["cur"], View["cur"]) /\ AtOrBefore(View["cur"], Cursor(wc))
      /\ HeldIn(files, wc, Cursor(wc)) /\ (wc.open => wc.file \in DOMAIN files)
      /\ "cur" \in DOMAIN tx.keys /\ tx.keys["cur"] = Cursor(wc)
  BY <1>0 DEF Sound, StoreInv
<1>2. CASE FlushSync
  <2>1. files' = SyncBlocks(files) /\ ldb' = ldb /\ tx'.keys = tx.keys
        /\ tx'.pc \in {"flush", "direct"}
    BY <1>0, <1>2, TxMoves DEF FlushSync, TxGoes
  <2>2. /\ KeptIn(files', ldb["cur"]) /\ KeptIn(files', View["cur"]) /\ HeldIn(files', wc, View["cur"])
        /\ KeptIn(files', Cursor(wc)) /\ HeldIn(files', wc, Cursor(wc))
    BY <1>0, <1>1, <2>1, SyncMakesKept
  <2>3. DOMAIN files' = DOMAIN files
    BY <1>0, <2>1, SyncBlocksDoes DEF SyncOf
  <2> QED BY <1>0, <1>1, <2>1, <2>2, <2>3 DEF StoreInv
<1>3. CASE FlushTreaps
  <2>1. files' = files /\ ldb' = View /\ tx'.keys = tx.keys /\ tx'.pc = "clear"
    BY <1>0, <1>3, TxMoves DEF FlushTreaps, TxGoes
  <2>2. KeptIn(files, View["cur"]) /\ KeptIn(files, Cursor(wc))
    BY <1>3 DEF Sound, StoreInv, FlushTreaps
  <2>3. AtOrBefore(View["cur"], View["cur"])
    BY <1>0, AtSelf
  <2> QED BY <1>0, <1>1, <2>1, <2>2, <2>3 DEF StoreInv
<1> QED BY <1>2, <1>3

LEMMA StoreCommit ==
  ASSUME Sound, CommitCache \/ CommitDirect
  PROVE  StoreInv'
<1>0. /\ wc \in CursorRec /\ TxOK /\ ldb["cur"] \in Pos /\ View["cur"] \in Pos
      /\ Cursor(wc) \in Pos /\ state = "open" /\ UNCHANGED <<files, wc, state>> /\ tx' = NoTx
      /\ tx.pc \in {"commit", "direct"} /\ AtomicInv /\ SeenOK'
  BY SoundFacts DEF CommitCache, CommitDirect, Abort, Sound, AtomicInv
<1>1. /\ KeptIn(files, ldb["cur"]) /\ AtOrBefore(ldb["cur"], View["cur"])
      /\ AtOrBefore(View["cur"], Cursor(wc))
      /\ HeldIn(files, wc, Cursor(wc)) /\ (wc.open => wc.file \in DOMAIN files)
      /\ "cur" \in DOMAIN tx.keys /\ tx.keys["cur"] = Cursor(wc)
  BY <1>0 DEF Sound, StoreInv
<1>2. View' = Merge(View, tx.keys, tx.remove)
  BY <1>0, CommitStep DEF CommitCache, CommitDirect, Abort, SeenOK
<1>3. tx.remove \subseteq Block
  BY DEF Sound, TypeInv
<1>4. View'["cur"] = Cursor(wc)
  BY <1>1, <1>2, <1>3, MergeCur
<1>5. tx'.pc = "idle"
  BY <1>0, NoTxIs
<1>6. AtOrBefore(Cursor(wc), Cursor(wc)) /\ AtOrBefore(ldb["cur"], Cursor(wc))
  BY <1>0, <1>1, AtSelf, AtTrans
<1>7. CASE CommitCache
  <2>1. ldb' = ldb
    BY <1>7 DEF CommitCache
  <2> QED BY <1>0, <1>1, <1>4, <1>5, <1>6, <2>1 DEF StoreInv
<1>8. CASE CommitDirect
  <2>1. KeptIn(files, Cursor(wc))
    BY <1>8 DEF Sound, StoreInv, CommitDirect
  <2>2. ldb'["cur"] = Cursor(wc)
    BY <1>1, <1>3, <1>8, MergeCur DEF CommitDirect
  <2> QED BY <1>0, <1>1, <1>4, <1>5, <1>6, <2>1, <2>2 DEF StoreInv
<1> QED BY <1>7, <1>8

LEMMA StoreDown ==
  ASSUME Sound, Close \/ Crash
  PROVE  StoreInv'
<1>0. /\ FilesOK(files) /\ wc \in CursorRec /\ ldb["cur"] \in Pos /\ View["cur"] \in Pos
      /\ TxOK /\ state = "open" /\ state' = "down" /\ KeptIn(files, ldb["cur"])
      /\ HeldIn(files, wc, View["cur"])
  BY SoundFacts DEF Close, Crash, Sound, StoreInv
<1>1. tx'.pc = "idle" /\ ~wc'.open
  <2>1. tx' = NoTx
    BY <1>0 DEF Close, Crash, TxOK
  <2>2. wc' = [wc EXCEPT !.open = FALSE]
    BY DEF Close, Crash
  <2> QED BY <1>0, <2>1, <2>2, NoTxIs DEF CursorRec
<1>2. KeptIn(files', ldb'["cur"])
  <2>1. CASE files' = SyncBlocks(files) /\ ldb' = View
    BY <1>0, <2>1, SyncMakesKept
  <2>2. CASE UNCHANGED <<files, ldb>>
    BY <1>0, <2>2
  <2>3. CASE Crash
    <3>1. /\ DOMAIN files' = DOMAIN files /\ ldb' = ldb /\ FilesOK(files')
          /\ \A n \in DOMAIN files : files'[n] \in Survives(files[n])
      BY <2>3, CrashDoes DEF Sound, Crash
    <3>2. \A n \in DOMAIN files : files[n].synced <= files'[n].synced
      BY <1>0, <3>1, SurvivesDoes DEF FilesOK
    <3>3. ASSUME NEW n \in DOMAIN files
          PROVE  files[n].synced \in Nat /\ files'[n].synced \in Nat
      BY <1>0, <3>1, FileFacts
    <3> QED BY <1>0, <3>1, <3>2, <3>3 DEF KeptIn, Pos
  <2> QED BY <2>1, <2>2, <2>3 DEF Close
<1> QED BY <1>0, <1>1, <1>2 DEF StoreInv

(* Opening finds the files at or behind the metadata's cursor, and goes    *)
(* back to it.                                                             *)
LEMMA ScannedBehind ==
  ASSUME TypeInv, KeptIn(files, ldb["cur"])
  PROVE  AtOrBefore(ldb["cur"], Cursor(Scanned))
<1>1. /\ ldb["cur"] \in Loc /\ ldb["cur"] \in Pos /\ FilesOK(files) /\ Scanned \in CursorRec
      /\ \A n \in DOMAIN files : /\ n <= Scanned.file
                                 /\ n = Scanned.file => Scanned.off = Len(files[n].data)
  BY SeenView, LocPos, ScannedDoes DEF TypeInv
<1>2. PICK c \in Pos : c = ldb["cur"]
  BY <1>1
<1>3. CASE c = Zero
  BY <1>1, <1>2, <1>3, CursorLoc DEF Zero, AtOrBefore, Before
<1>4. CASE c # Zero
  <2>1. c.file \in DOMAIN files /\ c.off <= files[c.file].synced
    BY <1>2, <1>4 DEF KeptIn
  <2>2. c.off <= Len(files[c.file].data) /\ c.file <= Scanned.file
        /\ (c.file = Scanned.file => Scanned.off = Len(files[c.file].data))
    BY <1>1, <2>1, FileFacts DEF Pos
  <2> QED BY <1>1, <1>2, <2>2, CursorLoc DEF AtOrBefore, Before, Pos
<1> QED BY <1>3, <1>4

LEMMA StoreOpen ==
  ASSUME Sound, Open
  PROVE  StoreInv'
<1>0. /\ FilesOK(files) /\ ldb["cur"] \in Pos /\ ldb["cur"] \in Loc /\ Scanned \in CursorRec
      /\ wc' \in CursorRec /\ KeptIn(files, ldb["cur"]) /\ UNCHANGED <<ldb, tx, cache>>
  BY SoundFacts, ScannedDoes DEF Sound, StoreInv, Open
<1>1. AtOrBefore(ldb["cur"], Cursor(Scanned))
  BY <1>0, ScannedBehind DEF Sound
<1>2. PICK r : /\ files' = r.files /\ wc' = r.wc /\ RolledTo(files, Scanned, ldb["cur"], r)
               /\ state' = "open"
  BY <1>1, OpenDoes DEF Sound, AtOrBefore
<1>3. tx'.pc = "idle" /\ View' = ldb'
  BY <1>0, NoTxIs, SeenAfterDown DEF Sound, AtomicInv, SeenOK, Open
<1>4. AtOrBefore(ldb["cur"], ldb["cur"])
  BY <1>0, AtSelf
<1>5. KeptIn(files', ldb["cur"]) /\ FilesOK(files')
  BY <1>0, <1>1, <1>2, <1>4, RollbackKeeps DEF RolledTo
<1>6. HeldIn(files', wc', ldb["cur"])
  BY <1>0, <1>5, HeldKept
<1>7. Cursor(wc') = ldb["cur"] /\ wc'.file = ldb["cur"].file
  BY <1>2 DEF RolledTo, Cursor
<1>8. wc'.open => wc'.file \in DOMAIN files'
  BY <1>2, <1>7, ScannedDoes, <1>0 DEF RolledTo, Writing
<1> QED BY <1>0, <1>2, <1>3, <1>4, <1>5, <1>6, <1>7, <1>8 DEF StoreInv

LEMMA InitStore == Init => StoreInv
<1> SUFFICES ASSUME Init PROVE StoreInv
  OBVIOUS
<1>1. ldb["cur"] = Zero
  <2>1. ldb = [k \in {"cur", "tip"} |-> IF k = "tip" THEN 0 ELSE Zero]
    BY DEF Init, Zero
  <2> QED BY <2>1
<1>2. View = ldb
  <2>1. IsMap(ldb)
    BY DEF Init, IsMap
  <2> QED BY <2>1, MergeEmpty, EmptyCacheIs DEF View, Init
<1>3. Cursor(wc) = Zero /\ ~wc.open
  BY DEF Init, Cursor, Zero
<1>4. tx.pc = "idle" /\ state = "open"
  BY NoTxIs DEF Init
<1>5. AtOrBefore(Zero, Zero)
  BY AtSelf, NoTxIs, LocPos
<1> QED BY <1>1, <1>2, <1>3, <1>4, <1>5 DEF StoreInv, KeptIn, HeldIn

LEMMA NextStore ==
  CloseDurable /\ AtomicInv /\ TypeInv /\ StoreInv /\ [Next]_vars /\ [PruneBehind]_vars => StoreInv'
<1> SUFFICES ASSUME CloseDurable, AtomicInv, TypeInv, StoreInv, [Next]_vars, [PruneBehind]_vars
             PROVE  StoreInv'
  OBVIOUS
<1>0. Sound
  BY NextAtomic, NextTypes DEF Sound
<1>1. CASE UNCHANGED vars
  BY <1>0, <1>1, StoreStill DEF vars
<1>2. ASSUME NEW bs \in BlockSeqs, NEW prune \in BOOLEAN, Update(bs, prune) PROVE StoreInv'
  <2>1. UNCHANGED <<files, wc, ldb, hist, state>>
    BY <1>2 DEF Update
  <2> QED BY <1>0, <1>2, <2>1, StoreStill
<1>3. CASE DeleteFile
  <2>1. PruneBehind \/ UNCHANGED vars
    OBVIOUS
  <2> QED BY <1>0, <1>1, <1>3, <2>1, StoreDelete
<1>4. CASE DeleteFails \/ SavePosition \/ PutCursor \/ FlushClear \/ CommitFails
  <2>1. UNCHANGED <<files, wc, ldb, hist, state>>
    BY <1>4 DEF DeleteFails, SavePosition, PutCursor, FlushClear, CommitFails
  <2> QED BY <1>0, <1>4, <2>1, StoreStill
<1>5. CASE SnapshotLdb \/ SnapshotCache \/ ReadEnd
  <2>1. UNCHANGED <<files, wc, ldb, hist, state, tx>>
    BY <1>5 DEF SnapshotLdb, SnapshotCache, ReadEnd
  <2> QED BY <1>0, <2>1, StoreStill
<1>6. CASE WriteBlock \/ WriteFails
  BY <1>0, <1>6, StoreWrite
<1>7. CASE TxRollback
  BY <1>0, <1>7, StoreRollback
<1>8. CASE FlushSync \/ FlushTreaps
  BY <1>0, <1>8, StoreFlush
<1>9. CASE CommitCache \/ CommitDirect
  BY <1>0, <1>9, StoreCommit
<1>10. CASE Close \/ Crash
  BY <1>0, <1>10, StoreDown
<1>11. CASE Open
  BY <1>0, <1>11, StoreOpen
<1> QED
  BY <1>1, <1>2, <1>3, <1>4, <1>5, <1>6, <1>7, <1>8, <1>9, <1>10, <1>11 DEF Next

(* Opening never finds the metadata ahead of the files (reconcileDB,       *)
(* syncBlocks), whatever crashes and whatever file or leveldb operations   *)
(* fail, on a system where a closed file is on disk and as long as every   *)
(* prune deletes only files before the flushed cursor's.                   *)
THEOREM OpensAgain == Spec /\ [][PruneBehind]_vars => [](CloseDurable => NeverCorrupt)
<1> DEFINE Inv == AtomicInv /\ TypeInv /\ (CloseDurable => StoreInv)
<1>1. Init => Inv
  BY InitAtomic, InitTypes, InitStore
<1>2. Inv /\ [Next]_vars /\ [PruneBehind]_vars => Inv'
  BY NextAtomic, NextTypes, NextStore
<1>3. Inv => (CloseDurable => NeverCorrupt)
  BY DEF StoreInv, NeverCorrupt
<1> QED BY <1>1, <1>2, <1>3, PTL DEF Spec

------------------------------------------------------------------------------
(* Rows *)

RowEnd(loc) == [file |-> loc.file, off |-> loc.off + RecLen]
RowIn(fs, loc, b) ==
  /\ loc.file \in DOMAIN fs
  /\ \A i \in 1..RecLen : Unit(fs[loc.file].data, loc.off + i) = b

(* A row's block is there and synced, or there and still being written, or *)
(* lost to a prune for good.                                               *)
RowKept(fs, loc, b) == RowIn(fs, loc, b) /\ KeptIn(fs, RowEnd(loc))
RowHeld(fs, w, loc, b) == RowIn(fs, loc, b) /\ HeldIn(fs, w, RowEnd(loc))
Lost(fs, gn, low, loc) == loc \in gn /\ loc.file \notin DOMAIN fs /\ loc.file < low.file

LEMMA RowEndPos ==
  ASSUME NEW loc \in Loc
  PROVE  /\ RowEnd(loc) \in Pos /\ RowEnd(loc).file = loc.file
         /\ RowEnd(loc).off = loc.off + RecLen /\ RowEnd(loc) # Zero
         /\ loc.file \in Nat /\ loc.off \in Nat /\ loc.off <= FileCap /\ RecLen = 2
BY LocNat DEF RowEnd, Pos, Zero, RecLen

LEMMA RowInStays ==
  ASSUME NEW fs, NEW gs, NEW loc \in Loc, NEW b, NEW d \in Pos,
         AtOrBefore(RowEnd(loc), d), Keeps(fs, gs, d), RowIn(fs, loc, b)
  PROVE  RowIn(gs, loc, b)
<1>0. /\ RowEnd(loc) \in Pos /\ RowEnd(loc).file = loc.file
      /\ RowEnd(loc).off = loc.off + RecLen
      /\ loc.file \in Nat /\ loc.off \in Nat /\ RecLen = 2
  BY RowEndPos
<1>1. loc.file <= d.file /\ Upto(loc.file, loc.off + RecLen, d) /\ d.file \in Nat /\ d.off \in Nat
  BY <1>0, UptoAt DEF Pos
<1>2. loc.file \in DOMAIN fs /\ loc.file \in DOMAIN gs
  BY <1>1 DEF RowIn, Keeps
<1>3. ASSUME NEW i \in 1..RecLen PROVE Unit(gs[loc.file].data, loc.off + i) = b
  <2>1. PICK k \in Nat : k = loc.off + i
    BY <1>0
  <2>2. 1 <= k /\ Upto(loc.file, k, d)
    BY <1>0, <1>1, <2>1 DEF Upto
  <2>3. Unit(gs[loc.file].data, k) = Unit(fs[loc.file].data, k)
    BY <1>1, <1>2, <2>2 DEF Keeps
  <2> QED BY <2>1, <2>3 DEF RowIn
<1> QED BY <1>2, <1>3 DEF RowIn

LEMMA RowHeldKept ==
  ASSUME NEW fs, FilesOK(fs), NEW w, NEW loc \in Loc, NEW b
  PROVE  RowKept(fs, loc, b) => RowHeld(fs, w, loc, b)
BY RowEndPos, HeldKept DEF RowKept, RowHeld

(* What a step does to the rows that end at or before position c. *)
RowsStay(c) ==
  \A b \in Block, loc \in Loc : AtOrBefore(RowEnd(loc), c) =>
    /\ RowKept(files, loc, b) => RowKept(files', loc, b)
    /\ RowHeld(files, wc, loc, b) => RowHeld(files', wc', loc, b)
LostStay ==
  \A loc \in Loc : Lost(files, gone, ldb["cur"], loc) => Lost(files', gone', ldb'["cur"], loc)

LEMMA AdvanceRows ==
  ASSUME FilesOK(files), wc \in CursorRec, Advances
  PROVE  RowsStay(Cursor(wc))
<1> SUFFICES ASSUME NEW b \in Block, NEW loc \in Loc, AtOrBefore(RowEnd(loc), Cursor(wc))
             PROVE  /\ RowKept(files, loc, b) => RowKept(files', loc, b)
                    /\ RowHeld(files, wc, loc, b) => RowHeld(files', wc', loc, b)
  BY DEF RowsStay
<1>1. /\ Cursor(wc) \in Pos /\ Cursor(Rotate) \in Pos /\ AtOrBefore(Cursor(wc), Cursor(Rotate))
      /\ RowEnd(loc) \in Pos
  BY RotateDoes, CursorLoc, LocPos, RowEndPos
<1>2. AtOrBefore(RowEnd(loc), Cursor(Rotate)) /\ Keeps(files, files', Cursor(Rotate))
  BY <1>1, AtTrans DEF Advances
<1>3. RowIn(files, loc, b) => RowIn(files', loc, b)
  BY <1>1, <1>2, RowInStays
<1> QED BY <1>1, <1>3, AdvanceKeeps DEF RowKept, RowHeld

LEMMA RollbackRows ==
  ASSUME NEW fs, FilesOK(fs), NEW w \in CursorRec, NEW old \in Loc, NEW r, RolledTo(fs, w, old, r),
         AtOrBefore(old, Cursor(w)), NEW b \in Block, NEW loc \in Loc, AtOrBefore(RowEnd(loc), old)
  PROVE  /\ RowKept(fs, loc, b) => RowKept(r.files, loc, b)
         /\ RowHeld(fs, w, loc, b) => RowHeld(r.files, r.wc, loc, b)
<1>1. Keeps(fs, r.files, old) /\ old \in Pos /\ RowEnd(loc) \in Pos
  BY RolledKeeps, LocPos, RowEndPos
<1>2. RowIn(fs, loc, b) => RowIn(r.files, loc, b)
  BY <1>1, RowInStays
<1> QED BY <1>1, <1>2, RollbackKeeps DEF RowKept, RowHeld

LEMMA SyncRows ==
  ASSUME FilesOK(files), wc \in CursorRec, NEW b \in Block, NEW loc \in Loc
  PROVE  /\ RowKept(files, loc, b) => RowKept(SyncBlocks(files), loc, b)
         /\ RowHeld(files, wc, loc, b) => RowKept(SyncBlocks(files), loc, b)
                                          /\ RowHeld(SyncBlocks(files), wc, loc, b)
<1>1. RowEnd(loc) \in Pos /\ AtOrBefore(RowEnd(loc), RowEnd(loc))
  BY RowEndPos, AtSelf
<1>2. Keeps(files, SyncBlocks(files), RowEnd(loc))
  BY SyncBlocksDoes, SyncKeeps
<1>3. RowIn(files, loc, b) => RowIn(SyncBlocks(files), loc, b)
  BY <1>1, <1>2, RowInStays
<1> QED BY <1>1, <1>3, SyncMakesKept DEF RowKept, RowHeld

Rows(v) == DOMAIN v \cap Block
RowSafe(loc, b) == RowKept(files, loc, b) \/ Lost(files, gone, ldb["cur"], loc)
RowSeen(loc, b) == RowHeld(files, wc, loc, b) \/ Lost(files, gone, ldb["cur"], loc)

(* The rows of leveldb are safe and end before its cursor, those that are  *)
(* seen are there, those of a transaction are written; before leveldb is   *)
(* written, what will be written is synced.                                *)
LdbRows ==
  \A b \in Rows(ldb) : AtOrBefore(RowEnd(ldb[b]), ldb["cur"]) /\ RowSafe(ldb[b], b)
SeenRows ==
  state = "open" =>
    \A b \in Rows(View) : AtOrBefore(RowEnd(View[b]), View["cur"]) /\ RowSeen(View[b], b)
TxRows ==
  /\ tx.pc = "delete" => Rows(tx.keys) = {}
  /\ tx.pc \in {"write", "commit", "flush", "clear", "direct"} =>
       \A b \in Rows(tx.keys) :
         AtOrBefore(RowEnd(tx.keys[b]), Cursor(wc)) /\ RowHeld(files, wc, tx.keys[b], b)
ReadyRows ==
  tx.pc \in {"flush", "clear", "direct"} =>
    /\ \A b \in Rows(View) : RowSafe(View[b], b)
    /\ \A b \in Rows(tx.keys) : RowKept(files, tx.keys[b], b)
RowsInv == LdbRows /\ SeenRows /\ TxRows /\ ReadyRows

LEMMA RowLoc ==
  ASSUME NEW v, IsView(v), NEW b \in Rows(v)
  PROVE  v[b] \in Loc /\ b \in Block /\ b \in DOMAIN v
BY NoBlockNames DEF Rows, IsView

LEMMA RowsPut ==
  ASSUME NEW kv, NEW k, k \notin Block, NEW x
  PROVE  /\ Rows(PutKey(kv, k, x)) = Rows(kv)
         /\ \A b \in Rows(kv) : PutKey(kv, k, x)[b] = kv[b]
BY DEF Rows, PutKey

(* A step carries the rows that end at or before c. *)
Carries(c) ==
  \A b \in Block, loc \in Loc : AtOrBefore(RowEnd(loc), c) =>
    /\ RowSafe(loc, b) => RowSafe(loc, b)'
    /\ RowSeen(loc, b) => RowSeen(loc, b)'

LEMMA StayCarries ==
  ASSUME NEW c, RowsStay(c), LostStay
  PROVE  Carries(c)
BY DEF RowsStay, LostStay, Carries, RowSafe, RowSeen

LEMMA RowsCarried ==
  ASSUME Sound, RowsInv, NEW c \in Pos, AtOrBefore(View["cur"], c), Carries(c),
         View' = View, UNCHANGED <<ldb, state>>, state = "open"
  PROVE  LdbRows' /\ SeenRows'
<1>0. /\ ldb["cur"] \in Pos /\ View["cur"] \in Pos /\ AtOrBefore(ldb["cur"], View["cur"])
      /\ IsView(ldb) /\ IsView(View)
  BY SoundFacts, SeenView DEF Sound, StoreInv, TypeInv
<1>1. LdbRows'
  <2> SUFFICES ASSUME NEW b \in Rows(ldb)
               PROVE  AtOrBefore(RowEnd(ldb[b]), ldb["cur"]) /\ RowSafe(ldb[b], b)'
    BY DEF LdbRows
  <2>1. PICK loc \in Loc : loc = ldb[b] /\ b \in Block
    BY <1>0, RowLoc
  <2>2. AtOrBefore(RowEnd(loc), ldb["cur"]) /\ RowSafe(loc, b) /\ RowEnd(loc) \in Pos
    BY <2>1, RowEndPos DEF RowsInv, LdbRows
  <2>3. AtOrBefore(RowEnd(loc), c)
    BY <1>0, <2>2, AtTrans
  <2>4. RowSafe(loc, b)'
    BY <2>1, <2>2, <2>3 DEF Carries
  <2>5. loc' = ldb'[b]
    BY <2>1
  <2> QED BY <2>1, <2>2, <2>4, <2>5 DEF RowSafe
<1>2. SeenRows'
  <2> SUFFICES ASSUME NEW b \in Rows(View)
               PROVE  AtOrBefore(RowEnd(View[b]), View["cur"]) /\ RowSeen(View[b], b)'
    BY DEF SeenRows
  <2>1. PICK loc \in Loc : loc = View[b] /\ b \in Block
    BY <1>0, RowLoc
  <2>2. AtOrBefore(RowEnd(loc), View["cur"]) /\ RowSeen(loc, b) /\ RowEnd(loc) \in Pos
    BY <2>1, RowEndPos DEF RowsInv, SeenRows
  <2>3. AtOrBefore(RowEnd(loc), c)
    BY <1>0, <2>2, AtTrans
  <2>4. RowSeen(loc, b)'
    BY <2>1, <2>2, <2>3 DEF Carries
  <2> QED BY <2>1, <2>2, <2>4 DEF RowSeen
<1> QED BY <1>1, <1>2

(* The files and the cursor are left alone. *)
LEMMA RowsStill ==
  ASSUME Sound, RowsInv, UNCHANGED <<files, wc, ldb, hist, state, gone>>,
         DeleteFails \/ SavePosition \/ PutCursor \/ FlushClear \/ CommitFails
         \/ (UNCHANGED tx)
         \/ \E bs \in BlockSeqs, prune \in BOOLEAN : Update(bs, prune)
  PROVE  RowsInv'
<1>0. View' = View /\ TxOK /\ TypeInv
  BY SoundFacts DEF Sound
<1>1. LdbRows' /\ SeenRows'
  BY <1>0 DEF RowsInv, LdbRows, SeenRows, RowSafe, RowSeen
<1>2. CASE DeleteFails \/ CommitFails
  <2>1. tx'.pc = "idle"
    BY <1>2, NoTxIs DEF DeleteFails, CommitFails, Abort
  <2> QED BY <1>1, <2>1 DEF RowsInv, TxRows, ReadyRows
<1>3. CASE SavePosition
  <2>1. TxGoes("write", tx.keys, tx.remove, Cursor(wc), tx.del) /\ tx.pc = "delete"
    BY <1>0, <1>3, TxMoves DEF SavePosition
  <2>2. tx'.pc = "write" /\ Rows(tx'.keys) = {}
    BY <2>1 DEF RowsInv, TxRows, TxGoes
  <2> QED BY <1>1, <2>2 DEF RowsInv, TxRows, ReadyRows
<1>4. CASE PutCursor
  <2>1. TxGoes("commit", PutKey(tx.keys, "cur", Cursor(wc)), tx.remove, tx.old, tx.del)
        /\ tx.pc = "write"
    BY <1>0, <1>4, TxMoves DEF PutCursor
  <2>2. tx'.pc = "commit" /\ Rows(tx'.keys) = Rows(tx.keys)
        /\ \A b \in Rows(tx.keys) : tx'.keys[b] = tx.keys[b]
    BY <2>1, RowsPut, NoBlockNames DEF TxGoes
  <2>3. TxRows'
    BY <2>1, <2>2 DEF RowsInv, TxRows
  <2>4. ReadyRows'
    BY <2>2 DEF ReadyRows
  <2> QED BY <1>1, <2>3, <2>4 DEF RowsInv
<1>5. CASE FlushClear
  <2>1. TxGoes("direct", tx.keys, tx.remove, tx.old, tx.del) /\ tx.pc = "clear"
    BY <1>0, <1>5, TxMoves DEF FlushClear
  <2>2. TxRows'
    BY <2>1 DEF RowsInv, TxRows, TxGoes
  <2>3. ReadyRows'
    BY <1>0, <2>1 DEF RowsInv, ReadyRows, TxGoes, RowSafe
  <2> QED BY <1>1, <2>2, <2>3 DEF RowsInv
<1>6. CASE UNCHANGED tx
  <2>1. TxRows'
    BY <1>6 DEF RowsInv, TxRows
  <2>2. ReadyRows'
    BY <1>0, <1>6 DEF RowsInv, ReadyRows, RowSafe
  <2> QED BY <1>1, <2>1, <2>2 DEF RowsInv
<1>7. ASSUME NEW bs \in BlockSeqs, NEW prune \in BOOLEAN, Update(bs, prune)
      PROVE  RowsInv'
  <2>1. tx'.pc = "delete" /\ tx'.keys = PutKey(NoKeys, "tip", Len(hist))
    BY <1>0, <1>7, UpdateDoes DEF TxGoes
  <2>2. Rows(NoKeys) = {}
    BY NoKeysView DEF Rows
  <2>3. Rows(tx'.keys) = {}
    BY <2>1, <2>2, RowsPut, NoBlockNames
  <2> QED BY <1>1, <2>1, <2>3 DEF RowsInv, TxRows, ReadyRows
<1> QED BY <1>2, <1>3, <1>4, <1>5, <1>6, <1>7

(* A prune turns the rows of the file it deletes into lost ones. *)
LEMMA RowsDelete ==
  ASSUME Sound, RowsInv, DeleteFile, PruneBehind
  PROVE  RowsInv'
<1>0. /\ FilesOK(files) /\ FilesOK(files') /\ wc \in CursorRec /\ state = "open"
      /\ View["cur"] \in Pos /\ View' = View /\ tx.pc = "delete"
      /\ UNCHANGED <<wc, ldb, state>>
  BY SoundFacts DEF DeleteFile
<1>1. TxGoes("delete", tx.keys, tx.remove, tx.old, Tail(tx.del))
  BY TxMoves DEF Sound, AtomicInv, DeleteFile
<1>2. PICK h : h = Head(tx.del) /\ h < ldb["cur"].file /\ h \in DOMAIN files
  BY DEF PruneBehind, DeleteFile
<1>3. /\ files' = Without(files, {h})
      /\ gone' = gone \cup {[file |-> h, off |-> o] : o \in 0..FileCap}
  BY <1>2 DEF DeleteFile
<1>4. /\ DOMAIN files' = DOMAIN files \ {h} /\ \A m \in DOMAIN files \ {h} : files'[m] = files[m]
  BY <1>0, <1>3, WithoutFiles
<1>5. Carries(View["cur"])
  <2> SUFFICES ASSUME NEW b \in Block, NEW loc \in Loc
               PROVE  /\ RowSafe(loc, b) => RowSafe(loc, b)'
                      /\ RowSeen(loc, b) => RowSeen(loc, b)'
    BY DEF Carries
  <2>0. RowEnd(loc).file = loc.file
    BY RowEndPos
  <2>1. CASE loc.file = h
    <3>1. loc = [file |-> h, off |-> loc.off] /\ loc.off \in 0..FileCap
      BY <2>1 DEF Loc
    <3>2. loc \in gone' /\ loc.file \notin DOMAIN files' /\ loc.file < ldb'["cur"].file
      BY <1>0, <1>2, <1>3, <1>4, <2>1, <3>1
    <3> QED BY <3>2 DEF RowSafe, RowSeen, Lost
  <2>2. CASE loc.file # h
    <3>1. Lost(files, gone, ldb["cur"], loc) => Lost(files', gone', ldb'["cur"], loc)
      BY <1>0, <1>3, <1>4 DEF Lost
    <3>2. RowIn(files, loc, b) => RowIn(files', loc, b)
      BY <1>4, <2>2 DEF RowIn
    <3>3. /\ KeptIn(files, RowEnd(loc)) => KeptIn(files', RowEnd(loc))
          /\ HeldIn(files, wc, RowEnd(loc)) => HeldIn(files', wc', RowEnd(loc))
      BY <1>0, <1>4, <2>0, <2>2 DEF KeptIn, HeldIn
    <3> QED BY <3>1, <3>2, <3>3 DEF RowSafe, RowSeen, RowKept, RowHeld
  <2> QED BY <2>1, <2>2
<1>6. LdbRows' /\ SeenRows'
  BY <1>0, <1>5, AtSelf, RowsCarried
<1>7. TxRows' /\ ReadyRows'
  BY <1>0, <1>1 DEF RowsInv, TxRows, ReadyRows, TxGoes
<1> QED BY <1>6, <1>7 DEF RowsInv

(* No file comes back that lies before the metadata's cursor. *)
LEMMA LostStays ==
  ASSUME NEW n, DOMAIN files' \subseteq DOMAIN files \cup {n}, NEW c, gone \ {c} \subseteq gone',
         c.file = n, ldb["cur"] \in Pos, n \in Nat, ldb["cur"].file <= n, ldb' = ldb
  PROVE  LostStay
<1> SUFFICES ASSUME NEW loc \in Loc, Lost(files, gone, ldb["cur"], loc)
             PROVE  Lost(files', gone', ldb["cur"], loc)
  BY DEF LostStay
<1>1. loc.file \in Nat /\ ldb["cur"].file \in Nat /\ loc.file < ldb["cur"].file
  BY LocNat DEF Pos, Lost
<1>2. loc.file # n /\ loc # c
  BY <1>1
<1> QED BY <1>1, <1>2 DEF Lost

LEMMA RowsWrite ==
  ASSUME Sound, RowsInv, WriteBlock \/ WriteFails
  PROVE  RowsInv'
<1>0. /\ FilesOK(files) /\ FilesOK(files') /\ wc \in CursorRec /\ wc' \in CursorRec /\ TxOK
      /\ ldb["cur"] \in Pos /\ View["cur"] \in Pos /\ Cursor(wc) \in Pos /\ Cursor(wc') \in Pos
      /\ state = "open" /\ View' = View
      /\ UNCHANGED <<ldb, state>> /\ tx.pc = "write" /\ CloseDurable
  BY SoundFacts DEF WriteBlock, WriteFails, Sound
<1>1. PICK b \in Block : b = Head(tx.blocks)
  BY <1>0 DEF TxOK, WriteBlock, WriteFails
<1>2. WriteBlock => WriteUnits(b, RecLen) /\ RecLen \in 0..RecLen
  BY <1>1 DEF WriteBlock, RecLen
<1>3. Advances
  BY <1>0, <1>2, WriteAdvances, WriteFailsAdvances
<1>4. /\ AtOrBefore(ldb["cur"], View["cur"]) /\ AtOrBefore(View["cur"], Cursor(wc))
      /\ (wc.open => wc.file \in DOMAIN files)
  BY <1>0 DEF Sound, StoreInv
<1>5. PICK at \in Loc : at = Cursor(Rotate) /\ at.file = Rotate.file /\ at.off = Rotate.off
                        /\ AtOrBefore(Cursor(wc), at)
  BY <1>0, RotateDoes, CursorLoc
<1>6. ldb["cur"].file <= at.file /\ at.file \in Nat /\ at \in Pos
  <2>1. at \in Pos /\ AtOrBefore(ldb["cur"], Cursor(wc))
    BY <1>0, <1>4, AtTrans, LocPos
  <2>2. AtOrBefore(ldb["cur"], at)
    BY <1>0, <1>5, <2>1, AtTrans
  <2> QED BY <1>0, <2>1, <2>2, UptoAt DEF Pos
<1>7. LostStay
  <2>1. gone \ {at} \subseteq gone'
    BY <1>5 DEF WriteBlock, WriteFails
  <2>2. DOMAIN files' \subseteq DOMAIN files \cup {at.file}
    BY <1>3, <1>5 DEF Advances
  <2> QED BY <1>0, <1>6, <2>1, <2>2, LostStays
<1>8. RowsStay(Cursor(wc))
  BY <1>0, <1>3, AdvanceRows
<1>9. LdbRows' /\ SeenRows'
  BY <1>0, <1>4, <1>7, <1>8, StayCarries, RowsCarried
<1>10. CASE WriteFails
  <2>1. tx'.pc = "rollback"
    BY <1>0, <1>10, TxMoves DEF TxGoes
  <2> QED BY <1>9, <2>1 DEF RowsInv, TxRows, ReadyRows
<1>11. CASE WriteBlock
  <2>1. tx'.pc = "write" /\ tx'.keys = PutKey(tx.keys, b, at)
    BY <1>0, <1>1, <1>5, <1>11, TxMoves DEF TxGoes
  <2>2. Rotate.file \in DOMAIN files \/ ~Rotate.open
    BY <1>0, <1>4, RotateDoes
  <2>3. /\ at.file \in DOMAIN files' /\ wc'.off <= Len(files'[at.file].data)
        /\ wc'.file = at.file /\ wc'.off = at.off + RecLen /\ wc'.open
        /\ \A i \in Nat : at.off < i /\ i <= at.off + RecLen => Unit(files'[at.file].data, i) = b
    BY <1>0, <1>2, <1>5, <1>11, <2>2, WriteDoes
  <2>4. /\ RowEnd(at) \in Pos /\ RowEnd(at) = Cursor(wc') /\ at.off \in Nat /\ RecLen = 2
        /\ RowEnd(at).file = at.file /\ RowEnd(at).off = wc'.off
    BY <2>3, RowEndPos DEF RowEnd, Cursor
  <2>5. RowIn(files', at, b)
    BY <2>3, <2>4 DEF RowIn
  <2>6. HeldIn(files', wc', RowEnd(at))
    BY <2>3, <2>4 DEF HeldIn, Writing
  <2>7. AtOrBefore(RowEnd(at), Cursor(wc')) /\ AtOrBefore(Cursor(wc), Cursor(wc'))
    BY <1>3, <2>4, AtSelf DEF Advances
  <2>8. ASSUME NEW k \in Rows(tx'.keys)
        PROVE  AtOrBefore(RowEnd(tx'.keys[k]), Cursor(wc')) /\ RowHeld(files', wc', tx'.keys[k], k)
    <3>1. CASE k = b
      <4>1. tx'.keys[k] = at
        BY <2>1, <3>1 DEF PutKey
      <4> QED BY <2>5, <2>6, <2>7, <3>1, <4>1 DEF RowHeld
    <3>2. CASE k # b
      <4>1. k \in Rows(tx.keys) /\ tx'.keys[k] = tx.keys[k]
        BY <2>1, <2>8, <3>2 DEF PutKey, Rows
      <4>2. PICK loc \in Loc : loc = tx.keys[k] /\ k \in Block
        BY <4>1, RowLoc DEF Sound, TypeInv
      <4>3. AtOrBefore(RowEnd(loc), Cursor(wc)) /\ RowHeld(files, wc, loc, k)
        BY <1>0, <4>1, <4>2 DEF RowsInv, TxRows
      <4>4. AtOrBefore(RowEnd(loc), Cursor(wc')) /\ RowHeld(files', wc', loc, k)
        BY <1>0, <1>8, <2>7, <4>2, <4>3, RowEndPos, AtTrans DEF RowsStay
      <4> QED BY <4>1, <4>2, <4>4
    <3> QED BY <3>1, <3>2
  <2>9. TxRows'
    BY <2>1, <2>8 DEF TxRows
  <2>10. ReadyRows'
    BY <2>1 DEF ReadyRows
  <2> QED BY <1>9, <2>9, <2>10 DEF RowsInv
<1> QED BY <1>10, <1>11

LEMMA RowsRollback ==
  ASSUME Sound, RowsInv, TxRollback
  PROVE  RowsInv'
<1>0. /\ FilesOK(files) /\ wc \in CursorRec /\ TxOK
      /\ ldb["cur"] \in Pos /\ View["cur"] \in Pos /\ tx.old \in Pos /\ tx.old \in Loc
      /\ state = "open" /\ View' = View /\ UNCHANGED <<ldb, state, gone>> /\ tx.pc = "rollback"
      /\ tx' = NoTx
  BY SoundFacts DEF TxRollback, Abort
<1>1. PICK r : files' = r.files /\ wc' = r.wc /\ RolledTo(files, wc, tx.old, r)
  BY TxRollbackDoes DEF Sound
<1>2. /\ AtOrBefore(ldb["cur"], View["cur"]) /\ AtOrBefore(View["cur"], tx.old)
      /\ AtOrBefore(tx.old, Cursor(wc))
  BY <1>0 DEF Sound, StoreInv, TypeInv
<1>3. PICK old \in Loc : old = tx.old /\ old \in Pos
  BY <1>0
<1>4. RowsStay(old)
  BY <1>0, <1>1, <1>2, <1>3, RollbackRows DEF RowsStay
<1>5. ldb["cur"].file <= old.file /\ old.file \in Nat
  BY <1>0, <1>2, <1>3, AtTrans, UptoAt DEF Pos
<1>6. DOMAIN files' \subseteq DOMAIN files \cup {old.file} /\ gone \ {old} \subseteq gone'
  BY <1>0, <1>1, <1>3 DEF RolledTo
<1>7. LostStay
  BY <1>0, <1>5, <1>6, LostStays
<1>8. LdbRows' /\ SeenRows'
  BY <1>0, <1>2, <1>3, <1>4, <1>7, StayCarries, RowsCarried
<1>9. tx'.pc = "idle"
  BY <1>0, NoTxIs
<1> QED BY <1>8, <1>9 DEF RowsInv, TxRows, ReadyRows

(* A flush makes what is seen safe, then leveldb takes it. *)
LEMMA RowsFlush ==
  ASSUME Sound, RowsInv, FlushSync \/ FlushTreaps
  PROVE  RowsInv'
<1>0. /\ FilesOK(files) /\ FilesOK(files') /\ wc \in CursorRec /\ TxOK /\ ldb["cur"] \in Pos
      /\ View["cur"] \in Pos /\ ldb["cur"] \in Loc /\ View["cur"] \in Loc
      /\ Cursor(wc) \in Pos /\ state = "open" /\ View' = View /\ UNCHANGED <<wc, state, gone>>
      /\ tx.pc \in {"commit", "flush"} /\ IsView(View) /\ IsView(tx.keys)
  BY SoundFacts, SeenView DEF FlushSync, FlushTreaps, Sound, TypeInv
<1>1. AtOrBefore(ldb["cur"], View["cur"]) /\ AtOrBefore(View["cur"], Cursor(wc))
  BY <1>0 DEF Sound, StoreInv
<1>2. CASE FlushSync
  <2>1. /\ files' = SyncBlocks(files) /\ ldb' = ldb /\ tx'.keys = tx.keys
        /\ tx'.pc \in {"flush", "direct"} /\ tx.pc = "commit"
    BY <1>0, <1>2, TxMoves DEF FlushSync, TxGoes
  <2>2. \A loc \in Loc, b \in Block :
          /\ RowKept(files, loc, b) => RowKept(files', loc, b)
          /\ RowHeld(files, wc, loc, b) => RowKept(files', loc, b) /\ RowHeld(files', wc, loc, b)
    BY <1>0, <2>1, SyncRows
  <2>3. DOMAIN files' = DOMAIN files
    BY <1>0, <2>1, SyncBlocksDoes DEF SyncOf
  <2>4. LostStay /\ RowsStay(Cursor(wc))
    BY <1>0, <2>1, <2>2, <2>3 DEF LostStay, Lost, RowsStay
  <2>5. LdbRows' /\ SeenRows'
    BY <1>0, <1>1, <2>1, <2>4, StayCarries, RowsCarried
  <2>6. ASSUME NEW b \in Rows(View) PROVE RowSafe(View[b], b)'
    <3>1. PICK loc \in Loc : loc = View[b] /\ b \in Block
      BY <1>0, RowLoc
    <3>2. RowSeen(loc, b)
      BY <1>0, <3>1 DEF RowsInv, SeenRows
    <3>3. RowSafe(loc, b)'
      BY <2>2, <2>4, <3>1, <3>2 DEF RowSeen, RowSafe, LostStay
    <3> QED BY <1>0, <3>1, <3>3 DEF RowSafe
  <2>7. ASSUME NEW b \in Rows(tx.keys)
        PROVE  /\ RowKept(files', tx.keys[b], b) /\ RowHeld(files', wc, tx.keys[b], b)
               /\ AtOrBefore(RowEnd(tx.keys[b]), Cursor(wc))
    <3>1. PICK loc \in Loc : loc = tx.keys[b] /\ b \in Block
      BY <1>0, RowLoc
    <3>2. RowHeld(files, wc, loc, b) /\ AtOrBefore(RowEnd(loc), Cursor(wc))
      BY <2>1, <3>1 DEF RowsInv, TxRows
    <3> QED BY <2>2, <3>1, <3>2
  <2>8. TxRows'
    BY <1>0, <2>1, <2>7 DEF TxRows
  <2>9. ReadyRows'
    BY <1>0, <2>1, <2>6, <2>7 DEF ReadyRows
  <2> QED BY <2>5, <2>8, <2>9 DEF RowsInv
<1>3. CASE FlushTreaps
  <2>1. /\ files' = files /\ ldb' = View /\ tx'.keys = tx.keys /\ tx'.pc = "clear"
        /\ tx.pc = "flush"
    BY <1>0, <1>3, TxMoves DEF FlushTreaps, TxGoes
  <2>2. ASSUME NEW loc \in Loc, Lost(files, gone, ldb["cur"], loc)
        PROVE  Lost(files', gone', ldb'["cur"], loc)
    BY <1>0, <1>1, <2>1, <2>2, UptoAt, LocNat DEF Lost, Pos
  <2>3. ASSUME NEW b \in Rows(View)
        PROVE  /\ AtOrBefore(RowEnd(View[b]), View["cur"])
               /\ RowSafe(View[b], b)' /\ RowSeen(View[b], b)'
    <3>1. PICK loc \in Loc : loc = View[b] /\ b \in Block
      BY <1>0, RowLoc
    <3>2. RowSafe(loc, b) /\ RowSeen(loc, b) /\ AtOrBefore(RowEnd(loc), View["cur"])
      BY <1>0, <2>1, <3>1 DEF RowsInv, ReadyRows, SeenRows
    <3>3. RowSafe(loc, b)' /\ RowSeen(loc, b)'
      BY <1>0, <2>1, <2>2, <3>2 DEF RowSafe, RowSeen
    <3> QED BY <1>0, <3>1, <3>2, <3>3 DEF RowSafe, RowSeen
  <2>4. LdbRows'
    BY <1>0, <2>1, <2>3 DEF LdbRows
  <2>5. SeenRows'
    BY <1>0, <2>3 DEF SeenRows
  <2>6. TxRows'
    BY <1>0, <2>1 DEF RowsInv, TxRows
  <2>7. ReadyRows'
    BY <1>0, <2>1, <2>3 DEF RowsInv, ReadyRows
  <2> QED BY <2>4, <2>5, <2>6, <2>7 DEF RowsInv
<1> QED BY <1>2, <1>3

LEMMA RowsMerge ==
  ASSUME NEW kv, NEW ks, NEW rm, NEW b \in Rows(Merge(kv, ks, rm))
  PROVE  \/ b \in Rows(ks) /\ Merge(kv, ks, rm)[b] = ks[b]
         \/ b \in Rows(kv) /\ b \notin rm /\ b \notin DOMAIN ks /\ Merge(kv, ks, rm)[b] = kv[b]
BY DEF Rows, Merge

LEMMA RowsCommit ==
  ASSUME Sound, RowsInv, CommitCache \/ CommitDirect
  PROVE  RowsInv'
<1>0. /\ FilesOK(files) /\ wc \in CursorRec /\ TxOK /\ ldb["cur"] \in Pos /\ View["cur"] \in Pos
      /\ Cursor(wc) \in Pos /\ state = "open" /\ UNCHANGED <<files, wc, state, gone>> /\ tx' = NoTx
      /\ tx.pc \in {"commit", "direct"} /\ AtomicInv /\ SeenOK' /\ IsView(tx.keys)
      /\ IsView(View) /\ IsView(ldb) /\ tx.remove \subseteq Block
  BY SoundFacts, SeenView DEF CommitCache, CommitDirect, Abort, Sound, AtomicInv, TypeInv
<1>1. /\ AtOrBefore(ldb["cur"], View["cur"]) /\ AtOrBefore(View["cur"], Cursor(wc))
      /\ "cur" \in DOMAIN tx.keys /\ tx.keys["cur"] = Cursor(wc)
  BY <1>0 DEF Sound, StoreInv
<1>2. View' = Merge(View, tx.keys, tx.remove)
  BY <1>0, CommitStep DEF CommitCache, CommitDirect, Abort, SeenOK
<1>3. View'["cur"] = Cursor(wc)
  BY <1>0, <1>1, <1>2, MergeCur
<1>4. ASSUME NEW b \in Rows(tx.keys)
      PROVE  /\ tx.keys[b] \in Loc
             /\ AtOrBefore(RowEnd(tx.keys[b]), Cursor(wc)) /\ RowHeld(files, wc, tx.keys[b], b)
  BY <1>0, RowLoc DEF RowsInv, TxRows
<1>5. ldb' = ldb \/ (tx.pc = "direct" /\ ldb' = Merge(ldb, tx.keys, tx.remove))
  BY DEF CommitCache, CommitDirect
<1>6. /\ ldb'["cur"] = ldb["cur"] \/ ldb'["cur"] = Cursor(wc)
      /\ ldb'["cur"] \in Pos /\ AtOrBefore(ldb["cur"], ldb'["cur"])
  BY <1>0, <1>1, <1>5, MergeCur, AtTrans, AtSelf
<1>7. ASSUME NEW loc \in Loc, Lost(files, gone, ldb["cur"], loc)
      PROVE  Lost(files', gone', ldb'["cur"], loc)
  BY <1>0, <1>6, <1>7, UptoAt, LocNat DEF Lost, Pos
<1>8. SeenRows'
  <2> SUFFICES ASSUME NEW b \in Rows(View')
               PROVE  AtOrBefore(RowEnd(View'[b]), View'["cur"]) /\ RowSeen(View[b], b)'
    BY DEF SeenRows
  <2>1. CASE b \in Rows(tx.keys) /\ View'[b] = tx.keys[b]
    BY <1>0, <1>3, <1>4, <2>1 DEF RowSeen
  <2>2. CASE b \in Rows(View) /\ View'[b] = View[b]
    <3>1. PICK loc \in Loc : loc = View[b] /\ b \in Block
      BY <1>0, <2>2, RowLoc
    <3>2. AtOrBefore(RowEnd(loc), View["cur"]) /\ RowSeen(loc, b) /\ RowEnd(loc) \in Pos
      BY <1>0, <2>2, <3>1, RowEndPos DEF RowsInv, SeenRows
    <3>3. AtOrBefore(RowEnd(loc), Cursor(wc))
      BY <1>0, <1>1, <3>2, AtTrans
    <3>4. RowSeen(loc, b)'
      BY <1>0, <1>7, <3>2 DEF RowSeen
    <3> QED BY <1>3, <2>2, <3>1, <3>3, <3>4 DEF RowSeen
  <2> QED BY <1>2, <2>1, <2>2, RowsMerge
<1>9. LdbRows'
  <2>1. ASSUME NEW b \in Rows(ldb), ldb'[b] = ldb[b]
        PROVE  AtOrBefore(RowEnd(ldb'[b]), ldb'["cur"]) /\ RowSafe(ldb[b], b)'
    <3>1. PICK loc \in Loc : loc = ldb[b] /\ b \in Block
      BY <1>0, <2>1, RowLoc
    <3>2. AtOrBefore(RowEnd(loc), ldb["cur"]) /\ RowSafe(loc, b) /\ RowEnd(loc) \in Pos
      BY <2>1, <3>1, RowEndPos DEF RowsInv, LdbRows
    <3>3. AtOrBefore(RowEnd(loc), ldb'["cur"])
      BY <1>0, <1>6, <3>2, AtTrans
    <3>4. RowSafe(loc, b)'
      BY <1>0, <1>7, <3>2 DEF RowSafe
    <3> QED BY <2>1, <3>1, <3>3, <3>4 DEF RowSafe
  <2>2. CASE ldb' = ldb
    BY <2>1, <2>2 DEF LdbRows
  <2>3. CASE tx.pc = "direct" /\ ldb' = Merge(ldb, tx.keys, tx.remove)
    <3>1. ldb'["cur"] = Cursor(wc)
      BY <1>0, <1>1, <2>3, MergeCur
    <3>2. ASSUME NEW b \in Rows(tx.keys), ldb'[b] = tx.keys[b]
          PROVE  AtOrBefore(RowEnd(ldb'[b]), ldb'["cur"]) /\ RowSafe(ldb[b], b)'
      <4>1. RowKept(files, tx.keys[b], b)
        BY <2>3 DEF RowsInv, ReadyRows
      <4> QED BY <1>0, <1>4, <3>1, <3>2, <4>1 DEF RowSafe
    <3> QED BY <2>1, <2>3, <3>2, RowsMerge DEF LdbRows
  <2> QED BY <1>5, <2>2, <2>3
<1>10. tx'.pc = "idle"
  BY <1>0, NoTxIs
<1> QED BY <1>8, <1>9, <1>10 DEF RowsInv, TxRows, ReadyRows

LEMMA RowsDown ==
  ASSUME Sound, RowsInv, Close \/ Crash
  PROVE  RowsInv'
<1>0. /\ FilesOK(files) /\ wc \in CursorRec /\ ldb["cur"] \in Pos /\ View["cur"] \in Pos
      /\ TxOK /\ state = "open" /\ state' = "down" /\ gone' = gone
      /\ IsView(ldb) /\ IsView(View) /\ AtOrBefore(ldb["cur"], View["cur"])
  BY SoundFacts, SeenView DEF Close, Crash, Sound, StoreInv, TypeInv
<1>1. tx'.pc = "idle"
  BY <1>0, NoTxIs DEF Close, Crash, TxOK
<1>2. LdbRows'
  <2>1. CASE files' = SyncBlocks(files) /\ ldb' = View
    <3>1. DOMAIN files' = DOMAIN files
      BY <1>0, <2>1, SyncBlocksDoes DEF SyncOf
    <3>2. ASSUME NEW b \in Rows(View)
          PROVE  AtOrBefore(RowEnd(View[b]), View["cur"]) /\ RowSafe(ldb[b], b)'
      <4>1. PICK loc \in Loc : loc = View[b] /\ b \in Block
        BY <1>0, RowLoc
      <4>2. AtOrBefore(RowEnd(loc), View["cur"]) /\ RowSeen(loc, b)
        BY <1>0, <4>1 DEF RowsInv, SeenRows
      <4>3. RowHeld(files, wc, loc, b) => RowKept(files', loc, b)
        BY <1>0, <2>1, <4>1, SyncRows
      <4>4. Lost(files, gone, ldb["cur"], loc) => Lost(files', gone', ldb'["cur"], loc)
        BY <1>0, <2>1, <3>1, UptoAt, LocNat DEF Lost, Pos
      <4> QED BY <2>1, <4>1, <4>2, <4>3, <4>4 DEF RowSeen, RowSafe
    <3> QED BY <2>1, <3>2 DEF LdbRows
  <2>2. CASE UNCHANGED <<files, ldb>>
    BY <1>0, <2>2 DEF RowsInv, LdbRows, RowSafe
  <2>3. CASE Crash
    <3>1. /\ DOMAIN files' = DOMAIN files /\ ldb' = ldb /\ FilesOK(files')
          /\ \A n \in DOMAIN files : files'[n] \in Survives(files[n])
      BY <2>3, CrashDoes DEF Sound, Crash
    <3>2. \A n \in DOMAIN files :
            /\ files[n].synced <= files'[n].synced
            /\ \A i \in Nat : 1 <= i /\ i <= files'[n].synced =>
                 Unit(files'[n].data, i) = Unit(files[n].data, i)
      BY <1>0, <3>1, SurvivesDoes DEF FilesOK
    <3>3. ASSUME NEW b \in Rows(ldb)
          PROVE  AtOrBefore(RowEnd(ldb[b]), ldb["cur"]) /\ RowSafe(ldb[b], b)'
      <4>1. PICK loc \in Loc : loc = ldb[b] /\ b \in Block
        BY <1>0, RowLoc
      <4>2. AtOrBefore(RowEnd(loc), ldb["cur"]) /\ RowSafe(loc, b)
        BY <4>1 DEF RowsInv, LdbRows
      <4>3. Lost(files, gone, ldb["cur"], loc) => Lost(files', gone', ldb'["cur"], loc)
        BY <1>0, <3>1 DEF Lost
      <4>4. ASSUME RowKept(files, loc, b) PROVE RowKept(files', loc, b)
        <5>0. /\ RowEnd(loc) \in Pos /\ RowEnd(loc).file = loc.file /\ RecLen = 2
              /\ RowEnd(loc).off = loc.off + RecLen /\ RowEnd(loc) # Zero /\ loc.off \in Nat
          BY RowEndPos
        <5>1. loc.file \in DOMAIN files /\ loc.off + RecLen <= files[loc.file].synced
          BY <4>4, <5>0 DEF RowKept, KeptIn
        <5>2. PICK s \in Nat, t \in Nat :
                s = files[loc.file].synced /\ t = files'[loc.file].synced /\ s <= t
          BY <1>0, <3>1, <3>2, <5>1, FileFacts
        <5>3. loc.off + RecLen <= t
          BY <5>0, <5>1, <5>2
        <5>4. KeptIn(files', RowEnd(loc))
          BY <3>1, <5>0, <5>1, <5>2, <5>3 DEF KeptIn
        <5>5. ASSUME NEW i \in 1..RecLen PROVE Unit(files'[loc.file].data, loc.off + i) = b
          <6>1. PICK k \in Nat : k = loc.off + i /\ 1 <= k /\ k <= t
            BY <5>0, <5>3
          <6>2. Unit(files'[loc.file].data, k) = Unit(files[loc.file].data, k)
            BY <3>2, <5>1, <5>2, <6>1
          <6> QED BY <4>4, <6>1, <6>2 DEF RowKept, RowIn
        <5> QED BY <3>1, <5>1, <5>4, <5>5 DEF RowKept, RowIn
      <4> QED BY <3>1, <4>1, <4>2, <4>3, <4>4 DEF RowSafe
    <3> QED BY <3>1, <3>3 DEF LdbRows
  <2> QED BY <2>1, <2>2, <2>3 DEF Close
<1>3. SeenRows'
  BY <1>0 DEF SeenRows
<1> QED BY <1>1, <1>2, <1>3 DEF RowsInv, TxRows, ReadyRows

LEMMA RowsOpen ==
  ASSUME Sound, RowsInv, Open
  PROVE  RowsInv'
<1>0. /\ FilesOK(files) /\ ldb["cur"] \in Pos /\ ldb["cur"] \in Loc /\ Scanned \in CursorRec
      /\ FilesOK(files') /\ KeptIn(files, ldb["cur"]) /\ UNCHANGED <<ldb, tx, cache, gone>>
      /\ IsView(ldb)
  BY SoundFacts, ScannedDoes DEF Sound, StoreInv, Open, TypeInv
<1>1. AtOrBefore(ldb["cur"], Cursor(Scanned))
  BY <1>0, ScannedBehind DEF Sound
<1>2. PICK r : /\ files' = r.files /\ wc' = r.wc /\ RolledTo(files, Scanned, ldb["cur"], r)
               /\ state' = "open"
  BY <1>1, OpenDoes DEF Sound, AtOrBefore
<1>3. tx'.pc = "idle" /\ View' = ldb'
  BY <1>0, NoTxIs, SeenAfterDown DEF Sound, AtomicInv, SeenOK, Open
<1>4. PICK c \in Loc : c = ldb["cur"] /\ c \in Pos
  BY <1>0
<1>5. LostStay
  <2>1. c.file \in Nat /\ c.file <= c.file
    BY <1>4 DEF Pos
  <2>2. DOMAIN files' \subseteq DOMAIN files \cup {c.file} /\ gone \ {c} \subseteq gone'
    BY <1>0, <1>2, <1>4 DEF RolledTo
  <2> QED BY <1>0, <1>4, <2>1, <2>2, LostStays
<1>6. ASSUME NEW b \in Rows(ldb)
      PROVE  /\ AtOrBefore(RowEnd(ldb[b]), ldb["cur"])
             /\ RowSafe(ldb[b], b)' /\ RowSeen(ldb[b], b)'
  <2>1. PICK loc \in Loc : loc = ldb[b] /\ b \in Block
    BY <1>0, RowLoc
  <2>2. AtOrBefore(RowEnd(loc), ldb["cur"]) /\ RowSafe(loc, b)
    BY <2>1 DEF RowsInv, LdbRows
  <2>3. RowKept(files, loc, b) => RowKept(files', loc, b)
    BY <1>0, <1>1, <1>2, <2>1, <2>2, RollbackRows
  <2>4. RowKept(files', loc, b) => RowHeld(files', wc', loc, b)
    BY <1>0, <2>1, RowHeldKept
  <2>5. RowSafe(loc, b)' /\ RowSeen(loc, b)'
    BY <1>5, <2>2, <2>3, <2>4 DEF RowSafe, RowSeen, LostStay
  <2> QED BY <1>0, <2>1, <2>2, <2>5 DEF RowSafe, RowSeen
<1>7. LdbRows'
  BY <1>0, <1>6 DEF LdbRows
<1>8. SeenRows'
  BY <1>0, <1>3, <1>6 DEF SeenRows, RowSeen
<1> QED BY <1>3, <1>7, <1>8 DEF RowsInv, TxRows, ReadyRows

LEMMA InitRows == Init => RowsInv
<1> SUFFICES ASSUME Init PROVE RowsInv
  OBVIOUS
<1>1. View = ldb
  <2>1. IsMap(ldb)
    BY DEF Init, IsMap
  <2> QED BY <2>1, MergeEmpty, EmptyCacheIs DEF View, Init
<1>2. Rows(ldb) = {}
  BY NoBlockNames DEF Init, Rows
<1>3. tx.pc = "idle"
  BY NoTxIs DEF Init
<1> QED BY <1>1, <1>2, <1>3 DEF RowsInv, LdbRows, SeenRows, TxRows, ReadyRows

LEMMA NextRows ==
  CloseDurable /\ AtomicInv /\ TypeInv /\ StoreInv /\ RowsInv /\ [Next]_vars /\ [PruneBehind]_vars
  => RowsInv'
<1> SUFFICES ASSUME CloseDurable, AtomicInv, TypeInv, StoreInv, RowsInv, [Next]_vars,
                    [PruneBehind]_vars
             PROVE  RowsInv'
  OBVIOUS
<1>0. Sound
  BY NextAtomic, NextTypes DEF Sound
<1>1. CASE UNCHANGED vars
  BY <1>0, <1>1, RowsStill DEF vars
<1>2. ASSUME NEW bs \in BlockSeqs, NEW prune \in BOOLEAN, Update(bs, prune) PROVE RowsInv'
  <2>1. UNCHANGED <<files, wc, ldb, hist, state, gone>>
    BY <1>2 DEF Update
  <2> QED BY <1>0, <1>2, <2>1, RowsStill
<1>3. CASE DeleteFile
  <2>1. PruneBehind \/ UNCHANGED vars
    OBVIOUS
  <2> QED BY <1>0, <1>1, <1>3, <2>1, RowsDelete
<1>4. CASE DeleteFails \/ SavePosition \/ PutCursor \/ FlushClear \/ CommitFails
  <2>1. UNCHANGED <<files, wc, ldb, hist, state, gone>>
    BY <1>4 DEF DeleteFails, SavePosition, PutCursor, FlushClear, CommitFails
  <2> QED BY <1>0, <1>4, <2>1, RowsStill
<1>5. CASE SnapshotLdb \/ SnapshotCache \/ ReadEnd
  <2>1. UNCHANGED <<files, wc, ldb, hist, state, tx, gone>>
    BY <1>5 DEF SnapshotLdb, SnapshotCache, ReadEnd
  <2> QED BY <1>0, <2>1, RowsStill
<1>6. CASE WriteBlock \/ WriteFails
  BY <1>0, <1>6, RowsWrite
<1>7. CASE TxRollback
  BY <1>0, <1>7, RowsRollback
<1>8. CASE FlushSync \/ FlushTreaps
  BY <1>0, <1>8, RowsFlush
<1>9. CASE CommitCache \/ CommitDirect
  BY <1>0, <1>9, RowsCommit
<1>10. CASE Close \/ Crash
  BY <1>0, <1>10, RowsDown
<1>11. CASE Open
  BY <1>0, <1>11, RowsOpen
<1> QED
  BY <1>1, <1>2, <1>3, <1>4, <1>5, <1>6, <1>7, <1>8, <1>9, <1>10, <1>11 DEF Next

------------------------------------------------------------------------------
(* While nothing has failed, only a transaction that is not over has       *)
(* deleted the file of a row.                                              *)

CleanFiles ==
  /\ \A m, n \in DOMAIN files : \A k \in Nat : m <= k /\ k <= n => k \in DOMAIN files
  /\ \A n \in DOMAIN files : n <= wc.file
CleanDel ==
  /\ tx.pc # "delete" => tx.del = <<>>
  /\ \A i \in 1..Len(tx.del) : tx.del[i] \in DOMAIN files /\ tx.del[i] = tx.del[1] + i - 1
  /\ tx.del # <<>> => \A n \in DOMAIN files : tx.del[1] <= n
CleanRows ==
  /\ PrunedRows(View, tx.del) \subseteq tx.remove
  /\ \A b \in Rows(View) : View[b].file \in DOMAIN files \/ b \in tx.remove \cup DOMAIN tx.keys
Clean == state = "open" /\ tx.pc # "rollback" /\ CleanFiles /\ CleanDel /\ CleanRows
CleanInv == faults \in Nat /\ crashes \in Nat /\ (faults + crashes = 0 => Clean)

LEMMA NoPruned ==
  ASSUME NEW v
  PROVE  PrunedRows(v, <<>>) = {}
BY DEF PrunedRows

LEMMA InitClean == Init => CleanInv
<1> SUFFICES ASSUME Init PROVE CleanInv
  OBVIOUS
<1>1. DOMAIN files = {} /\ state = "open" /\ faults = 0 /\ crashes = 0
  BY DEF Init
<1>2. tx.pc = "idle" /\ tx.del = <<>>
  BY NoTxIs DEF Init
<1>3. View = ldb
  <2>1. IsMap(ldb)
    BY DEF Init, IsMap
  <2> QED BY <2>1, MergeEmpty, EmptyCacheIs DEF View, Init
<1>4. Rows(View) = {}
  BY <1>3, NoBlockNames DEF Init, Rows
<1>5. CleanFiles
  BY <1>1 DEF CleanFiles
<1>6. CleanDel
  BY <1>1, <1>2 DEF CleanDel
<1>7. CleanRows
  BY <1>2, <1>4, NoPruned DEF CleanRows
<1> QED BY <1>1, <1>2, <1>5, <1>6, <1>7 DEF CleanInv, Clean

(* Steps that move the transaction on and add or delete no file. *)
LEMMA CleanMove ==
  ASSUME Clean, View' = View, DOMAIN files' = DOMAIN files, UNCHANGED <<wc, state>>,
         NEW p, NEW ks, NEW od, TxGoes(p, ks, tx.remove, od, tx.del),
         p # "rollback", DOMAIN tx.keys \subseteq DOMAIN ks, p # "delete" => tx.del = <<>>
  PROVE  Clean'
<1>1. CleanFiles'
  BY DEF Clean, CleanFiles
<1>2. CleanDel'
  BY DEF Clean, CleanDel, TxGoes
<1>3. CleanRows'
  BY DEF Clean, CleanRows, TxGoes
<1> QED BY <1>1, <1>2, <1>3 DEF Clean, TxGoes

LEMMA CleanUpdate ==
  ASSUME Sound, Clean, NEW bs \in BlockSeqs, NEW prune \in BOOLEAN, Update(bs, prune)
  PROVE  Clean'
<1>0. /\ View' = View /\ UNCHANGED <<files, wc, state>> /\ tx.pc = "idle" /\ tx = NoTx
      /\ FilesOK(files) /\ TypeInv
  BY SoundFacts DEF Update, Sound, TypeInv, TxOK
<1>1. PICK dl : dl = tx'.del
  OBVIOUS
<1>2. /\ TxGoes("delete", PutKey(NoKeys, "tip", Len(hist)), PrunedRows(View, dl), Zero, dl)
      /\ dl \in Seq(Nat) /\ (dl = <<>> \/ dl = PruneBlocks)
  BY <1>0, <1>1, UpdateDoes
<1>3. CleanFiles'
  BY <1>0 DEF Clean, CleanFiles
<1>4. CleanDel'
  <2>1. CASE dl = <<>>
    BY <1>2, <2>1 DEF CleanDel, TxGoes
  <2>2. CASE dl # <<>>
    <3>1. /\ ~NoFiles /\ Len(dl) <= Last - First
          /\ \A i \in 1..Len(dl) : dl[i] = First + i - 1
      BY <1>0, <1>2, <2>2, PruneBlocksDoes
    <3>2. /\ First \in DOMAIN files /\ Last \in DOMAIN files /\ First \in Nat /\ Last \in Nat
          /\ \A n \in DOMAIN files : First <= n
      BY <1>0, <3>1, FirstLast DEF FilesOK
    <3>3. Len(dl) \in Nat /\ Len(dl) >= 1
      BY <1>2, <2>2
    <3>4. dl[1] = First
      BY <3>1, <3>2, <3>3
    <3>5. ASSUME NEW i \in 1..Len(dl) PROVE dl[i] \in DOMAIN files /\ dl[i] = dl[1] + i - 1
      <4>1. dl[i] = First + i - 1 /\ dl[i] \in Nat /\ First <= dl[i] /\ dl[i] <= Last
        BY <3>1, <3>2, <3>3
      <4> QED BY <3>2, <3>4, <4>1 DEF Clean, CleanFiles
    <3> QED BY <1>0, <1>2, <3>2, <3>4, <3>5 DEF CleanDel, TxGoes
  <2> QED BY <2>1, <2>2
<1>5. \A b \in Rows(View) : View[b].file \in DOMAIN files
  BY <1>0, NoTxIs, NoKeysView DEF Clean, CleanRows
<1>6. CleanRows'
  BY <1>0, <1>2, <1>5 DEF CleanRows, TxGoes
<1> QED BY <1>0, <1>2, <1>3, <1>4, <1>6 DEF Clean, TxGoes

LEMMA CleanDelete ==
  ASSUME Sound, Clean, DeleteFile
  PROVE  Clean'
<1>0. /\ View' = View /\ UNCHANGED <<wc, state>> /\ tx.pc = "delete" /\ FilesOK(files)
      /\ tx.del \in Seq(Nat) /\ tx.del # <<>>
  BY SoundFacts DEF DeleteFile, Sound, TypeInv
<1>1. TxGoes("delete", tx.keys, tx.remove, tx.old, Tail(tx.del))
  BY TxMoves DEF Sound, AtomicInv, DeleteFile
<1>2. PICK h : h = Head(tx.del) /\ h = tx.del[1]
  BY <1>0
<1>3. /\ DOMAIN files' = DOMAIN files \ {h} /\ h \in Nat /\ DOMAIN files \subseteq Nat
      /\ h \in DOMAIN files
  <2>1. files' = Without(files, {h}) /\ h \in DOMAIN files
    BY <1>2 DEF DeleteFile
  <2> QED BY <1>0, <2>1, WithoutFiles DEF FilesOK
<1>4. \A n \in DOMAIN files : h <= n
  BY <1>0, <1>2 DEF Clean, CleanDel
<1>5. CleanFiles'
  <2>1. ASSUME NEW m \in DOMAIN files', NEW n \in DOMAIN files', NEW k \in Nat, m <= k, k <= n
        PROVE  k \in DOMAIN files'
    <3>1. k \in DOMAIN files
      BY <1>3, <2>1 DEF Clean, CleanFiles
    <3>2. h # k
      BY <1>3, <1>4, <2>1
    <3> QED BY <1>3, <3>1, <3>2
  <2> QED BY <1>0, <1>3, <2>1 DEF Clean, CleanFiles
<1>6. PICK dl : dl = Tail(tx.del)
  OBVIOUS
<1>7. /\ dl \in Seq(Nat) /\ Len(dl) = Len(tx.del) - 1 /\ Len(tx.del) \in Nat
      /\ \A i \in 1..Len(dl) : dl[i] = tx.del[i + 1]
  BY <1>0, <1>6
<1>8. ASSUME NEW i \in 1..Len(dl)
      PROVE  dl[i] = h + i /\ dl[i] \in DOMAIN files /\ dl[i] \in DOMAIN files'
  <2>1. i + 1 \in 1..Len(tx.del) /\ dl[i] = tx.del[i + 1]
    BY <1>7
  <2>2. dl[i] \in DOMAIN files /\ dl[i] = h + (i + 1) - 1
    BY <1>2, <2>1 DEF Clean, CleanDel
  <2> QED BY <1>3, <2>2
<1>9. CleanDel'
  <2>1. ASSUME NEW i \in 1..Len(dl) PROVE dl[i] \in DOMAIN files' /\ dl[i] = dl[1] + i - 1
    <3>1. 1 \in 1..Len(dl)
      BY <1>7
    <3> QED BY <1>3, <1>8, <3>1
  <2>2. ASSUME dl # <<>>, NEW n \in DOMAIN files' PROVE dl[1] <= n
    <3>1. 1 \in 1..Len(dl)
      BY <1>7, <2>2
    <3>2. dl[1] = h + 1 /\ h <= n /\ n # h /\ n \in Nat
      BY <1>3, <1>4, <1>8, <2>2, <3>1
    <3> QED BY <1>3, <3>2
  <2> QED BY <1>1, <1>6, <2>1, <2>2 DEF CleanDel, TxGoes
<1>10. CleanRows'
  <2>1. PrunedRows(View, dl) \subseteq PrunedRows(View, tx.del)
    <3>1. \A i \in 1..Len(dl) : i + 1 \in 1..Len(tx.del)
      BY <1>7
    <3> QED BY <1>7, <3>1 DEF PrunedRows
  <2>2. ASSUME NEW b \in Rows(View), View[b].file = h PROVE b \in tx.remove
    <3>1. 1 \in 1..Len(tx.del)
      BY <1>0
    <3>2. b \in PrunedRows(View, tx.del)
      BY <1>2, <2>2, <3>1 DEF PrunedRows, Rows
    <3> QED BY <3>2 DEF Clean, CleanRows
  <2>3. /\ tx'.del = dl /\ tx'.remove = tx.remove /\ tx'.keys = tx.keys
        /\ PrunedRows(View, dl) \subseteq tx.remove
    BY <1>1, <1>6, <2>1 DEF TxGoes, Clean, CleanRows
  <2> QED BY <1>0, <1>3, <2>2, <2>3 DEF Clean, CleanRows
<1> QED BY <1>0, <1>1, <1>5, <1>9, <1>10 DEF Clean, TxGoes

LEMMA CleanWrite ==
  ASSUME Sound, Clean, WriteBlock
  PROVE  Clean'
<1>0. /\ View' = View /\ UNCHANGED state /\ tx.pc = "write" /\ FilesOK(files) /\ FilesOK(files')
      /\ wc \in CursorRec /\ TxOK /\ CloseDurable /\ state = "open" /\ tx.del = <<>>
  BY SoundFacts DEF WriteBlock, Sound, Clean, CleanDel
<1>1. PICK b \in Block : b = Head(tx.blocks)
  BY <1>0 DEF TxOK, WriteBlock
<1>2. WriteUnits(b, RecLen) /\ RecLen \in 0..RecLen
  BY <1>1 DEF WriteBlock, RecLen
<1>3. PICK n : n = Rotate.file
  OBVIOUS
<1>4. /\ wc'.file = n /\ DOMAIN files \subseteq DOMAIN files'
      /\ DOMAIN files' \subseteq DOMAIN files \cup {n}
  BY <1>0, <1>2, <1>3, WriteDoes
<1>5. /\ n \in Nat /\ wc.file \in Nat /\ wc.file <= n
      /\ n = wc.file \/ (n = wc.file + 1 /\ wc.off # 0)
  BY <1>0, <1>3, RotateDoes DEF CursorRec
<1>6. /\ DOMAIN files \subseteq Nat /\ DOMAIN files' \subseteq Nat
      /\ \A m \in DOMAIN files : m <= wc.file
  BY <1>0 DEF FilesOK, Clean, CleanFiles
<1>7. n = wc.file + 1 => wc.file \in DOMAIN files
  <2>1. HeldIn(files, wc, Cursor(wc))
    BY <1>0 DEF Sound, StoreInv
  <2>2. n = wc.file + 1 => Cursor(wc) # Zero
    BY <1>5 DEF Cursor, Zero
  <2> QED BY <2>1, <2>2 DEF HeldIn, Cursor
<1>8. CleanFiles'
  <2>1. ASSUME NEW m \in DOMAIN files', NEW l \in DOMAIN files', NEW k \in Nat, m <= k, k <= l
        PROVE  k \in DOMAIN files'
    <3>1. CASE k = n
      BY <1>4, <1>5, <1>6, <2>1, <3>1
    <3>2. CASE k # n /\ l \in DOMAIN files
      <4>1. m \in DOMAIN files
        BY <1>4, <1>5, <1>6, <2>1, <3>2
      <4> QED BY <1>4, <2>1, <3>2, <4>1 DEF Clean, CleanFiles
    <3>3. CASE k # n /\ l = n /\ l \notin DOMAIN files
      <4>1. m \in DOMAIN files /\ m <= wc.file
        BY <1>4, <1>5, <1>6, <2>1, <3>3
      <4>2. CASE n = wc.file + 1
        <5>1. k <= wc.file /\ wc.file \in DOMAIN files
          BY <1>5, <1>7, <2>1, <3>3, <4>2
        <5> QED BY <1>4, <2>1, <4>1, <5>1 DEF Clean, CleanFiles
      <4>3. CASE n = wc.file
        <5>1. HeldIn(files, wc, Cursor(wc))
          BY <1>0 DEF Sound, StoreInv
        <5>2. Cursor(wc) = Zero
          BY <3>3, <4>3, <5>1 DEF HeldIn, Cursor
        <5>3. wc.file = 0
          BY <5>2 DEF Cursor, Zero
        <5> QED BY <1>5, <1>6, <2>1, <3>3, <4>1, <4>3, <5>3
      <4> QED BY <1>5, <4>2, <4>3
    <3> QED BY <1>4, <2>1, <3>1, <3>2, <3>3
  <2>2. \A m \in DOMAIN files' : m <= wc'.file
    BY <1>4, <1>5, <1>6
  <2> QED BY <2>1, <2>2 DEF CleanFiles
<1>9. PICK at : TxGoes("write", PutKey(tx.keys, b, at), tx.remove \ {b}, tx.old, tx.del)
  BY <1>0, <1>1, TxMoves
<1>10. DOMAIN PutKey(tx.keys, b, at) = DOMAIN tx.keys \cup {b}
  BY DEF PutKey
<1>11. CleanDel'
  BY <1>0, <1>9 DEF CleanDel, TxGoes
<1>12. CleanRows'
  BY <1>0, <1>4, <1>9, <1>10, NoPruned DEF Clean, CleanRows, TxGoes
<1> QED BY <1>0, <1>8, <1>9, <1>11, <1>12 DEF Clean, TxGoes

LEMMA CleanCommit ==
  ASSUME Sound, RowsInv, Clean, CommitCache \/ CommitDirect
  PROVE  Clean'
<1>0. /\ state = "open" /\ UNCHANGED <<files, wc, state>> /\ tx' = NoTx
      /\ tx.pc \in {"commit", "direct"} /\ AtomicInv /\ SeenOK'
  BY SoundFacts DEF CommitCache, CommitDirect, Abort, Sound, AtomicInv
<1>1. View' = Merge(View, tx.keys, tx.remove)
  BY <1>0, CommitStep DEF CommitCache, CommitDirect, Abort, SeenOK
<1>2. tx'.pc = "idle" /\ tx'.del = <<>> /\ tx'.keys = NoKeys /\ tx'.remove = {}
  BY <1>0, NoTxIs
<1>3. CleanFiles'
  BY <1>0 DEF Clean, CleanFiles
<1>4. CleanDel'
  BY <1>2 DEF CleanDel
<1>5. ASSUME NEW b \in Rows(View') PROVE View'[b].file \in DOMAIN files
  <2>1. CASE b \in Rows(tx.keys) /\ View'[b] = tx.keys[b]
    BY <1>0, <2>1 DEF RowsInv, TxRows, RowHeld, RowIn
  <2>2. CASE b \in Rows(View) /\ b \notin tx.remove /\ b \notin DOMAIN tx.keys /\ View'[b] = View[b]
    BY <2>2 DEF Clean, CleanRows
  <2> QED BY <1>1, <2>1, <2>2, RowsMerge
<1>6. CleanRows'
  BY <1>0, <1>2, <1>5, NoPruned DEF CleanRows
<1> QED BY <1>0, <1>2, <1>3, <1>4, <1>6 DEF Clean

LEMMA NextClean ==
  CloseDurable /\ AtomicInv /\ TypeInv /\ StoreInv /\ RowsInv /\ CleanInv /\ [Next]_vars => CleanInv'
<1> SUFFICES ASSUME CloseDurable, AtomicInv, TypeInv, StoreInv, RowsInv, CleanInv, [Next]_vars
             PROVE  CleanInv'
  OBVIOUS
<1>0. Sound
  BY NextAtomic, NextTypes DEF Sound
<1>1. TxOK /\ faults \in Nat /\ crashes \in Nat /\ (hist' = hist => View' = View)
      /\ FilesOK(files)
  BY <1>0, SoundFacts DEF CleanInv
<1>2. ASSUME UNCHANGED <<faults, crashes>>, Clean => Clean' PROVE CleanInv'
  BY <1>2 DEF CleanInv
<1>3. CASE UNCHANGED <<files, wc, tx, state, hist, faults, crashes>>
  <2>1. Clean => Clean'
    BY <1>1, <1>3 DEF Clean, CleanFiles, CleanDel, CleanRows
  <2> QED BY <1>2, <1>3, <2>1
<1>4. CASE SnapshotLdb \/ SnapshotCache \/ ReadEnd \/ UNCHANGED vars
  BY <1>3, <1>4 DEF SnapshotLdb, SnapshotCache, ReadEnd, vars
<1>5. ASSUME NEW bs \in BlockSeqs, NEW prune \in BOOLEAN, Update(bs, prune) PROVE CleanInv'
  BY <1>0, <1>2, <1>5, CleanUpdate DEF Update
<1>6. CASE DeleteFile
  BY <1>0, <1>2, <1>6, CleanDelete DEF DeleteFile
<1>7. CASE WriteBlock
  BY <1>0, <1>2, <1>7, CleanWrite DEF WriteBlock
<1>8. CASE CommitCache \/ CommitDirect
  BY <1>0, <1>2, <1>8, CleanCommit DEF CommitCache, CommitDirect
<1>9. CASE SavePosition \/ PutCursor \/ FlushSync \/ FlushTreaps \/ FlushClear
  <2>1. /\ hist' = hist /\ UNCHANGED <<wc, state, faults, crashes>>
        /\ files' = files \/ files' = SyncBlocks(files)
        /\ tx.pc = "delete" => tx.del = <<>>
    BY <1>9 DEF SavePosition, PutCursor, FlushSync, FlushTreaps, FlushClear
  <2>2. DOMAIN files' = DOMAIN files
    BY <1>1, <2>1, SyncBlocksDoes DEF SyncOf
  <2>3. \E p, ks, od : /\ TxGoes(p, ks, tx.remove, od, tx.del) /\ p # "rollback"
                       /\ DOMAIN tx.keys \subseteq DOMAIN ks /\ p # "delete"
    <3>1. CASE SavePosition
      BY <1>1, <3>1, TxMoves
    <3>2. CASE PutCursor
      <4>1. DOMAIN tx.keys \subseteq DOMAIN PutKey(tx.keys, "cur", Cursor(wc))
        BY DEF PutKey
      <4> QED BY <1>1, <3>2, <4>1, TxMoves
    <3>3. CASE FlushSync
      <4>1. PICK p : /\ TxGoes(p, tx.keys, tx.remove, tx.old, tx.del)
                     /\ p = IF cache = EmptyCache THEN "direct" ELSE "flush"
        BY <1>1, <3>3, TxMoves
      <4> QED BY <4>1
    <3>4. CASE FlushTreaps
      BY <1>1, <3>4, TxMoves
    <3>5. CASE FlushClear
      BY <1>1, <3>5, TxMoves
    <3> QED BY <1>9, <3>1, <3>2, <3>3, <3>4, <3>5
  <2>4. PICK p, ks, od : /\ TxGoes(p, ks, tx.remove, od, tx.del) /\ p # "rollback"
                         /\ DOMAIN tx.keys \subseteq DOMAIN ks /\ p # "delete"
    BY <2>3
  <2>5. ASSUME Clean PROVE Clean'
    <3>1. tx.del = <<>>
      BY <2>1, <2>5 DEF Clean, CleanDel
    <3>2. View' = View
      BY <1>1, <2>1
    <3> QED BY <2>1, <2>2, <2>4, <2>5, <3>1, <3>2, CleanMove
  <2> QED BY <1>2, <2>1, <2>5
<1>10. CASE WriteFails \/ CommitFails \/ (DeleteFails /\ Head(tx.del) \in DOMAIN files)
  <2>1. faults' = faults + 1 /\ crashes' = crashes
    BY <1>10 DEF WriteFails, CommitFails, DeleteFails, Fault
  <2> QED BY <1>1, <2>1 DEF CleanInv
<1>11. CASE DeleteFails /\ Head(tx.del) \notin DOMAIN files
  <2>1. UNCHANGED <<faults, crashes>>
    BY <1>11 DEF DeleteFails
  <2>2. ~Clean
    <3>1. tx.del \in Seq(Nat) /\ tx.del # <<>>
      BY <1>11 DEF DeleteFails, TypeInv
    <3>2. 1 \in 1..Len(tx.del) /\ Head(tx.del) = tx.del[1]
      BY <3>1
    <3> QED BY <1>11, <3>2 DEF Clean, CleanDel
  <2> QED BY <1>2, <2>1, <2>2
<1>12. CASE TxRollback \/ Open
  <2>1. ~Clean
    BY <1>12 DEF TxRollback, Open, Clean
  <2>2. crashes' = crashes /\ (faults' = faults \/ faults' = faults + 1)
    BY <1>12 DEF TxRollback, Open
  <2> QED BY <1>1, <2>1, <2>2 DEF CleanInv
<1>13. CASE Close \/ Crash
  <2>1. crashes' = crashes + 1 /\ (faults' = faults \/ faults' = faults + 1)
    BY <1>13 DEF Close, Crash, Fault
  <2> QED BY <1>1, <2>1 DEF CleanInv
<1> QED
  BY <1>4, <1>5, <1>6, <1>7, <1>8, <1>9, <1>10, <1>11, <1>12, <1>13 DEF Next

(* Every block that has a row can be read at its location and is the right *)
(* one, after any sequence of commits, failed writes, rollbacks, crashes   *)
(* and reopenings (writeBlock, handleRollback, reconcileDB), on a system   *)
(* where a closed file is on disk and as long as every prune deletes only  *)
(* files before the flushed cursor's.  Only a prune whose transaction is   *)
(* not over, or failed or was lost, leaves rows of deleted files behind.   *)
THEOREM BlocksReadable == Spec /\ [][PruneBehind]_vars => [](CloseDurable => RowsReadable)
<1> DEFINE Inv == AtomicInv /\ TypeInv /\ (CloseDurable => StoreInv /\ RowsInv /\ CleanInv)
<1>1. Init => Inv
  BY InitAtomic, InitTypes, InitStore, InitRows, InitClean
<1>2. Inv /\ [Next]_vars /\ [PruneBehind]_vars => Inv'
  BY NextAtomic, NextTypes, NextStore, NextRows, NextClean
<1>3. Inv => (CloseDurable => RowsReadable)
  <2> SUFFICES ASSUME Inv, CloseDurable, state = "open", NEW b \in DOMAIN View \cap Block
               PROVE  \/ ReadBlock(View[b], b)
                      \/ View[b] \in gone /\ (tx.pc # "idle" \/ faults + crashes > 0)
    BY DEF RowsReadable
  <2>1. RowSeen(View[b], b) /\ CleanInv /\ TxOK /\ b \in Rows(View)
    BY DEF RowsInv, SeenRows, Rows, AtomicInv
  <2>2. CASE RowHeld(files, wc, View[b], b)
    BY <2>2 DEF RowHeld, RowIn, ReadBlock
  <2>3. CASE Lost(files, gone, ldb["cur"], View[b])
    <3>1. View[b] \in gone /\ View[b].file \notin DOMAIN files
      BY <2>3 DEF Lost
    <3>2. ASSUME tx.pc = "idle" PROVE faults + crashes > 0
      <4>1. tx.remove = {} /\ tx.keys = NoKeys
        BY <2>1, <3>2, NoTxIs DEF TxOK
      <4>2. b \notin tx.remove \cup DOMAIN tx.keys
        BY <4>1, NoKeysView
      <4>3. ~Clean
        BY <2>1, <3>1, <4>2 DEF Clean, CleanRows
      <4> QED BY <2>1, <4>3 DEF CleanInv
    <3> QED BY <3>1, <3>2
  <2> QED BY <2>1, <2>2, <2>3 DEF RowSeen
<1> QED BY <1>1, <1>2, <1>3, PTL DEF Spec

==============================================================================
