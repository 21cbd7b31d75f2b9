------------------------------- MODULE Mempool -------------------------------
(***************************************************************************)
(* The transaction pool (node/mempool/mempool.go, fee_heap.go): the main   *)
(* pool with its spend index, size limit and fee heap, the orphan pool     *)
(* with its index, replacement by fee, and the sync manager's handler of   *)
(* connected and disconnected blocks (node/netsync/manager.go), which      *)
(* calls the pool once per step while other callers come in between.       *)
(*                                                                         *)
(* The chain changes first and tells the handler afterwards; the pool's    *)
(* lock covers one call, so submitters run between the handler's calls.    *)
(* Whether the node is current then depends on the clock and on what the   *)
(* sync peer announces, which are not modelled: it is an input.            *)
(***************************************************************************)
EXTENDS Integers, FiniteSets, Sequences, SequencesExt

CONSTANTS
  Txs,         \* number of transactions
  Base,        \* number of coins that are confirmed from the start
  Ins,         \* the outpoints each transaction spends
  Outs,        \* the number of its outputs
  Fee, Size,
  Explicit,    \* transactions whose sequence numbers signal replacement
  NonStd,      \* transactions that only a block may contain
  Blocks,      \* the transaction lists a block may have
  MaxPool,     \* Policy.MaxMempoolSize, 0 for no limit
  MinFee,      \* the relay fee of a replacement's own size
  MaxOrphans,  \* Policy.MaxOrphanTxs
  MaxReplacementEvictions,
  Tags,        \* peers that send transactions
  MaxBlocks,   \* bound: blocks on the chain
  MaxChanges   \* bound: blocks connected or disconnected

Tx == 1..Txs
Rate(t) == (Fee[t] * 1000) \div Size[t]
OutPoint == {<<0, i>> : i \in 1..Base} \cup UNION {{<<t, i>> : i \in 1..Outs[t]} : t \in Tx}
OutsOf(t) == {<<t, i>> : i \in 1..Outs[t]}
None == 0

ASSUME MempoolAssumption ==
  /\ Txs \in Nat /\ Base \in Nat /\ MaxPool \in Nat /\ MaxOrphans \in Nat /\ MinFee \in Nat
  /\ MaxReplacementEvictions \in Nat /\ MaxChanges \in Nat
  /\ Outs \in [Tx -> Nat] /\ Fee \in [Tx -> Nat] /\ Size \in [Tx -> Nat \ {0}]
  /\ Ins \in [Tx -> SUBSET OutPoint] /\ \A t \in Tx : Ins[t] # {}
  /\ \A t \in Tx : \A o \in Ins[t] : o[1] < t
  /\ Explicit \subseteq Tx /\ NonStd \subseteq Tx
  /\ \A b \in Blocks : b \in Seq(Tx)

VARIABLES
  mp,       \* the pool: see PoolState
  chain,    \* the blocks of the best chain above the base
  note,     \* what is left of handleBlockchainNotification
  todo,     \* processOrphans: outputs whose orphans are to be looked at
  tried,    \* processOrphans: orphans of the first one that stay orphans
  done,     \* processOrphans: the transactions it will clean up after
  changes,
  missed    \* history: a block came in behind the handler's back, see ConnectBlock

vars == <<mp, chain, note, todo, tried, done, changes, missed>>

PoolState ==
  [pool : SUBSET Tx, outpoints : [OutPoint -> Tx \cup {None}],
   heap : SUBSET Tx, poolBytes : Nat, floor : Nat,
   orphans : SUBSET Tx, tag : [Tx -> Tags \cup {None}],
   orphansByPrev : [OutPoint -> SUBSET Tx]]

Init ==
  /\ mp = [pool |-> {}, outpoints |-> [o \in OutPoint |-> None],
           heap |-> {}, poolBytes |-> 0, floor |-> 0,
           orphans |-> {}, tag |-> [t \in Tx |-> None],
           orphansByPrev |-> [o \in OutPoint |-> {}]]
  /\ chain = <<>> /\ note = <<>> /\ todo = <<>> /\ tried = {} /\ done = {}
  /\ changes = 0 /\ missed = FALSE

-----------------------------------------------------------------------------
(* The chain as the pool sees it                                             *)

Confirmed == UNION {ToSet(chain[i]) : i \in DOMAIN chain}
Spent == UNION {Ins[t] : t \in Confirmed}
Utxo == ({<<0, i>> : i \in 1..Base} \cup UNION {OutsOf(t) : t \in Confirmed}) \ Spent

-----------------------------------------------------------------------------
(* The main pool                                                             *)

Redeemers(m, t) == {m.outpoints[o] : o \in OutsOf(t)} \ {None}

\* What can be reached from S: the least set with S that succ does not leave.
Reach(S, succ) ==
  LET closed == {C \in SUBSET DOMAIN succ : S \subseteq C /\ \A t \in C : succ[t] \subseteq C}
  IN {t \in DOMAIN succ : \A C \in closed : t \in C}

\* A set of transactions and what spends them, as far as the index knows.
Spenders(m) == {m.outpoints[o] : o \in OutPoint} \ {None}
Closure(m, S) == Reach(S, [t \in S \cup Spenders(m) |-> Redeemers(m, t)])

\* The sum of the weights of S, counted one by one.
Total(S, weight) == Cardinality(UNION {{t} \X (1..weight[t]) : t \in S})
SizeOf(S) == Total(S, Size)
FeesOf(S) == Total(S, Fee)

\* A mutant of Dropped: the outpoints stay spent.
DroppedSpent(m, S) ==
  LET gone == S \cap m.pool IN
  [m EXCEPT !.pool = @ \ gone, !.heap = @ \ gone, !.poolBytes = @ - SizeOf(gone)]
\* What removeTransaction does for each member of S that is in the pool.
Dropped(m, S) ==
  LET gone == S \cap m.pool IN
  [m EXCEPT !.pool = @ \ gone, !.heap = @ \ gone, !.poolBytes = @ - SizeOf(gone),
            !.outpoints = [o \in OutPoint |->
              IF \E t \in gone : o \in Ins[t] THEN None ELSE @[o]]]

RemoveTransaction(m, t, redeemers) ==
  Dropped(m, IF redeemers THEN Closure(m, {t}) ELSE {t})

RemoveDoubleSpends(m, t) ==
  Dropped(m, Closure(m, {m.outpoints[o] : o \in Ins[t]} \ {None, t}))

AddTransaction(m, t) ==
  [m EXCEPT !.pool = @ \cup {t}, !.heap = @ \cup {t}, !.poolBytes = @ + Size[t],
            !.outpoints = [o \in OutPoint |-> IF o \in Ins[t] THEN t ELSE @[o]]]

\* The order of txFeeRateHeap: equal rates are ordered by hash.
AtOrBelow(t, u) == Rate(t) < Rate(u) \/ (Rate(t) = Rate(u) /\ t <= u)
PopMin(heap) == CHOOSE t \in heap : \A u \in heap : AtOrBelow(t, u)

\* The loop of trimToSize pops the heap until the rest fits, and each one
\* takes its redeemers along: last is the one it stops after.
Evict(m) ==
  LET Left(t) == Dropped(m, Closure(m, {u \in m.heap : AtOrBelow(u, t)}))
      last    == PopMin({t \in m.heap : Left(t).poolBytes <= MaxPool})
  IN [Left(last) EXCEPT !.floor = Rate(last)]

TrimToSize(m) ==
  IF MaxPool = 0 THEN m
  ELSE IF m.poolBytes <= MaxPool THEN [m EXCEPT !.floor = 0]
  ELSE Evict(m)

-----------------------------------------------------------------------------
(* Acceptance                                                                *)

SignalsReplacement(m, t) ==
  LET signals[u \in Tx] ==
        u \in Explicit \/ \E o \in Ins[u] : o[1] \in m.pool /\ signals[o[1]]
  IN signals[t]

Conflicts(m, t) == {m.outpoints[o] : o \in Ins[t]} \ {None}
TxConflicts(m, t) == Closure(m, Conflicts(m, t))

Missing(m, t) == {o \in Ins[t] : o \notin Utxo /\ o[1] \notin m.pool}

\* A mutant of ValidReplacement: it need not pay for what depends on its
\* conflicts.
ValidOverChildren(m, t) ==
  LET C == Conflicts(m, t) IN
  /\ Cardinality(C) <= MaxReplacementEvictions
  /\ \A o \in Ins[t] : o[1] \notin C
  /\ \A c \in C : Rate(t) > Rate(c)
  /\ Fee[t] >= FeesOf(C) + MinFee
ValidReplacement(m, t) ==
  LET C == TxConflicts(m, t)
      parents == UNION {{o[1] : o \in Ins[c]} : c \in C} IN
  /\ Cardinality(C) <= MaxReplacementEvictions
  /\ \A o \in Ins[t] : o[1] \notin C
  /\ \A c \in C : Rate(t) > Rate(c)
  /\ Fee[t] >= FeesOf(C) + MinFee
  /\ \A o \in Ins[t] : o[1] \in m.pool => o[1] \in parents

\* checkMempoolAcceptance, its checks in their order: "ok", "orphan" for
\* missing inputs, or "reject".
CheckMempoolAcceptance(m, t, rejectDupOrphans) ==
  IF \/ t \in m.pool \/ (rejectDupOrphans /\ t \in m.orphans)
     \/ \E c \in Conflicts(m, t) : ~SignalsReplacement(m, c)
     \/ OutsOf(t) \cap Utxo # {}
  THEN "reject"
  ELSE IF Missing(m, t) # {} THEN "orphan"
  ELSE IF \/ t \in NonStd
          \/ MaxPool > 0 /\ m.floor > 0 /\ m.poolBytes >= MaxPool /\ Rate(t) <= m.floor
          \/ Conflicts(m, t) # {} /\ ~ValidReplacement(m, t)
  THEN "reject" ELSE "ok"

\* maybeAcceptTransaction, once the transaction is found acceptable.
Accept(m, t) == TrimToSize(AddTransaction(Dropped(m, TxConflicts(m, t)), t))

-----------------------------------------------------------------------------
(* The orphan pool                                                           *)

OrphanClosure(m, S) ==
  Reach(S, [t \in S \cup UNION {m.orphansByPrev[o] : o \in OutPoint} |->
              UNION {m.orphansByPrev[o] : o \in OutsOf(t)}])

DropOrphans(m, S) ==
  LET gone == S \cap m.orphans IN
  [m EXCEPT !.orphans = @ \ gone,
            !.tag = [t \in Tx |-> IF t \in gone THEN None ELSE @[t]],
            !.orphansByPrev = [o \in OutPoint |-> @[o] \ gone]]

\* removeOrphan: nothing at all for a transaction that is no orphan.
RemoveOrphan(m, t, redeemers) ==
  IF t \notin m.orphans THEN m
  ELSE DropOrphans(m, IF redeemers THEN OrphanClosure(m, {t}) ELSE {t})

RemoveOrphanDoubleSpends(m, S) ==
  DropOrphans(m, OrphanClosure(m, UNION {m.orphansByPrev[o] : o \in UNION {Ins[t] : t \in S}}))

\* limitNumOrphans: what has expired goes, with its redeemers, and then one
\* orphan of the map's choice when there is still no room.
LimitNumOrphans(m) ==
  LET expired == {DropOrphans(m, OrphanClosure(m, E)) : E \in SUBSET m.orphans} IN
  UNION {IF Cardinality(e.orphans) + 1 <= MaxOrphans THEN {e}
         ELSE {RemoveOrphan(e, t, FALSE) : t \in e.orphans} : e \in expired}

AddOrphan(m, t, tag) ==
  IF MaxOrphans = 0 THEN {m}
  ELSE {[l EXCEPT !.orphans = @ \cup {t}, !.tag[t] = tag,
                  !.orphansByPrev = [o \in OutPoint |->
                    IF o \in Ins[t] THEN @[o] \cup {t} ELSE @[o]]] :
          l \in LimitNumOrphans(m)}

-----------------------------------------------------------------------------
(* The pool's operations                                                     *)

Unlocked == todo = <<>> /\ done = {}
Outputs(t) == [i \in 1..Outs[t] |-> <<t, i>>]

\* ProcessTransaction, up to the loop of processOrphans, for a peer (which
\* may send orphans) or for an RPC caller (tag None).
ProcessTransaction(t, tag) ==
  /\ Unlocked
  /\ LET check == CheckMempoolAcceptance(mp, t, TRUE)
         m == Accept(mp, t) IN
     \/ /\ check = "ok" /\ mp' = m
        /\ todo' = IF t \in m.pool THEN Outputs(t) ELSE <<>>
        /\ done' = IF t \in m.pool THEN {t} ELSE {}
     \/ /\ check = "orphan" /\ tag # None
        /\ mp' \in AddOrphan(mp, t, tag)
        /\ UNCHANGED <<todo, done>>
  /\ UNCHANGED <<chain, note, tried, changes, missed>>

\* The loops of processOrphans: an orphan of the first output, in any order of
\* the map, until one is taken or found invalid.  The pool is locked, the chain
\* is not.
ProcessOrphan(t) ==
  /\ todo # <<>> /\ t \in mp.orphansByPrev[Head(todo)] \ tried
  /\ LET check == CheckMempoolAcceptance(mp, t, FALSE)
         m == Accept(mp, t) IN
     \/ /\ check = "orphan"
        /\ tried' = tried \cup {t}
        /\ UNCHANGED <<mp, todo, done>>
     \/ /\ check = "ok" /\ t \in m.pool
        /\ mp' = RemoveOrphan(m, t, FALSE)
        /\ todo' = Tail(todo) \o Outputs(t)
        /\ done' = done \cup {t} /\ tried' = {}
     \/ /\ check = "reject" \/ (check = "ok" /\ t \notin m.pool)
        /\ mp' = RemoveOrphan(IF check = "ok" THEN m ELSE mp, t, TRUE)
        /\ todo' = Tail(todo) /\ tried' = {}
        /\ UNCHANGED done
  /\ UNCHANGED <<chain, note, changes, missed>>

NextOutput ==
  /\ todo # <<>> /\ mp.orphansByPrev[Head(todo)] \subseteq tried
  /\ todo' = Tail(todo) /\ tried' = {}
  /\ UNCHANGED <<mp, chain, note, done, changes, missed>>

ProcessOrphansEnd ==
  /\ todo = <<>> /\ done # {}
  /\ mp' = RemoveOrphanDoubleSpends(mp, done)
  /\ done' = {}
  /\ note' = IF note # <<>> /\ Head(note)[1] = "running" THEN Tail(note) ELSE note
  /\ UNCHANGED <<chain, todo, tried, changes, missed>>

\* A peer is gone.
RemoveOrphansByTag(tag) ==
  /\ Unlocked
  /\ \E t \in Tx : mp.tag[t] = tag
  /\ mp' = DropOrphans(mp, OrphanClosure(mp, {t \in Tx : mp.tag[t] = tag}))
  /\ UNCHANGED <<chain, note, todo, tried, done, changes, missed>>

-----------------------------------------------------------------------------
(* The chain and its notifications                                           *)

\* A mutant of OnConnected: a transaction that was mined is kept.
OnConnectedKeeping(b, current) ==
  [i \in 1..(IF current THEN 3 * Len(b) ELSE 0) |->
     <<<<"doubles", "orphan", "orphans">>[((i - 1) % 3) + 1], b[((i - 1) \div 3) + 1]>>]
\* The calls of handleBlockchainNotification for each kind of change.  It
\* leaves the pool alone when a block is connected and the node is not current.
OnConnected(b, current) ==
  [i \in 1..(IF current THEN 4 * Len(b) ELSE 0) |->
     <<<<"remove", "doubles", "orphan", "orphans">>[((i - 1) % 4) + 1], b[((i - 1) \div 4) + 1]>>]
OnDisconnected(b) == [i \in DOMAIN b |-> <<"accept", b[i]>>]

\* A block is valid where it is connected: each input is there and unspent.
Connectable(b) ==
  /\ \A i \in DOMAIN b :
       /\ b[i] \notin Confirmed
       /\ \A o \in Ins[b[i]] :
            \/ o \in Utxo
            \/ \E j \in 1..(i - 1) : o \in OutsOf(b[j])
  /\ \A i, j \in DOMAIN b : i # j => b[i] # b[j] /\ Ins[b[i]] \cap Ins[b[j]] = {}

Change == note = <<>> /\ changes < MaxChanges /\ changes' = changes + 1

\* current: what sm.current() answers the handler.  "The mempool is empty
\* unless we're caught up", and nothing needs to be done; missed records that
\* it was not.
ConnectBlock(b, current) ==
  /\ Change /\ Len(chain) < MaxBlocks /\ Connectable(b)
  /\ chain' = Append(chain, b) /\ note' = OnConnected(b, current)
  /\ missed' = (missed \/ (~current /\ mp.pool \cup mp.orphans # {}))
  /\ UNCHANGED <<mp, todo, tried, done>>

DisconnectBlock ==
  /\ Change /\ chain # <<>>
  /\ chain' = Front(chain) /\ note' = OnDisconnected(Last(chain))
  /\ UNCHANGED <<mp, todo, tried, done, missed>>

\* A mutant of Reinsert: what depends on a transaction that is not taken
\* back stays.
ReinsertAlone(t) ==
  mp' = IF CheckMempoolAcceptance(mp, t, TRUE) = "ok" THEN Accept(mp, t) ELSE mp
\* A disconnected transaction is accepted again or, when that fails, removed
\* with what depends on it; nothing happens when its inputs are missing.
Reinsert(t) ==
  LET check == CheckMempoolAcceptance(mp, t, TRUE)
      a == Accept(mp, t) IN
  mp' = IF check = "orphan" THEN mp
        ELSE IF check = "reject" THEN RemoveTransaction(mp, t, TRUE)
        ELSE IF t \in a.pool THEN a ELSE RemoveTransaction(a, t, TRUE)

\* One call of the handler; ProcessOrphans goes on in its own actions.
Notify ==
  /\ note # <<>> /\ Unlocked
  /\ LET op == Head(note)[1]
         t  == Head(note)[2] IN
     \/ op = "remove" /\ mp' = RemoveTransaction(mp, t, FALSE)
     \/ op = "doubles" /\ mp' = RemoveDoubleSpends(mp, t)
     \/ op = "orphan" /\ mp' = RemoveOrphan(mp, t, FALSE)
     \/ op = "accept" /\ Reinsert(t)
  /\ note' = Tail(note)
  /\ UNCHANGED <<chain, todo, tried, done, changes, missed>>

NotifyOrphans ==
  /\ note # <<>> /\ Unlocked
  /\ Head(note)[1] = "orphans"
  /\ todo' = Outputs(Head(note)[2]) /\ done' = {Head(note)[2]}
  /\ note' = <<<<"running", Head(note)[2]>>>> \o Tail(note)
  /\ UNCHANGED <<mp, chain, tried, changes, missed>>

-----------------------------------------------------------------------------

Next ==
  \/ \E t \in Tx, tag \in Tags \cup {None} : ProcessTransaction(t, tag)
  \/ \E t \in Tx : ProcessOrphan(t)
  \/ NextOutput \/ ProcessOrphansEnd
  \/ \E tag \in Tags : RemoveOrphansByTag(tag)
  \/ \E b \in Blocks, current \in BOOLEAN : ConnectBlock(b, current)
  \/ DisconnectBlock \/ Notify \/ NotifyOrphans

Spec == Init /\ [][Next]_vars

-----------------------------------------------------------------------------
(* Properties                                                                *)

\* The state has its shape; poolBytes, an unsigned counter, never wraps, and
\* the orphan pool stays within Policy.MaxOrphanTxs.
MempoolTypeOK ==
  /\ mp \in PoolState /\ Cardinality(mp.orphans) <= MaxOrphans
  /\ todo \in Seq(OutPoint) /\ tried \subseteq Tx /\ done \subseteq Tx
  /\ changes \in 0..MaxChanges /\ missed \in BOOLEAN

\* The indexes agree with the pools after every call: outpoints with the
\* inputs of the pool (so that no two of its transactions spend the same
\* coin), orphansByPrev with those of the orphans, the fee heap with the
\* pool, and poolBytes with its size.
IndexesExact ==
  /\ MempoolTypeOK
  /\ \A o \in OutPoint :
       /\ {t \in mp.pool : o \in Ins[t]} = {mp.outpoints[o]} \ {None}
       /\ mp.orphansByPrev[o] = {t \in mp.orphans : o \in Ins[t]}
  /\ mp.heap = mp.pool
  /\ mp.poolBytes = SizeOf(mp.pool)

Settled == note = <<>> /\ Unlocked

\* manager.go:1628 and :1669: between notifications every transaction of the
\* pool could be mined after its ancestors: each input is an unspent coin of
\* the chain or an output of another pool transaction, although submitters
\* came in while the chain was ahead of the pool.  It is claimed while every
\* block that the handler ignored found the pool empty.
InputsAvailable ==
  Settled /\ ~missed => \A t \in mp.pool : \A o \in Ins[t] : o \in Utxo \/ o[1] \in mp.pool

\* An output of t that no block spends.  fetchInputUtxos knows a confirmed
\* transaction by its unspent outputs, so that one without any may be kept as
\* an orphan.
Lasting(t) == \E o \in OutsOf(t) : \A b \in Blocks : \A i \in DOMAIN b : o \notin Ins[b[i]]

\* A settled pool holds no transaction that the chain has confirmed, and no
\* orphan is one that can be recognized, although confirmed transactions are
\* sent again at any time.  It, too, is claimed while every block that the
\* handler ignored found the pool empty.
NotConfirmed ==
  Settled /\ ~missed => /\ mp.pool \cap Confirmed = {}
                        /\ \A t \in mp.orphans \cap Confirmed : ~Lasting(t)

\* Replacement pays: a submitted transaction or an orphan that pushes others
\* out leaves the pool with more fees than before, unless trimToSize evicted.
ReplacementPays ==
  [][chain' = chain /\ note' = note /\ mp'.pool # mp.pool /\ mp'.floor = 0 =>
       FeesOf(mp'.pool) > FeesOf(mp.pool)]_vars

-----------------------------------------------------------------------------
(* What the documentation says, and the code does not do                     *)

\* manager.go:1612: "The mempool is empty and the fee estimator is useless
\* unless we're caught up": a block that the handler ignores finds it empty.
PoolEmptyBehind == ~missed
=============================================================================
