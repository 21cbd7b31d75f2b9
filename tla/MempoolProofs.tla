---------------------------- MODULE MempoolProofs ----------------------------
(***************************************************************************)
(* The transaction pool, for every set of transactions, pool size, orphan  *)
(* limit and sequence of chain changes: its indexes are exact, it holds no *)
(* confirmed transaction and none that cannot be mined once the chain's    *)
(* notifications are handled, unless the handler ignored a block while the *)
(* pool was not empty, and replacements pay.                               *)
(***************************************************************************)
EXTENDS Mempool, FiniteSetTheorems, SequenceTheorems, WellFoundedInduction, TLAPS

\* A block holds no transaction together with one that spends it.
Independent == \A b \in Blocks : \A i, j \in DOMAIN b : Ins[b[j]] \cap OutsOf(b[i]) = {}

\* No block was ignored that mattered, and blocks are independent.
Sound == ~missed /\ Independent

\* The indexes of m agree with its pools.
Exact(m) ==
  /\ m \in PoolState /\ Cardinality(m.orphans) <= MaxOrphans
  /\ \A o \in OutPoint :
       /\ {t \in m.pool : o \in Ins[t]} = {m.outpoints[o]} \ {None}
       /\ m.orphansByPrev[o] = {t \in m.orphans : o \in Ins[t]}
  /\ m.heap = m.pool /\ m.poolBytes = SizeOf(m.pool)

LoopOK ==
  /\ todo \in Seq(OutPoint) /\ tried \subseteq Tx /\ done \subseteq Tx
  /\ changes \in 0..MaxChanges /\ missed \in BOOLEAN

\* Every block was valid where it was connected.
ValidChain(c) ==
  /\ c \in Seq(Blocks)
  /\ \A k \in DOMAIN c : \A i \in DOMAIN c[k] : \A o \in Ins[c[k][i]] :
       o[1] = 0 \/ \E l \in 1..k : \E j \in DOMAIN c[l] : o \in OutsOf(c[l][j])
  /\ \A k, l \in DOMAIN c : \A i \in DOMAIN c[k], j \in DOMAIN c[l] :
       k < l => c[k][i] # c[l][j] /\ Ins[c[k][i]] \cap Ins[c[l][j]] = {}
ChainOK == ValidChain(chain)

Pending(op, t) == \E i \in DOMAIN note : note[i] = <<op, t>>

\* What is left to be called: a transaction is removed before what conflicts
\* with it, and before those of its block that spend it.
Op == {"remove", "doubles", "orphan", "orphans", "running", "accept"}
CallOK(n, i, op, t) ==
  /\ op \in {"remove", "doubles"} => t \in Confirmed
  /\ op = "remove" =>
       /\ \E j \in DOMAIN n : j > i /\ n[j] = <<"doubles", t>>
       /\ \A c \in Confirmed : Ins[c] \cap OutsOf(t) # {} =>
            \E j \in DOMAIN n : j > i /\ n[j] = <<"remove", c>>
  /\ op = "doubles" => \A j \in DOMAIN n : j > i => n[j] # <<"remove", t>>
  /\ op = "accept" /\ Independent => Ins[t] \subseteq Utxo
NoteOK ==
  note \in Seq(Op \X Tx) /\ \A i \in DOMAIN note : CallOK(note, i, note[i][1], note[i][2])

\* What is confirmed and still in a pool will be removed.
ConfirmedOK(m) == ~missed =>
  /\ \A t \in m.pool \cap Confirmed : Pending("remove", t)
  /\ \A t \in m.orphans \cap Confirmed : Lasting(t) => Pending("orphan", t)

\* An input that is not there will be dealt with.
Answered(m, o) ==
  \/ o \in Utxo \/ o[1] \in m.pool
  \/ \E c \in Tx : Pending("doubles", c) /\ o \in Ins[c]
  \/ Pending("accept", o[1])
InputsOK(m) == Sound => \A t \in m.pool : \A o \in Ins[t] : Answered(m, o)

Good(m) == Exact(m) /\ ConfirmedOK(m) /\ InputsOK(m)

PoolInv == Good(mp) /\ LoopOK /\ ChainOK /\ NoteOK

-----------------------------------------------------------------------------
(* Sets of numbers and sums                                                  *)

LEMMA LeastOf ==
  ASSUME NEW S, S \subseteq Nat, S # {}
  PROVE  \E n \in S : \A m \in S : n <= m
<1> DEFINE R == OpToRel(<, Nat)
<1>1. PICK x \in S : \A y \in S : <<y, x>> \notin R
  BY NatLessThanWellFounded, WFMin, Zenon
<1>2. \A y \in S : y \in Nat /\ x \in Nat /\ ~(y < x)
  BY <1>1 DEF OpToRel
<1> QED BY <1>2

\* A transaction set is finite.
LEMMA TxFinite ==
  ASSUME NEW S, S \subseteq Tx
  PROVE  IsFiniteSet(S) /\ Cardinality(S) \in Nat /\ Cardinality(S) <= Txs
<1>1. IsFiniteSet(Tx) /\ Cardinality(Tx) <= Txs
  BY FS_Interval, MempoolAssumption DEF Tx
<1>2. IsFiniteSet(S) /\ Cardinality(S) <= Cardinality(Tx)
  BY <1>1, FS_Subset
<1>3. Cardinality(S) \in Nat /\ Cardinality(Tx) \in Nat
  BY <1>1, <1>2, FS_CardinalityType
<1> QED BY <1>1, <1>2, <1>3, MempoolAssumption

Units(S, weight) == UNION {{t} \X (1..weight[t]) : t \in S}

LEMMA TotalUnits ==
  ASSUME NEW S, NEW weight
  PROVE  Total(S, weight) = Cardinality(Units(S, weight))
BY DEF Total, Units

LEMMA UnitsFinite ==
  ASSUME NEW S, S \subseteq Tx, NEW weight \in [Tx -> Nat]
  PROVE  IsFiniteSet(Units(S, weight)) /\ Total(S, weight) \in Nat
<1> DEFINE U == {{t} \X (1..weight[t]) : t \in S}
           f == [t \in S |-> {t} \X (1..weight[t])]
<1>1. IsFiniteSet(S)
  BY TxFinite
<1>2. f \in Surjection(S, U)
  BY DEF Surjection
<1>3. IsFiniteSet(U)
  BY <1>1, <1>2, FS_Surjection
<1>4. ASSUME NEW T \in U PROVE IsFiniteSet(T)
  <2>1. PICK t \in S : T = {t} \X (1..weight[t])
    BY <1>4
  <2>2. IsFiniteSet({t})
    BY FS_Singleton
  <2>3. weight[t] \in Nat
    OBVIOUS
  <2>4. IsFiniteSet(1..weight[t])
    BY <2>3, FS_Interval
  <2> QED BY <2>1, <2>2, <2>4, FS_Product
<1>5. IsFiniteSet(UNION U)
  BY <1>3, <1>4, FS_UNION
<1> QED BY <1>5, FS_CardinalityType DEF Units, Total

LEMMA TotalSplit ==
  ASSUME NEW S, NEW T, S \subseteq Tx, T \subseteq Tx, S \cap T = {}, NEW weight \in [Tx -> Nat]
  PROVE  Total(S \cup T, weight) = Total(S, weight) + Total(T, weight)
<1>1. IsFiniteSet(Units(S, weight)) /\ IsFiniteSet(Units(T, weight))
  BY UnitsFinite
<1>2. Units(S \cup T, weight) = Units(S, weight) \cup Units(T, weight)
  BY DEF Units
<1>3. Units(S, weight) \cap Units(T, weight) = {}
  BY DEF Units
<1>4. Cardinality(Units(S, weight) \cup Units(T, weight)) =
        Cardinality(Units(S, weight)) + Cardinality(Units(T, weight)) - Cardinality({})
  BY <1>1, <1>3, FS_Union
<1>5. Total(S, weight) \in Nat /\ Total(T, weight) \in Nat
  BY UnitsFinite
<1>6. Total(S \cup T, weight) = Cardinality(Units(S, weight) \cup Units(T, weight))
  BY <1>2, TotalUnits, Zenon
<1>7. Total(S, weight) = Cardinality(Units(S, weight)) /\ Total(T, weight) = Cardinality(Units(T, weight))
  BY TotalUnits
<1> QED BY <1>4, <1>5, <1>6, <1>7, FS_EmptySet

LEMMA TotalOne ==
  ASSUME NEW t \in Tx, NEW weight \in [Tx -> Nat]
  PROVE  Total({t}, weight) = weight[t] /\ Total({}, weight) = 0
<1>1. IsFiniteSet({t}) /\ Cardinality({t}) = 1
  BY FS_Singleton
<1>2. IsFiniteSet(1..weight[t]) /\ Cardinality(1..weight[t]) = weight[t]
  BY FS_Interval
<1>3. Cardinality({t} \X (1..weight[t])) = 1 * weight[t]
  <2> DEFINE I == 1..weight[t]
  <2>1. IsFiniteSet(I) /\ Cardinality(I) = weight[t]
    BY <1>2
  <2> HIDE DEF I
  <2>2. Cardinality({t} \X I) = Cardinality({t}) * Cardinality(I)
    BY <1>1, <2>1, FS_Product, Zenon
  <2> QED BY <1>1, <2>1, <2>2, Zenon DEF I
<1>4. UNION {{u} \X (1..weight[u]) : u \in {t}} = {t} \X (1..weight[t])
  OBVIOUS
<1>5. UNION {{u} \X (1..weight[u]) : u \in {}} = {}
  OBVIOUS
<1>6. Total({t}, weight) = 1 * weight[t] /\ Total({}, weight) = 0
  BY <1>3, <1>4, <1>5, FS_EmptySet, Zenon DEF Total
<1>7. weight[t] \in Nat
  OBVIOUS
<1> QED BY <1>6, <1>7

\* What is taken away from a set is taken away from its sum.
LEMMA TotalLess ==
  ASSUME NEW S, NEW T, S \subseteq Tx, T \subseteq S, NEW weight \in [Tx -> Nat]
  PROVE  /\ Total(S \ T, weight) = Total(S, weight) - Total(T, weight)
         /\ Total(T, weight) <= Total(S, weight)
<1>1. Total((S \ T) \cup T, weight) = Total(S \ T, weight) + Total(T, weight)
  BY TotalSplit
<1>2. (S \ T) \cup T = S
  OBVIOUS
<1>3. Total(S \ T, weight) \in Nat /\ Total(T, weight) \in Nat /\ Total(S, weight) \in Nat
  BY UnitsFinite
<1>4. Total(S, weight) = Total(S \ T, weight) + Total(T, weight)
  BY <1>1, <1>2, Zenon
<1> QED BY <1>3, <1>4

-----------------------------------------------------------------------------
(* What can be reached                                                       *)

LEMMA ReachFacts ==
  ASSUME NEW S, NEW succ, S \subseteq DOMAIN succ,
         \A t \in DOMAIN succ : succ[t] \subseteq DOMAIN succ
  PROVE  /\ S \subseteq Reach(S, succ) /\ Reach(S, succ) \subseteq DOMAIN succ
         /\ \A t \in Reach(S, succ) : succ[t] \subseteq Reach(S, succ)
BY DEF Reach

LEMMA OutsFacts ==
  ASSUME NEW t \in Tx
  PROVE  /\ OutsOf(t) \subseteq OutPoint /\ Ins[t] \subseteq OutPoint /\ Ins[t] # {}
         /\ \A o \in OutsOf(t) : o[1] = t
         /\ t # None /\ t \in Nat
<1>1. Ins[t] \subseteq OutPoint /\ Ins[t] # {}
  BY MempoolAssumption
<1>2. OutsOf(t) \subseteq OutPoint
  BY DEF OutsOf, OutPoint
<1>3. \A o \in OutsOf(t) : o[1] = t
  BY DEF OutsOf
<1>4. t # None /\ t \in Nat
  BY MempoolAssumption DEF Tx, None
<1> QED BY <1>1, <1>2, <1>3, <1>4

LEMMA OutPointFacts ==
  ASSUME NEW o \in OutPoint
  PROVE  /\ o[1] \in Tx => o \in OutsOf(o[1])
         /\ o[1] \in Tx \/ o[1] = 0
         /\ 0 \notin Tx
BY MempoolAssumption DEF OutsOf, OutPoint, Tx

-----------------------------------------------------------------------------
(* The main pool                                                             *)

LEMMA ExactTypes ==
  ASSUME NEW m, Exact(m)
  PROVE  /\ m.pool \subseteq Tx /\ m.outpoints \in [OutPoint -> Tx \cup {None}]
         /\ m.heap = m.pool /\ m.poolBytes \in Nat /\ m.poolBytes = SizeOf(m.pool) /\ m.floor \in Nat
         /\ m.orphans \subseteq Tx /\ m.tag \in [Tx -> Tags \cup {None}]
         /\ m.orphansByPrev \in [OutPoint -> SUBSET Tx]
         /\ Cardinality(m.orphans) <= MaxOrphans /\ m \in PoolState
BY DEF Exact, PoolState

\* A pool state with another main pool is a pool state.
LEMMA WithPool ==
  ASSUME NEW m \in PoolState, NEW P \in SUBSET Tx, NEW H \in SUBSET Tx, NEW b \in Nat,
         NEW f \in [OutPoint -> Tx \cup {None}], NEW n,
         n = [m EXCEPT !.pool = P, !.heap = H, !.poolBytes = b, !.outpoints = f]
  PROVE  n \in PoolState
BY DEF PoolState

\* outpoints names the one transaction of the pool that spends an outpoint.
LEMMA ExactIndex ==
  ASSUME NEW m, Exact(m), NEW o \in OutPoint
  PROVE  /\ \A t \in m.pool : o \in Ins[t] <=> m.outpoints[o] = t
         /\ m.outpoints[o] # None => m.outpoints[o] \in m.pool /\ o \in Ins[m.outpoints[o]]
         /\ m.orphansByPrev[o] = {t \in m.orphans : o \in Ins[t]}
<1>1. {t \in m.pool : o \in Ins[t]} = {m.outpoints[o]} \ {None} /\ m.pool \subseteq Tx
  BY ExactTypes DEF Exact
<1>2. \A t \in m.pool : t # None
  BY <1>1, OutsFacts
<1>3. m.orphansByPrev[o] = {t \in m.orphans : o \in Ins[t]}
  BY DEF Exact
<1> QED BY <1>1, <1>2, <1>3

\* To show that m is exact it is enough to look at one outpoint at a time.
LEMMA IsExact ==
  ASSUME NEW m, m \in PoolState, m.heap = m.pool, m.poolBytes = SizeOf(m.pool),
         Cardinality(m.orphans) <= MaxOrphans,
         \A o \in OutPoint :
           /\ \A t \in m.pool : o \in Ins[t] => m.outpoints[o] = t
           /\ m.outpoints[o] # None => m.outpoints[o] \in m.pool /\ o \in Ins[m.outpoints[o]]
           /\ m.orphansByPrev[o] = {t \in m.orphans : o \in Ins[t]}
  PROVE  Exact(m)
<1>1. m.pool \subseteq Tx
  BY DEF PoolState
<1>2. \A t \in m.pool : t # None
  BY <1>1, OutsFacts
<1>3. ASSUME NEW o \in OutPoint
      PROVE  {t \in m.pool : o \in Ins[t]} = {m.outpoints[o]} \ {None}
  BY <1>2, <1>3
<1> QED BY <1>3 DEF Exact

\* From m to n the orphans stay as they are.
SameOrphans(m, n) ==
  n.orphans = m.orphans /\ n.tag = m.tag /\ n.orphansByPrev = m.orphansByPrev

LEMMA DroppedFacts ==
  ASSUME NEW m, Exact(m), NEW S
  PROVE  LET n == Dropped(m, S) IN
         /\ Exact(n) /\ n.pool = m.pool \ S /\ n.floor = m.floor /\ SameOrphans(m, n)
<1> DEFINE gone == S \cap m.pool
           n == Dropped(m, S)
           index == [o \in OutPoint |-> IF \E t \in gone : o \in Ins[t] THEN None ELSE m.outpoints[o]]
<1>1. /\ m.pool \subseteq Tx /\ m.outpoints \in [OutPoint -> Tx \cup {None}]
      /\ m.heap = m.pool /\ m.poolBytes \in Nat /\ m.poolBytes = SizeOf(m.pool) /\ m \in PoolState
  BY ExactTypes
<1>2. n = [m EXCEPT !.pool = m.pool \ gone, !.heap = m.heap \ gone,
                    !.poolBytes = m.poolBytes - SizeOf(gone), !.outpoints = index]
  BY DEF Dropped
<1>3. m.poolBytes - SizeOf(gone) = SizeOf(m.pool \ gone) /\ SizeOf(m.pool \ gone) \in Nat
  <2>1. Size \in [Tx -> Nat]
    BY MempoolAssumption
  <2> QED BY <1>1, <2>1, TotalLess, UnitsFinite DEF SizeOf
<1>4. index \in [OutPoint -> Tx \cup {None}]
  BY <1>1
<1> HIDE DEF index, gone
<1>5. /\ n.pool = m.pool \ gone /\ n.heap = m.heap \ gone /\ n.poolBytes = m.poolBytes - SizeOf(gone)
      /\ n.outpoints = index /\ n.floor = m.floor /\ SameOrphans(m, n)
  BY <1>1, <1>2 DEF PoolState, SameOrphans
<1>6. n \in PoolState
  <2>1. m.pool \ gone \in SUBSET Tx /\ m.heap \ gone \in SUBSET Tx /\ m.poolBytes - SizeOf(gone) \in Nat
    BY <1>1, <1>3
  <2> QED BY <1>1, <1>2, <1>4, <2>1, WithPool, Zenon
<1> HIDE DEF n
<1>7. ASSUME NEW o \in OutPoint
      PROVE  /\ \A t \in n.pool : o \in Ins[t] => n.outpoints[o] = t
             /\ n.outpoints[o] # None => n.outpoints[o] \in n.pool /\ o \in Ins[n.outpoints[o]]
             /\ n.orphansByPrev[o] = {t \in n.orphans : o \in Ins[t]}
  <2>1. /\ \A t \in m.pool : o \in Ins[t] <=> m.outpoints[o] = t
        /\ m.outpoints[o] # None => m.outpoints[o] \in m.pool /\ o \in Ins[m.outpoints[o]]
        /\ m.orphansByPrev[o] = {t \in m.orphans : o \in Ins[t]}
    BY <1>7, ExactIndex
  <2>2. n.outpoints[o] = IF \E t \in gone : o \in Ins[t] THEN None ELSE m.outpoints[o]
    BY <1>5 DEF index
  <2>3. gone \subseteq m.pool
    BY DEF gone
  <2> QED BY <1>5, <2>1, <2>2, <2>3 DEF SameOrphans
<1>8. n.heap = n.pool /\ n.poolBytes = SizeOf(n.pool)
  BY <1>1, <1>3, <1>5, Zenon
<1>9. Cardinality(n.orphans) <= MaxOrphans
  BY <1>5, ExactTypes DEF SameOrphans
<1>10. Exact(n)
  BY <1>6, <1>7, <1>8, <1>9, IsExact
<1>11. m.pool \ gone = m.pool \ S
  BY DEF gone
<1> QED BY <1>5, <1>10, <1>11 DEF n

\* The descendants of S in the pool: nothing that is left spends them.
LEMMA ClosureFacts ==
  ASSUME NEW m, Exact(m), NEW S, S \subseteq Tx
  PROVE  /\ S \subseteq Closure(m, S) /\ Closure(m, S) \subseteq S \cup m.pool
         /\ \A t \in Closure(m, S), u \in m.pool :
              Ins[u] \cap OutsOf(t) # {} => u \in Closure(m, S)
<1> DEFINE succ == [t \in S \cup Spenders(m) |-> Redeemers(m, t)]
<1>1. Spenders(m) \subseteq m.pool /\ m.pool \subseteq Tx
  BY ExactIndex, ExactTypes DEF Spenders
<1>2. ASSUME NEW t \in Tx
      PROVE  /\ Redeemers(m, t) \subseteq Spenders(m)
             /\ \A u \in m.pool : Ins[u] \cap OutsOf(t) # {} => u \in Redeemers(m, t)
  <2>1. OutsOf(t) \subseteq OutPoint
    BY <1>2, OutsFacts
  <2>2. Redeemers(m, t) \subseteq Spenders(m)
    BY <2>1 DEF Redeemers, Spenders
  <2>3. ASSUME NEW u \in m.pool, NEW o \in OutsOf(t), o \in Ins[u]
        PROVE  u \in Redeemers(m, t)
    <3>1. m.outpoints[o] = u
      BY <2>1, <2>3, ExactIndex
    <3>2. u # None
      BY <1>1, OutsFacts
    <3> QED BY <3>1, <3>2, <2>3 DEF Redeemers
  <2> QED BY <2>2, <2>3
<1>3. /\ S \subseteq DOMAIN succ /\ DOMAIN succ = S \cup Spenders(m) /\ DOMAIN succ \subseteq Tx
      /\ \A t \in DOMAIN succ : succ[t] = Redeemers(m, t)
  BY <1>1
<1>4. \A t \in DOMAIN succ : succ[t] \subseteq DOMAIN succ
  BY <1>2, <1>3
<1>5. Closure(m, S) = Reach(S, succ)
  BY DEF Closure
<1> HIDE DEF succ
<1>6. /\ S \subseteq Reach(S, succ) /\ Reach(S, succ) \subseteq DOMAIN succ
      /\ \A t \in Reach(S, succ) : succ[t] \subseteq Reach(S, succ)
  BY <1>3, <1>4, ReachFacts
<1> QED BY <1>1, <1>2, <1>3, <1>5, <1>6

LEMMA AddFacts ==
  ASSUME NEW m, Exact(m), NEW t \in Tx, t \notin m.pool,
         \A u \in m.pool : Ins[u] \cap Ins[t] = {}
  PROVE  LET n == AddTransaction(m, t) IN
         /\ Exact(n) /\ n.pool = m.pool \cup {t} /\ n.floor = m.floor /\ SameOrphans(m, n)
<1> DEFINE n == AddTransaction(m, t)
           index == [o \in OutPoint |-> IF o \in Ins[t] THEN t ELSE m.outpoints[o]]
<1>1. /\ m.pool \subseteq Tx /\ m.outpoints \in [OutPoint -> Tx \cup {None}]
      /\ m.heap = m.pool /\ m.poolBytes \in Nat /\ m.poolBytes = SizeOf(m.pool) /\ m \in PoolState
  BY ExactTypes
<1>2. n = [m EXCEPT !.pool = m.pool \cup {t}, !.heap = m.heap \cup {t},
                    !.poolBytes = m.poolBytes + Size[t], !.outpoints = index]
  BY DEF AddTransaction
<1>3. m.poolBytes + Size[t] = SizeOf(m.pool \cup {t}) /\ m.poolBytes + Size[t] \in Nat
  <2>1. Size \in [Tx -> Nat]
    BY MempoolAssumption
  <2>2. SizeOf({t}) = Size[t] /\ Size[t] \in Nat
    BY <2>1, TotalOne DEF SizeOf
  <2>3. m.pool \cap {t} = {} /\ {t} \subseteq Tx
    OBVIOUS
  <2>4. SizeOf(m.pool \cup {t}) = SizeOf(m.pool) + SizeOf({t})
    BY <1>1, <2>1, <2>3, TotalSplit DEF SizeOf
  <2> QED BY <1>1, <2>2, <2>4
<1>4. index \in [OutPoint -> Tx \cup {None}]
  BY <1>1
<1> HIDE DEF index
<1>5. /\ n.pool = m.pool \cup {t} /\ n.heap = m.heap \cup {t} /\ n.poolBytes = m.poolBytes + Size[t]
      /\ n.outpoints = index /\ n.floor = m.floor /\ SameOrphans(m, n)
  BY <1>1, <1>2 DEF PoolState, SameOrphans
<1>6. n \in PoolState
  <2>1. m.pool \cup {t} \in SUBSET Tx /\ m.heap \cup {t} \in SUBSET Tx /\ m.poolBytes + Size[t] \in Nat
    BY <1>1, <1>3
  <2>2. m \in PoolState
    BY <1>1
  <2>3. PICK P \in SUBSET Tx, H \in SUBSET Tx, b \in Nat :
          P = m.pool \cup {t} /\ H = m.heap \cup {t} /\ b = m.poolBytes + Size[t]
    BY <2>1
  <2>4. n = [m EXCEPT !.pool = P, !.heap = H, !.poolBytes = b, !.outpoints = index]
    BY <1>2, <2>3, Zenon
  <2> QED BY <1>4, <2>4, <2>2, WithPool, Zenon
<1> HIDE DEF n
<1>7. ASSUME NEW o \in OutPoint
      PROVE  /\ \A u \in n.pool : o \in Ins[u] => n.outpoints[o] = u
             /\ n.outpoints[o] # None => n.outpoints[o] \in n.pool /\ o \in Ins[n.outpoints[o]]
             /\ n.orphansByPrev[o] = {u \in n.orphans : o \in Ins[u]}
  <2>1. /\ \A u \in m.pool : o \in Ins[u] <=> m.outpoints[o] = u
        /\ m.outpoints[o] # None => m.outpoints[o] \in m.pool /\ o \in Ins[m.outpoints[o]]
        /\ m.orphansByPrev[o] = {u \in m.orphans : o \in Ins[u]}
    BY <1>7, ExactIndex
  <2>2. n.outpoints[o] = IF o \in Ins[t] THEN t ELSE m.outpoints[o]
    BY <1>5 DEF index
  <2> QED BY <1>5, <2>1, <2>2 DEF SameOrphans
<1>8. n.heap = n.pool /\ n.poolBytes = SizeOf(n.pool)
  BY <1>1, <1>3, <1>5, Zenon
<1>9. Cardinality(n.orphans) <= MaxOrphans
  BY <1>5, ExactTypes DEF SameOrphans
<1>10. Exact(n)
  BY <1>6, <1>7, <1>8, <1>9, IsExact
<1> QED BY <1>5, <1>10 DEF n

\* From m to n transactions leave the pool, and nothing that stays spends
\* what has left.
Kept(m, n) ==
  /\ Exact(n) /\ SameOrphans(m, n) /\ n.pool \subseteq m.pool
  /\ \A u \in n.pool : \A o \in Ins[u] : o[1] \in m.pool => o[1] \in n.pool

LEMMA DropClosure ==
  ASSUME NEW m, Exact(m), NEW S, S \subseteq Tx
  PROVE  Kept(m, Dropped(m, Closure(m, S)))
<1> DEFINE n == Dropped(m, Closure(m, S))
<1>1. Exact(n) /\ n.pool = m.pool \ Closure(m, S) /\ SameOrphans(m, n)
  BY DroppedFacts
<1> HIDE DEF n
<1>2. ASSUME NEW u \in n.pool, NEW o \in Ins[u], o[1] \in m.pool
      PROVE  o[1] \in n.pool
  <2>1. u \in m.pool /\ u \in Tx /\ o[1] \in Tx
    BY <1>1, <1>2, ExactTypes
  <2>2. o \in OutPoint
    BY <1>2, <2>1, OutsFacts
  <2>3. o \in OutsOf(o[1])
    BY <2>1, <2>2, OutPointFacts
  <2>4. Ins[u] \cap OutsOf(o[1]) # {}
    BY <1>2, <2>3
  <2>5. o[1] \notin Closure(m, S)
    BY <1>1, <2>1, <2>4, ClosureFacts
  <2> QED BY <1>1, <1>2, <2>5
<1>3. Kept(m, n)
  BY <1>1, <1>2 DEF Kept
<1> QED BY <1>3 DEF n

LEMMA EmptyClosure == \A m : Closure(m, {}) = {}
<1> TAKE m
<1> DEFINE succ == [t \in {} \cup Spenders(m) |-> Redeemers(m, t)]
<1>1. Closure(m, {}) = Reach({}, succ)
  BY DEF Closure
<1> HIDE DEF succ
<1>2. {} \in {C \in SUBSET DOMAIN succ : {} \subseteq C /\ \A t \in C : succ[t] \subseteq C}
  OBVIOUS
<1> QED BY <1>1, <1>2 DEF Reach

LEMMA RateType ==
  ASSUME NEW t \in Tx
  PROVE  Rate(t) \in Nat
<1>1. Fee[t] \in Nat /\ Size[t] \in Nat /\ Size[t] > 0
  BY MempoolAssumption
<1>2. ASSUME NEW a \in Nat, NEW b \in Nat, b > 0
      PROVE  a \div b \in Nat
  BY <1>2
<1>3. Fee[t] * 1000 \in Nat
  BY <1>1
<1> QED BY <1>1, <1>2, <1>3 DEF Rate

LEMMA PopMinFacts ==
  ASSUME NEW H, H \subseteq Tx, H # {}
  PROVE  PopMin(H) \in H
<1>1. PICK r \in {Rate(t) : t \in H} : \A s \in {Rate(t) : t \in H} : r <= s
  <2>1. {Rate(t) : t \in H} \subseteq Nat /\ {Rate(t) : t \in H} # {}
    BY RateType
  <2> QED BY <2>1, LeastOf
<1> DEFINE L == {t \in H : Rate(t) = r}
<1>2. PICK t \in L : \A u \in L : t <= u
  <2>1. L \subseteq Nat /\ L # {}
    BY <1>1 DEF Tx
  <2> QED BY <2>1, LeastOf
<1>3. ASSUME NEW u \in H PROVE AtOrBelow(t, u)
  <2>1. r <= Rate(u) /\ Rate(u) \in Nat /\ r \in Nat /\ Rate(t) = r
    BY <1>1, <1>2, <1>3, RateType
  <2>2. Rate(u) = r => t <= u
    BY <1>2
  <2> QED BY <2>1, <2>2 DEF AtOrBelow
<1>4. t \in H /\ \A u \in H : AtOrBelow(t, u)
  BY <1>2, <1>3
<1> QED BY <1>4 DEF PopMin

\* Some transaction has no other above it.
LEMMA TopOfHeap ==
  ASSUME NEW H, H \subseteq Tx, H # {}
  PROVE  \E t \in H : \A u \in H : AtOrBelow(u, t)
<1> DEFINE B(t) == {u \in H : AtOrBelow(u, t)}
           N == {Txs - Cardinality(B(t)) : t \in H}
<1>1. ASSUME NEW t \in H
      PROVE  IsFiniteSet(B(t)) /\ Cardinality(B(t)) \in Nat /\ Txs - Cardinality(B(t)) \in Nat
  <2>1. B(t) \subseteq Tx
    OBVIOUS
  <2> QED BY <2>1, TxFinite, MempoolAssumption
<1>2. PICK n \in N : \A k \in N : n <= k
  <2>1. N \subseteq Nat /\ N # {}
    BY <1>1
  <2> QED BY <2>1, LeastOf
<1>3. PICK t \in H : n = Txs - Cardinality(B(t))
  BY <1>2
<1>4. ASSUME NEW u \in H, ~AtOrBelow(u, t)
      PROVE  FALSE
  <2>1. ASSUME NEW x \in B(t) PROVE x \in B(u)
    <3>1. Rate(x) \in Nat /\ Rate(t) \in Nat /\ Rate(u) \in Nat /\ x \in Nat /\ t \in Nat /\ u \in Nat
      BY RateType DEF Tx
    <3> QED BY <1>4, <3>1 DEF AtOrBelow
  <2>2. u \in B(u) /\ u \notin B(t)
    BY <1>4, RateType DEF AtOrBelow, Tx
  <2>3. B(t) \subseteq B(u) /\ B(t) # B(u)
    BY <2>1, <2>2
  <2>4. Cardinality(B(t)) < Cardinality(B(u))
    <3>1. IsFiniteSet(B(u)) /\ B(t) \in SUBSET B(u) /\ B(t) # B(u)
      BY <1>1, <1>4, <2>3
    <3> HIDE DEF B
    <3>2. Cardinality(B(t)) <= Cardinality(B(u)) /\ (Cardinality(B(u)) = Cardinality(B(t)) => B(u) = B(t))
      BY <3>1, FS_Subset
    <3>3. Cardinality(B(t)) \in Nat /\ Cardinality(B(u)) \in Nat
      BY <1>1
    <3> QED BY <3>1, <3>2, <3>3
  <2>5. n <= Txs - Cardinality(B(u))
    BY <1>2, <1>4
  <2>6. Cardinality(B(t)) \in Nat /\ Cardinality(B(u)) \in Nat
    BY <1>1, <1>4
  <2> HIDE DEF B
  <2> QED BY <1>3, <2>4, <2>5, <2>6, MempoolAssumption
<1> QED BY <1>3, <1>4

LEMMA WithFloor ==
  ASSUME NEW m, Exact(m), NEW r \in Nat, NEW n, n = [m EXCEPT !.floor = r]
  PROVE  Exact(n) /\ SameOrphans(m, n) /\ n.pool = m.pool /\ n.floor = r
<1>1. m \in PoolState
  BY ExactTypes
<1>2. n \in PoolState
  BY <1>1 DEF PoolState
<1>3. /\ SameOrphans(m, n) /\ n.pool = m.pool /\ n.floor = r /\ n.heap = m.heap
      /\ n.poolBytes = m.poolBytes /\ n.outpoints = m.outpoints
  BY <1>1 DEF PoolState, SameOrphans
<1>4. Exact(n)
  BY <1>2, <1>3 DEF Exact, SameOrphans
<1> QED BY <1>3, <1>4

\* The loop of trimToSize ends: without its whole heap the pool fits.
LEMMA EvictFacts ==
  ASSUME NEW m, Exact(m), m.pool # {}
  PROVE  Kept(m, Evict(m)) /\ \E t \in Tx : Evict(m).floor = Rate(t)
<1> DEFINE Below(t) == {u \in m.heap : AtOrBelow(u, t)}
           Left(t) == Dropped(m, Closure(m, Below(t)))
           Fits == {t \in m.heap : Left(t).poolBytes <= MaxPool}
           last == PopMin(Fits)
<1>1. m.heap = m.pool /\ m.pool \subseteq Tx
  BY ExactTypes
<1>2. PICK top \in m.heap : \A u \in m.heap : AtOrBelow(u, top)
  BY <1>1, TopOfHeap
<1>3. top \in Fits
  <2>1. Below(top) = m.pool /\ Below(top) \subseteq Tx
    BY <1>1, <1>2
  <2>2. Below(top) \subseteq Closure(m, Below(top))
    BY <2>1, ClosureFacts
  <2> HIDE DEF Below
  <2>3. Exact(Left(top)) /\ Left(top).pool = m.pool \ Closure(m, Below(top))
    BY DroppedFacts
  <2>4. Left(top).pool = {}
    BY <2>1, <2>2, <2>3
  <2>5. Left(top).poolBytes = SizeOf(Left(top).pool)
    BY <2>3, ExactTypes
  <2>6. SizeOf({}) = 0
    <3>1. top \in Tx /\ Size \in [Tx -> Nat]
      BY <1>1, <1>2, MempoolAssumption
    <3> QED BY <3>1, TotalOne DEF SizeOf
  <2>7. Left(top).poolBytes = 0
    BY <2>4, <2>5, <2>6, Zenon
  <2> HIDE DEF Left
  <2> QED BY <1>2, <2>7, MempoolAssumption
<1>4. last \in m.heap /\ last \in Tx
  <2>1. Fits \subseteq Tx /\ Fits # {} /\ Fits \subseteq m.heap
    BY <1>1, <1>3
  <2> HIDE DEF Fits
  <2> QED BY <1>1, <2>1, PopMinFacts
<1>5. Evict(m) = [Left(last) EXCEPT !.floor = Rate(last)]
  BY DEF Evict
<1> HIDE DEF last
<1>6. Kept(m, Left(last))
  <2>1. Below(last) \subseteq Tx
    BY <1>1
  <2> HIDE DEF Below
  <2> QED BY <2>1, DropClosure
<1> HIDE DEF Left
<1>7. Rate(last) \in Nat
  BY <1>4, RateType
<1>8. PICK l : l = Left(last)
  OBVIOUS
<1>9. PICK n : n = Evict(m)
  OBVIOUS
<1>10. Exact(l) /\ n = [l EXCEPT !.floor = Rate(last)] /\ Kept(m, l)
  BY <1>5, <1>6, <1>8, <1>9 DEF Kept
<1>11. Exact(n) /\ SameOrphans(l, n) /\ n.pool = l.pool /\ n.floor = Rate(last)
  BY <1>7, <1>10, WithFloor
<1>12. Kept(m, n)
  BY <1>10, <1>11 DEF Kept, SameOrphans
<1> QED BY <1>4, <1>9, <1>11, <1>12

LEMMA TrimFacts ==
  ASSUME NEW m, Exact(m)
  PROVE  /\ Kept(m, TrimToSize(m))
         /\ TrimToSize(m).pool = m.pool \/ \E t \in Tx : TrimToSize(m).floor = Rate(t)
<1>1. m.pool \subseteq Tx /\ m.poolBytes \in Nat /\ m.poolBytes = SizeOf(m.pool)
  BY ExactTypes
<1>2. Kept(m, m)
  BY DEF Kept, SameOrphans
<1>3. CASE MaxPool = 0
  BY <1>2, <1>3 DEF TrimToSize
<1>4. CASE MaxPool # 0 /\ m.poolBytes <= MaxPool
  <2>1. PICK n : n = TrimToSize(m)
    OBVIOUS
  <2>2. n = [m EXCEPT !.floor = 0]
    BY <1>4, <2>1 DEF TrimToSize
  <2>3. Exact(n) /\ SameOrphans(m, n) /\ n.pool = m.pool
    BY <2>2, WithFloor
  <2>4. Kept(m, n)
    BY <2>3 DEF Kept
  <2> QED BY <2>1, <2>3, <2>4
<1>5. CASE MaxPool # 0 /\ ~(m.poolBytes <= MaxPool)
  <2>1. TrimToSize(m) = Evict(m)
    BY <1>5 DEF TrimToSize
  <2>2. m.pool # {}
    <3>1. SUFFICES ASSUME m.pool = {} PROVE FALSE
      OBVIOUS
    <3>2. SizeOf({}) = 0
      BY FS_EmptySet DEF SizeOf, Total
    <3>3. m.poolBytes = 0
      BY <1>1, <3>1, <3>2, Zenon
    <3> QED BY <1>5, <3>3, MempoolAssumption
  <2> QED BY <2>1, <2>2, EvictFacts
<1> QED BY <1>3, <1>4, <1>5

\* What acceptance needs of t: it is new, and it may replace its conflicts.
Acceptable(m, t) ==
  /\ t \notin m.pool
  /\ Conflicts(m, t) # {} => ValidReplacement(m, t)

\* The conflicts are in the pool, and t spends none of them.
LEMMA ConflictFacts ==
  ASSUME NEW m, Exact(m), NEW t \in Tx, Acceptable(m, t)
  PROVE  /\ TxConflicts(m, t) \subseteq m.pool
         /\ \A o \in Ins[t] : o[1] \notin TxConflicts(m, t)
         /\ \A u \in m.pool \ TxConflicts(m, t) : Ins[u] \cap Ins[t] = {}
         /\ TxConflicts(m, t) = {} \/ FeesOf(TxConflicts(m, t)) + MinFee <= Fee[t]
<1>1. Ins[t] \subseteq OutPoint /\ m.pool \subseteq Tx
  BY OutsFacts, ExactTypes
<1>2. Conflicts(m, t) \subseteq m.pool
  BY <1>1, ExactIndex DEF Conflicts
<1>3. /\ Conflicts(m, t) \subseteq TxConflicts(m, t)
      /\ TxConflicts(m, t) \subseteq Conflicts(m, t) \cup m.pool
  BY <1>1, <1>2, ClosureFacts DEF TxConflicts
<1>4. ASSUME NEW u \in m.pool, NEW o \in Ins[u], o \in Ins[t]
      PROVE  u \in Conflicts(m, t)
  <2>1. m.outpoints[o] = u /\ u # None
    BY <1>1, <1>4, ExactIndex, OutsFacts
  <2> QED BY <1>4, <2>1 DEF Conflicts
<1>5. CASE Conflicts(m, t) = {}
  <2>1. TxConflicts(m, t) = {}
    BY <1>5, EmptyClosure, Zenon DEF TxConflicts
  <2> QED BY <1>2, <1>3, <1>4, <1>5, <2>1
<1>6. CASE Conflicts(m, t) # {}
  <2>1. ValidReplacement(m, t)
    BY <1>6 DEF Acceptable
  <2>2. /\ \A o \in Ins[t] : o[1] \notin TxConflicts(m, t)
        /\ Fee[t] >= FeesOf(TxConflicts(m, t)) + MinFee
    BY <2>1 DEF ValidReplacement
  <2> QED BY <1>2, <1>3, <1>4, <2>2
<1> QED BY <1>5, <1>6

\* Accepting keeps the indexes exact and every parent of what stays.
LEMMA AcceptFacts ==
  ASSUME NEW m, Exact(m), NEW t \in Tx, Acceptable(m, t)
  PROVE  LET n == Accept(m, t) IN
         /\ Exact(n) /\ SameOrphans(m, n) /\ n.pool \subseteq m.pool \cup {t}
         /\ \A u \in n.pool : \A o \in Ins[u] : o[1] \in m.pool \cup {t} => o[1] \in n.pool
         /\ \/ \E u \in Tx : n.floor = Rate(u)
            \/ n.pool = (m.pool \ TxConflicts(m, t)) \cup {t}
<1> DEFINE C == TxConflicts(m, t)
<1>1. /\ C \subseteq m.pool
      /\ \A o \in Ins[t] : o[1] \notin C
      /\ \A u \in m.pool \ C : Ins[u] \cap Ins[t] = {}
  BY ConflictFacts
<1>2. Conflicts(m, t) \subseteq Tx
  BY ExactIndex, ExactTypes, OutsFacts DEF Conflicts
<1>3. PICK d : d = Dropped(m, C)
  OBVIOUS
<1>4. Kept(m, d) /\ d.pool = m.pool \ C
  BY <1>2, <1>3, DropClosure, DroppedFacts DEF TxConflicts
<1>5. Exact(d) /\ t \notin d.pool /\ \A u \in d.pool : Ins[u] \cap Ins[t] = {}
  BY <1>1, <1>4 DEF Kept, Acceptable
<1>6. PICK a : a = AddTransaction(d, t)
  OBVIOUS
<1>7. Exact(a) /\ a.pool = d.pool \cup {t} /\ SameOrphans(d, a)
  BY <1>5, <1>6, AddFacts
<1>8. PICK n : n = TrimToSize(a)
  OBVIOUS
<1>9. Kept(a, n) /\ (n.pool = a.pool \/ \E u \in Tx : n.floor = Rate(u))
  BY <1>7, <1>8, TrimFacts
<1>10. n = Accept(m, t)
  BY <1>3, <1>6, <1>8, Zenon DEF Accept
<1> HIDE DEF C
<1>11. ASSUME NEW u \in n.pool, NEW o \in Ins[u], o[1] \in m.pool \cup {t}
       PROVE  o[1] \in n.pool
  <2>1. o[1] \in a.pool => o[1] \in n.pool
    BY <1>9, <1>11 DEF Kept
  <2>2. u \in a.pool
    BY <1>9, <1>11 DEF Kept
  <2>3. CASE o[1] = t
    BY <1>7, <2>1, <2>3
  <2>4. CASE o[1] \in m.pool /\ u = t
    BY <1>1, <1>4, <1>7, <1>11, <2>1, <2>4
  <2>5. CASE o[1] \in m.pool /\ u # t
    <3>1. u \in d.pool
      BY <1>7, <2>2, <2>5
    <3>2. o[1] \in d.pool
      BY <1>4, <1>11, <2>5, <3>1 DEF Kept
    <3> QED BY <1>7, <2>1, <3>2
  <2> QED BY <1>11, <2>3, <2>4, <2>5
<1>12. Exact(n) /\ SameOrphans(m, n) /\ n.pool \subseteq m.pool \cup {t}
  BY <1>4, <1>7, <1>9 DEF Kept, SameOrphans
<1>13. (\E u \in Tx : n.floor = Rate(u)) \/ n.pool = (m.pool \ C) \cup {t}
  BY <1>4, <1>7, <1>9, Zenon
<1> QED BY <1>10, <1>11, <1>12, <1>13 DEF C

-----------------------------------------------------------------------------
(* The orphan pool                                                           *)

\* From m to n the main pool stays as it is.
SamePool(m, n) ==
  /\ n.pool = m.pool /\ n.outpoints = m.outpoints /\ n.heap = m.heap
  /\ n.poolBytes = m.poolBytes /\ n.floor = m.floor

SetOrphans(m, O, g, f) == [m EXCEPT !.orphans = O, !.tag = g, !.orphansByPrev = f]
OrphanIndex(O, f) == \A o \in OutPoint : f[o] = {t \in O : o \in Ins[t]}

LEMMA WithOrphans ==
  ASSUME NEW m, Exact(m), NEW O \in SUBSET Tx, NEW g \in [Tx -> Tags \cup {None}],
         NEW f \in [OutPoint -> SUBSET Tx], Cardinality(O) <= MaxOrphans, OrphanIndex(O, f),
         NEW n, n = SetOrphans(m, O, g, f)
  PROVE  Exact(n) /\ SamePool(m, n) /\ n.orphans = O
<1>1. m \in PoolState
  BY ExactTypes
<1>2. n \in PoolState
  BY <1>1 DEF SetOrphans, PoolState
<1>3. SamePool(m, n) /\ n.orphans = O /\ n.orphansByPrev = f
  BY <1>1 DEF SetOrphans, PoolState, SamePool
<1>4. Exact(n)
  BY <1>2, <1>3 DEF Exact, SamePool, OrphanIndex
<1> QED BY <1>3, <1>4

LEMMA DropOrphansFacts ==
  ASSUME NEW m, Exact(m), NEW S
  PROVE  LET n == DropOrphans(m, S) IN
         Exact(n) /\ SamePool(m, n) /\ n.orphans = m.orphans \ S
<1>1. /\ m.orphans \subseteq Tx /\ m.tag \in [Tx -> Tags \cup {None}] /\ m \in PoolState
      /\ m.orphansByPrev \in [OutPoint -> SUBSET Tx] /\ Cardinality(m.orphans) <= MaxOrphans
  BY ExactTypes
<1>2. PICK O \in SUBSET Tx : O = m.orphans \ (S \cap m.orphans)
  BY <1>1
<1>3. PICK g \in [Tx -> Tags \cup {None}] :
        g = [t \in Tx |-> IF t \in S \cap m.orphans THEN None ELSE m.tag[t]]
  BY <1>1
<1>4. PICK f \in [OutPoint -> SUBSET Tx] :
        f = [o \in OutPoint |-> m.orphansByPrev[o] \ (S \cap m.orphans)]
  BY <1>1
<1>5. Cardinality(O) <= MaxOrphans
  <2>1. IsFiniteSet(m.orphans) /\ O \in SUBSET m.orphans /\ Cardinality(m.orphans) \in Nat
    BY <1>1, <1>2, TxFinite
  <2>2. Cardinality(O) <= Cardinality(m.orphans)
    BY <2>1, FS_Subset
  <2>3. Cardinality(O) \in Nat
    BY TxFinite
  <2> QED BY <1>1, <2>1, <2>2, <2>3, MempoolAssumption
<1>6. ASSUME NEW o \in OutPoint PROVE f[o] = {t \in O : o \in Ins[t]}
  <2>1. m.orphansByPrev[o] = {t \in m.orphans : o \in Ins[t]}
    BY <1>6, ExactIndex
  <2>2. f[o] = m.orphansByPrev[o] \ (S \cap m.orphans)
    BY <1>4, <1>6
  <2> QED BY <1>2, <2>1, <2>2
<1>7. PICK n : n = DropOrphans(m, S)
  OBVIOUS
<1>8. n = SetOrphans(m, O, g, f)
  BY <1>2, <1>3, <1>4, <1>7, Zenon DEF DropOrphans, SetOrphans
<1>9. Exact(n) /\ SamePool(m, n) /\ n.orphans = O
  <2>1. OrphanIndex(O, f)
    BY <1>6 DEF OrphanIndex
  <2> QED BY <1>5, <1>8, <2>1, WithOrphans
<1>10. O = m.orphans \ S
  BY <1>2
<1> QED BY <1>7, <1>9, <1>10

LEMMA RemoveOrphanFacts ==
  ASSUME NEW m, Exact(m), NEW t, NEW r
  PROVE  LET n == RemoveOrphan(m, t, r) IN
         /\ Exact(n) /\ SamePool(m, n) /\ n.orphans \subseteq m.orphans
         /\ r = FALSE => n.orphans = m.orphans \ {t}
<1>1. CASE t \notin m.orphans
  BY <1>1 DEF RemoveOrphan, SamePool
<1>2. CASE t \in m.orphans
  <2>1. PICK S : S = IF r THEN OrphanClosure(m, {t}) ELSE {t}
    OBVIOUS
  <2>2. RemoveOrphan(m, t, r) = DropOrphans(m, S)
    BY <1>2, <2>1, Zenon DEF RemoveOrphan
  <2>3. LET n == DropOrphans(m, S) IN Exact(n) /\ SamePool(m, n) /\ n.orphans = m.orphans \ S
    BY DropOrphansFacts
  <2>4. r = FALSE => S = {t}
    BY <2>1
  <2> QED BY <2>2, <2>3, <2>4
<1> QED BY <1>1, <1>2

\* There is room for one more orphan after limitNumOrphans.
LEMMA LimitFacts ==
  ASSUME NEW m, Exact(m), MaxOrphans # 0, NEW l \in LimitNumOrphans(m)
  PROVE  /\ Exact(l) /\ SamePool(m, l) /\ l.orphans \subseteq m.orphans
         /\ Cardinality(l.orphans) + 1 <= MaxOrphans
<1>1. PICK E \in SUBSET m.orphans :
        LET e == DropOrphans(m, OrphanClosure(m, E)) IN
        l \in IF Cardinality(e.orphans) + 1 <= MaxOrphans THEN {e}
              ELSE {RemoveOrphan(e, t, FALSE) : t \in e.orphans}
  BY ZenonT(40) DEF LimitNumOrphans
<1>2. PICK e : e = DropOrphans(m, OrphanClosure(m, E))
  OBVIOUS
<1>3. Exact(e) /\ SamePool(m, e) /\ e.orphans \subseteq m.orphans
  BY <1>2, DropOrphansFacts
<1>4. CASE Cardinality(e.orphans) + 1 <= MaxOrphans
  BY <1>1, <1>2, <1>3, <1>4
<1>5. CASE ~(Cardinality(e.orphans) + 1 <= MaxOrphans)
  <2>1. PICK t \in e.orphans : l = RemoveOrphan(e, t, FALSE)
    BY <1>1, <1>2, <1>5
  <2>2. Exact(l) /\ SamePool(e, l) /\ l.orphans = e.orphans \ {t}
    BY <1>3, <2>1, RemoveOrphanFacts
  <2>3. IsFiniteSet(e.orphans) /\ Cardinality(e.orphans) \in Nat /\ Cardinality(e.orphans) <= MaxOrphans
    BY <1>3, ExactTypes, TxFinite
  <2>4. Cardinality(e.orphans \ {t}) = Cardinality(e.orphans) - 1
    BY <2>1, <2>3, FS_RemoveElement
  <2>5. Cardinality(l.orphans) = Cardinality(e.orphans) - 1
    BY <2>2, <2>4, Zenon
  <2> QED BY <1>3, <2>2, <2>3, <2>5, MempoolAssumption DEF SamePool
<1> QED BY <1>4, <1>5

LEMMA AddOrphanFacts ==
  ASSUME NEW m, Exact(m), NEW t \in Tx, NEW tag \in Tags \cup {None}, NEW n \in AddOrphan(m, t, tag)
  PROVE  Exact(n) /\ SamePool(m, n) /\ n.orphans \subseteq m.orphans \cup {t}
<1>1. CASE MaxOrphans = 0
  BY <1>1 DEF AddOrphan, SamePool
<1>2. CASE MaxOrphans # 0
  <2>1. PICK l \in LimitNumOrphans(m) :
          n = [l EXCEPT !.orphans = @ \cup {t}, !.tag[t] = tag,
                        !.orphansByPrev = [o \in OutPoint |->
                          IF o \in Ins[t] THEN @[o] \cup {t} ELSE @[o]]]
    BY <1>2, Zenon DEF AddOrphan
  <2>2. /\ Exact(l) /\ SamePool(m, l) /\ l.orphans \subseteq m.orphans
        /\ Cardinality(l.orphans) + 1 <= MaxOrphans
    BY <1>2, LimitFacts
  <2>3. /\ l.orphans \subseteq Tx /\ l.tag \in [Tx -> Tags \cup {None}] /\ l \in PoolState
        /\ l.orphansByPrev \in [OutPoint -> SUBSET Tx]
    BY <2>2, ExactTypes
  <2>4. PICK O \in SUBSET Tx : O = l.orphans \cup {t}
    BY <2>3
  <2>5. PICK g \in [Tx -> Tags \cup {None}] : g = [l.tag EXCEPT ![t] = tag]
    BY <2>3
  <2>6. PICK f \in [OutPoint -> SUBSET Tx] :
          f = [o \in OutPoint |-> IF o \in Ins[t] THEN l.orphansByPrev[o] \cup {t} ELSE l.orphansByPrev[o]]
    BY <2>3
  <2>7. n = SetOrphans(l, O, g, f)
    BY <2>1, <2>3, <2>4, <2>5, <2>6 DEF PoolState, SetOrphans
  <2>8. Cardinality(O) <= MaxOrphans
    <3>1. IsFiniteSet(l.orphans) /\ Cardinality(l.orphans) \in Nat
      BY <2>3, TxFinite
    <3>2. Cardinality(l.orphans \cup {t}) \in {Cardinality(l.orphans), Cardinality(l.orphans) + 1}
      <4>1. CASE t \in l.orphans
        <5>1. l.orphans \cup {t} = l.orphans
          BY <4>1
        <5> QED BY <5>1, Zenon
      <4>2. CASE t \notin l.orphans
        BY <3>1, <4>2, FS_AddElement
      <4> QED BY <4>1, <4>2
    <3>3. Cardinality(O) \in {Cardinality(l.orphans), Cardinality(l.orphans) + 1}
      BY <2>4, <3>2, Zenon
    <3> QED BY <2>2, <3>1, <3>3, MempoolAssumption
  <2>9. ASSUME NEW o \in OutPoint PROVE f[o] = {u \in O : o \in Ins[u]}
    <3>1. l.orphansByPrev[o] = {u \in l.orphans : o \in Ins[u]}
      BY <2>2, <2>9, ExactIndex
    <3>2. f[o] = IF o \in Ins[t] THEN l.orphansByPrev[o] \cup {t} ELSE l.orphansByPrev[o]
      BY <2>6, <2>9
    <3> QED BY <2>4, <3>1, <3>2
  <2>10. Exact(n) /\ SamePool(l, n) /\ n.orphans = O
    <3>1. OrphanIndex(O, f)
      BY <2>9 DEF OrphanIndex
    <3> QED BY <2>2, <2>7, <2>8, <3>1, WithOrphans
  <2> QED BY <2>2, <2>4, <2>10 DEF SamePool
<1> QED BY <1>1, <1>2

-----------------------------------------------------------------------------
(* What is left of a notification                                            *)

\* q is what is left of n when its first call has returned, or has started
\* the loop of processOrphans.
Follows(n, q) ==
  \E d \in {0, 1} :
    /\ \A i \in DOMAIN q :
         (i + d > 1 /\ i + d \in DOMAIN n /\ q[i] = n[i + d]) \/ q[i][1] = "running"
    /\ \A j \in DOMAIN n : j > 1 => j - d \in DOMAIN q /\ q[j - d] = n[j]

LEMMA TailFollows ==
  ASSUME NEW n \in Seq(Op \X Tx), n # <<>>
  PROVE  /\ Follows(n, Tail(n)) /\ Tail(n) \in Seq(Op \X Tx)
         /\ Head(n) = n[1] /\ 1 \in DOMAIN n /\ Head(n)[1] \in Op /\ Head(n)[2] \in Tx
<1>1. /\ Tail(n) \in Seq(Op \X Tx) /\ Len(n) \in Nat /\ Len(n) > 0 /\ Len(Tail(n)) = Len(n) - 1
      /\ DOMAIN n = 1..Len(n) /\ DOMAIN Tail(n) = 1..(Len(n) - 1) /\ Head(n) = n[1]
      /\ \A i \in 1..(Len(n) - 1) : Tail(n)[i] = n[i + 1]
  OBVIOUS
<1>2. n[1] \in Op \X Tx
  BY <1>1
<1> HIDE DEF Op
<1>3. PICK q : q = Tail(n)
  OBVIOUS
<1>4. /\ \A i \in DOMAIN q : i + 1 > 1 /\ i + 1 \in DOMAIN n /\ q[i] = n[i + 1]
      /\ \A j \in DOMAIN n : j > 1 => j - 1 \in DOMAIN q /\ q[j - 1] = n[j]
  <2>1. ASSUME NEW i \in DOMAIN q PROVE i + 1 > 1 /\ i + 1 \in DOMAIN n /\ q[i] = n[i + 1]
    BY <1>1, <1>3, <2>1
  <2>2. ASSUME NEW j \in DOMAIN n, j > 1 PROVE j - 1 \in DOMAIN q /\ q[j - 1] = n[j]
    <3>1. j - 1 \in 1..(Len(n) - 1) /\ (j - 1) + 1 = j
      BY <1>1, <2>2
    <3>2. q[j - 1] = n[(j - 1) + 1]
      BY <1>1, <1>3, <3>1
    <3> QED BY <1>1, <1>3, <3>1, <3>2
  <2> QED BY <2>1, <2>2
<1>5. Follows(n, q)
  BY <1>4 DEF Follows
<1> QED BY <1>1, <1>2, <1>3, <1>5

LEMMA RunningFollows ==
  ASSUME NEW n \in Seq(Op \X Tx), n # <<>>, NEW t \in Tx
  PROVE  LET q == <<<<"running", t>>>> \o Tail(n) IN Follows(n, q) /\ q \in Seq(Op \X Tx)
<1>1. /\ Tail(n) \in Seq(Op \X Tx) /\ Len(n) \in Nat /\ Len(n) > 0 /\ Len(Tail(n)) = Len(n) - 1
      /\ DOMAIN n = 1..Len(n) /\ \A i \in 1..(Len(n) - 1) : Tail(n)[i] = n[i + 1]
  OBVIOUS
<1>2. <<"running", t>> \in Op \X Tx
  BY DEF Op
<1> HIDE DEF Op
<1>3. PICK h : h = <<<<"running", t>>>>
  OBVIOUS
<1>4. h \in Seq(Op \X Tx) /\ Len(h) = 1 /\ h[1] = <<"running", t>>
  BY <1>2, <1>3
<1>5. PICK r : r = Tail(n)
  OBVIOUS
<1>6. PICK q : q = h \o r
  OBVIOUS
<1>7. /\ q \in Seq(Op \X Tx) /\ Len(q) = Len(n) /\ q[1] = <<"running", t>>
      /\ \A j \in 1..Len(n) : j > 1 => q[j] = r[j - 1]
  <2>1. r \in Seq(Op \X Tx) /\ Len(r) = Len(n) - 1
    BY <1>1, <1>5
  <2>2. PICK S : S = Op \X Tx
    OBVIOUS
  <2>3. h \in Seq(S) /\ r \in Seq(S)
    BY <1>4, <2>1, <2>2
  <2>4. q \in Seq(S) /\ Len(q) = Len(h) + Len(r)
        /\ \A j \in 1..(Len(h) + Len(r)) : q[j] = IF j <= Len(h) THEN h[j] ELSE r[j - Len(h)]
    BY <1>6, <2>3, ConcatProperties, Zenon
  <2>5. q \in Seq(Op \X Tx)
    BY <2>2, <2>4, Zenon
  <2>6. Len(q) = Len(n) /\ q[1] = h[1] /\ \A j \in 1..Len(n) : j > 1 => q[j] = r[j - 1]
    BY <1>1, <1>4, <2>1, <2>4
  <2> QED BY <1>4, <2>5, <2>6
<1>8. ASSUME NEW j \in 1..Len(n), j > 1 PROVE q[j] = n[j]
  <2>1. j - 1 \in 1..(Len(n) - 1) /\ (j - 1) + 1 = j
    BY <1>1, <1>8
  <2>2. r[j - 1] = n[(j - 1) + 1]
    BY <1>1, <1>5, <2>1
  <2> QED BY <1>7, <1>8, <2>1, <2>2
<1>9. /\ \A i \in DOMAIN q : (i + 0 > 1 /\ i + 0 \in DOMAIN n /\ q[i] = n[i + 0]) \/ q[i][1] = "running"
      /\ \A j \in DOMAIN n : j > 1 => j - 0 \in DOMAIN q /\ q[j - 0] = n[j]
  BY <1>1, <1>7, <1>8
<1>10. Follows(n, q)
  BY <1>9 DEF Follows
<1> QED BY <1>3, <1>5, <1>6, <1>7, <1>10

\* What is left keeps its order, and all that was to be called but the first.
LEMMA NoteStep ==
  ASSUME NoteOK, note # <<>>, chain' = chain, Follows(note, note'), note' \in Seq(Op \X Tx)
  PROVE  /\ NoteOK'
         /\ \A op, t : Pending(op, t) /\ Head(note) # <<op, t>> => Pending(op, t)'
<1>1. note \in Seq(Op \X Tx)
  BY DEF NoteOK
<1>2. Confirmed' = Confirmed /\ Utxo' = Utxo
  BY DEF Confirmed, Spent, Utxo
<1>3. PICK d \in {0, 1} :
        /\ \A i \in DOMAIN note' :
             (i + d > 1 /\ i + d \in DOMAIN note /\ note'[i] = note[i + d]) \/ note'[i][1] = "running"
        /\ \A j \in DOMAIN note : j > 1 => j - d \in DOMAIN note' /\ note'[j - d] = note[j]
  BY DEF Follows
<1>4. DOMAIN note \subseteq Nat /\ DOMAIN note' \subseteq Nat /\ d \in Nat
  BY <1>1
<1>5. ASSUME NEW op, NEW t, Pending(op, t), Head(note) # <<op, t>>
      PROVE  Pending(op, t)'
  <2>1. PICK i \in DOMAIN note : note[i] = <<op, t>>
    BY <1>5 DEF Pending
  <2>2. Head(note) = note[1] /\ DOMAIN note = 1..Len(note) /\ Len(note) \in Nat
    BY <1>1
  <2>3. i > 1
    BY <1>5, <2>1, <2>2
  <2> QED BY <1>3, <2>1, <2>3 DEF Pending
<1>6. ASSUME NEW i \in DOMAIN note', NEW op, NEW t, note'[i] = <<op, t>>
      PROVE  CallOK(note', i, op, t)
  <2>1. CASE op = "running"
    BY <2>1 DEF CallOK
  <2>2. CASE op # "running"
    <3>1. i + d > 1 /\ i + d \in DOMAIN note /\ note[i + d] = <<op, t>>
      BY <1>3, <1>6, <2>2
    <3>2. CallOK(note, i + d, op, t)
      <4>1. CallOK(note, i + d, note[i + d][1], note[i + d][2])
        BY <3>1 DEF NoteOK
      <4>2. note[i + d][1] = op /\ note[i + d][2] = t
        BY <3>1
      <4> QED BY <4>1, <4>2, Zenon
    <3>3. ASSUME NEW j \in DOMAIN note, j > i + d
          PROVE  j - d \in DOMAIN note' /\ j - d > i /\ note'[j - d] = note[j]
      BY <1>3, <1>4, <1>6, <3>1, <3>3
    <3>4. ASSUME NEW e, \E j \in DOMAIN note : j > i + d /\ note[j] = e
          PROVE  \E j \in DOMAIN note' : j > i /\ note'[j] = e
      BY <3>3, <3>4
    <3>5. ASSUME op = "doubles", NEW j \in DOMAIN note', j > i, note'[j] = <<"remove", t>>
          PROVE  FALSE
      <4>1. j + d \in DOMAIN note /\ note[j + d] = <<"remove", t>>
        BY <1>3, <3>5
      <4>2. j + d > i + d
        BY <1>4, <1>6, <3>5
      <4> QED BY <3>2, <3>5, <4>1, <4>2 DEF CallOK
    <3> QED BY <3>2, <3>4, <3>5 DEF CallOK
  <2> QED BY <2>1, <2>2
<1>7. ASSUME NEW i \in DOMAIN note' PROVE CallOK(note, i, note[i][1], note[i][2])'
  <2>1. note'[i] \in Op \X Tx
    OBVIOUS
  <2>2. note'[i] = <<note'[i][1], note'[i][2]>>
    BY <2>1
  <2>3. CallOK(note', i, note'[i][1], note'[i][2])
    BY <1>6, <1>7, <2>2
  <2> QED BY <1>2, <2>3 DEF CallOK
<1>8. NoteOK'
  BY <1>7 DEF NoteOK
<1> QED BY <1>5, <1>8

-----------------------------------------------------------------------------
(* The chain                                                                 *)

\* Chain c holds transaction t.
Holds(c, t) == \E k \in DOMAIN c : \E i \in DOMAIN c[k] : t = c[k][i]

UtxoOver(S) ==
  ({<<0, i>> : i \in 1..Base} \cup UNION {OutsOf(t) : t \in S}) \ UNION {Ins[t] : t \in S}

LEMMA HoldsIs ==
  /\ \A t : t \in Confirmed <=> Holds(chain, t)
  /\ \A t : t \in Confirmed' <=> Holds(chain', t)
  /\ Utxo = UtxoOver(Confirmed) /\ Utxo' = UtxoOver(Confirmed')
<1>1. \A t : t \in Confirmed <=> Holds(chain, t)
  BY DEF Confirmed, Holds, ToSet
<1>2. \A t : t \in Confirmed' <=> Holds(chain', t)
  BY DEF Confirmed, Holds, ToSet
<1>3. Utxo = UtxoOver(Confirmed) /\ Utxo' = UtxoOver(Confirmed')
  BY DEF Utxo, Spent, UtxoOver
<1> QED BY <1>1, <1>2, <1>3

LEMMA UtxoFacts ==
  ASSUME NEW S, S \subseteq Tx, NEW o
  PROVE  /\ o \in UtxoOver(S) => o \in OutPoint /\ (o[1] = 0 \/ o[1] \in S)
         /\ o \in OutPoint /\ (o[1] = 0 \/ o[1] \in S) /\ (\A c \in S : o \notin Ins[c]) => o \in UtxoOver(S)
         /\ o \in UtxoOver(S) => \A c \in S : o \notin Ins[c]
<1>1. ASSUME o \in UtxoOver(S)
      PROVE  o \in OutPoint /\ (o[1] = 0 \/ o[1] \in S) /\ \A c \in S : o \notin Ins[c]
  <2>1. o \in {<<0, i>> : i \in 1..Base} \/ \E t \in S : o \in OutsOf(t)
    BY <1>1 DEF UtxoOver
  <2>2. \A c \in S : o \notin Ins[c]
    BY <1>1 DEF UtxoOver
  <2>3. CASE o \in {<<0, i>> : i \in 1..Base}
    BY <2>2, <2>3 DEF OutPoint
  <2>4. ASSUME NEW t \in S, o \in OutsOf(t)
        PROVE  o \in OutPoint /\ o[1] \in S
    BY <2>4, OutsFacts
  <2> QED BY <2>1, <2>2, <2>3, <2>4
<1>2. ASSUME o \in OutPoint, o[1] = 0 \/ o[1] \in S, \A c \in S : o \notin Ins[c]
      PROVE  o \in UtxoOver(S)
  <2>1. CASE o[1] = 0
    <3>1. o \in {<<0, i>> : i \in 1..Base}
      BY <1>2, <2>1 DEF OutPoint, Tx
    <3> QED BY <1>2, <3>1 DEF UtxoOver
  <2>2. CASE o[1] \in S
    <3>1. o \in OutsOf(o[1])
      BY <1>2, <2>2, OutPointFacts
    <3> QED BY <1>2, <2>2, <3>1 DEF UtxoOver
  <2> QED BY <1>2, <2>1, <2>2
<1> QED BY <1>1, <1>2

\* What a valid chain holds, and where its inputs come from.
LEMMA ValidFacts ==
  ASSUME NEW c, ValidChain(c), NEW t, Holds(c, t)
  PROVE  /\ t \in Tx
         /\ \A o \in Ins[t] : o[1] = 0 \/ (Holds(c, o[1]) /\ o \in OutsOf(o[1]) /\ o[1] \in Tx)
<1>1. PICK k \in DOMAIN c : \E i \in DOMAIN c[k] : t = c[k][i]
  BY DEF Holds
<1>2. /\ c \in Seq(Blocks) /\ DOMAIN c = 1..Len(c) /\ Len(c) \in Nat
      /\ \A l \in DOMAIN c : c[l] \in Blocks
  BY DEF ValidChain
<1>3. \A l \in DOMAIN c : \A j \in DOMAIN c[l] : c[l][j] \in Tx
  BY <1>2, MempoolAssumption
<1>4. t \in Tx
  BY <1>1, <1>3
<1>5. ASSUME NEW o \in Ins[t], o[1] # 0
      PROVE  Holds(c, o[1]) /\ o \in OutsOf(o[1]) /\ o[1] \in Tx
  <2>0. PICK l \in 1..k : \E j \in DOMAIN c[l] : o \in OutsOf(c[l][j])
    BY <1>1, <1>5 DEF ValidChain
  <2>1. PICK j \in DOMAIN c[l] : o \in OutsOf(c[l][j])
    BY <2>0
  <2>2. l \in DOMAIN c
    BY <1>2, <2>1
  <2>3. c[l][j] \in Tx
    BY <1>3, <2>1, <2>2
  <2>4. o[1] = c[l][j]
    BY <2>1, <2>3, OutsFacts
  <2> QED BY <2>1, <2>2, <2>3, <2>4 DEF Holds
<1> QED BY <1>4, <1>5

\* The inputs of what is confirmed are spent.
LEMMA ChainFacts ==
  ASSUME ChainOK
  PROVE  /\ Confirmed \subseteq Tx
         /\ \A c \in Confirmed : \A o \in Ins[c] :
              /\ o \notin Utxo
              /\ o[1] = 0 \/ (o[1] \in Confirmed /\ o \in OutsOf(o[1]))
         /\ \A o \in OutPoint : (o[1] = 0 \/ o[1] \in Confirmed) /\ o \notin Utxo =>
              \E c \in Confirmed : o \in Ins[c]
         /\ \A o \in Utxo : o \in OutPoint /\ (o[1] = 0 \/ o[1] \in Confirmed)
<1>1. Confirmed \subseteq Tx
  BY HoldsIs, ValidFacts DEF ChainOK
<1>2. \A c \in Confirmed : \A o \in Ins[c] : o[1] = 0 \/ (o[1] \in Confirmed /\ o \in OutsOf(o[1]))
  BY HoldsIs, ValidFacts DEF ChainOK
<1>3. Utxo = UtxoOver(Confirmed)
  BY HoldsIs
<1>4. PICK S : S = Confirmed
  OBVIOUS
<1>5. S \subseteq Tx
  BY <1>1, <1>4
<1>6. PICK U : U = UtxoOver(S)
  OBVIOUS
<1>7. U = Utxo
  BY <1>3, <1>4, <1>6, Zenon
<1>8. /\ \A c \in S : \A o \in Ins[c] : o \notin U
      /\ \A o \in OutPoint : (o[1] = 0 \/ o[1] \in S) /\ o \notin U => \E c \in S : o \in Ins[c]
      /\ \A o \in U : o \in OutPoint /\ (o[1] = 0 \/ o[1] \in S)
  BY <1>5, <1>6, UtxoFacts
<1> QED BY <1>1, <1>2, <1>4, <1>7, <1>8

LEMMA ConnectFacts ==
  ASSUME ChainOK, NEW b \in Blocks, Connectable(b)
  PROVE  /\ ValidChain(Append(chain, b))
         /\ \A t : Holds(Append(chain, b), t) <=> t \in Confirmed \/ \E i \in DOMAIN b : t = b[i]
         /\ \A i \in DOMAIN b : \A c \in Confirmed : Ins[c] \cap OutsOf(b[i]) = {}
<1>1. /\ chain \in Seq(Blocks) /\ Len(chain) \in Nat /\ DOMAIN chain = 1..Len(chain)
      /\ \A k \in DOMAIN chain : chain[k] \in Blocks
  BY DEF ChainOK, ValidChain
<1>2. PICK c : c = Append(chain, b)
  OBVIOUS
<1>3. /\ c \in Seq(Blocks) /\ Len(c) = Len(chain) + 1 /\ DOMAIN c = 1..(Len(chain) + 1)
      /\ \A k \in DOMAIN chain : k \in DOMAIN c /\ c[k] = chain[k]
      /\ c[Len(chain) + 1] = b
  BY <1>1, <1>2
<1>4. \A k \in DOMAIN c : k \in DOMAIN chain \/ k = Len(chain) + 1
  BY <1>1, <1>3
<1>5. \A i \in DOMAIN b : b[i] \in Tx /\ b[i] \notin Confirmed
  BY MempoolAssumption DEF Connectable
<1>6. /\ Confirmed \subseteq Tx /\ \A t : t \in Confirmed <=> Holds(chain, t)
      /\ \A d \in Confirmed : \A o \in Ins[d] :
              o \notin Utxo /\ (o[1] = 0 \/ (o[1] \in Confirmed /\ o \in OutsOf(o[1])))
      /\ \A o \in Utxo : o \in OutPoint /\ (o[1] = 0 \/ o[1] \in Confirmed)
  BY ChainFacts, HoldsIs
<1>7. ASSUME NEW i \in DOMAIN b, NEW d \in Confirmed PROVE Ins[d] \cap OutsOf(b[i]) = {}
  <2>1. SUFFICES ASSUME NEW o \in Ins[d], o \in OutsOf(b[i]) PROVE FALSE
    OBVIOUS
  <2>2. o[1] = b[i] /\ b[i] \in Tx /\ b[i] # 0
    BY <1>5, <2>1, OutsFacts DEF None
  <2> QED BY <1>5, <1>6, <2>1, <2>2
<1>8. ASSUME NEW t
      PROVE  Holds(c, t) <=> t \in Confirmed \/ \E i \in DOMAIN b : t = b[i]
  <2>1. ASSUME Holds(c, t) PROVE t \in Confirmed \/ \E i \in DOMAIN b : t = b[i]
    <3>1. PICK k \in DOMAIN c : \E i \in DOMAIN c[k] : t = c[k][i]
      BY <2>1 DEF Holds
    <3>2. CASE k \in DOMAIN chain
      BY <1>3, <1>6, <3>1, <3>2 DEF Holds
    <3>3. CASE k = Len(chain) + 1
      BY <1>3, <3>1, <3>3
    <3> QED BY <1>4, <3>2, <3>3
  <2>2. ASSUME t \in Confirmed PROVE Holds(c, t)
    <3>1. PICK k \in DOMAIN chain : \E i \in DOMAIN chain[k] : t = chain[k][i]
      BY <1>6, <2>2 DEF Holds
    <3> QED BY <1>3, <3>1 DEF Holds
  <2>3. ASSUME NEW i \in DOMAIN b, t = b[i] PROVE Holds(c, t)
    <3>1. Len(chain) + 1 \in DOMAIN c
      BY <1>1, <1>3
    <3> QED BY <1>3, <2>3, <3>1 DEF Holds
  <2> QED BY <2>1, <2>2, <2>3
<1>9. ASSUME NEW k \in DOMAIN c, NEW i \in DOMAIN c[k], NEW o \in Ins[c[k][i]], o[1] # 0
      PROVE  \E l \in 1..k : \E j \in DOMAIN c[l] : o \in OutsOf(c[l][j])
  <2>1. CASE k \in DOMAIN chain
    <3>1. PICK l \in 1..k : \E j \in DOMAIN chain[l] : o \in OutsOf(chain[l][j])
      BY <1>3, <1>9, <2>1 DEF ChainOK, ValidChain
    <3>2. l \in DOMAIN chain
      BY <1>1, <2>1, <3>1
    <3> QED BY <1>3, <3>1, <3>2
  <2>2. CASE k = Len(chain) + 1
    <3>1. c[k] = b /\ i \in DOMAIN b /\ o \in Ins[b[i]]
      BY <1>3, <1>9, <2>2
    <3>2. o \in Utxo \/ \E j \in 1..(i - 1) : o \in OutsOf(b[j])
      BY <3>1 DEF Connectable
    <3>3. CASE o \in Utxo
      <4>1. o \in OutPoint /\ o[1] \in Confirmed /\ o \in OutsOf(o[1])
        BY <1>6, <1>9, <3>3, OutPointFacts
      <4>2. PICK l \in DOMAIN chain : \E j \in DOMAIN chain[l] : o[1] = chain[l][j]
        BY <1>6, <4>1 DEF Holds
      <4>3. l \in 1..k /\ c[l] = chain[l]
        BY <1>1, <1>3, <2>2, <4>2
      <4> QED BY <4>1, <4>2, <4>3
    <3>4. ASSUME NEW j \in 1..(i - 1), o \in OutsOf(b[j])
          PROVE  \E l \in 1..k : \E jj \in DOMAIN c[l] : o \in OutsOf(c[l][jj])
      <4>1. b \in Seq(Tx)
        BY MempoolAssumption
      <4>2. j \in DOMAIN b
        BY <3>1, <3>4, <4>1
      <4>3. k \in 1..k
        BY <1>1, <2>2
      <4> QED BY <3>1, <3>4, <4>2, <4>3
    <3> QED BY <3>2, <3>3, <3>4
  <2> QED BY <1>4, <2>1, <2>2
<1>10. ASSUME NEW k \in DOMAIN c, NEW l \in DOMAIN c, NEW i \in DOMAIN c[k], NEW j \in DOMAIN c[l], k < l
       PROVE  c[k][i] # c[l][j] /\ Ins[c[k][i]] \cap Ins[c[l][j]] = {}
  <2>1. k \in DOMAIN chain /\ c[k] = chain[k]
    BY <1>1, <1>3, <1>10
  <2>2. CASE l \in DOMAIN chain
    BY <1>3, <1>10, <2>1, <2>2 DEF ChainOK, ValidChain
  <2>3. CASE l = Len(chain) + 1
    <3>1. c[l] = b /\ j \in DOMAIN b
      BY <1>3, <1>10, <2>3
    <3>2. c[k][i] \in Confirmed
      BY <1>6, <1>10, <2>1 DEF Holds
    <3>3. ASSUME NEW o \in Ins[c[k][i]], o \in Ins[b[j]] PROVE FALSE
      <4>1. o \notin Utxo
        BY <1>6, <3>2, <3>3
      <4>2. PICK jj \in 1..(j - 1) : o \in OutsOf(b[jj])
        BY <3>1, <3>3, <4>1 DEF Connectable
      <4>3. b \in Seq(Tx)
        BY MempoolAssumption
      <4>4. jj \in DOMAIN b
        BY <3>1, <4>2, <4>3
      <4> QED BY <1>7, <3>2, <3>3, <4>2, <4>4
    <3> QED BY <1>5, <3>1, <3>2, <3>3
  <2> QED BY <1>4, <2>2, <2>3
<1>11. ValidChain(c)
  BY <1>3, <1>9, <1>10 DEF ValidChain
<1> QED BY <1>2, <1>7, <1>8, <1>11

LEMMA DisconnectFacts ==
  ASSUME ChainOK, chain # <<>>
  PROVE  /\ ValidChain(Front(chain)) /\ Last(chain) \in Blocks
         /\ \A t : t \in Confirmed <=>
              Holds(Front(chain), t) \/ \E i \in DOMAIN Last(chain) : t = Last(chain)[i]
         /\ Independent => \A i \in DOMAIN Last(chain) : \A o \in Ins[Last(chain)[i]] :
              /\ o[1] = 0 \/ Holds(Front(chain), o[1])
              /\ \A t : Holds(Front(chain), t) => o \notin Ins[t]
<1>1. /\ chain \in Seq(Blocks) /\ Len(chain) \in Nat /\ Len(chain) > 0 /\ DOMAIN chain = 1..Len(chain)
      /\ \A k \in DOMAIN chain : chain[k] \in Blocks
  BY DEF ChainOK, ValidChain
<1>2. PICK c : c = Front(chain)
  OBVIOUS
<1>3. PICK b : b = Last(chain)
  OBVIOUS
<1>4. /\ c \in Seq(Blocks) /\ DOMAIN c = 1..(Len(chain) - 1)
      /\ \A k \in DOMAIN c : k \in DOMAIN chain /\ c[k] = chain[k] /\ k < Len(chain)
      /\ b = chain[Len(chain)] /\ Len(chain) \in DOMAIN chain /\ b \in Blocks
  BY <1>1, <1>2, <1>3 DEF Front, Last
<1>5. \A k \in DOMAIN chain : k \in DOMAIN c \/ k = Len(chain)
  BY <1>1, <1>4
<1>6. ASSUME NEW t
      PROVE  Holds(chain, t) <=> Holds(c, t) \/ \E i \in DOMAIN b : t = b[i]
  <2>1. ASSUME Holds(chain, t) PROVE Holds(c, t) \/ \E i \in DOMAIN b : t = b[i]
    <3>1. PICK k \in DOMAIN chain : \E i \in DOMAIN chain[k] : t = chain[k][i]
      BY <2>1 DEF Holds
    <3>2. CASE k \in DOMAIN c
      BY <1>4, <3>1, <3>2 DEF Holds
    <3>3. CASE k = Len(chain)
      BY <1>4, <3>1, <3>3
    <3> QED BY <1>5, <3>2, <3>3
  <2>2. ASSUME Holds(c, t) PROVE Holds(chain, t)
    BY <1>4, <2>2 DEF Holds
  <2>3. ASSUME NEW i \in DOMAIN b, t = b[i] PROVE Holds(chain, t)
    BY <1>4, <2>3 DEF Holds
  <2> QED BY <2>1, <2>2, <2>3
<1>7. ASSUME NEW k \in DOMAIN c, NEW i \in DOMAIN c[k], NEW o \in Ins[c[k][i]], o[1] # 0
      PROVE  \E l \in 1..k : \E j \in DOMAIN c[l] : o \in OutsOf(c[l][j])
  <2>1. PICK l \in 1..k : \E j \in DOMAIN chain[l] : o \in OutsOf(chain[l][j])
    BY <1>4, <1>7 DEF ChainOK, ValidChain
  <2>2. l \in DOMAIN c
    BY <1>4, <2>1
  <2> QED BY <1>4, <2>1, <2>2
<1>8. ValidChain(c)
  <2>1. ASSUME NEW k \in DOMAIN c, NEW l \in DOMAIN c, NEW i \in DOMAIN c[k], NEW j \in DOMAIN c[l], k < l
        PROVE  c[k][i] # c[l][j] /\ Ins[c[k][i]] \cap Ins[c[l][j]] = {}
    BY <1>4, <2>1 DEF ChainOK, ValidChain
  <2> QED BY <1>4, <1>7, <2>1 DEF ValidChain
<1>9. ASSUME Independent, NEW i \in DOMAIN b, NEW o \in Ins[b[i]]
      PROVE  /\ o[1] = 0 \/ Holds(c, o[1])
             /\ \A t : Holds(c, t) => o \notin Ins[t]
  <2>1. ASSUME o[1] # 0 PROVE Holds(c, o[1])
    <3>1. PICK l \in 1..Len(chain) : \E j \in DOMAIN chain[l] : o \in OutsOf(chain[l][j])
      BY <1>4, <1>9, <2>1 DEF ChainOK, ValidChain
    <3>2. PICK j \in DOMAIN chain[l] : o \in OutsOf(chain[l][j])
      BY <3>1
    <3>3. l # Len(chain)
      BY <1>4, <1>9, <3>2 DEF Independent
    <3>4. l \in DOMAIN c /\ c[l] = chain[l] /\ chain[l] \in Blocks
      BY <1>1, <1>4, <1>5, <3>1, <3>3
    <3>5. chain[l][j] \in Tx
      BY <3>2, <3>4, MempoolAssumption
    <3>6. o[1] = chain[l][j]
      BY <3>2, <3>5, OutsFacts
    <3> QED BY <3>2, <3>4, <3>6 DEF Holds
  <2>2. ASSUME NEW t, Holds(c, t), o \in Ins[t] PROVE FALSE
    <3>1. PICK k \in DOMAIN c : \E j \in DOMAIN c[k] : t = c[k][j]
      BY <2>2 DEF Holds
    <3>2. k \in DOMAIN chain /\ k < Len(chain) /\ c[k] = chain[k]
      BY <1>4, <3>1
    <3> QED BY <1>4, <1>9, <2>2, <3>1, <3>2 DEF ChainOK, ValidChain
  <2> QED BY <2>1, <2>2
<1> QED BY <1>2, <1>3, <1>4, <1>6, <1>8, <1>9, HoldsIs

LEMMA Quarter ==
  ASSUME NEW k \in Nat, NEW r \in 0..3, NEW L \in Nat, k < L
  PROVE  /\ (4 * k + r) % 4 = r /\ (4 * k + r) \div 4 = k
         /\ 4 * k + r + 1 \in 1..(4 * L)
OBVIOUS

LEMMA Quarters ==
  ASSUME NEW i \in Nat, NEW L \in Nat, i < 4 * L
  PROVE  i % 4 \in 0..3 /\ i = 4 * (i \div 4) + (i % 4) /\ i \div 4 \in Nat /\ i \div 4 < L
OBVIOUS

\* The calls for a connected block: four for each of its transactions.
\* What the handler calls for a block that is connected to a current node.
Calls(b) == OnConnected(b, TRUE)

LEMMA CallsOfBlock ==
  ASSUME NEW b \in Blocks
  PROVE  LET n == Calls(b) IN
         /\ n \in Seq(Op \X Tx) /\ DOMAIN n = 1..(4 * Len(b))
         /\ \A p \in DOMAIN b :
              /\ 4 * p - 3 \in DOMAIN n /\ n[4 * p - 3] = <<"remove", b[p]>>
              /\ 4 * p - 2 \in DOMAIN n /\ n[4 * p - 2] = <<"doubles", b[p]>>
              /\ 4 * p - 1 \in DOMAIN n /\ n[4 * p - 1] = <<"orphan", b[p]>>
         /\ \A i \in DOMAIN n : \E p \in DOMAIN b :
              /\ i \in (4 * p - 3)..(4 * p) /\ n[i][2] = b[p]
              /\ n[i][1] \in {"remove", "doubles", "orphan", "orphans"}
              /\ n[i][1] = "remove" => i = 4 * p - 3
              /\ n[i][1] = "doubles" => i = 4 * p - 2
<1>1. b \in Seq(Tx) /\ Len(b) \in Nat /\ DOMAIN b = 1..Len(b)
  BY MempoolAssumption
<1>2. PICK n : n = Calls(b)
  OBVIOUS
<1> DEFINE kind == <<"remove", "doubles", "orphan", "orphans">>
<1>3. /\ DOMAIN n = 1..(4 * Len(b)) /\ n = [i \in 1..(4 * Len(b)) |-> n[i]]
      /\ \A i \in DOMAIN n : n[i] = <<kind[((i - 1) % 4) + 1], b[((i - 1) \div 4) + 1]>>
  BY <1>2 DEF Calls, OnConnected
<1>4. kind[1] = "remove" /\ kind[2] = "doubles" /\ kind[3] = "orphan" /\ kind[4] = "orphans"
  OBVIOUS
<1> HIDE DEF kind
<1>5. ASSUME NEW p \in DOMAIN b
      PROVE  /\ 4 * p - 3 \in DOMAIN n /\ n[4 * p - 3] = <<"remove", b[p]>>
             /\ 4 * p - 2 \in DOMAIN n /\ n[4 * p - 2] = <<"doubles", b[p]>>
             /\ 4 * p - 1 \in DOMAIN n /\ n[4 * p - 1] = <<"orphan", b[p]>>
  <2>1. p \in Nat /\ 1 <= p /\ p <= Len(b)
    BY <1>1
  <2>2. PICK k \in Nat : k = p - 1
    BY <2>1
  <2>3. k < Len(b) /\ p = k + 1
    BY <2>1, <2>2
  <2>4. ASSUME NEW r \in 0..3
        PROVE  4 * k + r + 1 \in DOMAIN n /\ n[4 * k + r + 1] = <<kind[r + 1], b[p]>>
    <3>1. (4 * k + r) % 4 = r /\ (4 * k + r) \div 4 = k /\ 4 * k + r + 1 \in DOMAIN n
      BY <1>1, <1>3, <2>3, <2>4, Quarter
    <3>2. PICK i \in DOMAIN n : i = 4 * k + r + 1
      BY <3>1
    <3>3. i - 1 = 4 * k + r
      BY <2>2, <2>4, <3>2
    <3>4. n[i] = <<kind[r + 1], b[k + 1]>>
      BY <1>3, <3>1, <3>2, <3>3
    <3> QED BY <2>3, <3>2, <3>4
  <2>5. 4 * p - 3 = 4 * k + 0 + 1 /\ 4 * p - 2 = 4 * k + 1 + 1 /\ 4 * p - 1 = 4 * k + 2 + 1
    BY <2>1, <2>2, <2>3
  <2>6. 0 + 1 = 1 /\ 1 + 1 = 2 /\ 2 + 1 = 3 /\ 0 \in 0..3 /\ 1 \in 0..3 /\ 2 \in 0..3
    OBVIOUS
  <2> QED BY <1>4, <2>4, <2>5, <2>6
<1>6. ASSUME NEW i \in DOMAIN n
      PROVE  \E p \in DOMAIN b :
               /\ i \in (4 * p - 3)..(4 * p) /\ n[i][2] = b[p]
               /\ n[i][1] \in {"remove", "doubles", "orphan", "orphans"}
               /\ n[i][1] = "remove" => i = 4 * p - 3
               /\ n[i][1] = "doubles" => i = 4 * p - 2
  <2>1. i \in Nat /\ 1 <= i /\ i <= 4 * Len(b)
    BY <1>1, <1>3
  <2>2. PICK p : p = ((i - 1) \div 4) + 1
    OBVIOUS
  <2>3. p \in Nat /\ 1 <= p /\ p <= Len(b) /\ i = 4 * (p - 1) + ((i - 1) % 4) + 1 /\ (i - 1) % 4 \in 0..3
    <3>1. i - 1 \in Nat /\ i - 1 < 4 * Len(b)
      BY <1>1, <2>1
    <3>2. PICK h \in Nat : h = i - 1
      BY <3>1
    <3>3. h % 4 \in 0..3 /\ h = 4 * (h \div 4) + (h % 4) /\ h \div 4 \in Nat /\ h \div 4 < Len(b)
      BY <1>1, <3>1, <3>2, Quarters
    <3>4. i = h + 1 /\ p = (h \div 4) + 1
      BY <2>1, <2>2, <3>2
    <3>5. PICK k \in Nat, r \in 0..3 : k = h \div 4 /\ r = h % 4
      BY <3>3
    <3>6. h = 4 * k + r /\ k < Len(b) /\ p = k + 1
      BY <3>3, <3>4, <3>5
    <3>7. r = (i - 1) % 4
      BY <3>2, <3>5
    <3>8. p \in Nat /\ 1 <= p /\ p <= Len(b) /\ i = 4 * (p - 1) + r + 1
      BY <1>1, <3>4, <3>6
    <3> QED BY <3>7, <3>8
  <2>4. PICK r \in 0..3 : r = (i - 1) % 4
    BY <2>3
  <2>5. n[i] = <<kind[r + 1], b[p]>>
    BY <1>3, <2>2, <2>4
  <2>6. i = 4 * p - 3 + r
    BY <2>3, <2>4
  <2>7. p \in DOMAIN b /\ i \in (4 * p - 3)..(4 * p)
    BY <1>1, <2>3, <2>4, <2>6
  <2>8. \/ r = 0 /\ kind[r + 1] = "remove" /\ i = 4 * p - 3
        \/ r = 1 /\ kind[r + 1] = "doubles" /\ i = 4 * p - 2
        \/ r = 2 /\ kind[r + 1] = "orphan"
        \/ r = 3 /\ kind[r + 1] = "orphans"
    <3>1. r = 0 \/ r = 1 \/ r = 2 \/ r = 3
      OBVIOUS
    <3>2. (r = 0 => r + 1 = 1) /\ (r = 1 => r + 1 = 2) /\ (r = 2 => r + 1 = 3) /\ (r = 3 => r + 1 = 4)
      OBVIOUS
    <3>3. (r = 0 => i = 4 * p - 3) /\ (r = 1 => i = 4 * p - 2)
      BY <2>3, <2>6
    <3>4. /\ (r = 0 => kind[r + 1] = "remove") /\ (r = 1 => kind[r + 1] = "doubles")
          /\ (r = 2 => kind[r + 1] = "orphan") /\ (r = 3 => kind[r + 1] = "orphans")
      BY <1>4, <3>2, Zenon
    <3> QED BY <3>1, <3>3, <3>4, Zenon
  <2> QED BY <2>5, <2>7, <2>8
<1>7. n \in Seq(Op \X Tx)
  <2>1. ASSUME NEW i \in DOMAIN n PROVE n[i] \in Op \X Tx
    <3>1. PICK p \in DOMAIN b : n[i][2] = b[p] /\ n[i][1] \in {"remove", "doubles", "orphan", "orphans"}
      BY <1>6, <2>1
    <3>2. n[i] = <<kind[((i - 1) % 4) + 1], b[((i - 1) \div 4) + 1]>>
      BY <1>3, <2>1
    <3>3. n[i] = <<n[i][1], n[i][2]>>
      BY <3>2
    <3>4. b[p] \in Tx
      BY <1>1, <3>1
    <3> QED BY <3>1, <3>3, <3>4 DEF Op
  <2>2. 4 * Len(b) \in Nat
    BY <1>1
  <2>3. n \in [1..(4 * Len(b)) -> Op \X Tx]
    BY <1>3, <2>1
  <2> QED BY <2>2, <2>3
<1> QED BY <1>2, <1>3, <1>5, <1>6, <1>7

LEMMA ConnectedNote ==
  ASSUME ChainOK, NEW b \in Blocks, Connectable(b), chain' = Append(chain, b),
         note' = Calls(b)
  PROVE  NoteOK'
<1>1. /\ note' \in Seq(Op \X Tx) /\ DOMAIN note' = 1..(4 * Len(b))
      /\ \A p \in DOMAIN b :
           /\ 4 * p - 3 \in DOMAIN note' /\ note'[4 * p - 3] = <<"remove", b[p]>>
           /\ 4 * p - 2 \in DOMAIN note' /\ note'[4 * p - 2] = <<"doubles", b[p]>>
      /\ \A i \in DOMAIN note' : \E p \in DOMAIN b :
           /\ i \in (4 * p - 3)..(4 * p) /\ note'[i][2] = b[p]
           /\ note'[i][1] \in {"remove", "doubles", "orphan", "orphans"}
           /\ note'[i][1] = "remove" => i = 4 * p - 3
           /\ note'[i][1] = "doubles" => i = 4 * p - 2
  BY CallsOfBlock
<1>2. b \in Seq(Tx) /\ Len(b) \in Nat /\ DOMAIN b = 1..Len(b)
  BY MempoolAssumption
<1>3. /\ \A t : t \in Confirmed' <=> t \in Confirmed \/ \E i \in DOMAIN b : t = b[i]
      /\ \A i \in DOMAIN b : \A c \in Confirmed : Ins[c] \cap OutsOf(b[i]) = {}
  BY ConnectFacts, HoldsIs
<1>4. \A p, q \in DOMAIN b : b[p] = b[q] => p = q
  BY DEF Connectable
<1>5. ASSUME NEW i \in DOMAIN note' PROVE CallOK(note, i, note[i][1], note[i][2])'
  <2>1. PICK p \in DOMAIN b :
           /\ i \in (4 * p - 3)..(4 * p) /\ note'[i][2] = b[p]
           /\ note'[i][1] \in {"remove", "doubles", "orphan", "orphans"}
           /\ note'[i][1] = "remove" => i = 4 * p - 3
           /\ note'[i][1] = "doubles" => i = 4 * p - 2
    BY <1>1, <1>5
  <2>2. b[p] \in Confirmed' /\ p \in Nat /\ b[p] \in Tx /\ p >= 1
    BY <1>2, <1>3, <2>1
  <2>3. ASSUME note'[i][1] = "remove"
        PROVE  /\ \E j \in DOMAIN note' : j > i /\ note'[j] = <<"doubles", b[p]>>
               /\ \A c \in Confirmed' : Ins[c] \cap OutsOf(b[p]) # {} =>
                    \E j \in DOMAIN note' : j > i /\ note'[j] = <<"remove", c>>
    <3>1. 4 * p - 2 \in DOMAIN note' /\ note'[4 * p - 2] = <<"doubles", b[p]>> /\ 4 * p - 2 > i
      BY <1>1, <2>1, <2>2, <2>3
    <3>2. ASSUME NEW c \in Confirmed', Ins[c] \cap OutsOf(b[p]) # {}
          PROVE  \E j \in DOMAIN note' : j > i /\ note'[j] = <<"remove", c>>
      <4>1. PICK q \in DOMAIN b : c = b[q]
        BY <1>3, <2>1, <3>2
      <4>2. PICK o \in OutsOf(b[p]) : o \in Ins[c]
        BY <3>2
      <4>3. o[1] = b[p] /\ b[p] # 0 /\ b[p] \notin Confirmed
        BY <2>1, <2>2, <4>2, OutsFacts DEF Connectable, None
      <4>4. o \notin Utxo
        BY <4>3, ChainFacts
      <4>5. PICK r \in 1..(q - 1) : o \in OutsOf(b[r])
        BY <4>1, <4>2, <4>4 DEF Connectable
      <4>6. r \in DOMAIN b /\ b[r] \in Tx /\ r < q /\ q \in Nat /\ r \in Nat
        BY <1>2, <4>1, <4>5
      <4>7. r = p
        BY <1>4, <2>1, <4>3, <4>5, <4>6, OutsFacts
      <4>8. 4 * q - 3 \in DOMAIN note' /\ note'[4 * q - 3] = <<"remove", c>> /\ i = 4 * p - 3
        BY <1>1, <2>1, <2>3, <4>1
      <4>9. 4 * q - 3 > i
        <5>1. p < q /\ i = 4 * p - 3 /\ p \in Nat /\ q \in Nat
          BY <2>2, <4>6, <4>7, <4>8
        <5> QED BY <5>1
      <4> QED BY <4>8, <4>9
    <3> QED BY <3>1, <3>2
  <2>4. ASSUME note'[i][1] = "doubles", NEW j \in DOMAIN note', j > i, note'[j] = <<"remove", b[p]>>
        PROVE  FALSE
    <3>1. PICK q \in DOMAIN b : j = 4 * q - 3 /\ note'[j][2] = b[q]
      <4>1. note'[j][1] = "remove"
        BY <2>4
      <4> QED BY <1>1, <2>4, <4>1
    <3>2. q = p
      BY <1>4, <2>1, <2>4, <3>1
    <3> QED BY <2>1, <2>2, <2>4, <3>1, <3>2
  <2> QED BY <2>1, <2>2, <2>3, <2>4 DEF CallOK
<1> QED BY <1>1, <1>5 DEF NoteOK

LEMMA DisconnectedNote ==
  ASSUME ChainOK, chain # <<>>, chain' = Front(chain), note' = OnDisconnected(Last(chain))
  PROVE  NoteOK' /\ \A t : (\E i \in DOMAIN Last(chain) : t = Last(chain)[i]) => Pending("accept", t)'
<1>1. PICK b : b = Last(chain)
  OBVIOUS
<1>2. /\ b \in Blocks /\ ValidChain(chain')
      /\ \A t : t \in Confirmed' <=> Holds(chain', t)
      /\ Independent => \A i \in DOMAIN b : \A o \in Ins[b[i]] :
           /\ o[1] = 0 \/ Holds(chain', o[1])
           /\ \A t : Holds(chain', t) => o \notin Ins[t]
  BY <1>1, DisconnectFacts, HoldsIs
<1>3. b \in Seq(Tx) /\ Len(b) \in Nat /\ DOMAIN b = 1..Len(b)
  BY <1>2, MempoolAssumption
<1>4. note' = [i \in DOMAIN b |-> <<"accept", b[i]>>]
  BY <1>1 DEF OnDisconnected
<1>5. note' \in Seq(Op \X Tx) /\ DOMAIN note' = DOMAIN b
  <2>1. \A i \in 1..Len(b) : <<"accept", b[i]>> \in Op \X Tx
    BY <1>3 DEF Op
  <2> HIDE DEF Op
  <2>2. note' \in [1..Len(b) -> Op \X Tx]
    BY <1>3, <1>4, <2>1
  <2> QED BY <1>3, <1>4, <2>2
<1>6. Confirmed' \subseteq Tx
  BY <1>2, ValidFacts
<1>7. ASSUME NEW i \in DOMAIN b, Independent PROVE Ins[b[i]] \subseteq Utxo'
  <2>1. SUFFICES ASSUME NEW o \in Ins[b[i]] PROVE o \in Utxo'
    OBVIOUS
  <2>2. o \in OutPoint
    <3>1. b[i] \in Tx
      BY <1>3, <1>7
    <3> QED BY <2>1, <3>1, OutsFacts
  <2>3. (o[1] = 0 \/ o[1] \in Confirmed') /\ \A c \in Confirmed' : o \notin Ins[c]
    BY <1>2, <1>7, <2>1
  <2>4. PICK S : S = Confirmed'
    OBVIOUS
  <2>5. o \in UtxoOver(S)
    BY <1>6, <2>2, <2>3, <2>4, UtxoFacts
  <2> QED BY <2>4, <2>5, HoldsIs
<1>8. ASSUME NEW i \in DOMAIN note' PROVE CallOK(note, i, note[i][1], note[i][2])'
  <2>1. note'[i][1] = "accept" /\ note'[i][2] = b[i]
    BY <1>4, <1>5, <1>8
  <2> QED BY <1>5, <1>7, <1>8, <2>1 DEF CallOK
<1>9. NoteOK'
  BY <1>5, <1>8 DEF NoteOK
<1>10. ASSUME NEW t, NEW i \in DOMAIN b, t = b[i] PROVE Pending("accept", t)'
  <2>1. i \in DOMAIN note' /\ note'[i] = <<"accept", t>>
    BY <1>4, <1>5, <1>10
  <2> QED BY <2>1 DEF Pending
<1> QED BY <1>1, <1>9, <1>10

-----------------------------------------------------------------------------
(* What the operations do to a good pool                                     *)

LEMMA CheckFacts ==
  ASSUME NEW m, NEW t, NEW r
  PROVE  /\ CheckMempoolAcceptance(m, t, r) = "ok" => Acceptable(m, t) /\ Missing(m, t) = {}
         /\ CheckMempoolAcceptance(m, t, r) = "orphan" => OutsOf(t) \cap Utxo = {} /\ Missing(m, t) # {}
         /\ CheckMempoolAcceptance(m, t, r) \in {"ok", "orphan", "reject"}
BY DEF CheckMempoolAcceptance, Acceptable

\* A confirmed transaction is accepted only while its own removal is pending:
\* its inputs are spent, so its parents are in the pool, confirmed, and to be
\* removed before it.
LEMMA AcceptConfirmed ==
  ASSUME NEW m, Exact(m), ConfirmedOK(m), ChainOK, NoteOK,
         NEW t \in Tx, Missing(m, t) = {}, t \in Confirmed, ~missed
  PROVE  Pending("remove", t)
<1>1. PICK o \in Ins[t] : o \in OutPoint
  BY OutsFacts
<1>2. o[1] \in m.pool
  BY <1>1, ChainFacts DEF Missing
<1>3. o[1] \in Tx /\ o[1] # 0
  BY <1>2, ExactTypes, OutsFacts DEF None
<1>4. o[1] \in Confirmed /\ o \in OutsOf(o[1])
  BY <1>1, <1>3, ChainFacts
<1>5. Pending("remove", o[1])
  BY <1>2, <1>4 DEF ConfirmedOK
<1>6. PICK i \in DOMAIN note : note[i] = <<"remove", o[1]>>
  BY <1>5 DEF Pending
<1>7. CallOK(note, i, "remove", o[1])
  <2>1. CallOK(note, i, note[i][1], note[i][2])
    BY DEF NoteOK
  <2>2. note[i][1] = "remove" /\ note[i][2] = o[1]
    BY <1>6
  <2> QED BY <2>1, <2>2, Zenon
<1>8. Ins[t] \cap OutsOf(o[1]) # {}
  BY <1>1, <1>4
<1> QED BY <1>7, <1>8 DEF CallOK, Pending

\* A confirmed transaction with a lasting output is recognized.
LEMMA KnownOutput ==
  ASSUME ChainOK, NEW t \in Confirmed, Lasting(t)
  PROVE  OutsOf(t) \cap Utxo # {}
<1>1. PICK o \in OutsOf(t) : \A b \in Blocks : \A i \in DOMAIN b : o \notin Ins[b[i]]
  BY DEF Lasting
<1>2. t \in Tx
  BY ChainFacts
<1>3. o \in OutPoint /\ o[1] = t
  BY <1>1, <1>2, OutsFacts
<1>4. ASSUME NEW c \in Confirmed, o \in Ins[c] PROVE FALSE
  <2>1. PICK k \in DOMAIN chain : \E i \in DOMAIN chain[k] : c = chain[k][i]
    BY <1>4, HoldsIs DEF Holds
  <2>2. chain[k] \in Blocks
    BY <2>1 DEF ChainOK, ValidChain
  <2> QED BY <1>1, <1>4, <2>1, <2>2
<1>5. o \in Utxo
  BY <1>3, <1>4, ChainFacts
<1> QED BY <1>1, <1>5

LEMMA GoodAccept ==
  ASSUME NEW m, Good(m), ChainOK, NoteOK, NEW t \in Tx, NEW r,
         CheckMempoolAcceptance(m, t, r) = "ok"
  PROVE  Good(Accept(m, t))
<1>1. Acceptable(m, t) /\ Missing(m, t) = {} /\ Exact(m) /\ ConfirmedOK(m) /\ InputsOK(m)
  BY CheckFacts DEF Good
<1>2. PICK n : n = Accept(m, t)
  OBVIOUS
<1>3. /\ Exact(n) /\ SameOrphans(m, n) /\ n.pool \subseteq m.pool \cup {t}
      /\ \A u \in n.pool : \A o \in Ins[u] : o[1] \in m.pool \cup {t} => o[1] \in n.pool
  BY <1>1, <1>2, AcceptFacts
<1>4. ConfirmedOK(n)
  <2>1. t \in Confirmed /\ ~missed => Pending("remove", t)
    BY <1>1, AcceptConfirmed
  <2> QED BY <1>1, <1>3, <2>1 DEF ConfirmedOK, SameOrphans
<1>5. ASSUME Sound, NEW u \in n.pool, NEW o \in Ins[u]
      PROVE  Answered(n, o)
  <2>1. CASE u \in m.pool
    <3>1. Answered(m, o)
      BY <1>1, <1>5, <2>1 DEF InputsOK
    <3> QED BY <1>3, <1>5, <3>1 DEF Answered
  <2>2. CASE u = t
    <3>1. o \in Utxo \/ o[1] \in m.pool
      BY <1>1, <1>5, <2>2 DEF Missing
    <3> QED BY <1>3, <1>5, <3>1 DEF Answered
  <2> QED BY <1>3, <1>5, <2>1, <2>2
<1> QED BY <1>2, <1>3, <1>4, <1>5 DEF Good, InputsOK

LEMMA GoodOrphans ==
  ASSUME NEW m, Good(m), NEW n, Exact(n), SamePool(m, n),
         \A t \in n.orphans \ m.orphans : t \in Confirmed => ~Lasting(t)
  PROVE  Good(n)
<1>1. n.pool = m.pool
  BY DEF SamePool
<1>2. ConfirmedOK(n)
  BY <1>1 DEF Good, ConfirmedOK
<1>3. InputsOK(n)
  BY <1>1 DEF Good, InputsOK, Answered
<1> QED BY <1>2, <1>3 DEF Good

\* While the chain and what is left to be called stay as they are.
LEMMA Unmoved ==
  ASSUME chain' = chain, note' = note, missed' = missed, ChainOK, NoteOK, Good(mp')
  PROVE  Good(mp)' /\ ChainOK' /\ NoteOK'
<1>1. Confirmed' = Confirmed /\ Utxo' = Utxo
  BY DEF Confirmed, Spent, Utxo
<1>2. NoteOK'
  BY <1>1 DEF NoteOK, CallOK
<1>3. ConfirmedOK(mp)' /\ InputsOK(mp)'
  BY <1>1 DEF Good, ConfirmedOK, InputsOK, Sound, Answered, Pending
<1>4. Exact(mp)'
  BY DEF Good
<1> QED BY <1>2, <1>3, <1>4 DEF Good, ChainOK

\* When the first call is done: nothing is left of what it was for.
LEMMA Called ==
  ASSUME chain' = chain, missed' = missed, note # <<>>, ChainOK, NoteOK, Follows(note, note'),
         note' \in Seq(Op \X Tx), Exact(mp'),
         ~missed => \A t \in mp'.pool \cap Confirmed :
           Pending("remove", t) /\ Head(note) # <<"remove", t>>,
         ~missed => \A t \in mp'.orphans \cap Confirmed : Lasting(t) =>
           Pending("orphan", t) /\ Head(note) # <<"orphan", t>>,
         Sound => \A t \in mp'.pool : \A o \in Ins[t] :
           \/ o \in Utxo \/ o[1] \in mp'.pool
           \/ \E c \in Tx : Pending("doubles", c) /\ o \in Ins[c] /\ Head(note) # <<"doubles", c>>
           \/ Pending("accept", o[1]) /\ Head(note) # <<"accept", o[1]>>
  PROVE  Good(mp)' /\ ChainOK' /\ NoteOK'
<1>1. Confirmed' = Confirmed /\ Utxo' = Utxo
  BY DEF Confirmed, Spent, Utxo
<1>2. NoteOK' /\ \A op, t : Pending(op, t) /\ Head(note) # <<op, t>> => Pending(op, t)'
  BY NoteStep
<1>3. ConfirmedOK(mp)'
  BY <1>1, <1>2 DEF ConfirmedOK
<1>4. ASSUME Sound, NEW t \in mp'.pool, NEW o \in Ins[t] PROVE Answered(mp, o)'
  <2>1. ASSUME Pending("accept", o[1]), Head(note) # <<"accept", o[1]>> PROVE Pending("accept", o[1])'
    BY <1>2, <2>1
  <2>2. ASSUME NEW c \in Tx, Pending("doubles", c), Head(note) # <<"doubles", c>> PROVE Pending("doubles", c)'
    BY <1>2, <2>2
  <2> QED BY <1>1, <1>4, <2>1, <2>2 DEF Answered
<1>5. InputsOK(mp)'
  BY <1>4 DEF InputsOK, Sound
<1> QED BY <1>2, <1>3, <1>5 DEF Good, ChainOK

-----------------------------------------------------------------------------
(* The steps                                                                 *)

LEMMA OutputsType ==
  ASSUME NEW t \in Tx
  PROVE  Outputs(t) \in Seq(OutPoint)
<1>1. Outs[t] \in Nat
  BY MempoolAssumption
<1>2. \A i \in 1..Outs[t] : <<t, i>> \in OutPoint
  BY DEF OutPoint
<1>3. Outputs(t) \in [1..Outs[t] -> OutPoint]
  BY <1>2 DEF Outputs
<1> QED BY <1>1, <1>3

LEMMA ProcessTransactionStep ==
  ASSUME PoolInv, NEW t \in Tx, NEW tag \in Tags \cup {None}, ProcessTransaction(t, tag)
  PROVE  PoolInv'
<1>1. Good(mp) /\ LoopOK /\ ChainOK /\ NoteOK /\ Exact(mp)
  BY DEF PoolInv, Good
<1>2. /\ chain' = chain /\ note' = note /\ tried' = tried /\ changes' = changes
      /\ missed' = missed
  BY DEF ProcessTransaction
<1>3. CASE CheckMempoolAcceptance(mp, t, TRUE) = "ok"
  <2>1. mp' = Accept(mp, t)
    BY <1>3 DEF ProcessTransaction
  <2>2. Good(mp')
    BY <1>1, <1>3, <2>1, GoodAccept
  <2>3. todo' \in Seq(OutPoint) /\ done' \subseteq Tx
    <3>1. todo' = Outputs(t) \/ todo' = <<>>
      BY <1>3 DEF ProcessTransaction
    <3>2. done' = {t} \/ done' = {}
      BY <1>3 DEF ProcessTransaction
    <3>3. <<>> \in Seq(OutPoint) /\ Outputs(t) \in Seq(OutPoint)
      BY OutputsType
    <3>4. todo' \in Seq(OutPoint)
      BY <3>1, <3>3, Zenon
    <3>5. done' \subseteq Tx
      BY <3>2
    <3> QED BY <3>4, <3>5
  <2>4. LoopOK'
    BY <1>1, <1>2, <2>3 DEF LoopOK
  <2> QED BY <1>1, <1>2, <2>2, <2>4, Unmoved DEF PoolInv
<1>4. CASE CheckMempoolAcceptance(mp, t, TRUE) = "orphan"
  <2>1. mp' \in AddOrphan(mp, t, tag) /\ todo' = todo /\ done' = done
    BY <1>4 DEF ProcessTransaction
  <2>2. Exact(mp') /\ SamePool(mp, mp') /\ mp'.orphans \subseteq mp.orphans \cup {t}
    BY <1>1, <2>1, AddOrphanFacts
  <2>3. t \in Confirmed => ~Lasting(t)
    BY <1>1, <1>4, CheckFacts, KnownOutput
  <2>4. Good(mp')
    BY <1>1, <2>2, <2>3, GoodOrphans
  <2>5. LoopOK'
    BY <1>1, <1>2, <2>1 DEF LoopOK
  <2> QED BY <1>1, <1>2, <2>4, <2>5, Unmoved DEF PoolInv
<1> QED BY <1>3, <1>4 DEF ProcessTransaction

LEMMA ProcessOrphanStep ==
  ASSUME PoolInv, NEW t \in Tx, ProcessOrphan(t)
  PROVE  PoolInv'
<1>1. Good(mp) /\ LoopOK /\ ChainOK /\ NoteOK /\ Exact(mp)
  BY DEF PoolInv, Good
<1>2. chain' = chain /\ note' = note /\ changes' = changes /\ missed' = missed /\ todo # <<>>
  BY DEF ProcessOrphan
<1>3. todo \in Seq(OutPoint) /\ Tail(todo) \in Seq(OutPoint) /\ tried \subseteq Tx /\ done \subseteq Tx
  BY <1>1, <1>2 DEF LoopOK
<1>4. ASSUME CheckMempoolAcceptance(mp, t, FALSE) = "ok" PROVE Good(Accept(mp, t))
  BY <1>1, <1>4, GoodAccept
<1>5. ASSUME NEW m, Good(m), NEW r, mp' = RemoveOrphan(m, t, r) PROVE Good(mp')
  <2>1. Exact(mp') /\ SamePool(m, mp') /\ mp'.orphans \subseteq m.orphans
    BY <1>5, RemoveOrphanFacts DEF Good
  <2> QED BY <1>5, <2>1, GoodOrphans
<1>6. CASE CheckMempoolAcceptance(mp, t, FALSE) = "orphan"
  <2>1. mp' = mp /\ todo' = todo /\ done' = done /\ tried' = tried \cup {t}
    BY <1>6 DEF ProcessOrphan
  <2>2. LoopOK'
    BY <1>1, <1>2, <1>3, <2>1 DEF LoopOK
  <2> QED BY <1>1, <1>2, <2>1, <2>2, Unmoved DEF PoolInv
<1>7. CASE CheckMempoolAcceptance(mp, t, FALSE) = "ok" /\ t \in Accept(mp, t).pool
  <2>1. /\ mp' = RemoveOrphan(Accept(mp, t), t, FALSE)
        /\ todo' = Tail(todo) \o Outputs(t) /\ done' = done \cup {t} /\ tried' = {}
    BY <1>7 DEF ProcessOrphan
  <2>2. todo' \in Seq(OutPoint)
    <3>1. Outputs(t) \in Seq(OutPoint)
      BY OutputsType
    <3> QED BY <1>3, <2>1, <3>1, ConcatProperties, Zenon
  <2>3. LoopOK'
    BY <1>1, <1>2, <1>3, <2>1, <2>2 DEF LoopOK
  <2>4. Good(mp')
    BY <1>4, <1>5, <1>7, <2>1
  <2> QED BY <1>1, <1>2, <2>3, <2>4, Unmoved DEF PoolInv
<1>8. CASE \/ CheckMempoolAcceptance(mp, t, FALSE) = "reject"
           \/ CheckMempoolAcceptance(mp, t, FALSE) = "ok" /\ t \notin Accept(mp, t).pool
  <2>1. /\ mp' = RemoveOrphan(IF CheckMempoolAcceptance(mp, t, FALSE) = "ok" THEN Accept(mp, t) ELSE mp, t, TRUE)
        /\ todo' = Tail(todo) /\ done' = done /\ tried' = {}
    BY <1>8 DEF ProcessOrphan
  <2>2. LoopOK'
    BY <1>1, <1>2, <1>3, <2>1 DEF LoopOK
  <2>3. PICK m : m = IF CheckMempoolAcceptance(mp, t, FALSE) = "ok" THEN Accept(mp, t) ELSE mp
    OBVIOUS
  <2>4. Good(m)
    BY <1>1, <1>4, <2>3
  <2>5. Good(mp')
    BY <1>5, <2>1, <2>3, <2>4
  <2> QED BY <1>1, <1>2, <2>2, <2>5, Unmoved DEF PoolInv
<1> QED BY <1>6, <1>7, <1>8 DEF ProcessOrphan

LEMMA NextOutputStep ==
  ASSUME PoolInv, NextOutput
  PROVE  PoolInv'
<1>1. Good(mp) /\ LoopOK /\ ChainOK /\ NoteOK
  BY DEF PoolInv
<1>2. mp' = mp /\ chain' = chain /\ note' = note /\ missed' = missed
  BY DEF NextOutput
<1>3. LoopOK'
  BY <1>1 DEF NextOutput, LoopOK
<1> QED BY <1>1, <1>2, <1>3, Unmoved DEF PoolInv

LEMMA ProcessOrphansEndStep ==
  ASSUME PoolInv, ProcessOrphansEnd
  PROVE  PoolInv'
<1>1. Good(mp) /\ LoopOK /\ ChainOK /\ NoteOK /\ Exact(mp)
  BY DEF PoolInv, Good
<1>2. PICK S : mp' = DropOrphans(mp, S)
  BY DEF ProcessOrphansEnd, RemoveOrphanDoubleSpends
<1>3. Exact(mp') /\ SamePool(mp, mp') /\ mp'.orphans = mp.orphans \ S
  BY <1>1, <1>2, DropOrphansFacts
<1>4. Good(mp')
  BY <1>1, <1>3, GoodOrphans
<1>5. LoopOK' /\ chain' = chain /\ missed' = missed
  BY <1>1 DEF ProcessOrphansEnd, LoopOK
<1>6. CASE note' = note
  BY <1>1, <1>4, <1>5, <1>6, Unmoved DEF PoolInv
<1>7. CASE note' # note
  <2>1. note # <<>> /\ Head(note)[1] = "running" /\ note' = Tail(note)
    BY <1>7 DEF ProcessOrphansEnd
  <2>2. note \in Seq(Op \X Tx)
    BY <1>1 DEF NoteOK
  <2>3. Follows(note, note') /\ note' \in Seq(Op \X Tx)
    BY <2>1, <2>2, TailFollows
  <2>4. \A op, t : op # "running" => Head(note) # <<op, t>>
    BY <2>1
  <2>5. ConfirmedOK(mp') /\ InputsOK(mp')
    BY <1>4 DEF Good
  <2>6. Good(mp)' /\ ChainOK' /\ NoteOK'
    BY <1>1, <1>3, <1>5, <2>1, <2>3, <2>4, <2>5, Called DEF ConfirmedOK, InputsOK, Answered
  <2> QED BY <1>5, <2>6 DEF PoolInv
<1> QED BY <1>6, <1>7

LEMMA RemoveOrphansByTagStep ==
  ASSUME PoolInv, NEW tag, RemoveOrphansByTag(tag)
  PROVE  PoolInv'
<1>1. Good(mp) /\ LoopOK /\ ChainOK /\ NoteOK /\ Exact(mp)
  BY DEF PoolInv, Good
<1>2. PICK S : mp' = DropOrphans(mp, S)
  BY DEF RemoveOrphansByTag
<1>3. Exact(mp') /\ SamePool(mp, mp') /\ mp'.orphans = mp.orphans \ S
  BY <1>1, <1>2, DropOrphansFacts
<1>4. Good(mp')
  BY <1>1, <1>3, GoodOrphans
<1>5. LoopOK' /\ chain' = chain /\ note' = note /\ missed' = missed
  BY <1>1 DEF RemoveOrphansByTag, LoopOK
<1> QED BY <1>1, <1>4, <1>5, Unmoved DEF PoolInv

LEMMA ConnectedStep ==
  ASSUME PoolInv, NEW b \in Blocks, ConnectBlock(b, TRUE)
  PROVE  PoolInv'
<1>1. Good(mp) /\ LoopOK /\ ChainOK /\ NoteOK /\ Exact(mp)
  BY DEF PoolInv, Good
<1>2. /\ note = <<>> /\ Connectable(b) /\ chain' = Append(chain, b) /\ note' = Calls(b)
      /\ mp' = mp /\ missed' = missed
      /\ todo' = todo /\ tried' = tried /\ done' = done /\ changes' = changes + 1 /\ changes < MaxChanges
  <2>1. missed \in BOOLEAN /\ missed' = (missed \/ (~TRUE /\ mp.pool \cup mp.orphans # {}))
    BY <1>1 DEF ConnectBlock, LoopOK
  <2>2. missed' = missed
    BY <2>1, Zenon
  <2> QED BY <2>2 DEF ConnectBlock, Change, Calls
<1>3. ChainOK' /\ \A t : t \in Confirmed' <=> t \in Confirmed \/ \E i \in DOMAIN b : t = b[i]
  BY <1>1, <1>2, ConnectFacts, HoldsIs DEF ChainOK
<1>4. NoteOK'
  BY <1>1, <1>2, ConnectedNote
<1>5. ASSUME NEW i \in DOMAIN b
      PROVE  Pending("remove", b[i])' /\ Pending("doubles", b[i])' /\ Pending("orphan", b[i])'
  BY <1>2, <1>5, CallsOfBlock DEF Pending
<1>6. \A op, t : ~Pending(op, t)
  BY <1>2 DEF Pending
<1>7. ConfirmedOK(mp)'
  <2>1. ~missed => mp.pool \cap Confirmed = {} /\ \A t \in mp.orphans \cap Confirmed : ~Lasting(t)
    BY <1>1, <1>6 DEF Good, ConfirmedOK
  <2> QED BY <1>2, <1>3, <1>5, <2>1 DEF ConfirmedOK
<1>8. ASSUME Sound, NEW t \in mp.pool, NEW o \in Ins[t] PROVE Answered(mp, o)'
  <2>1. o \in Utxo \/ o[1] \in mp.pool
    BY <1>1, <1>6, <1>8 DEF Good, InputsOK, Answered
  <2>2. CASE o \in Utxo /\ o \notin Utxo'
    <3>1. o \in OutPoint /\ (o[1] = 0 \/ o[1] \in Confirmed) /\ \A c \in Confirmed : o \notin Ins[c]
      BY <1>1, <2>2, ChainFacts
    <3>2. PICK S : S = Confirmed'
      OBVIOUS
    <3>3. S \subseteq Tx /\ Utxo' = UtxoOver(S)
      BY <1>3, <3>2, HoldsIs, ValidFacts DEF ChainOK
    <3>4. o[1] = 0 \/ o[1] \in S
      BY <1>3, <3>1, <3>2
    <3>5. PICK c \in S : o \in Ins[c]
      BY <2>2, <3>1, <3>3, <3>4, UtxoFacts
    <3>6. PICK i \in DOMAIN b : c = b[i]
      BY <1>3, <3>1, <3>2, <3>5
    <3>7. c \in Tx /\ Pending("doubles", c)'
      BY <1>5, <3>3, <3>5, <3>6
    <3> QED BY <3>5, <3>7 DEF Answered
  <2> QED BY <1>2, <2>1, <2>2 DEF Answered
<1>9. InputsOK(mp)'
  BY <1>2, <1>8 DEF InputsOK, Sound
<1>10. Good(mp)'
  BY <1>1, <1>2, <1>7, <1>9 DEF Good
<1>11. LoopOK'
  BY <1>1, <1>2, MempoolAssumption DEF LoopOK
<1> QED BY <1>3, <1>4, <1>10, <1>11 DEF PoolInv

\* A block that the handler ignores: the pool is empty, or the miss is on record.
LEMMA IgnoredStep ==
  ASSUME PoolInv, NEW b \in Blocks, ConnectBlock(b, FALSE)
  PROVE  PoolInv'
<1>1. Good(mp) /\ LoopOK /\ ChainOK /\ NoteOK /\ Exact(mp)
  BY DEF PoolInv, Good
<1>2. /\ Connectable(b) /\ chain' = Append(chain, b) /\ note' = OnConnected(b, FALSE)
      /\ missed' = (missed \/ mp.pool \cup mp.orphans # {}) /\ mp' = mp
      /\ todo' = todo /\ tried' = tried /\ done' = done /\ changes' = changes + 1 /\ changes < MaxChanges
  BY DEF ConnectBlock, Change
<1>3. ChainOK'
  BY <1>1, <1>2, ConnectFacts DEF ChainOK
<1>4. note' = <<>>
  BY <1>2 DEF OnConnected
<1>5. NoteOK'
  BY <1>4 DEF NoteOK
<1>6. ~missed' => mp'.pool = {} /\ mp'.orphans = {}
  BY <1>2
<1>7. ConfirmedOK(mp)' /\ InputsOK(mp)'
  BY <1>6 DEF ConfirmedOK, InputsOK, Sound
<1>8. Good(mp)'
  BY <1>1, <1>2, <1>7 DEF Good
<1>9. missed' \in BOOLEAN
  BY <1>2
<1>10. LoopOK'
  BY <1>1, <1>2, <1>9, MempoolAssumption DEF LoopOK
<1> QED BY <1>3, <1>5, <1>8, <1>10 DEF PoolInv

LEMMA DisconnectBlockStep ==
  ASSUME PoolInv, DisconnectBlock
  PROVE  PoolInv'
<1>1. Good(mp) /\ LoopOK /\ ChainOK /\ NoteOK /\ Exact(mp)
  BY DEF PoolInv, Good
<1>2. /\ note = <<>> /\ chain # <<>> /\ chain' = Front(chain) /\ note' = OnDisconnected(Last(chain)) /\ mp' = mp
      /\ missed' = missed
      /\ todo' = todo /\ tried' = tried /\ done' = done /\ changes' = changes + 1 /\ changes < MaxChanges
  BY DEF DisconnectBlock, Change
<1>3. /\ ChainOK'
      /\ \A t : t \in Confirmed <=> t \in Confirmed' \/ \E i \in DOMAIN Last(chain) : t = Last(chain)[i]
  BY <1>1, <1>2, DisconnectFacts, HoldsIs DEF ChainOK
<1>4. NoteOK' /\ \A t : (\E i \in DOMAIN Last(chain) : t = Last(chain)[i]) => Pending("accept", t)'
  BY <1>1, <1>2, DisconnectedNote
<1>5. \A op, t : ~Pending(op, t)
  BY <1>2 DEF Pending
<1>6. ConfirmedOK(mp)'
  <2>1. ~missed => mp.pool \cap Confirmed = {} /\ \A t \in mp.orphans \cap Confirmed : ~Lasting(t)
    BY <1>1, <1>5 DEF Good, ConfirmedOK
  <2> QED BY <1>2, <1>3, <2>1 DEF ConfirmedOK
<1>7. ASSUME Sound, NEW t \in mp.pool, NEW o \in Ins[t] PROVE Answered(mp, o)'
  <2>1. o \in Utxo \/ o[1] \in mp.pool
    BY <1>1, <1>5, <1>7 DEF Good, InputsOK, Answered
  <2>2. CASE o \in Utxo /\ o \notin Utxo'
    <3>1. o \in OutPoint /\ (o[1] = 0 \/ o[1] \in Confirmed) /\ \A c \in Confirmed : o \notin Ins[c]
      BY <1>1, <2>2, ChainFacts
    <3>2. PICK S : S = Confirmed'
      OBVIOUS
    <3>3. S \subseteq Tx /\ Utxo' = UtxoOver(S)
      BY <1>3, <3>2, HoldsIs, ValidFacts DEF ChainOK
    <3>4. \A c \in S : o \notin Ins[c]
      BY <1>3, <3>1, <3>2
    <3>5. o[1] \notin S /\ o[1] # 0
      BY <2>2, <3>1, <3>3, <3>4, UtxoFacts
    <3>6. Pending("accept", o[1])'
      BY <1>3, <1>4, <3>1, <3>2, <3>5
    <3> QED BY <3>6 DEF Answered
  <2> QED BY <1>2, <2>1, <2>2 DEF Answered
<1>8. InputsOK(mp)'
  BY <1>2, <1>7 DEF InputsOK, Sound
<1>9. Good(mp)'
  BY <1>1, <1>2, <1>6, <1>8 DEF Good
<1>10. LoopOK'
  BY <1>1, <1>2, MempoolAssumption DEF LoopOK
<1> QED BY <1>3, <1>4, <1>9, <1>10 DEF PoolInv

LEMMA NotifyOrphansStep ==
  ASSUME PoolInv, NotifyOrphans
  PROVE  PoolInv'
<1>1. Good(mp) /\ LoopOK /\ ChainOK /\ NoteOK /\ Exact(mp)
  BY DEF PoolInv, Good
<1>2. /\ note # <<>> /\ Head(note)[1] = "orphans" /\ mp' = mp /\ chain' = chain /\ tried' = tried
      /\ missed' = missed /\ changes' = changes /\ note' = <<<<"running", Head(note)[2]>>>> \o Tail(note)
      /\ todo' = Outputs(Head(note)[2]) /\ done' = {Head(note)[2]}
  BY DEF NotifyOrphans
<1>3. note \in Seq(Op \X Tx)
  BY <1>1 DEF NoteOK
<1>4. Head(note)[2] \in Tx
  BY <1>2, <1>3, TailFollows
<1>5. Follows(note, note') /\ note' \in Seq(Op \X Tx)
  BY <1>2, <1>3, <1>4, RunningFollows
<1>6. \A op, t : op # "orphans" => Head(note) # <<op, t>>
  BY <1>2
<1>7. ConfirmedOK(mp) /\ InputsOK(mp)
  BY <1>1 DEF Good
<1>8. Good(mp)' /\ ChainOK' /\ NoteOK'
  BY <1>1, <1>2, <1>5, <1>6, <1>7, Called DEF ConfirmedOK, InputsOK, Answered
<1>9. LoopOK'
  BY <1>1, <1>2, <1>4, OutputsType DEF LoopOK
<1> QED BY <1>8, <1>9 DEF PoolInv

\* The pool loses a transaction that a block contains: an output of it that
\* is not to be found any more was spent by a transaction whose double
\* spends are still to be removed.
LEMMA NotifyRemove ==
  ASSUME PoolInv, note # <<>>, NEW t \in Tx, Head(note) = <<"remove", t>>,
         mp' = RemoveTransaction(mp, t, FALSE), note' = Tail(note), chain' = chain,
         missed' = missed
  PROVE  Good(mp)' /\ ChainOK' /\ NoteOK'
<1>1. Good(mp) /\ ChainOK /\ NoteOK /\ Exact(mp) /\ ConfirmedOK(mp) /\ InputsOK(mp)
  BY DEF PoolInv, Good
<1>2. note \in Seq(Op \X Tx)
  BY <1>1 DEF NoteOK
<1>3. Follows(note, note') /\ note' \in Seq(Op \X Tx) /\ Head(note) = note[1] /\ 1 \in DOMAIN note
  BY <1>2, TailFollows
<1>4. PICK S : S = {t} /\ mp' = Dropped(mp, S)
  BY DEF RemoveTransaction
<1>5. Exact(mp') /\ mp'.pool = mp.pool \ {t} /\ SameOrphans(mp, mp')
  <2>1. LET n == Dropped(mp, S) IN Exact(n) /\ n.pool = mp.pool \ S /\ SameOrphans(mp, n)
    BY <1>1, DroppedFacts
  <2> QED BY <1>4, <2>1, Zenon
<1>6. CallOK(note, 1, "remove", t)
  <2>1. CallOK(note, 1, note[1][1], note[1][2])
    BY <1>1, <1>3 DEF NoteOK
  <2>2. note[1][1] = "remove" /\ note[1][2] = t
    BY <1>3
  <2> QED BY <2>1, <2>2, Zenon
<1>7. ASSUME NEW o \in OutPoint, o[1] = t, o \notin Utxo
      PROVE  \E c \in Tx : Pending("doubles", c) /\ o \in Ins[c]
  <2>1. t \in Confirmed
    BY <1>6 DEF CallOK
  <2>2. PICK c \in Confirmed : o \in Ins[c]
    BY <1>1, <1>7, <2>1, ChainFacts
  <2>3. c \in Tx /\ o \in OutsOf(t)
    BY <1>1, <1>7, <2>1, <2>2, ChainFacts, OutPointFacts
  <2>4. Ins[c] \cap OutsOf(t) # {}
    BY <2>2, <2>3
  <2>5. PICK j \in DOMAIN note : note[j] = <<"remove", c>>
    BY <1>6, <2>2, <2>4 DEF CallOK
  <2>6. CallOK(note, j, "remove", c)
    <3>1. CallOK(note, j, note[j][1], note[j][2])
      BY <1>1, <2>5 DEF NoteOK
    <3>2. note[j][1] = "remove" /\ note[j][2] = c
      BY <2>5
    <3> QED BY <3>1, <3>2, Zenon
  <2>7. Pending("doubles", c)
    BY <2>6 DEF CallOK, Pending
  <2> QED BY <2>2, <2>3, <2>7
<1>8. \A op, u : op # "remove" => Head(note) # <<op, u>>
  OBVIOUS
<1>9. ASSUME Sound, NEW u \in mp'.pool, NEW o \in Ins[u]
      PROVE  \/ o \in Utxo \/ o[1] \in mp'.pool
             \/ \E c \in Tx : Pending("doubles", c) /\ o \in Ins[c]
             \/ Pending("accept", o[1])
  <2>1. u \in mp.pool /\ u \in Tx
    BY <1>1, <1>5, <1>9, ExactTypes
  <2>2. o \in OutPoint
    BY <1>9, <2>1, OutsFacts
  <2>3. Answered(mp, o)
    BY <1>1, <1>9, <2>1 DEF InputsOK
  <2> QED BY <1>5, <1>7, <2>2, <2>3 DEF Answered
<1>10. ASSUME ~missed, NEW u \in mp'.pool \cap Confirmed PROVE Pending("remove", u) /\ Head(note) # <<"remove", u>>
  <2>1. u \in mp.pool /\ u # t
    BY <1>5, <1>10
  <2>2. <<"remove", u>> # <<"remove", t>>
    BY <2>1
  <2> QED BY <1>1, <1>10, <2>1, <2>2 DEF ConfirmedOK
<1>11. ~missed => \A u \in mp'.orphans \cap Confirmed : Lasting(u) => Pending("orphan", u) /\ Head(note) # <<"orphan", u>>
  BY <1>1, <1>5, <1>8 DEF ConfirmedOK, SameOrphans
<1> QED BY <1>1, <1>3, <1>5, <1>8, <1>9, <1>10, <1>11, Called, ZenonT(40)

\* What conflicts with a confirmed transaction goes, with its descendants;
\* the transaction itself is not in the pool any more.
LEMMA NotifyDoubles ==
  ASSUME PoolInv, note # <<>>, NEW t \in Tx, Head(note) = <<"doubles", t>>,
         mp' = RemoveDoubleSpends(mp, t), note' = Tail(note), chain' = chain,
         missed' = missed
  PROVE  Good(mp)' /\ ChainOK' /\ NoteOK'
<1>1. Good(mp) /\ ChainOK /\ NoteOK /\ Exact(mp) /\ ConfirmedOK(mp) /\ InputsOK(mp)
  BY DEF PoolInv, Good
<1>2. note \in Seq(Op \X Tx)
  BY <1>1 DEF NoteOK
<1>3. Follows(note, note') /\ note' \in Seq(Op \X Tx) /\ Head(note) = note[1] /\ 1 \in DOMAIN note
  BY <1>2, TailFollows
<1>4. PICK S : S = {mp.outpoints[o] : o \in Ins[t]} \ {None, t}
  OBVIOUS
<1>5. mp' = Dropped(mp, Closure(mp, S))
  BY <1>4, Zenon DEF RemoveDoubleSpends
<1>6. S \subseteq Tx
  BY <1>1, <1>4, ExactTypes, OutsFacts
<1>7. Kept(mp, mp') /\ mp'.pool = mp.pool \ Closure(mp, S) /\ S \subseteq Closure(mp, S)
  BY <1>1, <1>5, <1>6, DropClosure, DroppedFacts, ClosureFacts
<1>8. Exact(mp') /\ mp'.pool \subseteq mp.pool /\ SameOrphans(mp, mp')
  BY <1>7 DEF Kept
<1>9. ASSUME ~missed PROVE t \notin mp.pool
  <2>1. SUFFICES ASSUME t \in mp.pool PROVE FALSE
    OBVIOUS
  <2>2. CallOK(note, 1, "doubles", t)
    <3>1. CallOK(note, 1, note[1][1], note[1][2])
      BY <1>1, <1>3 DEF NoteOK
    <3>2. note[1][1] = "doubles" /\ note[1][2] = t
      BY <1>3
    <3> QED BY <3>1, <3>2, Zenon
  <2>3. Pending("remove", t)
    BY <1>1, <1>9, <2>1, <2>2 DEF CallOK, ConfirmedOK
  <2>4. PICK j \in DOMAIN note : note[j] = <<"remove", t>>
    BY <2>3 DEF Pending
  <2>5. DOMAIN note = 1..Len(note) /\ Len(note) \in Nat
    BY <1>2
  <2>6. j # 1
    BY <1>3, <2>4
  <2>7. j > 1
    BY <2>4, <2>5, <2>6
  <2> QED BY <2>2, <2>4, <2>7 DEF CallOK
<1>10. ASSUME ~missed, NEW u \in mp'.pool, NEW o \in Ins[u], o \in Ins[t] PROVE FALSE
  <2>1. u \in mp.pool /\ u \in Tx
    BY <1>1, <1>8, <1>10, ExactTypes
  <2>2. o \in OutPoint /\ u # None /\ u # t
    BY <1>9, <1>10, <2>1, OutsFacts
  <2>3. mp.outpoints[o] = u
    BY <1>1, <1>10, <2>1, <2>2, ExactIndex
  <2>4. u \in S
    BY <1>4, <1>10, <2>2, <2>3
  <2> QED BY <1>7, <1>10, <2>4
<1>11. \A op, u : op # "doubles" => Head(note) # <<op, u>>
  OBVIOUS
<1>12. ASSUME Sound, NEW u \in mp'.pool, NEW o \in Ins[u]
       PROVE  \/ o \in Utxo \/ o[1] \in mp'.pool
              \/ \E c \in Tx : Pending("doubles", c) /\ o \in Ins[c] /\ Head(note) # <<"doubles", c>>
              \/ Pending("accept", o[1])
  <2>1. Answered(mp, o)
    BY <1>1, <1>8, <1>12 DEF InputsOK
  <2>2. o[1] \in mp.pool => o[1] \in mp'.pool
    BY <1>7, <1>12 DEF Kept
  <2>3. ASSUME NEW c \in Tx, Pending("doubles", c), o \in Ins[c] PROVE Head(note) # <<"doubles", c>>
    BY <1>10, <1>12, <2>3 DEF Sound
  <2> QED BY <2>1, <2>2, <2>3 DEF Answered
<1>13. ~missed => \A u \in mp'.pool \cap Confirmed : Pending("remove", u) /\ Head(note) # <<"remove", u>>
  BY <1>1, <1>8, <1>11 DEF ConfirmedOK
<1>14. ~missed => \A u \in mp'.orphans \cap Confirmed : Lasting(u) => Pending("orphan", u) /\ Head(note) # <<"orphan", u>>
  BY <1>1, <1>8, <1>11 DEF ConfirmedOK, SameOrphans
<1> QED BY <1>1, <1>3, <1>8, <1>11, <1>12, <1>13, <1>14, Called

LEMMA NotifyOrphan ==
  ASSUME PoolInv, note # <<>>, NEW t \in Tx, Head(note) = <<"orphan", t>>,
         mp' = RemoveOrphan(mp, t, FALSE), note' = Tail(note), chain' = chain,
         missed' = missed
  PROVE  Good(mp)' /\ ChainOK' /\ NoteOK'
<1>1. Good(mp) /\ ChainOK /\ NoteOK /\ Exact(mp) /\ ConfirmedOK(mp) /\ InputsOK(mp)
  BY DEF PoolInv, Good
<1>2. note \in Seq(Op \X Tx)
  BY <1>1 DEF NoteOK
<1>3. Follows(note, note') /\ note' \in Seq(Op \X Tx)
  BY <1>2, TailFollows
<1>4. Exact(mp') /\ mp'.pool = mp.pool /\ mp'.orphans = mp.orphans \ {t}
  <2>1. LET n == RemoveOrphan(mp, t, FALSE) IN Exact(n) /\ SamePool(mp, n) /\ n.orphans = mp.orphans \ {t}
    BY <1>1, RemoveOrphanFacts
  <2> QED BY <2>1, Zenon DEF SamePool
<1>5. \A op, u : op # "orphan" => Head(note) # <<op, u>>
  OBVIOUS
<1>6. ASSUME ~missed, NEW u \in mp'.orphans \cap Confirmed, Lasting(u)
      PROVE  Pending("orphan", u) /\ Head(note) # <<"orphan", u>>
  <2>1. u \in mp.orphans /\ u # t
    BY <1>4, <1>6
  <2>2. <<"orphan", u>> # <<"orphan", t>>
    BY <2>1
  <2> QED BY <1>1, <1>6, <2>1, <2>2 DEF ConfirmedOK
<1>7. ASSUME Sound, NEW u \in mp'.pool, NEW o \in Ins[u]
      PROVE  \/ o \in Utxo \/ o[1] \in mp'.pool
             \/ \E c \in Tx : Pending("doubles", c) /\ o \in Ins[c]
             \/ Pending("accept", o[1])
  BY <1>1, <1>4, <1>7 DEF InputsOK, Answered
<1>8. ~missed => \A u \in mp'.pool \cap Confirmed : Pending("remove", u)
  BY <1>1, <1>4 DEF ConfirmedOK
<1> QED BY <1>1, <1>3, <1>4, <1>5, <1>6, <1>7, <1>8, Called

\* What Reinsert leaves is a good pool in which nothing spends t unless t is
\* in it; only a transaction whose inputs are missing changes nothing.
LEMMA ReinsertFacts ==
  ASSUME PoolInv, NEW t \in Tx, Reinsert(t)
  PROVE  /\ Good(mp')
         /\ \/ Missing(mp, t) # {}
            \/ t \in mp'.pool
            \/ \A u \in mp'.pool : Ins[u] \cap OutsOf(t) = {}
<1>1. Good(mp) /\ ChainOK /\ NoteOK
  BY DEF PoolInv
<1>2. PICK check : check = CheckMempoolAcceptance(mp, t, TRUE)
  OBVIOUS
<1>3. PICK a : a = Accept(mp, t)
  OBVIOUS
<1>4. mp' = IF check = "orphan" THEN mp
            ELSE IF check = "reject" THEN RemoveTransaction(mp, t, TRUE)
            ELSE IF t \in a.pool THEN a ELSE RemoveTransaction(a, t, TRUE)
  BY <1>2, <1>3, Zenon DEF Reinsert
<1>5. check = "ok" => Good(a)
  BY <1>1, <1>2, <1>3, GoodAccept
<1>6. ASSUME NEW m, Good(m), mp' = RemoveTransaction(m, t, TRUE)
      PROVE  Good(mp') /\ \A u \in mp'.pool : Ins[u] \cap OutsOf(t) = {}
  <2>1. PICK S : S = {t}
    OBVIOUS
  <2>2. mp' = Dropped(m, Closure(m, S))
    BY <1>6, <2>1, Zenon DEF RemoveTransaction
  <2>3. Exact(m) /\ ConfirmedOK(m) /\ InputsOK(m) /\ S \subseteq Tx
    BY <1>6, <2>1 DEF Good
  <2>4. Kept(m, mp') /\ mp'.pool = m.pool \ Closure(m, S) /\ S \subseteq Closure(m, S)
    BY <2>2, <2>3, DropClosure, DroppedFacts, ClosureFacts
  <2>5. Exact(mp') /\ mp'.pool \subseteq m.pool /\ SameOrphans(m, mp')
    BY <2>4 DEF Kept
  <2>6. t \in Closure(m, S)
    BY <2>1, <2>4
  <2>7. \A u \in mp'.pool : Ins[u] \cap OutsOf(t) = {}
    BY <2>3, <2>4, <2>6, ClosureFacts
  <2>8. ConfirmedOK(mp')
    BY <2>3, <2>5 DEF ConfirmedOK, SameOrphans
  <2>9. ASSUME Sound, NEW u \in mp'.pool, NEW o \in Ins[u] PROVE Answered(mp', o)
    <3>1. Answered(m, o)
      BY <2>3, <2>5, <2>9 DEF InputsOK
    <3>2. o[1] \in m.pool => o[1] \in mp'.pool
      BY <2>4, <2>9 DEF Kept
    <3> QED BY <3>1, <3>2 DEF Answered
  <2> QED BY <2>5, <2>7, <2>8, <2>9 DEF Good, InputsOK
<1>7. CASE check = "orphan"
  BY <1>1, <1>2, <1>4, <1>7, CheckFacts
<1>8. CASE check = "reject"
  BY <1>1, <1>4, <1>6, <1>8
<1>9. CASE check = "ok" /\ t \in a.pool
  BY <1>4, <1>5, <1>9
<1>10. CASE check = "ok" /\ t \notin a.pool
  BY <1>4, <1>5, <1>6, <1>10
<1> QED BY <1>2, <1>7, <1>8, <1>9, <1>10, CheckFacts

LEMMA NotifyAccept ==
  ASSUME PoolInv, note # <<>>, NEW t \in Tx, Head(note) = <<"accept", t>>,
         Reinsert(t), note' = Tail(note), chain' = chain,
         missed' = missed
  PROVE  Good(mp)' /\ ChainOK' /\ NoteOK'
<1>1. Good(mp) /\ ChainOK /\ NoteOK
  BY DEF PoolInv
<1>2. note \in Seq(Op \X Tx)
  BY <1>1 DEF NoteOK
<1>3. Follows(note, note') /\ note' \in Seq(Op \X Tx) /\ Head(note) = note[1] /\ 1 \in DOMAIN note
  BY <1>2, TailFollows
<1>4. /\ Good(mp')
      /\ Missing(mp, t) # {} \/ t \in mp'.pool \/ \A u \in mp'.pool : Ins[u] \cap OutsOf(t) = {}
  BY ReinsertFacts
<1>5. Exact(mp') /\ ConfirmedOK(mp') /\ InputsOK(mp')
  BY <1>4 DEF Good
<1>6. Independent => Missing(mp, t) = {}
  <2>1. CallOK(note, 1, note[1][1], note[1][2])
    BY <1>1, <1>3 DEF NoteOK
  <2>2. note[1][1] = "accept" /\ note[1][2] = t
    BY <1>3
  <2>3. CallOK(note, 1, "accept", t)
    BY <2>1, <2>2, Zenon
  <2> QED BY <2>3 DEF CallOK, Missing
<1>7. \A op, u : op # "accept" => Head(note) # <<op, u>>
  OBVIOUS
<1>8. ASSUME Sound, NEW u \in mp'.pool, NEW o \in Ins[u]
      PROVE  \/ o \in Utxo \/ o[1] \in mp'.pool
             \/ \E c \in Tx : Pending("doubles", c) /\ o \in Ins[c]
             \/ Pending("accept", o[1]) /\ Head(note) # <<"accept", o[1]>>
  <2>1. Answered(mp', o)
    BY <1>5, <1>8 DEF InputsOK
  <2>2. CASE o[1] # t
    <3>1. <<"accept", o[1]>> # <<"accept", t>>
      BY <2>2
    <3> QED BY <2>1, <3>1 DEF Answered
  <2>3. CASE o[1] = t
    <3>1. u \in Tx
      BY <1>5, <1>8, ExactTypes
    <3>2. o \in OutPoint
      BY <1>8, <3>1, OutsFacts
    <3>3. o \in OutsOf(t)
      BY <2>3, <3>2, OutPointFacts
    <3> QED BY <1>4, <1>6, <1>8, <2>3, <3>3 DEF Sound
  <2> QED BY <2>2, <2>3
<1>9. ~missed => \A u \in mp'.pool \cap Confirmed : Pending("remove", u)
  BY <1>5 DEF ConfirmedOK
<1>10. ~missed => \A u \in mp'.orphans \cap Confirmed : Lasting(u) => Pending("orphan", u)
  BY <1>5 DEF ConfirmedOK
<1> QED BY <1>1, <1>3, <1>5, <1>7, <1>8, <1>9, <1>10, Called

LEMMA NotifyStep ==
  ASSUME PoolInv, Notify
  PROVE  PoolInv'
<1>1. LoopOK /\ NoteOK
  BY DEF PoolInv
<1>2. note \in Seq(Op \X Tx)
  BY <1>1 DEF NoteOK
<1>3. /\ note # <<>> /\ note' = Tail(note) /\ chain' = chain /\ todo' = todo /\ tried' = tried
      /\ done' = done /\ changes' = changes /\ missed' = missed
  BY DEF Notify
<1>4. PICK t \in Tx : t = Head(note)[2]
  BY <1>2, <1>3, TailFollows
<1>5. Head(note) = <<Head(note)[1], t>>
  <2>1. Head(note) \in Op \X Tx
    BY <1>2, <1>3
  <2> QED BY <1>4, <2>1
<1>6. LoopOK'
  BY <1>1, <1>3 DEF LoopOK
<1>7. \/ Head(note)[1] = "remove" /\ mp' = RemoveTransaction(mp, t, FALSE)
      \/ Head(note)[1] = "doubles" /\ mp' = RemoveDoubleSpends(mp, t)
      \/ Head(note)[1] = "orphan" /\ mp' = RemoveOrphan(mp, t, FALSE)
      \/ Head(note)[1] = "accept" /\ Reinsert(t)
  BY <1>4, Zenon DEF Notify
<1>8. CASE Head(note)[1] = "remove" /\ mp' = RemoveTransaction(mp, t, FALSE)
  <2>1. Head(note) = <<"remove", t>>
    BY <1>5, <1>8, Zenon
  <2> QED BY <1>3, <1>6, <1>8, <2>1, NotifyRemove DEF PoolInv
<1>9. CASE Head(note)[1] = "doubles" /\ mp' = RemoveDoubleSpends(mp, t)
  <2>1. Head(note) = <<"doubles", t>>
    BY <1>5, <1>9, Zenon
  <2> QED BY <1>3, <1>6, <1>9, <2>1, NotifyDoubles DEF PoolInv
<1>10. CASE Head(note)[1] = "orphan" /\ mp' = RemoveOrphan(mp, t, FALSE)
  <2>1. Head(note) = <<"orphan", t>>
    BY <1>5, <1>10, Zenon
  <2> QED BY <1>3, <1>6, <1>10, <2>1, NotifyOrphan DEF PoolInv
<1>11. CASE Head(note)[1] = "accept" /\ Reinsert(t)
  <2>1. Head(note) = <<"accept", t>>
    BY <1>5, <1>11, Zenon
  <2> QED BY <1>3, <1>6, <1>11, <2>1, NotifyAccept DEF PoolInv
<1> QED BY <1>7, <1>8, <1>9, <1>10, <1>11

-----------------------------------------------------------------------------
(* Theorems                                                                  *)

LEMMA PoolInit == Init => PoolInv
<1> SUFFICES ASSUME Init PROVE PoolInv
  OBVIOUS
<1>1. mp \in PoolState
  BY MempoolAssumption DEF Init, PoolState
<1>2. /\ mp.pool = {} /\ mp.heap = {} /\ mp.poolBytes = 0 /\ mp.orphans = {}
      /\ \A o \in OutPoint : mp.outpoints[o] = None /\ mp.orphansByPrev[o] = {}
  BY DEF Init
<1>3. mp.poolBytes = SizeOf(mp.pool)
  BY <1>2, FS_EmptySet DEF SizeOf, Total
<1>4. Cardinality(mp.orphans) <= MaxOrphans
  BY <1>2, FS_EmptySet, MempoolAssumption
<1>5. Exact(mp)
  BY <1>1, <1>2, <1>3, <1>4, IsExact
<1>6. LoopOK
  <2>1. missed \in BOOLEAN
    BY Zenon DEF Init
  <2>2. /\ todo \in Seq(OutPoint) /\ tried \subseteq Tx /\ done \subseteq Tx
        /\ changes \in 0..MaxChanges
    BY MempoolAssumption DEF Init
  <2> QED BY <2>1, <2>2 DEF LoopOK
<1>7. ChainOK
  BY DEF Init, ChainOK, ValidChain
<1>8. NoteOK
  BY DEF Init, NoteOK
<1> QED BY <1>2, <1>5, <1>6, <1>7, <1>8 DEF PoolInv, Good, ConfirmedOK, InputsOK

LEMMA PoolNext == PoolInv /\ [Next]_vars => PoolInv'
<1> SUFFICES ASSUME PoolInv, [Next]_vars PROVE PoolInv'
  OBVIOUS
<1>1. CASE UNCHANGED vars
  <2>1. mp' = mp /\ chain' = chain /\ note' = note /\ missed' = missed /\ LoopOK'
    BY <1>1 DEF vars, LoopOK, PoolInv
  <2>2. Good(mp) /\ ChainOK /\ NoteOK
    BY DEF PoolInv
  <2> QED BY <2>1, <2>2, Unmoved DEF PoolInv
<1>2. CASE \E t \in Tx, tag \in Tags \cup {None} : ProcessTransaction(t, tag)
  BY <1>2, ProcessTransactionStep
<1>3. CASE \E t \in Tx : ProcessOrphan(t)
  BY <1>3, ProcessOrphanStep
<1>4. CASE NextOutput
  BY <1>4, NextOutputStep
<1>5. CASE ProcessOrphansEnd
  BY <1>5, ProcessOrphansEndStep
<1>6. CASE \E tag \in Tags : RemoveOrphansByTag(tag)
  BY <1>6, RemoveOrphansByTagStep
<1>7. CASE \E b \in Blocks, current \in BOOLEAN : ConnectBlock(b, current)
  <2>1. PICK b \in Blocks : ConnectBlock(b, TRUE) \/ ConnectBlock(b, FALSE)
    BY <1>7, Zenon
  <2> QED BY <2>1, ConnectedStep, IgnoredStep
<1>8. CASE DisconnectBlock
  BY <1>8, DisconnectBlockStep
<1>9. CASE Notify
  BY <1>9, NotifyStep
<1>10. CASE NotifyOrphans
  BY <1>10, NotifyOrphansStep
<1> QED BY <1>1, <1>2, <1>3, <1>4, <1>5, <1>6, <1>7, <1>8, <1>9, <1>10 DEF Next

\* The inductive invariant of the pool and of the notifications it is behind
\* with.
THEOREM PoolInvSafe == Spec => []PoolInv
<1>1. Init => PoolInv
  BY PoolInit
<1>2. PoolInv /\ [Next]_vars => PoolInv'
  BY PoolNext
<1> QED BY <1>1, <1>2, PTL DEF Spec

\* mempool.go: whatever submitters, departing peers and chain notifications
\* do, outpoints, orphansByPrev, the fee heap and poolBytes agree with the
\* pools after every call, for every policy limit.
THEOREM IndexesExactSafe == Spec => []IndexesExact
<1>1. PoolInv => IndexesExact
  <2> SUFFICES ASSUME PoolInv PROVE IndexesExact
    OBVIOUS
  <2>1. Exact(mp) /\ LoopOK
    BY DEF PoolInv, Good
  <2>2. MempoolTypeOK
    BY <2>1 DEF Exact, LoopOK, MempoolTypeOK
  <2> QED BY <2>1, <2>2 DEF Exact, IndexesExact
<1> QED BY <1>1, PoolInvSafe, PTL

\* manager.go, handleBlockchainNotification: once a notification is handled
\* no confirmed transaction is in the pool, and no orphan is one that
\* fetchInputUtxos can recognize, as long as every block that the handler
\* ignored, the node not being current, found the pool empty.
THEOREM NotConfirmedSafe == Spec => []NotConfirmed
<1>1. PoolInv => NotConfirmed
  <2> SUFFICES ASSUME PoolInv, Settled, ~missed PROVE mp.pool \cap Confirmed = {} /\ \A t \in mp.orphans \cap Confirmed : ~Lasting(t)
    BY DEF NotConfirmed
  <2>1. \A op, t : ~Pending(op, t)
    BY DEF Settled, Pending
  <2> QED BY <2>1 DEF PoolInv, Good, ConfirmedOK
<1> QED BY <1>1, PoolInvSafe, PTL

\* manager.go:1628 and :1669: when no block holds a transaction together with
\* one that spends it, and every block that the handler ignored found the pool
\* empty, a settled pool can always be mined, ancestors first.  The hypothesis
\* is needed: the reinsert run violates the property without.
THEOREM InputsAvailableSafe ==
  ASSUME Independent
  PROVE  Spec => []InputsAvailable
<1>1. PoolInv => InputsAvailable
  <2> SUFFICES ASSUME PoolInv, Settled, ~missed, NEW t \in mp.pool, NEW o \in Ins[t] PROVE o \in Utxo \/ o[1] \in mp.pool
    BY DEF InputsAvailable
  <2>1. \A op, u : ~Pending(op, u)
    BY DEF Settled, Pending
  <2> QED BY <2>1 DEF PoolInv, Good, InputsOK, Sound, Answered
<1> QED BY <1>1, PoolInvSafe, PTL

LEMMA AcceptPays ==
  ASSUME NEW m, Exact(m), NEW t \in Tx, Acceptable(m, t), MinFee > 0, \A u \in Tx : Rate(u) > 0,
         Accept(m, t).floor = 0
  PROVE  FeesOf(Accept(m, t).pool) > FeesOf(m.pool)
<1>1. PICK n : n = Accept(m, t)
  OBVIOUS
<1>2. PICK C : C = TxConflicts(m, t)
  OBVIOUS
<1>3. /\ C \subseteq m.pool /\ (C = {} \/ FeesOf(C) + MinFee <= Fee[t])
      /\ m.pool \subseteq Tx /\ t \notin m.pool
  BY <1>2, ConflictFacts, ExactTypes DEF Acceptable
<1>4. n.pool = (m.pool \ C) \cup {t}
  <2>1. (\E u \in Tx : n.floor = Rate(u)) \/ n.pool = (m.pool \ C) \cup {t}
    BY <1>1, <1>2, AcceptFacts
  <2>2. \A u \in Tx : Rate(u) \in Nat
    BY RateType
  <2> QED BY <1>1, <2>1, <2>2
<1>5. Fee \in [Tx -> Nat] /\ Fee[t] \in Nat /\ MinFee \in Nat
  BY MempoolAssumption
<1>6. /\ FeesOf(m.pool \ C) = FeesOf(m.pool) - FeesOf(C)
      /\ FeesOf({t}) = Fee[t] /\ FeesOf(m.pool) \in Nat /\ FeesOf(C) \in Nat
  BY <1>3, <1>5, TotalLess, TotalOne, UnitsFinite DEF FeesOf
<1>7. FeesOf((m.pool \ C) \cup {t}) = FeesOf(m.pool \ C) + FeesOf({t})
  BY <1>3, <1>5, TotalSplit DEF FeesOf
<1>8. FeesOf(n.pool) = FeesOf(m.pool) - FeesOf(C) + Fee[t]
  <2>1. FeesOf(n.pool) = FeesOf((m.pool \ C) \cup {t})
    BY <1>4, Zenon
  <2> QED BY <1>6, <1>7, <2>1
<1>9. Fee[t] > 0
  <2>1. Size[t] \in Nat /\ Size[t] > 0
    BY MempoolAssumption
  <2>2. (Fee[t] * 1000) \div Size[t] > 0
    BY DEF Rate
  <2>3. ASSUME NEW s \in Nat, s > 0 PROVE 0 \div s = 0
    BY <2>3
  <2>4. ASSUME Fee[t] = 0 PROVE FALSE
    <3>1. Fee[t] * 1000 = 0
      BY <2>4
    <3> QED BY <2>1, <2>2, <2>3, <3>1
  <2> QED BY <1>5, <2>4
<1>10. FeesOf(C) < Fee[t]
  <2>1. CASE C = {}
    <3>1. FeesOf({}) = 0
      BY FS_EmptySet DEF FeesOf, Total
    <3>2. FeesOf(C) = 0
      BY <2>1, <3>1, Zenon
    <3> QED BY <1>9, <3>2
  <2>2. CASE FeesOf(C) + MinFee <= Fee[t]
    BY <1>5, <1>6, <2>2
  <2> QED BY <1>3, <2>1, <2>2
<1>11. FeesOf(n.pool) > FeesOf(m.pool)
  BY <1>5, <1>6, <1>8, <1>10
<1> QED BY <1>1, <1>11

\* mempool.go, validateReplacement: when the relay fee and every fee rate are
\* above zero, no replacement leaves the pool with fewer fees, unless
\* trimToSize evicted.
THEOREM ReplacementPaysSafe ==
  ASSUME MinFee > 0, \A t \in Tx : Rate(t) > 0
  PROVE  Spec => ReplacementPays
<1> DEFINE Pays == chain' = chain /\ note' = note /\ mp'.pool # mp.pool /\ mp'.floor = 0 =>
                     FeesOf(mp'.pool) > FeesOf(mp.pool)
<1>1. PoolInv /\ [Next]_vars => [Pays]_vars
  <2> SUFFICES ASSUME PoolInv, Next, chain' = chain, note' = note, mp'.pool # mp.pool, mp'.floor = 0
               PROVE  FeesOf(mp'.pool) > FeesOf(mp.pool)
    BY DEF vars
  <2>1. Exact(mp) /\ NoteOK
    BY DEF PoolInv, Good
  <2>2. ASSUME NEW t \in Tx, NEW r, CheckMempoolAcceptance(mp, t, r) = "ok",
               mp'.pool = Accept(mp, t).pool, mp'.floor = Accept(mp, t).floor
        PROVE  FeesOf(mp'.pool) > FeesOf(mp.pool)
    <3>1. FeesOf(Accept(mp, t).pool) > FeesOf(mp.pool)
      BY <2>1, <2>2, CheckFacts, AcceptPays
    <3> QED BY <2>2, <3>1
  <2>3. ASSUME NEW t \in Tx, NEW tag \in Tags \cup {None}, ProcessTransaction(t, tag)
        PROVE  FeesOf(mp'.pool) > FeesOf(mp.pool)
    <3>1. CASE CheckMempoolAcceptance(mp, t, TRUE) = "ok"
      BY <2>2, <2>3, <3>1 DEF ProcessTransaction
    <3>2. CASE CheckMempoolAcceptance(mp, t, TRUE) = "orphan"
      <4>1. mp' \in AddOrphan(mp, t, tag)
        BY <2>3, <3>2 DEF ProcessTransaction
      <4> QED BY <2>1, <4>1, AddOrphanFacts DEF SamePool
    <3> QED BY <2>3, <3>1, <3>2 DEF ProcessTransaction
  <2>4. ASSUME NEW t \in Tx, ProcessOrphan(t)
        PROVE  FeesOf(mp'.pool) > FeesOf(mp.pool)
    <3>1. mp' # mp
      OBVIOUS
    <3>2. PICK r, m : /\ mp' = RemoveOrphan(m, t, r)
                      /\ m = mp \/ (m = Accept(mp, t) /\ CheckMempoolAcceptance(mp, t, FALSE) = "ok")
      <4>1. CASE CheckMempoolAcceptance(mp, t, FALSE) = "orphan"
        BY <2>4, <3>1, <4>1 DEF ProcessOrphan
      <4>2. CASE CheckMempoolAcceptance(mp, t, FALSE) = "ok"
        BY <2>4, <4>2, Zenon DEF ProcessOrphan
      <4>3. CASE CheckMempoolAcceptance(mp, t, FALSE) = "reject"
        <5>1. mp' = RemoveOrphan(IF CheckMempoolAcceptance(mp, t, FALSE) = "ok" THEN Accept(mp, t) ELSE mp, t, TRUE)
          BY <2>4, <4>3 DEF ProcessOrphan
        <5>2. mp' = RemoveOrphan(mp, t, TRUE)
          BY <4>3, <5>1
        <5> QED BY <5>2
      <4> QED BY <4>1, <4>2, <4>3, CheckFacts
    <3>3. Exact(m)
      <4>1. ASSUME CheckMempoolAcceptance(mp, t, FALSE) = "ok" PROVE Exact(Accept(mp, t))
        <5>1. Acceptable(mp, t)
          BY <4>1, CheckFacts
        <5> QED BY <2>1, <5>1, AcceptFacts
      <4> QED BY <2>1, <3>2, <4>1, Zenon
    <3>4. mp'.pool = m.pool /\ mp'.floor = m.floor
      <4>1. LET n == RemoveOrphan(m, t, r) IN SamePool(m, n)
        BY <3>3, RemoveOrphanFacts
      <4> QED BY <3>2, <4>1, Zenon DEF SamePool
    <3> QED BY <2>2, <3>2, <3>4
  <2>5. CASE NextOutput
    BY <2>5 DEF NextOutput
  <2>6. CASE ProcessOrphansEnd
    <3>1. PICK S : mp' = DropOrphans(mp, S)
      BY <2>6 DEF ProcessOrphansEnd, RemoveOrphanDoubleSpends
    <3> QED BY <2>1, <3>1, DropOrphansFacts DEF SamePool
  <2>7. ASSUME NEW tag, RemoveOrphansByTag(tag) PROVE FeesOf(mp'.pool) > FeesOf(mp.pool)
    <3>1. PICK S : mp' = DropOrphans(mp, S)
      BY <2>7 DEF RemoveOrphansByTag
    <3> QED BY <2>1, <3>1, DropOrphansFacts DEF SamePool
  <2>8. CASE (\E b \in Blocks, current \in BOOLEAN : ConnectBlock(b, current)) \/ DisconnectBlock \/ NotifyOrphans
    BY <2>8 DEF ConnectBlock, DisconnectBlock, NotifyOrphans
  <2>9. CASE Notify
    <3>1. note' = Tail(note) /\ note # <<>> /\ note \in Seq(Op \X Tx)
      BY <2>1, <2>9 DEF Notify, NoteOK
    <3>2. Len(Tail(note)) = Len(note) - 1 /\ Len(note) \in Nat
      BY <3>1
    <3> QED BY <3>1, <3>2
  <2> QED BY <2>3, <2>4, <2>5, <2>6, <2>7, <2>8, <2>9 DEF Next
<1>2. Spec => [][Pays]_vars
  BY <1>1, PoolInvSafe, PTL DEF Spec
<1> QED BY <1>2 DEF ReplacementPays

=============================================================================
