--------------------------- MODULE UtxoCacheProofs ---------------------------
(***************************************************************************)
(* Proofs about UtxoCache, for every block tree, every set of outpoints    *)
(* and every number of calls and crashes, of a node whose database         *)
(* transactions do not fail: the cache over the database always shows the  *)
(* coins of the best chain, and the database those of its mark.            *)
(***************************************************************************)
EXTENDS UtxoCache, BlockTreeProofs

-----------------------------------------------------------------------------
(* The transactions of a branch                                              *)

LEMMA TxFacts ==
  ASSUME NEW b \in Block
  PROVE  /\ Len(Txs[b]) \in Nat /\ DOMAIN Txs[b] = 1..Len(Txs[b])
         /\ \A i \in 1..Len(Txs[b]) : /\ Txs[b][i].ins \in SUBSET Out
                                      /\ Txs[b][i].outs \in SUBSET Out
<1>1. Txs[b] \in Seq([ins : SUBSET Out, outs : SUBSET Out])
  BY UtxoAssumption
<1>2. Len(Txs[b]) \in Nat /\ DOMAIN Txs[b] = 1..Len(Txs[b])
  BY <1>1
<1>3. ASSUME NEW T, NEW s \in Seq(T) PROVE \A i \in 1..Len(s) : s[i] \in T
  OBVIOUS
<1>4. \A i \in 1..Len(Txs[b]) : Txs[b][i] \in [ins : SUBSET Out, outs : SUBSET Out]
  BY <1>1, <1>3
<1> QED
  BY <1>2, <1>4

\* What a block spends, its own branch made before.
LEMMA MadeBefore ==
  ASSUME NEW d \in Block, NEW j \in DOMAIN Txs[d], NEW o \in Txs[d][j].ins
  PROVE  \E c \in Chain[d] : \E i \in DOMAIN Txs[c] :
           o \in Txs[c][i].outs /\ (c # d \/ i < j)
BY TxsAssumption DEF Earlier

\* On a branch no coin is spent twice and no outpoint is made twice.
LEMMA SpentOnce ==
  ASSUME NEW b \in Block, NEW c \in Chain[b], NEW d \in Chain[b],
         NEW o, o \in Ins(c), o \in Ins(d)
  PROVE  c = d
<1>1. c \in Block /\ d \in Block /\ Height[c] \in Nat /\ Height[d] \in Nat
  BY ChainSelf
<1>2. PICK i \in DOMAIN Txs[c] : o \in Txs[c][i].ins
  BY DEF Ins
<1>3. PICK j \in DOMAIN Txs[d] : o \in Txs[d][j].ins
  BY DEF Ins
<1>4. CASE Height[c] <= Height[d]
  <2>1. c \in Chain[d]
    BY <1>4, ChainLinear
  <2>2. c # d => Earlier(c, i, d, j)
    BY <2>1 DEF Earlier
  <2> QED
    BY <1>1, <1>2, <1>3, <2>2, TxsAssumption
<1>5. CASE Height[d] <= Height[c]
  <2>1. d \in Chain[c]
    BY <1>5, ChainLinear
  <2>2. c # d => Earlier(d, j, c, i)
    BY <2>1 DEF Earlier
  <2> QED
    BY <1>1, <1>2, <1>3, <2>2, TxsAssumption
<1> QED
  BY <1>1, <1>4, <1>5

LEMMA MadeOnce ==
  ASSUME NEW b \in Block, NEW c \in Chain[b], NEW d \in Chain[b],
         NEW o, o \in Outs(c), o \in Outs(d)
  PROVE  c = d
<1>1. c \in Block /\ d \in Block /\ Height[c] \in Nat /\ Height[d] \in Nat
  BY ChainSelf
<1>2. PICK i \in DOMAIN Txs[c] : o \in Txs[c][i].outs
  BY DEF Outs
<1>3. PICK j \in DOMAIN Txs[d] : o \in Txs[d][j].outs
  BY DEF Outs
<1>4. CASE Height[c] <= Height[d]
  <2>1. c \in Chain[d]
    BY <1>4, ChainLinear
  <2>2. c # d => Earlier(c, i, d, j)
    BY <2>1 DEF Earlier
  <2> QED
    BY <1>1, <1>2, <1>3, <2>2, TxsAssumption
<1>5. CASE Height[d] <= Height[c]
  <2>1. d \in Chain[c]
    BY <1>5, ChainLinear
  <2>2. c # d => Earlier(d, j, c, i)
    BY <2>1 DEF Earlier
  <2> QED
    BY <1>1, <1>2, <1>3, <2>2, TxsAssumption
<1> QED
  BY <1>1, <1>4, <1>5

\* Within a block every coin has one maker and one spender, in this order.
LEMMA BlockOrder ==
  ASSUME NEW b \in Block, NEW i \in 1..Len(Txs[b]), NEW j \in 1..Len(Txs[b]), NEW o
  PROVE  /\ o \in Txs[b][i].ins /\ o \in Txs[b][j].ins => i = j
         /\ o \in Txs[b][i].outs /\ o \in Txs[b][j].outs => i = j
         /\ o \in Txs[b][i].outs /\ o \in Txs[b][j].ins => i < j
<1>1. b \in Chain[b] /\ i \in DOMAIN Txs[b] /\ j \in DOMAIN Txs[b] /\ i \in Int /\ j \in Int
  BY ChainSelf, TxFacts
<1>2. \A x \in DOMAIN Txs[b], y \in DOMAIN Txs[b] : x < y =>
        Txs[b][x].ins \cap Txs[b][y].ins = {} /\ Txs[b][x].outs \cap Txs[b][y].outs = {}
  BY <1>1, TxsAssumption DEF Earlier
<1>3. \A x \in DOMAIN Txs[b], y \in DOMAIN Txs[b] : x # y =>
        Txs[b][x].ins \cap Txs[b][y].ins = {} /\ Txs[b][x].outs \cap Txs[b][y].outs = {}
  <2>1. SUFFICES ASSUME NEW x \in DOMAIN Txs[b], NEW y \in DOMAIN Txs[b], x # y
                 PROVE  /\ Txs[b][x].ins \cap Txs[b][y].ins = {}
                        /\ Txs[b][x].outs \cap Txs[b][y].outs = {}
    OBVIOUS
  <2>2. x < y \/ y < x
    BY <2>1, TxFacts
  <2> QED
    BY <2>2, <1>2
<1>4. ASSUME o \in Txs[b][i].outs, o \in Txs[b][j].ins
      PROVE  i < j
  <2>1. PICK c \in Chain[b] : \E k \in DOMAIN Txs[c] :
               o \in Txs[c][k].outs /\ (c # b \/ k < j)
    BY <1>1, <1>4, MadeBefore
  <2>2. PICK k \in DOMAIN Txs[c] : o \in Txs[c][k].outs /\ (c # b \/ k < j)
    BY <2>1
  <2>3. o \in Outs(c) /\ o \in Outs(b)
    BY <1>1, <1>4, <2>2 DEF Outs
  <2>4. c = b
    BY <1>1, <2>3, MadeOnce
  <2>5. k = i
    BY <1>1, <1>3, <1>4, <2>2, <2>4
  <2> QED
    BY <2>2, <2>4, <2>5
<1> QED
  BY <1>1, <1>3, <1>4

-----------------------------------------------------------------------------
(* The coins of a chain                                                      *)

LEMMA InsOut ==
  ASSUME NEW b \in Block
  PROVE  Ins(b) \in SUBSET Out /\ Outs(b) \in SUBSET Out
BY TxFacts DEF Ins, Outs

LEMMA CoinSpent ==
  ASSUME NEW b \in Block, NEW o \in Out, NEW d \in Chain[b], o \in Ins(d)
  PROVE  CoinsAt[b][o] = None
BY DEF CoinsAt

LEMMA CoinNever ==
  ASSUME NEW b \in Block, NEW o \in Out, \A c \in Chain[b] : o \notin Outs(c)
  PROVE  CoinsAt[b][o] = None
BY DEF CoinsAt

LEMMA CoinMade ==
  ASSUME NEW b \in Block, NEW o \in Out, \A d \in Chain[b] : o \notin Ins(d),
         NEW c \in Chain[b], o \in Outs(c)
  PROVE  CoinsAt[b][o] = c
<1>1. CoinsAt[b][o] = CHOOSE x \in Chain[b] : o \in Outs(x)
  BY DEF CoinsAt
<1>2. CoinsAt[b][o] \in Chain[b] /\ o \in Outs(CoinsAt[b][o])
  BY <1>1
<1> QED
  BY <1>2, MadeOnce

LEMMA CoinsType ==
  ASSUME NEW b \in Block
  PROVE  CoinsAt[b] \in [Out -> Block \cup {None}]
<1>1. CoinsAt[b] = [o \in Out |-> CoinsAt[b][o]]
  BY DEF CoinsAt
<1>2. \A o \in Out : CoinsAt[b][o] \in Block \cup {None}
  <2>1. SUFFICES ASSUME NEW o \in Out PROVE CoinsAt[b][o] \in Block \cup {None}
    OBVIOUS
  <2>2. CASE \E d \in Chain[b] : o \in Ins(d)
    BY <2>2, CoinSpent
  <2>3. CASE \A d \in Chain[b] : o \notin Outs(d)
    BY <2>3, CoinNever
  <2>4. CASE (\A d \in Chain[b] : o \notin Ins(d)) /\ \E c \in Chain[b] : o \in Outs(c)
    BY <2>4, CoinMade, ChainSelf
  <2> QED
    BY <2>2, <2>3, <2>4
<1> QED
  BY <1>1, <1>2

LEMMA CoinsGenesis ==
  CoinsAt[Genesis] = [o \in Out |-> None]
<1>1. Genesis \in Block /\ Chain[Genesis] = {Genesis}
  BY BlockAssumption, NodeAssumption
<1>2. Outs(Genesis) = {}
  BY TxsAssumption DEF Outs
<1>3. \A o \in Out : CoinsAt[Genesis][o] = None
  BY <1>1, <1>2, CoinNever
<1> QED
  BY <1>1, <1>3, CoinsType

\* What block b changes: it takes away what it spends and adds what it makes.
LEMMA CoinsStep ==
  ASSUME NEW b \in Block, b # Genesis, NEW o \in Out
  PROVE  /\ o \in Ins(b) => CoinsAt[b][o] = None
         /\ o \in Outs(b) /\ o \notin Ins(b) => CoinsAt[b][o] = b
         /\ o \notin Outs(b) /\ o \notin Ins(b) => CoinsAt[b][o] = CoinsAt[Parent[b]][o]
         /\ o \in Ins(b) /\ o \notin Outs(b) => CoinsAt[Parent[b]][o] # None
         /\ o \in Outs(b) => \A m \in Chain[Parent[b]] : CoinsAt[m][o] = None
<1> DEFINE p == Parent[b]
<1>1. /\ p \in Block /\ Chain[b] = Chain[p] \cup {b} /\ b \notin Chain[p] /\ b \in Chain[b]
      /\ Chain[p] \in SUBSET Block
  BY ParentFacts, ChainSelf
<1>2. o \in Ins(b) => CoinsAt[b][o] = None
  BY <1>1, CoinSpent
<1>3. ASSUME o \in Outs(b), NEW c \in Chain[p], o \in Outs(c)
      PROVE  FALSE
  BY <1>1, <1>3, MadeOnce
<1>4. ASSUME NEW d \in Chain[b], o \in Ins(d)
      PROVE  \E c \in Chain[d] : o \in Outs(c)
  <2>1. d \in Block
    BY ChainSelf
  <2>2. PICK j \in DOMAIN Txs[d] : o \in Txs[d][j].ins
    BY <1>4 DEF Ins
  <2> QED
    BY <2>1, <2>2, MadeBefore DEF Outs
<1>5. ASSUME o \in Outs(b), NEW d \in Chain[p], o \in Ins(d)
      PROVE  FALSE
  <2>1. PICK c \in Chain[d] : o \in Outs(c)
    BY <1>1, <1>4, <1>5
  <2>2. c \in Chain[p]
    BY <1>1, ChainDown
  <2> QED
    BY <1>3, <1>5, <2>1, <2>2
<1>6. o \in Outs(b) /\ o \notin Ins(b) => CoinsAt[b][o] = b
  <2>1. SUFFICES ASSUME o \in Outs(b), o \notin Ins(b) PROVE CoinsAt[b][o] = b
    OBVIOUS
  <2>2. \A d \in Chain[b] : o \notin Ins(d)
    BY <1>1, <1>5, <2>1
  <2> QED
    BY <1>1, <2>1, <2>2, CoinMade
<1>7. o \notin Outs(b) /\ o \notin Ins(b) => CoinsAt[b][o] = CoinsAt[p][o]
  <2>1. SUFFICES ASSUME o \notin Outs(b), o \notin Ins(b)
                 PROVE  CoinsAt[b][o] = CoinsAt[p][o]
    OBVIOUS
  <2>2. CASE \E d \in Chain[b] : o \in Ins(d)
    <3>1. PICK d \in Chain[p] : o \in Ins(d)
      BY <1>1, <2>1, <2>2
    <3>2. CoinsAt[p][o] = None
      BY <1>1, <3>1, CoinSpent
    <3> QED
      BY <1>1, <3>1, <3>2, CoinSpent
  <2>3. CASE \A c \in Chain[b] : o \notin Outs(c)
    <3>1. CoinsAt[b][o] = None
      BY <2>3, CoinNever
    <3>2. CoinsAt[p][o] = None
      BY <1>1, <2>3, CoinNever
    <3> QED
      BY <3>1, <3>2
  <2>4. CASE (\A d \in Chain[b] : o \notin Ins(d)) /\ \E c \in Chain[b] : o \in Outs(c)
    <3>1. PICK c \in Chain[p] : o \in Outs(c)
      BY <1>1, <2>1, <2>4
    <3>2. CoinsAt[p][o] = c
      BY <1>1, <3>1, <2>4, CoinMade
    <3>3. CoinsAt[b][o] = c
      BY <1>1, <3>1, <2>4, CoinMade
    <3> QED
      BY <3>2, <3>3
  <2> QED
    BY <2>2, <2>3, <2>4
<1>8. o \in Ins(b) /\ o \notin Outs(b) => CoinsAt[p][o] # None
  <2>1. SUFFICES ASSUME o \in Ins(b), o \notin Outs(b) PROVE CoinsAt[p][o] # None
    OBVIOUS
  <2>2. PICK c \in Chain[b] : o \in Outs(c)
    BY <1>1, <1>4, <2>1
  <2>3. c \in Chain[p]
    BY <1>1, <2>1, <2>2
  <2>4. \A d \in Chain[p] : o \notin Ins(d)
    BY <1>1, <2>1, SpentOnce
  <2>5. CoinsAt[p][o] = c
    BY <1>1, <2>2, <2>3, <2>4, CoinMade
  <2> QED
    BY <1>1, <2>3, <2>5, UtxoAssumption
<1>9. ASSUME o \in Outs(b), NEW m \in Chain[p]
      PROVE  CoinsAt[m][o] = None
  <2>1. m \in Block /\ Chain[m] \subseteq Chain[p]
    BY <1>1, ChainDown
  <2>2. \A c \in Chain[m] : o \notin Outs(c)
    BY <1>3, <1>9, <2>1
  <2> QED
    BY <2>1, <2>2, CoinNever
<1> QED
  BY <1>2, <1>6, <1>7, <1>8, <1>9

-----------------------------------------------------------------------------
(* The two loops over a block's transactions, unfolded                       *)

LEMMA ConnectUnfold ==
  ASSUME NEW b \in Block, NEW c, NEW s0,
         s0 = [cache |-> c, stxos |-> [o \in Out |-> None], missing |-> FALSE],
         NEW N, N = Len(Txs[b])
  PROVE  \E f : /\ f[0] = s0
                /\ \A n \in 1..N : f[n] = ConnectTransaction(f[n - 1], Txs[b][n], b)
                /\ ConnectTransactions(c, b) = f[N]
<1> DEFINE St(s, i) == ConnectTransaction(s, Txs[b][i], b)
           E(g, n) == [i \in 0..n |-> IF i = 0 THEN s0 ELSE St(g[i - 1], i)]
           Bad == {n \in Nat : ~ \E g : g = E(g, n)}
<1>0. N \in Nat
  BY TxFacts
<1>1. PICK f : f = CHOOSE g : g = E(g, N)
  OBVIOUS
<1>2. ConnectTransactions(c, b) = f[N]
  BY <1>1 DEF ConnectTransactions
<1> HIDE DEF St
<1>3. ASSUME NEW n \in Nat, NEW g, g = E(g, n) PROVE \E h : h = E(h, n + 1)
  <2> DEFINE h == [i \in 0..(n + 1) |-> IF i <= n THEN g[i] ELSE St(g[n], n + 1)]
  <2>0. \A i \in 0..n : g[i] = IF i = 0 THEN s0 ELSE St(g[i - 1], i)
    BY <1>3
  <2>1. ASSUME NEW i \in 0..(n + 1) PROVE h[i] = IF i = 0 THEN s0 ELSE St(h[i - 1], i)
    <3>1. CASE i = 0
      <4>1. h[i] = g[i] /\ i \in 0..n
        BY <3>1
      <4> QED
        BY <3>1, <4>1, <2>0
    <3>2. CASE i # 0 /\ i <= n
      <4>1. h[i] = g[i] /\ h[i - 1] = g[i - 1] /\ i \in 0..n
        BY <3>2
      <4> QED
        BY <3>2, <4>1, <2>0
    <3>3. CASE i = n + 1
      <4>1. h[i] = St(g[n], n + 1) /\ h[i - 1] = g[n] /\ i # 0
        BY <3>3
      <4> QED
        BY <3>3, <4>1
    <3> QED
      BY <3>1, <3>2, <3>3
  <2>2. h = E(h, n + 1)
    BY <2>1
  <2> QED
    BY <2>2
<1>4. \E g : g = E(g, 0)
  <2> DEFINE g == [i \in 0..0 |-> s0]
  <2>1. g = E(g, 0)
    OBVIOUS
  <2> QED
    BY <2>1
<1>5. \E g : g = E(g, N)
  <2>1. SUFFICES ASSUME Bad # {} PROVE FALSE
    BY <1>0
  <2>2. PICK n \in Bad : \A k \in Bad : n <= k
    BY <2>1, LeastNat
  <2>3. n \in Nat /\ n # 0 /\ ~ \E g : g = E(g, n)
    BY <2>2, <1>4
  <2>4. n - 1 \in Nat /\ (n - 1) + 1 = n /\ ~(n <= n - 1)
    BY <2>3
  <2>5. PICK g : g = E(g, n - 1)
    <3>1. n - 1 \notin Bad
      <4> HIDE DEF Bad
      <4> QED
        BY <2>2, <2>4
    <3> QED
      BY <2>4, <3>1
  <2>6. \E h : h = E(h, (n - 1) + 1)
    BY <1>3, <2>4, <2>5
  <2> QED
    BY <2>3, <2>4, <2>6
<1>6. f = E(f, N)
  BY <1>1, <1>5
<1>7. ASSUME NEW n \in 0..N PROVE f[n] = IF n = 0 THEN s0 ELSE St(f[n - 1], n)
  BY <1>6
<1>8. f[0] = s0
  BY <1>7, <1>0, 0 \in 0..N
<1>9. ASSUME NEW n \in 1..N PROVE f[n] = ConnectTransaction(f[n - 1], Txs[b][n], b)
  BY <1>7, <1>0 DEF St
<1> QED
  BY <1>2, <1>8, <1>9

\* The views after each transaction of block b, from the last to the first.
UndoneBy(f, v, b) ==
  /\ f[0] = v
  /\ \A n \in 1..Len(Txs[b]) :
       f[n] = DisconnectTransaction(f[n - 1], Txs[b][Len(Txs[b]) - n + 1], b)
  /\ DisconnectTransactions(v, b) = f[Len(Txs[b])]

LEMMA DisconnectUnfold ==
  ASSUME NEW b \in Block, NEW v
  PROVE  \E f : UndoneBy(f, v, b)
<1>a. PICK N : N = Len(Txs[b])
  OBVIOUS
<1> DEFINE St(s, i) == DisconnectTransaction(s, Txs[b][N - i + 1], b)
           E(g, n) == [i \in 0..n |-> IF i = 0 THEN v ELSE St(g[i - 1], i)]
           Bad == {n \in Nat : ~ \E g : g = E(g, n)}
<1>0. N \in Nat
  BY <1>a, TxFacts
<1>1. PICK f : f = CHOOSE g : g = E(g, N)
  OBVIOUS
<1>2. DisconnectTransactions(v, b) = f[N]
  BY <1>a, <1>1 DEF DisconnectTransactions
<1> HIDE DEF St
<1>3. ASSUME NEW n \in Nat, NEW g, g = E(g, n) PROVE \E h : h = E(h, n + 1)
  <2> DEFINE h == [i \in 0..(n + 1) |-> IF i <= n THEN g[i] ELSE St(g[n], n + 1)]
  <2>0. \A i \in 0..n : g[i] = IF i = 0 THEN v ELSE St(g[i - 1], i)
    BY <1>3
  <2>1. ASSUME NEW i \in 0..(n + 1) PROVE h[i] = IF i = 0 THEN v ELSE St(h[i - 1], i)
    <3>1. CASE i = 0
      <4>1. h[i] = g[i] /\ i \in 0..n
        BY <3>1
      <4> QED
        BY <3>1, <4>1, <2>0
    <3>2. CASE i # 0 /\ i <= n
      <4>1. h[i] = g[i] /\ h[i - 1] = g[i - 1] /\ i \in 0..n
        BY <3>2
      <4> QED
        BY <3>2, <4>1, <2>0
    <3>3. CASE i = n + 1
      <4>1. h[i] = St(g[n], n + 1) /\ h[i - 1] = g[n] /\ i # 0
        BY <3>3
      <4> QED
        BY <3>3, <4>1
    <3> QED
      BY <3>1, <3>2, <3>3
  <2>2. h = E(h, n + 1)
    BY <2>1
  <2> QED
    BY <2>2
<1>4. \E g : g = E(g, 0)
  <2> DEFINE g == [i \in 0..0 |-> v]
  <2>1. g = E(g, 0)
    OBVIOUS
  <2> QED
    BY <2>1
<1>5. \E g : g = E(g, N)
  <2>1. SUFFICES ASSUME Bad # {} PROVE FALSE
    BY <1>0
  <2>2. PICK n \in Bad : \A k \in Bad : n <= k
    BY <2>1, LeastNat
  <2>3. n \in Nat /\ n # 0 /\ ~ \E g : g = E(g, n)
    BY <2>2, <1>4
  <2>4. n - 1 \in Nat /\ (n - 1) + 1 = n /\ ~(n <= n - 1)
    BY <2>3
  <2>5. PICK g : g = E(g, n - 1)
    <3>1. n - 1 \notin Bad
      <4> HIDE DEF Bad
      <4> QED
        BY <2>2, <2>4
    <3> QED
      BY <2>4, <3>1
  <2>6. \E h : h = E(h, (n - 1) + 1)
    BY <1>3, <2>4, <2>5
  <2> QED
    BY <2>3, <2>4, <2>6
<1>6. f = E(f, N)
  BY <1>1, <1>5
<1>7. ASSUME NEW n \in 0..N PROVE f[n] = IF n = 0 THEN v ELSE St(f[n - 1], n)
  BY <1>6
<1>8. f[0] = v
  BY <1>7, <1>0, 0 \in 0..N
<1>9. ASSUME NEW n \in 1..N
      PROVE  f[n] = DisconnectTransaction(f[n - 1], Txs[b][N - n + 1], b)
  BY <1>7, <1>0 DEF St
<1>10. UndoneBy(f, v, b)
  BY <1>a, <1>2, <1>8, <1>9 DEF UndoneBy
<1> QED
  BY <1>10

-----------------------------------------------------------------------------
(* What a cache entry stands for                                             *)

CacheEntry == [kind : Kind \ {"mod"}, coin : Block \cup {None}]
Coins == [Out -> Block \cup {None}]

\* Entry e of the cache stands for coin k over a database that holds u.
EntryOK(e, k, u) ==
  \/ e = Absent /\ u = k
  \/ e = Nil /\ k = None /\ u = None
  \/ e = Spent /\ k = None
  \/ e = Entry("clean", k) /\ u = k /\ k # None
  \/ e = Entry("fresh", k) /\ u = None /\ k # None

\* Cache c over the database stands for the coins of the chain that ends in b.
CacheAt(c, b) == \A o \in Out : EntryOK(c[o], CoinsAt[b][o], utxo[o])

\* fetchEntries changes what the cache holds, not what it stands for; an entry
\* that was asked for is there afterwards.
LEMMA FetchedKeeps ==
  ASSUME NEW c \in [Out -> CacheEntry], NEW S \in SUBSET Out, utxo \in Coins,
         NEW k \in Coins, \A o \in Out : EntryOK(c[o], k[o], utxo[o])
  PROVE  /\ Fetched(c, S) \in [Out -> CacheEntry]
         /\ \A o \in Out : EntryOK(Fetched(c, S)[o], k[o], utxo[o])
         /\ \A o \in S : Fetched(c, S)[o] # Absent
         /\ \A o \in Out \ S : Fetched(c, S)[o] = c[o]
<1>1. ASSUME NEW o \in Out
      PROVE  Fetched(c, S)[o] = IF o \notin S \/ c[o] # Absent THEN c[o]
                                ELSE IF utxo[o] = None THEN Nil
                                ELSE Entry("clean", utxo[o])
  <2>1. CASE o \notin S \/ c[o] # Absent
    BY <2>1 DEF Fetched
  <2>2. CASE ~(o \notin S \/ c[o] # Absent)
    BY <2>2 DEF Fetched
  <2> QED
    BY <2>1, <2>2
<1>2. Fetched(c, S) = [o \in Out |-> Fetched(c, S)[o]]
  BY DEF Fetched
<1>3. ASSUME NEW o \in Out PROVE Fetched(c, S)[o] \in CacheEntry
  <2>1. c[o] \in CacheEntry /\ Nil \in CacheEntry /\ utxo[o] \in Block \cup {None}
    BY DEF CacheEntry, Kind, Coins, Nil, Entry
  <2>2. Entry("clean", utxo[o]) \in CacheEntry
    BY <2>1 DEF CacheEntry, Kind, Entry
  <2> QED
    BY <1>1, <2>1, <2>2
<1>4. Fetched(c, S) \in [Out -> CacheEntry]
  BY <1>2, <1>3
<1>5. ASSUME NEW o \in Out PROVE EntryOK(Fetched(c, S)[o], k[o], utxo[o])
  <2>1. CASE o \notin S \/ c[o] # Absent
    BY <1>1, <2>1
  <2>2. CASE o \in S /\ c[o] = Absent
    <3>1. utxo[o] = k[o]
      BY <2>2 DEF EntryOK, Absent, Nil, Spent, Entry
    <3> QED
      BY <1>1, <2>2, <3>1 DEF EntryOK
  <2> QED
    BY <2>1, <2>2
<1>6. ASSUME NEW o \in S PROVE Fetched(c, S)[o] # Absent
  <2>1. Nil # Absent /\ Entry("clean", utxo[o]) # Absent
    BY DEF Absent, Nil, Entry
  <2> QED
    BY <1>1, <2>1
<1> QED
  BY <1>1, <1>4, <1>5, <1>6

\* connectTransaction: every input is found with its coin, which is taken away,
\* and the outputs are added as fresh entries.
LEMMA OneTransaction ==
  ASSUME NEW b \in Block, NEW c \in [Out -> CacheEntry], utxo \in Coins,
         NEW k \in Coins, \A o \in Out : EntryOK(c[o], k[o], utxo[o]),
         NEW s, s.cache = c, NEW tx, tx.ins \in SUBSET Out, tx.outs \in SUBSET Out,
         \A o \in tx.ins : k[o] # None,
         \A o \in tx.outs : utxo[o] = None,
         NEW r, r = ConnectTransaction(s, tx, b)
  PROVE  /\ r.cache \in [Out -> CacheEntry]
         /\ \A o \in Out :
              /\ o \in tx.outs => EntryOK(r.cache[o], b, utxo[o])
              /\ o \in tx.ins /\ o \notin tx.outs => EntryOK(r.cache[o], None, utxo[o])
              /\ o \notin tx.ins /\ o \notin tx.outs => EntryOK(r.cache[o], k[o], utxo[o])
         /\ r.stxos = [o \in Out |-> IF o \in tx.ins THEN k[o] ELSE s.stxos[o]]
         /\ r.missing <=> s.missing
<1>1. PICK in : in = Fetched(s.cache, tx.ins)
  OBVIOUS
<1>2. /\ r.cache = AddOuts(SpendIns(in, tx.ins), tx.outs, b)
      /\ r.stxos = [o \in Out |-> IF o \in tx.ins THEN in[o].coin ELSE s.stxos[o]]
      /\ r.missing = (s.missing \/ \E o \in tx.ins : in[o] = Nil)
  BY <1>1 DEF ConnectTransaction
<1>3. /\ in \in [Out -> CacheEntry]
      /\ \A o \in Out : EntryOK(in[o], k[o], utxo[o])
      /\ \A o \in tx.ins : in[o] # Absent
      /\ \A o \in Out \ tx.ins : in[o] = c[o]
  BY <1>1, FetchedKeeps
<1>4. ASSUME NEW o \in tx.ins
      PROVE  \/ in[o] = Entry("clean", k[o]) /\ utxo[o] = k[o]
             \/ in[o] = Entry("fresh", k[o]) /\ utxo[o] = None
  BY <1>3 DEF EntryOK
<1>5. ASSUME NEW o \in tx.ins
      PROVE  in[o].coin = k[o] /\ in[o] # Nil /\ in[o].kind \in {"clean", "fresh"}
  <2>1. PICK e : e = in[o]
    OBVIOUS
  <2>2. e = [kind |-> "clean", coin |-> k[o]] \/ e = [kind |-> "fresh", coin |-> k[o]]
    BY <1>4, <2>1 DEF Entry
  <2> QED
    BY <2>1, <2>2 DEF Entry, Nil
<1>6. ASSUME NEW o \in Out
      PROVE  r.cache[o] = IF o \in tx.outs THEN Entry("fresh", b)
                          ELSE IF o \notin tx.ins THEN in[o]
                          ELSE IF in[o].kind = "fresh" THEN Absent ELSE Spent
  <2>1. SpendIns(in, tx.ins)[o] = IF o \notin tx.ins THEN in[o]
                                  ELSE IF in[o].kind = "fresh" THEN Absent ELSE Spent
    <3>1. CASE o \notin tx.ins
      BY <3>1 DEF SpendIns
    <3>2. CASE o \in tx.ins
      BY <3>2 DEF SpendIns
    <3> QED
      BY <3>1, <3>2
  <2> QED
    BY <1>2, <2>1 DEF AddOuts, With
<1>7. r.cache = [o \in Out |-> r.cache[o]]
  BY <1>2 DEF AddOuts, With
<1>8. ASSUME NEW o \in Out PROVE r.cache[o] \in CacheEntry
  <2>1. in[o] \in CacheEntry
    BY <1>3
  <2>2. Entry("fresh", b) \in CacheEntry /\ Absent \in CacheEntry /\ Spent \in CacheEntry
    BY DEF CacheEntry, Kind, Entry, Absent, Spent
  <2> QED
    BY <1>6, <2>1, <2>2
<1>9. r.cache \in [Out -> CacheEntry]
  BY <1>7, <1>8
<1>10. ASSUME NEW o \in Out, o \in tx.outs PROVE EntryOK(r.cache[o], b, utxo[o])
  BY <1>6, <1>10, UtxoAssumption DEF EntryOK
<1>11. ASSUME NEW o \in Out, o \in tx.ins, o \notin tx.outs
       PROVE  EntryOK(r.cache[o], None, utxo[o])
  <2>1. CASE in[o] = Entry("clean", k[o]) /\ utxo[o] = k[o]
    <3>1. r.cache[o] = Spent
      BY <1>6, <1>11, <2>1 DEF Entry
    <3> QED
      BY <3>1 DEF EntryOK
  <2>2. CASE in[o] = Entry("fresh", k[o]) /\ utxo[o] = None
    <3>1. r.cache[o] = Absent
      BY <1>6, <1>11, <2>2 DEF Entry
    <3> QED
      BY <2>2, <3>1 DEF EntryOK
  <2> QED
    BY <1>4, <1>11, <2>1, <2>2
<1>12. ASSUME NEW o \in Out, o \notin tx.ins, o \notin tx.outs
       PROVE  EntryOK(r.cache[o], k[o], utxo[o])
  BY <1>3, <1>6, <1>12
<1>13. r.stxos = [o \in Out |-> IF o \in tx.ins THEN k[o] ELSE s.stxos[o]]
  BY <1>2, <1>5
<1>14. r.missing <=> s.missing
  BY <1>2, <1>5
<1> QED
  BY <1>9, <1>10, <1>11, <1>12, <1>13, <1>14

\* The coins after the first n transactions of block b.
SpentBy(b, n, o) == \E i \in 1..n : o \in Txs[b][i].ins
MadeBy(b, n, o)  == \E i \in 1..n : o \in Txs[b][i].outs
CoinsIn(b, n) ==
  [o \in Out |-> IF SpentBy(b, n, o) THEN None
                 ELSE IF MadeBy(b, n, o) THEN b ELSE CoinsAt[Parent[b]][o]]

LEMMA WholeBlock ==
  ASSUME NEW b \in Block, NEW o
  PROVE  /\ SpentBy(b, Len(Txs[b]), o) <=> o \in Ins(b)
         /\ MadeBy(b, Len(Txs[b]), o) <=> o \in Outs(b)
BY TxFacts DEF SpentBy, MadeBy, Ins, Outs

LEMMA CoinsInType ==
  ASSUME NEW b \in Block, b # Genesis, NEW n
  PROVE  CoinsIn(b, n) \in Coins
<1>1. CoinsAt[Parent[b]] \in [Out -> Block \cup {None}]
  BY ParentFacts, CoinsType
<1> QED
  BY <1>1 DEF CoinsIn, Coins

LEMMA CoinsInEnds ==
  ASSUME NEW b \in Block, b # Genesis, NEW o \in Out
  PROVE  /\ CoinsIn(b, 0)[o] = CoinsAt[Parent[b]][o]
         /\ CoinsIn(b, Len(Txs[b]))[o] = CoinsAt[b][o]
<1>1. ~SpentBy(b, 0, o) /\ ~MadeBy(b, 0, o)
  BY DEF SpentBy, MadeBy
<1>2. CoinsIn(b, 0)[o] = CoinsAt[Parent[b]][o]
  BY <1>1 DEF CoinsIn
<1>3. CoinsIn(b, Len(Txs[b]))[o] = IF o \in Ins(b) THEN None
                                  ELSE IF o \in Outs(b) THEN b ELSE CoinsAt[Parent[b]][o]
  BY WholeBlock DEF CoinsIn
<1> QED
  BY <1>2, <1>3, CoinsStep

\* Transaction n finds its inputs, and what it does to the coins.
LEMMA CoinsInStep ==
  ASSUME NEW b \in Block, b # Genesis, NEW n \in 1..Len(Txs[b]), NEW o \in Out
  PROVE  /\ o \in Txs[b][n].ins => CoinsIn(b, n - 1)[o] # None
         /\ o \in Txs[b][n].ins /\ o \notin Outs(b) =>
              CoinsIn(b, n - 1)[o] = CoinsAt[Parent[b]][o]
         /\ CoinsIn(b, n)[o] = IF o \in Txs[b][n].outs THEN b
                               ELSE IF o \in Txs[b][n].ins THEN None
                               ELSE CoinsIn(b, n - 1)[o]
<1> DEFINE L == Len(Txs[b])
<1>1. L \in Nat /\ n \in Int /\ 1 <= n /\ n <= L
  BY TxFacts
<1>2. /\ \A i \in 1..n : i \in 1..L /\ (i = n \/ i \in 1..(n - 1))
      /\ \A i \in 1..(n - 1) : i \in 1..n /\ i \in 1..L
      /\ n \in 1..n /\ n \in 1..L
  BY <1>1
<1>3. SpentBy(b, n, o) <=> SpentBy(b, n - 1, o) \/ o \in Txs[b][n].ins
  BY <1>2 DEF SpentBy
<1>4. MadeBy(b, n, o) <=> MadeBy(b, n - 1, o) \/ o \in Txs[b][n].outs
  BY <1>2 DEF MadeBy
<1>5. ASSUME o \in Txs[b][n].ins
      PROVE  /\ ~SpentBy(b, n - 1, o)
             /\ o \in Outs(b) => MadeBy(b, n - 1, o)
  <2>1. \A i \in 1..(n - 1) : o \notin Txs[b][i].ins
    BY <1>1, <1>2, <1>5, BlockOrder
  <2>2. ASSUME o \in Outs(b) PROVE MadeBy(b, n - 1, o)
    <3>1. PICK i \in 1..L : o \in Txs[b][i].outs
      BY <2>2, TxFacts DEF Outs
    <3>2. i < n
      BY <1>5, <3>1, BlockOrder
    <3>3. i \in 1..(n - 1)
      BY <1>1, <3>2
    <3> QED
      BY <3>1, <3>3 DEF MadeBy
  <2> QED
    BY <2>1, <2>2 DEF SpentBy
<1>6. ASSUME o \in Txs[b][n].outs PROVE ~SpentBy(b, n, o)
  <2>1. ASSUME NEW i \in 1..n, o \in Txs[b][i].ins PROVE FALSE
    <3>1. n < i
      BY <1>2, <1>6, <2>1, BlockOrder
    <3> QED
      BY <1>1, <3>1
  <2> QED
    BY <2>1 DEF SpentBy
<1>7. ASSUME o \in Txs[b][n].ins, o \notin Outs(b)
      PROVE  CoinsIn(b, n - 1)[o] = CoinsAt[Parent[b]][o]
  <2>1. ~MadeBy(b, n - 1, o)
    BY <1>2, <1>7, TxFacts DEF MadeBy, Outs
  <2> QED
    BY <1>5, <1>7, <2>1 DEF CoinsIn
<1>8. ASSUME o \in Txs[b][n].ins PROVE CoinsIn(b, n - 1)[o] # None
  <2>1. o \in Ins(b)
    BY <1>8, TxFacts DEF Ins
  <2>2. CASE o \in Outs(b)
    <3>1. CoinsIn(b, n - 1)[o] = b
      BY <1>5, <1>8, <2>2 DEF CoinsIn
    <3> QED
      BY <3>1, UtxoAssumption
  <2>3. CASE o \notin Outs(b)
    BY <1>7, <1>8, <2>1, <2>3, CoinsStep
  <2> QED
    BY <2>2, <2>3
<1>9. ASSUME o \in Txs[b][n].outs PROVE CoinsIn(b, n)[o] = b
  BY <1>4, <1>6, <1>9 DEF CoinsIn
<1>10. ASSUME o \notin Txs[b][n].outs, o \in Txs[b][n].ins PROVE CoinsIn(b, n)[o] = None
  BY <1>3, <1>10 DEF CoinsIn
<1>11. ASSUME o \notin Txs[b][n].outs, o \notin Txs[b][n].ins
       PROVE  CoinsIn(b, n)[o] = CoinsIn(b, n - 1)[o]
  BY <1>3, <1>4, <1>11 DEF CoinsIn
<1> QED
  BY <1>7, <1>8, <1>9, <1>10, <1>11

\* connectTransactions takes a cache that stands for the coins of the parent
\* to one that stands for those of the block, finds every input, and returns
\* the coins that the journal of the block must hold.
LEMMA ConnectDoes ==
  ASSUME NEW b \in Block, b # Genesis, NEW c \in [Out -> CacheEntry],
         NEW m \in Chain[Parent[b]], utxo = CoinsAt[m], CacheAt(c, Parent[b]),
         NEW r, r = ConnectTransactions(c, b)
  PROVE  /\ r.cache \in [Out -> CacheEntry] /\ CacheAt(r.cache, b)
         /\ r.stxos \in Coins
         /\ \A o \in Ins(b) \ Outs(b) : r.stxos[o] = CoinsAt[Parent[b]][o]
         /\ ~r.missing
<1> DEFINE N == Len(Txs[b])
<1>0. /\ N \in Nat /\ m \in Block /\ utxo \in Coins
      /\ \A n \in 1..N : n - 1 \in 0..N /\ n - 1 \in Nat /\ n \in Nat
  <2>1. N \in Nat
    BY TxFacts
  <2>2. m \in Block
    BY ParentFacts, ChainSelf
  <2> QED
    BY <2>1, <2>2, CoinsType DEF Coins
<1>1. PICK s0 : s0 = [cache |-> c, stxos |-> [o \in Out |-> None], missing |-> FALSE]
  OBVIOUS
<1>2. PICK f : /\ f[0] = s0
               /\ \A n \in 1..N : f[n] = ConnectTransaction(f[n - 1], Txs[b][n], b)
               /\ r = f[N]
  BY <1>1, ConnectUnfold
<1> DEFINE Good(n) ==
      /\ f[n].cache \in [Out -> CacheEntry]
      /\ \A o \in Out : EntryOK(f[n].cache[o], CoinsIn(b, n)[o], utxo[o])
      /\ f[n].stxos \in Coins
      /\ \A o \in Out : SpentBy(b, n, o) /\ o \notin Outs(b) =>
           f[n].stxos[o] = CoinsAt[Parent[b]][o]
      /\ ~f[n].missing
    Bad == {n \in 0..N : ~Good(n)}
<1>3. Good(0)
  <2>1. s0.cache = c /\ s0.stxos = [o \in Out |-> None] /\ ~s0.missing
    BY <1>1
  <2>2. \A o \in Out : EntryOK(s0.cache[o], CoinsIn(b, 0)[o], utxo[o])
    BY <2>1, CoinsInEnds DEF CacheAt
  <2>3. \A o \in Out : ~SpentBy(b, 0, o)
    BY DEF SpentBy
  <2>4. s0.stxos \in Coins
    BY <2>1 DEF Coins
  <2> QED
    BY <1>2, <2>1, <2>2, <2>3, <2>4
<1>4. ASSUME NEW n \in 1..N, Good(n - 1) PROVE Good(n)
  <2>1. PICK s : s = f[n - 1]
    OBVIOUS
  <2>2. PICK tx : tx = Txs[b][n]
    OBVIOUS
  <2>3. PICK k : k = CoinsIn(b, n - 1)
    OBVIOUS
  <2>4. PICK d : d = s.cache
    OBVIOUS
  <2>5. PICK q : q = f[n]
    OBVIOUS
  <2>6. /\ d \in [Out -> CacheEntry] /\ s.stxos \in Coins /\ ~s.missing
        /\ \A o \in Out : EntryOK(d[o], k[o], utxo[o])
        /\ \A o \in Out : SpentBy(b, n - 1, o) /\ o \notin Outs(b) =>
             s.stxos[o] = CoinsAt[Parent[b]][o]
    BY <1>4, <2>1, <2>3, <2>4
  <2>7. k \in Coins /\ q = ConnectTransaction(s, tx, b)
    BY <1>2, <2>1, <2>2, <2>3, <2>5, CoinsInType
  <2>8. tx.ins \in SUBSET Out /\ tx.outs \in SUBSET Out /\ tx.outs \subseteq Outs(b)
    BY <2>2, TxFacts DEF Outs
  <2>9. \A o \in tx.ins : k[o] # None
    BY <2>2, <2>3, <2>8, CoinsInStep
  <2>10. \A o \in tx.outs : utxo[o] = None
    BY <2>8, CoinsStep
  <2>11. /\ q.cache \in [Out -> CacheEntry]
         /\ \A o \in Out :
              /\ o \in tx.outs => EntryOK(q.cache[o], b, utxo[o])
              /\ o \in tx.ins /\ o \notin tx.outs => EntryOK(q.cache[o], None, utxo[o])
              /\ o \notin tx.ins /\ o \notin tx.outs => EntryOK(q.cache[o], k[o], utxo[o])
         /\ q.stxos = [o \in Out |-> IF o \in tx.ins THEN k[o] ELSE s.stxos[o]]
         /\ q.missing <=> s.missing
    BY <1>0, <2>4, <2>6, <2>7, <2>8, <2>9, <2>10, OneTransaction
  <2>12. ASSUME NEW o \in Out PROVE EntryOK(q.cache[o], CoinsIn(b, n)[o], utxo[o])
    <3>1. CoinsIn(b, n)[o] = IF o \in tx.outs THEN b
                             ELSE IF o \in tx.ins THEN None ELSE k[o]
      BY <2>2, <2>3, CoinsInStep
    <3> QED
      BY <2>11, <3>1
  <2>13. q.stxos \in Coins
    BY <2>6, <2>7, <2>11 DEF Coins
  <2>14. ASSUME NEW o \in Out, SpentBy(b, n, o), o \notin Outs(b)
         PROVE  q.stxos[o] = CoinsAt[Parent[b]][o]
    <3>1. CASE o \in tx.ins
      <4>1. k[o] = CoinsAt[Parent[b]][o]
        BY <2>2, <2>3, <2>14, <3>1, CoinsInStep
      <4> QED
        BY <2>11, <3>1, <4>1
    <3>2. CASE o \notin tx.ins
      <4>1. PICK i \in 1..n : o \in Txs[b][i].ins
        BY <2>14 DEF SpentBy
      <4>2. i # n
        BY <2>2, <3>2, <4>1
      <4>3. i \in 1..(n - 1)
        BY <4>2, <1>0
      <4>4. SpentBy(b, n - 1, o)
        BY <4>1, <4>3 DEF SpentBy
      <4> QED
        BY <2>6, <2>11, <2>14, <3>2, <4>4
    <3> QED
      BY <3>1, <3>2
  <2> QED
    BY <2>5, <2>6, <2>11, <2>12, <2>13, <2>14
<1>5. Good(N)
  <2> HIDE DEF Good
  <2>1. SUFFICES ASSUME Bad # {} PROVE FALSE
    BY <1>0
  <2>2. Bad \in SUBSET Nat
    BY <1>0
  <2>3. PICK n \in Bad : \A y \in Bad : n <= y
    BY <2>1, <2>2, LeastNat
  <2>4. n \in 0..N /\ ~Good(n) /\ n # 0
    BY <1>3, <2>3
  <2>5. n \in 1..N /\ n - 1 \in 0..N /\ ~(n <= n - 1)
    BY <1>0, <2>4
  <2>6. n - 1 \notin Bad
    <3> HIDE DEF Bad
    <3> QED
      BY <2>3, <2>5
  <2>7. Good(n - 1)
    BY <2>5, <2>6
  <2> QED
    BY <1>4, <2>4, <2>5, <2>7
<1>6. \A o \in Out : CoinsIn(b, N)[o] = CoinsAt[b][o]
  BY CoinsInEnds
<1>7. CacheAt(r.cache, b)
  BY <1>2, <1>5, <1>6 DEF CacheAt
<1>8. \A o \in Ins(b) \ Outs(b) : o \in Out /\ SpentBy(b, N, o)
  BY InsOut, WholeBlock
<1> QED
  BY <1>2, <1>5, <1>7, <1>8

-----------------------------------------------------------------------------
(* Flushes and views                                                         *)

\* A flush brings the database to what the cache stood for; the entries it
\* keeps stand for the same coins over the new database, as no entry does.
LEMMA FlushDoes ==
  ASSUME NEW b \in Block, NEW c \in [Out -> CacheEntry], utxo \in Coins, CacheAt(c, b)
  PROVE  /\ Written(c) = CoinsAt[b]
         /\ Kept(c) \in [Out -> CacheEntry]
         /\ \A o \in Out : EntryOK(Kept(c)[o], CoinsAt[b][o], CoinsAt[b][o])
<1>1. \A k, v : Entry(k, v).kind = k /\ Entry(k, v).coin = v
  BY DEF Entry
<1>2. Absent.kind = "absent" /\ Nil.kind = "nil" /\ Spent.kind = "spent"
  BY <1>1 DEF Absent, Nil, Spent
<1>3. ASSUME NEW o \in Out
      PROVE  /\ Written(c)[o] = CoinsAt[b][o]
             /\ EntryOK(Kept(c)[o], CoinsAt[b][o], CoinsAt[b][o])
  <2>1. EntryOK(c[o], CoinsAt[b][o], utxo[o])
    BY DEF CacheAt
  <2>2. CASE c[o] = Absent /\ utxo[o] = CoinsAt[b][o]
    <3>1. Written(c)[o] = utxo[o] /\ Kept(c)[o] = c[o]
      BY <1>2, <2>2 DEF Written, Kept
    <3> QED
      BY <2>2, <3>1 DEF EntryOK
  <2>3. CASE (c[o] = Nil \/ c[o] = Spent) /\ CoinsAt[b][o] = None
    <3>1. Written(c)[o] = None /\ Kept(c)[o] = Absent
      BY <1>2, <2>3 DEF Written, Kept
    <3> QED
      BY <2>3, <3>1 DEF EntryOK
  <2>4. CASE /\ c[o] = Entry("clean", CoinsAt[b][o])
             /\ utxo[o] = CoinsAt[b][o] /\ CoinsAt[b][o] # None
    <3>1. Written(c)[o] = utxo[o] /\ Kept(c)[o] = c[o]
      BY <1>1, <2>4 DEF Written, Kept
    <3> QED
      BY <2>4, <3>1 DEF EntryOK
  <2>5. CASE /\ c[o] = Entry("fresh", CoinsAt[b][o])
             /\ CoinsAt[b][o] # None
    <3>1. c[o].kind = "fresh" /\ c[o].coin = CoinsAt[b][o]
      BY <1>1, <2>5
    <3>2. Written(c)[o] = c[o].coin /\ Kept(c)[o] = Entry("clean", c[o].coin)
      BY <3>1 DEF Written, Kept
    <3> QED
      BY <2>5, <3>1, <3>2 DEF EntryOK
  <2> QED
    BY <2>1, <2>2, <2>3, <2>4, <2>5 DEF EntryOK
<1>4. Written(c) = [o \in Out |-> Written(c)[o]]
  BY DEF Written
<1>5. CoinsAt[b] = [o \in Out |-> CoinsAt[b][o]]
  BY CoinsType
<1>6. Written(c) = CoinsAt[b]
  BY <1>3, <1>4, <1>5
<1>7. Kept(c) = [o \in Out |-> Kept(c)[o]]
  BY DEF Kept
<1>8. ASSUME NEW o \in Out PROVE Kept(c)[o] \in CacheEntry
  <2>1. c[o] \in CacheEntry /\ c[o].coin \in Block \cup {None}
    BY DEF CacheEntry
  <2>2. Absent \in CacheEntry /\ Entry("clean", c[o].coin) \in CacheEntry
    BY <2>1 DEF CacheEntry, Kind, Absent, Entry
  <2>3. Kept(c)[o] \in {Absent, Entry("clean", c[o].coin), c[o]}
    BY DEF Kept
  <2> QED
    BY <2>1, <2>2, <2>3
<1> QED
  BY <1>3, <1>6, <1>7, <1>8

LEMMA EmptyOK ==
  /\ Empty \in [Out -> CacheEntry]
  /\ \A o \in Out : \A k : EntryOK(Empty[o], k, k)
<1>1. Absent \in CacheEntry
  BY DEF CacheEntry, Kind, Absent, Entry
<1> QED
  BY <1>1 DEF Empty, EntryOK

ViewEntry == [kind : Kind \ {"fresh"}, coin : Block \cup {None}]

LEMMA ViewEntries ==
  ASSUME NEW k \in Block \cup {None}
  PROVE  /\ Entry("mod", k) \in ViewEntry /\ Entry("clean", k) \in ViewEntry
         /\ Absent \in ViewEntry /\ Spent \in ViewEntry
BY DEF ViewEntry, Kind, Entry, Absent, Spent

\* disconnectTransactions: what the block made is gone, what it spent comes back
\* from the journal, and the rest of the view stays.
LEMMA DisconnectDoes ==
  ASSUME NEW b \in Block, NEW v \in [Out -> ViewEntry], journal[b] \in Coins,
         NEW w, w = DisconnectTransactions(v, b)
  PROVE  /\ w \in [Out -> ViewEntry]
         /\ \A o \in Out :
              /\ o \in Outs(b) => w[o] = Spent
              /\ o \in Ins(b) /\ o \notin Outs(b) => w[o] = Entry("mod", journal[b][o])
              /\ o \notin Ins(b) /\ o \notin Outs(b) => w[o] = v[o]
<1>1. PICK N : N = Len(Txs[b])
  OBVIOUS
<1>2. N \in Nat
  BY <1>1, TxFacts
<1>3. PICK f : /\ f[0] = v
               /\ \A n \in 1..N :
                    f[n] = DisconnectTransaction(f[n - 1], Txs[b][N - n + 1], b)
               /\ w = f[N]
  <2>1. PICK f : UndoneBy(f, v, b)
    BY DisconnectUnfold
  <2> QED
    BY <1>1, <2>1 DEF UndoneBy
<1> DEFINE InB(n, o) == \E i \in (N - n + 1)..N : o \in Txs[b][i].ins
           OutB(n, o) == \E i \in (N - n + 1)..N : o \in Txs[b][i].outs
           Good(n) ==
             /\ f[n] \in [Out -> ViewEntry]
             /\ \A o \in Out :
                  /\ OutB(n, o) => f[n][o] = Spent
                  /\ InB(n, o) /\ ~OutB(n, o) => f[n][o] = Entry("mod", journal[b][o])
                  /\ ~InB(n, o) /\ ~OutB(n, o) => f[n][o] = v[o]
           Bad == {n \in 0..N : ~Good(n)}
<1>4. Good(0)
  <2>1. \A o \in Out : ~InB(0, o) /\ ~OutB(0, o)
    BY <1>2
  <2> QED
    BY <1>3, <2>1
<1>5. ASSUME NEW n \in 1..N, Good(n - 1) PROVE Good(n)
  <2>1. PICK t : t = N - n + 1
    OBVIOUS
  <2>2. /\ t \in 1..N /\ n \in Nat /\ N - (n - 1) + 1 = t + 1
        /\ \A i \in t..N : i \in 1..N /\ (i = t \/ i \in (t + 1)..N)
        /\ \A i \in (t + 1)..N : i \in t..N
        /\ t \in t..N
    BY <1>2, <2>1
  <2>3. PICK tx : tx = Txs[b][t]
    OBVIOUS
  <2>4. tx.ins \in SUBSET Out /\ tx.outs \in SUBSET Out
    BY <1>1, <2>2, <2>3, TxFacts
  <2>5. PICK g : g = f[n - 1]
    OBVIOUS
  <2>6. f[n] = [o \in Out |-> IF o \in tx.ins THEN Entry("mod", journal[b][o])
                              ELSE IF o \in tx.outs THEN Spent ELSE g[o]]
    BY <1>3, <2>1, <2>3, <2>5 DEF DisconnectTransaction
  <2>7. /\ g \in [Out -> ViewEntry]
        /\ \A o \in Out :
             /\ OutB(n - 1, o) => g[o] = Spent
             /\ InB(n - 1, o) /\ ~OutB(n - 1, o) => g[o] = Entry("mod", journal[b][o])
             /\ ~InB(n - 1, o) /\ ~OutB(n - 1, o) => g[o] = v[o]
    BY <1>5, <2>5
  <2>8. \A o \in Out : /\ InB(n, o) <=> InB(n - 1, o) \/ o \in tx.ins
                       /\ OutB(n, o) <=> OutB(n - 1, o) \/ o \in tx.outs
    BY <2>1, <2>2, <2>3
  <2>9. ASSUME NEW o \in Out, o \in tx.ins, OutB(n, o) PROVE FALSE
    <3>1. PICK i \in t..N : o \in Txs[b][i].outs
      BY <2>1, <2>9
    <3>2. i < t
      BY <1>1, <2>2, <2>3, <2>9, <3>1, BlockOrder
    <3> QED
      BY <1>2, <2>2, <3>2
  <2>10. ASSUME NEW o \in Out PROVE f[n][o] \in ViewEntry
    <3>1. journal[b][o] \in Block \cup {None}
      BY DEF Coins
    <3>2. Entry("mod", journal[b][o]) \in ViewEntry /\ Spent \in ViewEntry /\ g[o] \in ViewEntry
      BY <2>7, <3>1, ViewEntries
    <3> QED
      BY <2>6, <3>2
  <2>11. f[n] \in [Out -> ViewEntry]
    BY <2>6, <2>10
  <2> HIDE DEF InB, OutB
  <2>12. ASSUME NEW o \in Out
         PROVE  /\ OutB(n, o) => f[n][o] = Spent
                /\ InB(n, o) /\ ~OutB(n, o) => f[n][o] = Entry("mod", journal[b][o])
                /\ ~InB(n, o) /\ ~OutB(n, o) => f[n][o] = v[o]
    BY <2>6, <2>7, <2>8, <2>9
  <2> QED
    BY <2>11, <2>12
<1>6. Good(N)
  <2> HIDE DEF Good
  <2>1. SUFFICES ASSUME Bad # {} PROVE FALSE
    BY <1>2
  <2>2. Bad \in SUBSET Nat
    BY <1>2
  <2>3. PICK n \in Bad : \A y \in Bad : n <= y
    BY <2>1, <2>2, LeastNat
  <2>4. n \in 0..N /\ ~Good(n) /\ n # 0
    BY <1>4, <2>3
  <2>5. n \in 1..N /\ n - 1 \in 0..N /\ ~(n <= n - 1)
    BY <1>2, <2>4
  <2>6. n - 1 \notin Bad
    <3> HIDE DEF Bad
    <3> QED
      BY <2>3, <2>5
  <2>7. Good(n - 1)
    BY <2>5, <2>6
  <2> QED
    BY <1>5, <2>4, <2>5, <2>7
<1>7. \A o \in Out : (InB(N, o) <=> o \in Ins(b)) /\ (OutB(N, o) <=> o \in Outs(b))
  <2>1. (N - N) + 1 = 1 /\ DOMAIN Txs[b] = 1..N
    BY <1>1, <1>2, TxFacts
  <2> QED
    BY <2>1 DEF Ins, Outs
<1> HIDE DEF InB, OutB
<1> QED
  BY <1>3, <1>6, <1>7

\* View v shows nothing but coins of the chain that ends in b.
ViewAt(v, b) ==
  \A o \in Out : \/ v[o] = Absent
                 \/ v[o].kind \in {"clean", "mod"} /\ v[o].coin = CoinsAt[b][o]

\* fetchInputUtxos leaves alone what the block neither spends nor makes.
LEMMA FetchInputsDoes ==
  ASSUME NEW b \in Block, NEW v \in [Out -> ViewEntry], NEW c \in [Out -> CacheEntry]
  PROVE  /\ FetchInputs(v, c, b) \in [Out -> ViewEntry]
         /\ \A o \in Out : o \notin Ins(b) /\ o \notin Outs(b) => FetchInputs(v, c, b)[o] = v[o]
<1>1. PICK w : w = With(v, InFlight(b), Entry("mod", b))
  OBVIOUS
<1>2. \A o \in Out : w[o] = IF o \in InFlight(b) THEN Entry("mod", b) ELSE v[o]
  BY <1>1 DEF With
<1>3. FetchInputs(v, c, b) =
        [o \in Out |-> IF o \in Ins(b) /\ w[o] = Absent
                       THEN IF c[o].kind = "fresh" THEN Entry("mod", c[o].coin) ELSE c[o]
                       ELSE w[o]]
  BY <1>1 DEF FetchInputs
<1>4. InFlight(b) \subseteq Outs(b)
  BY DEF InFlight, Outs
<1>5. ASSUME NEW o \in Out PROVE FetchInputs(v, c, b)[o] \in ViewEntry
  <2>1. Entry("mod", b) \in ViewEntry /\ v[o] \in ViewEntry
    BY ViewEntries
  <2>2. w[o] \in ViewEntry
    BY <1>2, <2>1
  <2>3. PICK e : e = c[o]
    OBVIOUS
  <2>4. e \in CacheEntry
    BY <2>3
  <2>5. e.kind # "fresh" => e \in ViewEntry
    BY <2>4 DEF CacheEntry, ViewEntry, Kind
  <2>6. e.coin \in Block \cup {None}
    BY <2>4 DEF CacheEntry
  <2>7. Entry("mod", e.coin) \in ViewEntry
    BY <2>6, ViewEntries
  <2> QED
    BY <1>3, <2>2, <2>3, <2>5, <2>7
<1>6. FetchInputs(v, c, b) \in [Out -> ViewEntry]
  BY <1>3, <1>5
<1> QED
  BY <1>2, <1>3, <1>4, <1>6

\* disconnectBlock: the flushed database without the block is that of its
\* parent, and the view that goes on to the next block shows the parent's coins.
LEMMA UndoDoes ==
  ASSUME utxo \in Coins, NEW b \in Block, b # Genesis, journal[b] \in Coins,
         NEW c \in [Out -> CacheEntry], CacheAt(c, b),
         NEW w \in [Out -> ViewEntry], ViewAt(w, b),
         \A o \in Ins(b) \ Outs(b) : journal[b][o] = CoinsAt[Parent[b]][o],
         NEW v, v = DisconnectTransactions(FetchInputs(w, Fetched(c, Ins(b)), b), b)
  PROVE  /\ PutView(Written(c), v) = CoinsAt[Parent[b]]
         /\ CommitView(v) \in [Out -> ViewEntry]
         /\ ViewAt(CommitView(v), Parent[b])
<1>0. Parent[b] \in Block /\ CoinsAt[Parent[b]] \in Coins /\ CoinsAt[b] \in Coins
  BY ParentFacts, CoinsType DEF Coins
<1>1. Fetched(c, Ins(b)) \in [Out -> CacheEntry]
  BY <1>0, InsOut, FetchedKeeps DEF CacheAt
<1>2. PICK x : x = FetchInputs(w, Fetched(c, Ins(b)), b)
  OBVIOUS
<1>3. /\ x \in [Out -> ViewEntry]
      /\ \A o \in Out : o \notin Ins(b) /\ o \notin Outs(b) => x[o] = w[o]
  BY <1>1, <1>2, FetchInputsDoes
<1>4. /\ v \in [Out -> ViewEntry]
      /\ \A o \in Out :
           /\ o \in Outs(b) => v[o] = Spent
           /\ o \in Ins(b) /\ o \notin Outs(b) => v[o] = Entry("mod", journal[b][o])
           /\ o \notin Ins(b) /\ o \notin Outs(b) => v[o] = x[o]
  BY <1>2, <1>3, DisconnectDoes
<1>5. PICK k : k = CoinsAt[Parent[b]]
  OBVIOUS
<1>6. ASSUME NEW o \in Out
      PROVE  \/ v[o] = Spent /\ k[o] = None
             \/ v[o] = Entry("mod", k[o])
             \/ v[o] = Absent /\ k[o] = CoinsAt[b][o]
             \/ v[o] = Entry("clean", k[o]) /\ k[o] = CoinsAt[b][o]
  <2>1. CASE o \in Outs(b)
    <3>1. Parent[b] \in Chain[Parent[b]]
      BY <1>0, ChainSelf
    <3> QED
      BY <1>4, <1>5, <2>1, <3>1, CoinsStep
  <2>2. CASE o \in Ins(b) /\ o \notin Outs(b)
    BY <1>4, <1>5, <2>2
  <2>3. CASE o \notin Ins(b) /\ o \notin Outs(b)
    <3>1. v[o] = w[o] /\ k[o] = CoinsAt[b][o]
      BY <1>3, <1>4, <1>5, <2>3, CoinsStep
    <3>2. CASE w[o] = Absent
      BY <3>1, <3>2
    <3>3. CASE w[o].kind \in {"clean", "mod"} /\ w[o].coin = CoinsAt[b][o]
      <4>1. PICK e \in ViewEntry : e = w[o]
        OBVIOUS
      <4>2. e = Entry("clean", CoinsAt[b][o]) \/ e = Entry("mod", CoinsAt[b][o])
        BY <3>3, <4>1 DEF ViewEntry, Entry
      <4> QED
        BY <3>1, <4>1, <4>2
    <3> QED
      BY <3>2, <3>3 DEF ViewAt
  <2> QED
    BY <2>1, <2>2, <2>3
<1>7. Written(c) = CoinsAt[b]
  BY FlushDoes
<1>8. \A y, z : Entry(y, z).kind = y /\ Entry(y, z).coin = z
  BY DEF Entry
<1>9. Absent.kind = "absent" /\ Spent.kind = "spent"
  BY <1>8 DEF Absent, Spent
<1>10. ASSUME NEW o \in Out
       PROVE  /\ PutView(Written(c), v)[o] = k[o]
              /\ \/ CommitView(v)[o] = Absent
                 \/ CommitView(v)[o] \in {Entry("clean", k[o]), Entry("mod", k[o])}
  <2>1. CASE v[o] = Spent /\ k[o] = None
    BY <1>9, <2>1 DEF PutView, CommitView
  <2>2. CASE v[o] = Entry("mod", k[o])
    BY <1>8, <2>2 DEF PutView, CommitView
  <2>3. CASE v[o] = Absent /\ k[o] = CoinsAt[b][o]
    BY <1>7, <1>9, <2>3 DEF PutView, CommitView
  <2>4. CASE v[o] = Entry("clean", k[o]) /\ k[o] = CoinsAt[b][o]
    BY <1>7, <1>8, <2>4 DEF PutView, CommitView
  <2> QED
    BY <1>6, <2>1, <2>2, <2>3, <2>4
<1>11. PutView(Written(c), v) = k
  <2>1. PutView(Written(c), v) = [o \in Out |-> PutView(Written(c), v)[o]]
    BY DEF PutView
  <2>2. k = [o \in Out |-> k[o]]
    BY <1>0, <1>5 DEF Coins
  <2> QED
    BY <1>10, <2>1, <2>2
<1>12. ASSUME NEW o \in Out PROVE CommitView(v)[o] \in ViewEntry
  <2>1. k[o] \in Block \cup {None}
    BY <1>0, <1>5 DEF Coins
  <2> QED
    BY <1>10, <2>1, ViewEntries
<1>13. CommitView(v) \in [Out -> ViewEntry]
  <2>1. CommitView(v) = [o \in Out |-> CommitView(v)[o]]
    BY DEF CommitView
  <2> QED
    BY <1>12, <2>1
<1>14. ViewAt(CommitView(v), Parent[b])
  BY <1>5, <1>8, <1>10 DEF ViewAt
<1> QED
  BY <1>5, <1>11, <1>13, <1>14

-----------------------------------------------------------------------------
(* The inductive invariant                                                   *)

Row == [utxo : Coins, mark : Block, journal : [Block -> Coins], stored : SUBSET Block, tip : Block]

\* The part of UtxoTypeOK that is not about the disk.
LiveType ==
  /\ utxo \in [Out -> Block \cup {None}] /\ mark \in Block
  /\ journal \in [Block -> [Out -> Block \cup {None}]]
  /\ stored \subseteq Block /\ tip \in Block /\ files \subseteq Block
  /\ cache \in [Out -> [kind : Kind \ {"mod"}, coin : Block \cup {None}]]
  /\ view \in [Out -> [kind : Kind \ {"fresh"}, coin : Block \cup {None}]]
  /\ lastFlush \in Block \cup {None}
  /\ detach \subseteq Block /\ attach \subseteq Block
  /\ oldBest \in Block /\ at \in Block
  /\ pc \in {"idle", "reorg", "flush", "replay", "down", "assert", "lost"}

MarkOK == utxo = CoinsAt[mark] /\ mark \in Chain[tip]

\* The cache stands for the coins of the tip and, while blocks are replayed,
\* for those of the block the replay has come to.
CacheOK ==
  /\ pc \in {"idle", "reorg", "flush"} => CacheAt(cache, tip)
  /\ pc = "down" => cache = Empty
  /\ pc \in {"replay", "assert", "lost"} =>
       at \in Chain[tip] /\ mark \in Chain[at] /\ CacheAt(cache, at)

\* What is left of a reorganization leads from the tip down to a fork block f
\* and up to a target g, through blocks whose files are there.
PlanOK ==
  pc \in {"reorg", "flush"} =>
    /\ \E g \in Block : \E f \in Chain[tip] \cap Chain[g] :
         detach = Chain[tip] \ Chain[f] /\ attach = Chain[g] \ Chain[f]
    /\ pc = "flush" => detach = {}
    /\ detach \cup attach \subseteq files

ViewOK == pc = "reorg" /\ detach # {} => ViewAt(view, tip)

\* The journal of a stored block of the best chain holds what it spent.
JournalOK ==
  \A b \in (Chain[tip] \cap stored) \ {Genesis} : \A o \in Ins(b) \ Outs(b) :
    journal[b][o] = CoinsAt[Parent[b]][o]

\* Up to the end of the first replay the database has the rows of the blocks
\* above the mark, and before the first crash the files as well.
ReplayOK ==
  /\ crashes \in Nat /\ crashes <= MaxCrashes
  /\ files \subseteq stored
  /\ crashes = 0 =>
       pc \notin {"down", "replay", "assert", "lost"} /\ lastFlush = mark /\ files = stored
  /\ crashes = 0 \/ (crashes = 1 /\ pc \in {"down", "replay"}) =>
       Chain[tip] \ Chain[mark] \subseteq stored
  /\ pc # "assert" /\ (pc = "lost" /\ crashes = 1 => files # stored)

LiveInv ==
  LiveType /\ MarkOK /\ CacheOK /\ PlanOK /\ ViewOK /\ JournalOK /\ ReplayOK

\* The state on disk was a committed one: what a crash needs holds of it.
DiskInv ==
  /\ disk \in Row
  /\ disk.utxo = CoinsAt[disk.mark] /\ disk.mark \in Chain[disk.tip]
  /\ \A b \in (Chain[disk.tip] \cap disk.stored) \ {Genesis} : \A o \in Ins(b) \ Outs(b) :
       disk.journal[b][o] = CoinsAt[Parent[b]][o]
  /\ files \subseteq disk.stored
  /\ crashes = 0 => Chain[disk.tip] \ Chain[disk.mark] \subseteq disk.stored

UtxoInv == LiveInv /\ DiskInv

LEMMA TypeFacts ==
  ASSUME LiveType
  PROVE  /\ utxo \in Coins /\ cache \in [Out -> CacheEntry] /\ view \in [Out -> ViewEntry]
         /\ journal \in [Block -> Coins]
         /\ mark \in Block /\ tip \in Block /\ at \in Block
BY DEF LiveType, Coins, CacheEntry, ViewEntry

LEMMA ForkIsTip ==
  ASSUME NEW t \in Block, NEW f \in Chain[t], Chain[t] \ Chain[f] = {}
  PROVE  f = t
<1>1. f \in Block /\ t \in Chain[f]
  BY ChainSelf
<1>2. f # t => Height[f] < Height[t] /\ Height[t] < Height[f]
  BY <1>1, ChainDown
<1> QED
  BY <1>1, <1>2, ChainSelf

LEMMA EmptyView ==
  Empty \in [Out -> ViewEntry] /\ \A b : ViewAt(Empty, b)
<1>1. Absent \in ViewEntry
  BY ViewEntries
<1> QED
  BY <1>1 DEF Empty, ViewAt

LEMMA InitLive ==
  ASSUME Init
  PROVE  LiveInv
<1> USE DEF Init
<1>1. Genesis \in Block /\ Chain[Genesis] = {Genesis}
  BY BlockAssumption, NodeAssumption
<1>2. LiveType
  BY <1>1, EmptyOK, EmptyView DEF LiveType, CacheEntry, ViewEntry
<1>3. MarkOK
  BY <1>1, CoinsGenesis DEF MarkOK
<1>4. CacheOK
  BY <1>3, EmptyOK DEF CacheOK, CacheAt, MarkOK
<1>5. PlanOK /\ ViewOK
  BY DEF PlanOK, ViewOK
<1>6. JournalOK
  BY <1>1 DEF JournalOK
<1>7. ReplayOK
  BY UtxoAssumption DEF ReplayOK
<1> QED
  BY <1>2, <1>3, <1>4, <1>5, <1>6, <1>7 DEF LiveInv

-----------------------------------------------------------------------------
(* One lemma per action                                                      *)

LEMMA StartKeeps ==
  ASSUME UtxoInv, NEW b \in Block, Start(b)
  PROVE  LiveInv'
<1> USE DEF UtxoInv, LiveInv, Start, db, onDisk
<1>0. /\ utxo \in Coins /\ cache \in [Out -> CacheEntry] /\ tip \in Block
      /\ CacheAt(cache, tip)
  BY TypeFacts DEF CacheOK
<1>1. PICK S : S = UNION {Ins(c) : c \in detach' \cup attach'}
  OBVIOUS
<1>2. S \in SUBSET Out
  <2>1. detach' \cup attach' \in SUBSET Block
    BY <1>0, ChainSelf
  <2> QED
    BY <1>1, <2>1, InsOut
<1>3. cache' = Fetched(cache, S)
  BY <1>1
<1>4. PICK k : k = CoinsAt[tip]
  OBVIOUS
<1>5. k \in Coins /\ \A o \in Out : EntryOK(cache[o], k[o], utxo[o])
  BY <1>0, <1>4, CoinsType DEF CacheAt, Coins
<1>6. cache' \in [Out -> CacheEntry] /\ \A o \in Out : EntryOK(cache'[o], k[o], utxo[o])
  BY <1>0, <1>2, <1>3, <1>5, FetchedKeeps
<1>7. LiveType'
  <2>1. detach' \in SUBSET Block /\ attach' \in SUBSET Block
    BY <1>0, ChainSelf
  <2> QED
    BY <1>0, <1>6, <2>1, EmptyView DEF LiveType, CacheEntry, ViewEntry
<1>8. MarkOK'
  BY DEF MarkOK
<1>9. CacheOK'
  BY <1>4, <1>6 DEF CacheOK, CacheAt
<1>10. PlanOK'
  <2>0. PICK f : f = FindFork(tip, b)
    OBVIOUS
  <2>1. f \in Chain[tip] \cap Chain[b] /\ Chain[tip] \cap Chain[b] = Chain[f]
    BY <1>0, <2>0, ForkExists
  <2>2. detach' = Chain[tip] \ Chain[f] /\ attach' = Chain[b] \ Chain[f]
    BY <2>1
  <2> QED
    BY <2>1, <2>2 DEF PlanOK
<1>11. ViewOK'
  BY EmptyView DEF ViewOK
<1>12. JournalOK'
  BY DEF JournalOK
<1>13. ReplayOK'
  BY DEF ReplayOK
<1> QED
  BY <1>7, <1>8, <1>9, <1>10, <1>11, <1>12, <1>13

LEMMA DisconnectKeeps ==
  ASSUME UtxoInv, Failing = {}, Disconnect
  PROVE  LiveInv'
<1> USE DEF UtxoInv, LiveInv
<1>0. /\ utxo \in Coins /\ cache \in [Out -> CacheEntry] /\ view \in [Out -> ViewEntry]
      /\ journal \in [Block -> Coins] /\ tip \in Block
      /\ pc = "reorg" /\ detach # {} /\ CacheAt(cache, tip) /\ ViewAt(view, tip)
  BY TypeFacts DEF CacheOK, ViewOK, Disconnect
<1>1. PICK g \in Block, f \in Block :
        /\ f \in Chain[tip] \cap Chain[g]
        /\ detach = Chain[tip] \ Chain[f] /\ attach = Chain[g] \ Chain[f]
  BY <1>0, ChainSelf DEF PlanOK
<1>2. detach \cup attach \subseteq files /\ files \subseteq stored
  BY <1>0 DEF PlanOK, ReplayOK
<1>3. /\ Highest(detach) = tip /\ tip # Genesis /\ f \in Chain[Parent[tip]]
      /\ detach \ {tip} = Chain[Parent[tip]] \ Chain[f]
  BY <1>0, <1>1, DetachTop
<1>4. /\ Parent[tip] \in Block /\ Chain[tip] = Chain[Parent[tip]] \cup {tip}
      /\ tip \notin Chain[Parent[tip]] /\ Parent[tip] \in Chain[Parent[tip]]
  BY <1>0, <1>3, ParentFacts, ChainSelf
<1>5. PICK v : v = DisconnectTransactions(FetchInputs(view, Fetched(cache, Ins(tip)), tip), tip)
  OBVIOUS
<1>6. CASE /\ utxo' = PutView(Written(cache), v)
           /\ tip' = Parent[tip] /\ mark' = Parent[tip] /\ lastFlush' = Parent[tip]
           /\ cache' = Empty
           /\ journal' = [journal EXCEPT ![tip] = [o \in Out |-> None]]
           /\ view' = CommitView(v) /\ detach' = detach \ {tip}
           /\ pc' = (IF detach' \cup attach = {} THEN "idle" ELSE "reorg")
           /\ UNCHANGED <<files, stored, attach, oldBest, fails, at, calls, crashes>>
  <2>1. journal[tip] \in Coins
    BY <1>0
  <2>2. tip \in stored
    BY <1>0, <1>2, <1>3, HighestExists, <1>1, ChainSelf
  <2>3. \A o \in Ins(tip) \ Outs(tip) : journal[tip][o] = CoinsAt[Parent[tip]][o]
    BY <1>0, <1>3, <2>2, ChainSelf DEF JournalOK
  <2>4. /\ utxo' = CoinsAt[Parent[tip]]
        /\ view' \in [Out -> ViewEntry] /\ ViewAt(view', Parent[tip])
    BY <1>0, <1>3, <1>5, <1>6, <2>1, <2>3, UndoDoes
  <2>5. journal' \in [Block -> Coins]
    BY <1>0, <1>6 DEF Coins
  <2>6. utxo' \in Coins /\ detach' \in SUBSET Block
    BY <1>4, <1>6, <2>4, CoinsType DEF Coins, LiveType
  <2>7. LiveType'
    BY <1>4, <1>6, <2>4, <2>5, <2>6, EmptyOK
       DEF LiveType, CacheEntry, ViewEntry, Coins
  <2>8. MarkOK'
    BY <1>4, <1>6, <2>4 DEF MarkOK
  <2>9. CacheOK'
    BY <1>6, <2>4, EmptyOK DEF CacheOK, CacheAt
  <2>10. PlanOK'
    <3>1. f \in Chain[tip'] \cap Chain[g] /\ detach' = Chain[tip'] \ Chain[f]
          /\ attach' = Chain[g] \ Chain[f]
      BY <1>1, <1>3, <1>6
    <3>2. detach' \cup attach' \subseteq files' /\ pc' # "flush"
      BY <1>2, <1>6
    <3> QED
      BY <3>1, <3>2 DEF PlanOK
  <2>11. ViewOK'
    BY <1>6, <2>4 DEF ViewOK
  <2>12. JournalOK'
    <3>1. ASSUME NEW b \in (Chain[tip'] \cap stored') \ {Genesis}
          PROVE  b \in (Chain[tip] \cap stored) \ {Genesis} /\ journal'[b] = journal[b]
      BY <1>0, <1>4, <1>6, ChainSelf
    <3> QED
      BY <3>1 DEF JournalOK
  <2>13. ReplayOK'
    BY <1>6 DEF ReplayOK
  <2> QED
    BY <2>7, <2>8, <2>9, <2>10, <2>11, <2>12, <2>13
<1>7. CASE /\ cache' = Fetched(cache, Ins(tip)) /\ Return
           /\ UNCHANGED <<db, files, oldBest, lastFlush, fails, at, calls, crashes>>
  <2> USE <1>7 DEF Return, db
  <2>1. PICK k : k = CoinsAt[tip]
    OBVIOUS
  <2>2. k \in Coins /\ \A o \in Out : EntryOK(cache[o], k[o], utxo[o])
    BY <1>0, <2>1, CoinsType DEF CacheAt, Coins
  <2>3. cache' \in [Out -> CacheEntry] /\ \A o \in Out : EntryOK(cache'[o], k[o], utxo[o])
    BY <1>0, <2>2, InsOut, FetchedKeeps
  <2>4. LiveType'
    BY <2>3, EmptyView DEF LiveType, CacheEntry, ViewEntry
  <2>5. CacheOK'
    BY <2>1, <2>3 DEF CacheOK, CacheAt
  <2> QED
    BY <2>4, <2>5 DEF MarkOK, PlanOK, ViewOK, JournalOK, ReplayOK
<1>8. \/ /\ utxo' = PutView(Written(cache), v)
         /\ tip' = Parent[tip] /\ mark' = Parent[tip] /\ lastFlush' = Parent[tip]
         /\ cache' = Empty
         /\ journal' = [journal EXCEPT ![tip] = [o \in Out |-> None]]
         /\ view' = CommitView(v) /\ detach' = detach \ {tip}
         /\ pc' = (IF detach' \cup attach = {} THEN "idle" ELSE "reorg")
         /\ UNCHANGED <<files, stored, attach, oldBest, fails, at, calls, crashes>>
      \/ /\ cache' = Fetched(cache, Ins(tip)) /\ Return
         /\ UNCHANGED <<db, files, oldBest, lastFlush, fails, at, calls, crashes>>
  BY <1>3, <1>5 DEF Disconnect, FailedFlush, Flushed
<1> QED
  BY <1>6, <1>7, <1>8

\* connectBlock with pruning: the flush that flushNeededAfterPrune asks for is
\* what keeps every block above the mark.
LEMMA ConnectKeeps ==
  ASSUME UtxoInv, Failing = {}, Connect
  PROVE  LiveInv'
<1> USE DEF UtxoInv, LiveInv
<1>0. /\ utxo \in Coins /\ cache \in [Out -> CacheEntry]
      /\ journal \in [Block -> Coins] /\ tip \in Block /\ mark \in Block
      /\ pc = "reorg" /\ detach = {} /\ attach # {} /\ CacheAt(cache, tip)
      /\ utxo = CoinsAt[mark] /\ mark \in Chain[tip]
  BY TypeFacts DEF CacheOK, Connect, MarkOK
<1>1. PICK g \in Block, f \in Block :
        /\ f \in Chain[tip] \cap Chain[g]
        /\ detach = Chain[tip] \ Chain[f] /\ attach = Chain[g] \ Chain[f]
  BY <1>0, ChainSelf DEF PlanOK
<1>2. attach \subseteq files /\ files \subseteq stored /\ f = tip
  BY <1>0, <1>1, ForkIsTip DEF PlanOK, ReplayOK
<1>3. PICK b : b = Lowest(attach)
  OBVIOUS
<1>4. /\ b \in Chain[g] /\ b # Genesis /\ Parent[b] = tip
      /\ attach \ {b} = Chain[g] \ Chain[b]
  <2>1. PICK S : S = attach
    OBVIOUS
  <2>2. S = Chain[g] \ Chain[f] /\ S # {} /\ b = Lowest(S) /\ f \in Chain[g]
    BY <1>0, <1>1, <1>3, <2>1
  <2>3. /\ b \in Chain[g] /\ b # Genesis /\ Parent[b] = f
        /\ S \ {b} = Chain[g] \ Chain[b]
    BY <2>2, AttachBottom
  <2> QED
    BY <1>2, <2>1, <2>3
<1>5. /\ b \in Block /\ Chain[b] = Chain[tip] \cup {b} /\ b \notin Chain[tip]
      /\ b \in Chain[b] /\ Height[b] \in Nat /\ b \in attach
  <2>1. b \in Block
    BY <1>4, ChainSelf
  <2>2. /\ Chain[b] = Chain[tip] \cup {b} /\ b \notin Chain[tip]
        /\ b \in Chain[b] /\ Height[b] \in Nat
    BY <1>4, <2>1, ParentFacts, ChainSelf
  <2> QED
    BY <1>1, <1>2, <1>4, <2>1, <2>2
<1>6. PICK r : r = ConnectTransactions(cache, b)
  OBVIOUS
<1>7. /\ r.cache \in [Out -> CacheEntry] /\ CacheAt(r.cache, b)
      /\ r.stxos \in Coins
      /\ \A o \in Ins(b) \ Outs(b) : r.stxos[o] = CoinsAt[Parent[b]][o]
      /\ ~r.missing
  BY <1>0, <1>4, <1>5, <1>6, ConnectDoes
<1>8. PICK gone \in Prunable(b) :
        /\ files' = files \ gone /\ stored' = stored \ gone
        /\ journal' = [c \in Block |->
             IF c = b THEN r.stxos
             ELSE IF c \in gone THEN [o \in Out |-> None] ELSE journal[c]]
        /\ IF gone # {} /\ FlushNeededAfterPrune(gone)
           THEN Flush(r.cache, b, TRUE)
           ELSE cache' = r.cache /\ UNCHANGED <<utxo, mark, lastFlush>>
        /\ tip' = b /\ attach' = attach \ {b} /\ pc' = "flush"
        /\ UNCHANGED <<detach, oldBest, view, fails, at, calls, crashes>>
  BY <1>3, <1>6, <1>7 DEF Connect
<1>9. /\ gone \in SUBSET Block
      /\ \A c \in gone : c \in files /\ Height[c] \in Nat /\ Height[c] < Height[b]
  <2>1. CASE gone = {}
    BY <2>1
  <2>2. CASE gone # {}
    <3>1. PICK h \in 0..(Height[b] - 1) : gone = {c \in files : Height[c] <= h}
      BY <1>8, <2>2 DEF Prunable
    <3>2. files \in SUBSET Block
      BY DEF LiveType
    <3> QED
      BY <1>5, <3>1, <3>2, ChainSelf
  <2> QED
    BY <2>1, <2>2
<1>10. \/ /\ utxo' = CoinsAt[b] /\ mark' = b /\ lastFlush' = b /\ cache' = Empty
       \/ /\ cache' = r.cache /\ utxo' = utxo /\ mark' = mark /\ lastFlush' = lastFlush
          /\ gone = {} \/ ~FlushNeededAfterPrune(gone)
  <2>1. Written(r.cache) = CoinsAt[b]
    BY <1>0, <1>5, <1>7, FlushDoes
  <2> QED
    BY <1>8, <2>1 DEF Flush
<1>11. LiveType'
  <2>1. journal' \in [Block -> Coins]
    BY <1>0, <1>7, <1>8 DEF Coins
  <2>2. utxo' \in Coins /\ cache' \in [Out -> CacheEntry] /\ mark' \in Block
    BY <1>0, <1>5, <1>7, <1>10, CoinsType, EmptyOK DEF Coins
  <2>3. lastFlush' \in Block \cup {None}
    BY <1>5, <1>10 DEF LiveType
  <2> QED
    BY <1>5, <1>8, <2>1, <2>2, <2>3 DEF LiveType, Coins, CacheEntry
<1>12. MarkOK'
  BY <1>0, <1>5, <1>8, <1>10 DEF MarkOK
<1>13. CacheOK'
  <2>1. \A o \in Out : EntryOK(cache'[o], CoinsAt[b][o], utxo'[o])
    BY <1>7, <1>10, EmptyOK DEF CacheAt
  <2> QED
    BY <1>8, <2>1 DEF CacheOK, CacheAt
<1>14. PlanOK'
  <2>1. b \in Chain[tip'] \cap Chain[g] /\ detach' = Chain[tip'] \ Chain[b]
        /\ attach' = Chain[g] \ Chain[b]
    BY <1>0, <1>4, <1>5, <1>8
  <2>2. ASSUME NEW c \in attach' PROVE c \in files'
    <3>1. c \in Chain[g] /\ c \notin Chain[b] /\ c \in files
      BY <1>2, <1>8, <2>1
    <3>2. ~(Height[c] <= Height[b]) /\ Height[c] \in Nat
      BY <1>4, <3>1, ChainLinear, ChainSelf
    <3>3. c \notin gone
      BY <1>5, <1>9, <3>2
    <3> QED
      BY <1>8, <3>1, <3>3
  <2>3. detach' = {}
    BY <1>0, <1>8
  <2> QED
    BY <2>1, <2>2, <2>3 DEF PlanOK
<1>15. ViewOK'
  BY <1>8 DEF ViewOK
<1>16. JournalOK'
  <2>1. ASSUME NEW c \in (Chain[tip'] \cap stored') \ {Genesis}, NEW o \in Ins(c) \ Outs(c)
        PROVE  journal'[c][o] = CoinsAt[Parent[c]][o]
    <3>1. CASE c = b
      BY <1>5, <1>7, <1>8, <3>1
    <3>2. CASE c # b
      <4>1. c \in Chain[tip] /\ c \in stored /\ c \notin gone /\ c \in Block
        BY <1>5, <1>8, <3>2, ChainSelf
      <4>2. journal'[c] = journal[c]
        BY <1>8, <3>2, <4>1
      <4> QED
        BY <4>1, <4>2 DEF JournalOK
    <3> QED
      BY <3>1, <3>2
  <2> QED
    BY <2>1 DEF JournalOK
<1>17. ReplayOK'
  <2>1. ASSUME crashes = 0, NEW c \in Chain[b], c \notin Chain[mark'] PROVE c \in stored'
    <3>1. lastFlush = mark /\ Chain[tip] \ Chain[mark] \subseteq stored
      BY <2>1 DEF ReplayOK
    <3>2. mark' = mark /\ (gone = {} \/ ~FlushNeededAfterPrune(gone))
      BY <1>10, <2>1
    <3>3. c \in stored
      BY <1>2, <1>5, <2>1, <3>1, <3>2
    <3>4. CASE gone = {}
      BY <1>8, <3>3, <3>4
    <3>5. CASE ~FlushNeededAfterPrune(gone)
      <4>1. \A d \in gone : ~(Height[d] >= Height[mark])
        BY <3>1, <3>5 DEF FlushNeededAfterPrune
      <4>2. ~(Height[c] <= Height[mark]) /\ Height[c] \in Nat /\ Height[mark] \in Nat
        BY <1>0, <1>5, <2>1, <3>2, ChainLinear, ChainSelf
      <4>3. c \notin gone
        BY <4>1, <4>2
      <4> QED
        BY <1>8, <3>3, <4>3
    <3> QED
      BY <3>2, <3>4, <3>5
  <2>2. /\ crashes = 0 => lastFlush' = mark' /\ files' = stored'
        /\ files' \subseteq stored'
    BY <1>8, <1>10 DEF ReplayOK
  <2>3. crashes' = crashes /\ pc' = "flush" /\ tip' = b
    BY <1>8
  <2> QED
    BY <2>1, <2>2, <2>3 DEF ReplayOK
<1> QED
  BY <1>11, <1>12, <1>13, <1>14, <1>15, <1>16, <1>17

\* A flush that succeeds changes the mark and what is cached, nothing else.
LEMMA FlushKeeps ==
  ASSUME UtxoInv, pc \in {"idle", "flush"}, NEW erase \in BOOLEAN, Flush(cache, tip, erase)
  PROVE  /\ utxo' = CoinsAt[tip] /\ mark' = tip /\ lastFlush' = tip
         /\ utxo' \in Coins /\ cache' \in [Out -> CacheEntry]
         /\ \A o \in Out : EntryOK(cache'[o], CoinsAt[tip][o], utxo'[o])
<1>1. /\ utxo \in Coins /\ cache \in [Out -> CacheEntry] /\ tip \in Block
      /\ CacheAt(cache, tip)
  BY TypeFacts DEF UtxoInv, LiveInv, CacheOK
<1>2. /\ Written(cache) = CoinsAt[tip]
      /\ Kept(cache) \in [Out -> CacheEntry]
      /\ \A o \in Out : EntryOK(Kept(cache)[o], CoinsAt[tip][o], CoinsAt[tip][o])
  BY <1>1, FlushDoes
<1>3. CoinsAt[tip] \in Coins
  BY <1>1, CoinsType DEF Coins
<1> QED
  BY <1>2, <1>3, EmptyOK DEF Flush

LEMMA FlushIfNeededKeeps ==
  ASSUME UtxoInv, Failing = {}, FlushIfNeeded
  PROVE  LiveInv'
<1> USE DEF UtxoInv, LiveInv
<1>0. /\ pc = "flush" /\ pc' = (IF attach = {} THEN "idle" ELSE "reorg")
      /\ UNCHANGED <<files, journal, stored, tip, view, detach, attach, oldBest, at, crashes>>
      /\ tip \in Block /\ detach = {}
  BY DEF FlushIfNeeded, PlanOK, LiveType
<1>1. \/ Flush(cache, tip, TRUE)
      \/ UNCHANGED <<utxo, mark, cache, lastFlush>>
  BY DEF FlushIfNeeded, FailedFlush
<1>2. PlanOK' /\ ViewOK' /\ JournalOK'
  BY <1>0 DEF PlanOK, ViewOK, JournalOK
<1>3. CASE Flush(cache, tip, TRUE)
  <2>1. /\ utxo' = CoinsAt[tip] /\ mark' = tip /\ lastFlush' = tip
        /\ utxo' \in Coins /\ cache' \in [Out -> CacheEntry]
        /\ \A o \in Out : EntryOK(cache'[o], CoinsAt[tip][o], utxo'[o])
    BY <1>0, <1>3, FlushKeeps
  <2>2. LiveType'
    BY <1>0, <2>1 DEF LiveType, Coins, CacheEntry
  <2>3. MarkOK' /\ CacheOK' /\ ReplayOK'
    BY <1>0, <2>1, ChainSelf DEF MarkOK, CacheOK, CacheAt, ReplayOK
  <2> QED
    BY <1>2, <2>2, <2>3
<1>4. CASE UNCHANGED <<utxo, mark, cache, lastFlush>>
  <2>1. LiveType'
    BY <1>0, <1>4 DEF LiveType
  <2>2. MarkOK' /\ CacheOK' /\ ReplayOK'
    BY <1>0, <1>4 DEF MarkOK, CacheOK, CacheAt, ReplayOK
  <2> QED
    BY <1>2, <2>1, <2>2
<1> QED
  BY <1>1, <1>3, <1>4

LEMMA FlushPeriodicKeeps ==
  ASSUME UtxoInv, Failing = {}, FlushPeriodic
  PROVE  LiveInv'
<1> USE DEF UtxoInv, LiveInv
<1>0. /\ pc = "idle" /\ tip \in Block
      /\ UNCHANGED <<files, journal, stored, tip, view, detach, attach, oldBest, pc, at, crashes>>
  BY DEF FlushPeriodic, LiveType
<1>1. PICK erase \in BOOLEAN : Flush(cache, tip, erase)
  BY DEF FlushPeriodic, FailedFlush
<1>2. /\ utxo' = CoinsAt[tip] /\ mark' = tip /\ lastFlush' = tip
      /\ utxo' \in Coins /\ cache' \in [Out -> CacheEntry]
      /\ \A o \in Out : EntryOK(cache'[o], CoinsAt[tip][o], utxo'[o])
  BY <1>0, <1>1, FlushKeeps
<1>3. LiveType'
  BY <1>0, <1>2 DEF LiveType, Coins, CacheEntry
<1>4. MarkOK' /\ CacheOK' /\ ReplayOK'
  BY <1>0, <1>2, ChainSelf DEF MarkOK, CacheOK, CacheAt, ReplayOK
<1>5. PlanOK' /\ ViewOK' /\ JournalOK'
  BY <1>0 DEF PlanOK, ViewOK, JournalOK
<1> QED
  BY <1>3, <1>4, <1>5

LEMMA FetchEntryKeeps ==
  ASSUME UtxoInv, NEW o \in Out, FetchEntry(o)
  PROVE  LiveInv'
<1> USE DEF UtxoInv, LiveInv
<1>0. /\ pc \in {"idle", "reorg", "flush"} /\ cache' = Fetched(cache, {o})
      /\ utxo' = utxo /\ mark' = mark
      /\ UNCHANGED <<files, journal, stored, tip, lastFlush>>
      /\ UNCHANGED <<view, detach, attach, oldBest, pc, at, crashes>>
  BY DEF FetchEntry, db, onDisk, counts
<1>1. /\ utxo \in Coins /\ cache \in [Out -> CacheEntry] /\ tip \in Block
      /\ CacheAt(cache, tip)
  BY <1>0, TypeFacts DEF CacheOK
<1>2. PICK k : k = CoinsAt[tip]
  OBVIOUS
<1>3. k \in Coins /\ \A x \in Out : EntryOK(cache[x], k[x], utxo[x])
  BY <1>1, <1>2, CoinsType DEF CacheAt, Coins
<1>4. cache' \in [Out -> CacheEntry] /\ \A x \in Out : EntryOK(cache'[x], k[x], utxo[x])
  BY <1>0, <1>1, <1>3, FetchedKeeps
<1>5. LiveType'
  BY <1>0, <1>4 DEF LiveType, CacheEntry
<1>6. CacheOK'
  BY <1>0, <1>2, <1>4 DEF CacheOK, CacheAt
<1>7. MarkOK' /\ PlanOK' /\ ViewOK' /\ JournalOK' /\ ReplayOK'
  BY <1>0 DEF MarkOK, PlanOK, ViewOK, JournalOK, ReplayOK
<1> QED
  BY <1>5, <1>6, <1>7

-----------------------------------------------------------------------------
(* Crash, restart and replay                                                 *)

LEMMA CrashKeeps ==
  ASSUME UtxoInv, Crash
  PROVE  LiveInv'
<1> USE DEF UtxoInv, LiveInv
<1>0. /\ cache' = Empty /\ lastFlush' = None /\ view' = Empty
      /\ detach' = {} /\ attach' = {} /\ pc' = "down"
      /\ crashes < MaxCrashes /\ crashes' = crashes + 1
      /\ utxo' = disk.utxo /\ mark' = disk.mark /\ journal' = disk.journal
      /\ stored' = disk.stored /\ tip' = disk.tip
      /\ UNCHANGED <<files, disk, oldBest, at>>
  BY DEF Crash, Forget, onDisk
<1>1. LiveType'
  <2>1. /\ disk.utxo \in Coins /\ disk.mark \in Block /\ disk.journal \in [Block -> Coins]
        /\ disk.stored \in SUBSET Block /\ disk.tip \in Block
    BY DEF DiskInv, Row
  <2> QED
    BY <1>0, <2>1, EmptyOK, EmptyView DEF LiveType, Coins, CacheEntry, ViewEntry
<1>2. MarkOK' /\ CacheOK' /\ PlanOK' /\ ViewOK'
  BY <1>0 DEF MarkOK, CacheOK, PlanOK, ViewOK, DiskInv
<1>4. JournalOK'
  BY <1>0 DEF JournalOK, DiskInv
<1>3. ReplayOK'
  BY <1>0, UtxoAssumption DEF ReplayOK, DiskInv
<1> QED
  BY <1>1, <1>2, <1>3, <1>4

LEMMA RestartKeeps ==
  ASSUME UtxoInv, Restart
  PROVE  LiveInv'
<1> USE DEF UtxoInv, LiveInv
<1>0. /\ pc = "down" /\ at' = mark /\ mark \in Block /\ tip \in Block
      /\ \/ mark = tip /\ pc' = "idle" /\ lastFlush' = tip
         \/ mark # tip /\ pc' = "replay" /\ UNCHANGED lastFlush
      /\ utxo' = utxo /\ mark' = mark
      /\ UNCHANGED <<files, journal, stored, tip, cache, view, detach, attach, oldBest, crashes>>
  BY DEF Restart, db, onDisk, counts, LiveType
<1>1. LiveType'
  BY <1>0 DEF LiveType
<1>2. cache = Empty /\ utxo = CoinsAt[mark] /\ mark \in Chain[tip] /\ mark \in Chain[mark]
  BY <1>0, ChainSelf DEF CacheOK, MarkOK
<1>3. \A o \in Out : EntryOK(cache[o], CoinsAt[mark][o], utxo[o])
  BY <1>2, EmptyOK
<1>4. CacheOK'
  BY <1>0, <1>2, <1>3 DEF CacheOK, CacheAt
<1>5. MarkOK' /\ PlanOK' /\ ViewOK' /\ JournalOK'
  BY <1>0 DEF MarkOK, PlanOK, ViewOK, JournalOK
<1>6. ReplayOK'
  BY <1>0 DEF ReplayOK
<1> QED
  BY <1>1, <1>4, <1>5, <1>6

\* The next block of the replay is a child of the block it has come to, and up
\* to the end of the first replay the database has its row.
LEMMA ReplayKeeps ==
  ASSUME UtxoInv, Replay
  PROVE  LiveInv'
<1> USE DEF UtxoInv, LiveInv
<1>0. /\ utxo \in Coins /\ cache \in [Out -> CacheEntry]
      /\ tip \in Block /\ mark \in Block /\ at \in Block
      /\ pc = "replay" /\ at # tip /\ at \in Chain[tip] /\ mark \in Chain[at]
      /\ CacheAt(cache, at) /\ utxo = CoinsAt[mark]
      /\ UNCHANGED <<files, journal, stored, tip, view, detach, attach, oldBest, crashes>>
  BY TypeFacts DEF CacheOK, Replay, MarkOK, counts
<1>1. PICK S : S = Chain[tip] \ Chain[at]
  OBVIOUS
<1>2. S # {}
  BY <1>0, <1>1, ForkIsTip
<1>3. PICK b : b = Lowest(S)
  OBVIOUS
<1>4. b \in Chain[tip] /\ b # Genesis /\ Parent[b] = at /\ b \in S
  <2>1. b \in Chain[tip] /\ b # Genesis /\ Parent[b] = at
    BY <1>0, <1>1, <1>2, <1>3, AttachBottom
  <2>2. S \in SUBSET Block
    BY <1>0, <1>1, ChainSelf
  <2> QED
    BY <1>2, <1>3, <2>1, <2>2, LowestExists
<1>5. b \in Block /\ Chain[b] = Chain[at] \cup {b} /\ b \in Chain[b]
  <2>1. b \in Block
    BY <1>0, <1>4, ChainSelf
  <2> QED
    BY <1>4, <2>1, ParentFacts, ChainSelf
<1>6. Chain[mark] \subseteq Chain[at]
  BY <1>0, ChainDown
<1>7. PICK r : r = ConnectTransactions(cache, b)
  OBVIOUS
<1>8. r.cache \in [Out -> CacheEntry] /\ CacheAt(r.cache, b) /\ ~r.missing
  BY <1>0, <1>4, <1>5, <1>7, ConnectDoes
<1>9. \/ /\ b \notin files /\ pc' = "lost"
         /\ UNCHANGED <<utxo, mark, cache, lastFlush, at>>
      \/ /\ at' = b /\ UNCHANGED pc
         /\ \/ cache' = r.cache /\ UNCHANGED <<utxo, mark, lastFlush>>
            \/ Flush(r.cache, b, TRUE)
  BY <1>1, <1>3, <1>7, <1>8 DEF Replay, NextToReplay
<1>10. JournalOK'
  BY <1>0 DEF JournalOK
<1>11. CASE /\ b \notin files /\ pc' = "lost"
            /\ UNCHANGED <<utxo, mark, cache, lastFlush, at>>
  <2>1. LiveType'
    BY <1>0, <1>11 DEF LiveType
  <2>2. MarkOK' /\ CacheOK' /\ PlanOK' /\ ViewOK'
    BY <1>0, <1>11 DEF MarkOK, CacheOK, CacheAt, PlanOK, ViewOK
  <2>3. crashes # 0 /\ (crashes = 1 => files # stored)
    BY <1>0, <1>1, <1>4, <1>6, <1>11 DEF ReplayOK
  <2>4. ReplayOK'
    BY <1>0, <1>11, <2>3 DEF ReplayOK
  <2> QED
    BY <1>10, <2>1, <2>2, <2>4
<1>12. CASE /\ at' = b /\ UNCHANGED pc
            /\ cache' = r.cache /\ UNCHANGED <<utxo, mark, lastFlush>>
  <2>1. LiveType'
    BY <1>0, <1>5, <1>8, <1>12 DEF LiveType, CacheEntry
  <2>2. CacheOK'
    BY <1>0, <1>4, <1>5, <1>8, <1>12 DEF CacheOK, CacheAt
  <2>3. MarkOK' /\ PlanOK' /\ ViewOK' /\ ReplayOK'
    BY <1>0, <1>12 DEF MarkOK, PlanOK, ViewOK, ReplayOK
  <2> QED
    BY <1>10, <2>1, <2>2, <2>3
<1>13. CASE at' = b /\ UNCHANGED pc /\ Flush(r.cache, b, TRUE)
  <2>1. Written(r.cache) = CoinsAt[b]
    BY <1>0, <1>5, <1>8, FlushDoes
  <2>2. utxo' = CoinsAt[b] /\ mark' = b /\ lastFlush' = b /\ cache' = Empty
    BY <1>13, <2>1 DEF Flush
  <2>3. LiveType'
    <3>1. utxo' \in Coins
      BY <1>5, <2>2, CoinsType DEF Coins
    <3> QED
      BY <1>0, <1>5, <1>13, <2>2, <3>1, EmptyOK DEF LiveType, Coins, CacheEntry
  <2>4. CacheOK'
    <3>1. \A o \in Out : EntryOK(cache'[o], CoinsAt[b][o], utxo'[o])
      BY <2>2, EmptyOK
    <3> QED
      BY <1>0, <1>4, <1>5, <1>13, <2>2, <3>1 DEF CacheOK, CacheAt
  <2>5. MarkOK' /\ PlanOK' /\ ViewOK'
    BY <1>0, <1>4, <1>13, <2>2 DEF MarkOK, PlanOK, ViewOK
  <2>6. ReplayOK'
    <3>1. Chain[tip] \ Chain[b] \subseteq Chain[tip] \ Chain[mark]
      BY <1>5, <1>6
    <3> QED
      BY <1>0, <1>13, <2>2, <3>1 DEF ReplayOK
  <2> QED
    BY <1>10, <2>3, <2>4, <2>5, <2>6
<1> QED
  BY <1>9, <1>11, <1>12, <1>13

LEMMA ReplayedKeeps ==
  ASSUME UtxoInv, Replayed
  PROVE  LiveInv'
<1> USE DEF UtxoInv, LiveInv
<1>0. /\ pc = "replay" /\ at = tip /\ pc' = "idle" /\ lastFlush' = tip
      /\ utxo' = utxo /\ mark' = mark
      /\ UNCHANGED <<files, journal, stored, tip, cache, view, detach, attach, oldBest, at, crashes>>
  BY DEF Replayed, db, onDisk, counts
<1>1. LiveType'
  BY <1>0 DEF LiveType
<1>2. CacheOK'
  BY <1>0 DEF CacheOK, CacheAt
<1>3. MarkOK' /\ PlanOK' /\ ViewOK' /\ JournalOK' /\ ReplayOK'
  BY <1>0 DEF MarkOK, PlanOK, ViewOK, JournalOK, ReplayOK
<1> QED
  BY <1>1, <1>2, <1>3

LEMMA NextLive ==
  ASSUME UtxoInv, Failing = {}, [Next]_vars
  PROVE  LiveInv'
<1>1. CASE UNCHANGED vars
  <2>1. /\ utxo' = utxo /\ mark' = mark
        /\ UNCHANGED <<files, journal, stored, tip, cache, lastFlush, view, detach, attach>>
        /\ UNCHANGED <<oldBest, pc, at, crashes>>
    BY <1>1 DEF vars, db, onDisk, counts
  <2>2. LiveType' /\ MarkOK'
    BY <2>1 DEF UtxoInv, LiveInv, LiveType, MarkOK
  <2>3. CacheOK' /\ PlanOK' /\ ViewOK' /\ JournalOK' /\ ReplayOK'
    BY <2>1 DEF UtxoInv, LiveInv, CacheOK, CacheAt, PlanOK, ViewOK, JournalOK, ReplayOK
  <2> QED
    BY <2>2, <2>3 DEF LiveInv
<1>2. CASE \E b \in Block : Start(b)
  BY <1>2, StartKeeps
<1>3. CASE Disconnect
  BY <1>3, DisconnectKeeps
<1>4. CASE Connect
  BY <1>4, ConnectKeeps
<1>5. CASE FlushIfNeeded
  BY <1>5, FlushIfNeededKeeps
<1>6. CASE FlushPeriodic
  BY <1>6, FlushPeriodicKeeps
<1>7. CASE \E o \in Out : FetchEntry(o)
  BY <1>7, FetchEntryKeeps
<1>8. CASE Crash
  BY <1>8, CrashKeeps
<1>9. CASE Restart
  BY <1>9, RestartKeeps
<1>10. CASE Replay
  BY <1>10, ReplayKeeps
<1>11. CASE Replayed
  BY <1>11, ReplayedKeeps
<1> QED
  BY <1>1, <1>2, <1>3, <1>4, <1>5, <1>6, <1>7, <1>8, <1>9, <1>10, <1>11 DEF Next

\* What the disk holds stays, or becomes what is committed; files only go.
LEMMA DiskMoves ==
  ASSUME [Next]_vars
  PROVE  /\ disk' = disk \/ disk' = Committed'
         /\ crashes' = crashes \/ crashes' = crashes + 1
         /\ files' \subseteq files
<1>1. Saves => disk' = disk \/ disk' = Committed'
  BY DEF Saves
<1>2. CASE UNCHANGED vars
  BY <1>2 DEF vars, onDisk, counts
<1>3. CASE \E b \in Block : Start(b)
  BY <1>3 DEF Start, onDisk
<1>4. CASE Disconnect
  BY <1>1, <1>4 DEF Disconnect
<1>5. CASE Connect
  <2>1. Saves /\ crashes' = crashes
    BY <1>5 DEF Connect
  <2>2. files' = files \/ \E gone : files' = files \ gone
    BY <1>5 DEF Connect
  <2> QED
    BY <1>1, <2>1, <2>2
<1>6. CASE FlushIfNeeded
  BY <1>1, <1>6 DEF FlushIfNeeded
<1>7. CASE FlushPeriodic
  BY <1>1, <1>7 DEF FlushPeriodic
<1>8. CASE \E o \in Out : FetchEntry(o)
  BY <1>8 DEF FetchEntry, onDisk, counts
<1>9. CASE Crash
  BY <1>9 DEF Crash, onDisk
<1>10. CASE Restart
  BY <1>10 DEF Restart, onDisk, counts
<1>11. CASE Replay
  BY <1>1, <1>11 DEF Replay, counts
<1>12. CASE Replayed
  BY <1>12 DEF Replayed, onDisk, counts
<1> QED
  BY <1>2, <1>3, <1>4, <1>5, <1>6, <1>7, <1>8, <1>9, <1>10, <1>11, <1>12 DEF Next

\* A state with LiveInv that is saved satisfies DiskInv.
LEMMA DiskSaved ==
  ASSUME LiveInv, disk = Committed
  PROVE  DiskInv
<1>1. /\ disk.utxo = utxo /\ disk.mark = mark /\ disk.journal = journal
      /\ disk.stored = stored /\ disk.tip = tip
  BY DEF Committed
<1>2. disk \in Row
  BY DEF Committed, Row, LiveInv, LiveType, Coins
<1> QED
  BY <1>1, <1>2 DEF DiskInv, LiveInv, MarkOK, JournalOK, ReplayOK

LEMMA InitUtxo ==
  ASSUME Init
  PROVE  UtxoInv
BY InitLive, DiskSaved DEF Init, UtxoInv

LEMMA NextUtxo ==
  ASSUME UtxoInv, Failing = {}, [Next]_vars
  PROVE  UtxoInv'
<1>1. LiveInv'
  BY NextLive
<1>2. CASE disk' = Committed'
  <2>1. /\ disk'.utxo = utxo' /\ disk'.mark = mark' /\ disk'.journal = journal'
        /\ disk'.stored = stored' /\ disk'.tip = tip'
    BY <1>2 DEF Committed
  <2>2. disk' \in Row
    BY <1>1, <1>2 DEF Committed, Row, LiveInv, LiveType, Coins
  <2>3. DiskInv'
    BY <1>1, <2>1, <2>2 DEF DiskInv, LiveInv, MarkOK, JournalOK, ReplayOK
  <2> QED
    BY <1>1, <2>3 DEF UtxoInv
<1>3. CASE disk' = disk
  <2>1. crashes' = 0 => crashes = 0
    BY <1>1, DiskMoves DEF UtxoInv, LiveInv, ReplayOK
  <2>2. files' \subseteq files /\ DiskInv
    BY DiskMoves DEF UtxoInv
  <2>3. DiskInv'
    <3>1. DiskInv /\ DiskInv'
          <=> DiskInv /\ files' \subseteq disk.stored
              /\ (crashes' = 0 => Chain[disk.tip] \ Chain[disk.mark] \subseteq disk.stored)
      BY <1>3 DEF DiskInv
    <3>2. files' \subseteq disk.stored
          /\ (crashes' = 0 => Chain[disk.tip] \ Chain[disk.mark] \subseteq disk.stored)
      BY <2>1, <2>2 DEF DiskInv
    <3> QED
      BY <2>2, <3>1, <3>2
  <2> QED
    BY <1>1, <2>3 DEF UtxoInv
<1> QED
  BY <1>2, <1>3, DiskMoves

-----------------------------------------------------------------------------
(* Theorems                                                                  *)

LEMMA UtxoInvariant ==
  ASSUME Failing = {}
  PROVE  Spec => []UtxoInv
<1>1. Init => UtxoInv
  BY InitUtxo
<1>2. UtxoInv /\ [Next]_vars => UtxoInv'
  BY NextUtxo
<1> QED
  BY <1>1, <1>2, PTL DEF Spec

\* Whoever looks a coin up while chainLock is free sees the coin of the best
\* chain, whatever was fetched, flushed, pruned, reorganized or replayed: for
\* every block tree and any number of crashes.
THEOREM CoinsSeen ==
  ASSUME Failing = {}
  PROVE  Spec => []CacheIsExact
<1>1. ASSUME UtxoInv PROVE CacheIsExact
  <2>1. SUFFICES ASSUME pc \in {"idle", "reorg", "flush"}, NEW o \in Out
                 PROVE  Visible(o) = CoinsAt[tip][o]
    BY DEF CacheIsExact
  <2>2. EntryOK(cache[o], CoinsAt[tip][o], utxo[o])
    BY <1>1, <2>1 DEF UtxoInv, LiveInv, CacheOK, CacheAt
  <2>3. \A k, v : Entry(k, v).kind = k /\ Entry(k, v).coin = v
    BY DEF Entry
  <2>4. /\ Absent.kind = "absent" /\ Nil.kind = "nil" /\ Spent.kind = "spent"
        /\ Nil # Absent /\ Spent # Absent
    BY <2>3 DEF Absent, Nil, Spent
  <2>5. CASE cache[o] = Absent /\ utxo[o] = CoinsAt[tip][o]
    BY <2>4, <2>5 DEF Visible
  <2>6. CASE (cache[o] = Nil \/ cache[o] = Spent) /\ CoinsAt[tip][o] = None
    BY <2>4, <2>6 DEF Visible
  <2>7. CASE \E k \in {"clean", "fresh"} : cache[o] = Entry(k, CoinsAt[tip][o])
    <3>1. /\ cache[o].kind \in {"clean", "fresh"} /\ cache[o].coin = CoinsAt[tip][o]
          /\ cache[o] # Absent
      BY <2>3, <2>4, <2>7
    <3> QED
      BY <3>1 DEF Visible
  <2> QED
    BY <2>2, <2>5, <2>6, <2>7 DEF EntryOK
<1> QED
  BY <1>1, UtxoInvariant, PTL

\* The database, as committed and as on disk, holds the coins of the block its
\* mark names, and that block is on its best chain, at every transaction and
\* after any number of crashes.
THEOREM MarkHolds ==
  ASSUME Failing = {}
  PROVE  Spec => []MarkIsExact
<1>1. UtxoInv => MarkIsExact
  BY DEF UtxoInv, LiveInv, MarkOK, DiskInv, MarkIsExact, Committed
<1> QED
  BY <1>1, UtxoInvariant, PTL

LEMMA TypesOK ==
  ASSUME UtxoInv
  PROVE  UtxoTypeOK
BY DEF UtxoInv, LiveInv, LiveType, DiskInv, Row, Coins, UtxoTypeOK

\* Types, and a fresh entry is one the database has never seen, so that
\* addTxIn may drop it.
THEOREM FreshSafe ==
  ASSUME Failing = {}
  PROVE  Spec => []FreshIsNew
<1>1. ASSUME UtxoInv PROVE FreshIsNew
  <2>1. \E b \in Block : CacheAt(cache, b)
    <3>1. pc \in {"idle", "reorg", "flush", "replay", "down", "assert", "lost"}
      BY <1>1 DEF UtxoInv, LiveInv, LiveType
    <3>2. CASE pc = "down"
      <4>1. \A o \in Out : EntryOK(cache[o], CoinsAt[mark][o], utxo[o])
        BY <1>1, <3>2, EmptyOK DEF UtxoInv, LiveInv, CacheOK, MarkOK
      <4> QED
        BY <1>1, <4>1 DEF CacheAt, UtxoInv, LiveInv, LiveType
    <3>3. CASE pc # "down"
      BY <1>1, <3>1, <3>3 DEF UtxoInv, LiveInv, CacheOK, LiveType
    <3> QED
      BY <3>2, <3>3
  <2>2. ASSUME NEW o \in Out, cache[o].kind = "fresh" PROVE utxo[o] = None
    <3>1. PICK k : EntryOK(cache[o], k, utxo[o])
      BY <2>1 DEF CacheAt
    <3>2. \A x, v : Entry(x, v).kind = x
      BY DEF Entry
    <3>3. Absent.kind = "absent" /\ Nil.kind = "nil" /\ Spent.kind = "spent"
      BY <3>2 DEF Absent, Nil, Spent
    <3> QED
      BY <2>2, <3>1, <3>2, <3>3 DEF EntryOK
  <2> QED
    BY <1>1, <2>2, TypesOK DEF FreshIsNew
<1> QED
  BY <1>1, UtxoInvariant, PTL

\* flushNeededAfterPrune keeps every file that the committed state would have
\* to replay, and every state that ffldb wrote to disk had its own when it was
\* written.
THEOREM BlocksKept ==
  ASSUME Failing = {}
  PROVE  Spec => []ReplayBlocksKept
<1>1. UtxoInv => ReplayBlocksKept
  BY DEF UtxoInv, LiveInv, DiskInv, ReplayOK, ReplayBlocksKept
<1> QED
  BY <1>1, UtxoInvariant, PTL

\* No input is ever missing, after any number of crashes, and the replay that
\* follows the first one meets a deleted block only if ffldb had not written
\* the transaction that pruned it.
THEOREM NeverAsserts ==
  ASSUME Failing = {}
  PROVE  Spec => []NoAssert
<1>1. UtxoInv => NoAssert
  BY DEF UtxoInv, LiveInv, ReplayOK, NoAssert
<1> QED
  BY <1>1, UtxoInvariant, PTL
=============================================================================
