----------------------------- MODULE MCUtxoCache -----------------------------
(***************************************************************************)
(* A block tree with transactions for UtxoCache: G <- P <- {A1 <- A2,      *)
(* B1 <- B2}.  The transaction that spends o1 is in A1 and again, one      *)
(* block higher, in B2; A2 and B2 spend outputs of their own.              *)
(***************************************************************************)
EXTENDS UtxoCache, TLC

CONSTANTS G, P, A1, A2, B1, B2, o1, o2, o3, o4

MCParent == (P :> G) @@ (A1 :> P) @@ (A2 :> A1) @@ (B1 :> P) @@ (B2 :> B1)

HeightOf[b \in Block] == IF b = G THEN 0 ELSE HeightOf[Parent[b]] + 1
SumOf[b \in Block]    == IF b = G THEN 1 ELSE SumOf[Parent[b]] + 1
ChainOf[b \in Block]  == IF b = G THEN {G} ELSE ChainOf[Parent[b]] \cup {b}

MCWork    == [b \in Block |-> 1]
MCHeight  == [b \in Block |-> HeightOf[b]]
MCWorkSum == [b \in Block |-> SumOf[b]]
MCChain   == [b \in Block |-> ChainOf[b]]

Tx(in, out) == [ins |-> in, outs |-> out]
Split == Tx({o1}, {o2, o3})

MCTxs ==
  (G :> <<>>)
  @@ (P  :> <<Tx({}, {o1})>>)
  @@ (A1 :> <<Tx({}, {}), Split>>)
  @@ (A2 :> <<Tx({}, {}), Tx({o2}, {o4}), Tx({o4}, {})>>)
  @@ (B1 :> <<Tx({}, {})>>)
  @@ (B2 :> <<Tx({}, {}), Split, Tx({o3}, {})>>)
=============================================================================
