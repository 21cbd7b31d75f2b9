---------------------------- MODULE MCBlockChain ----------------------------
(***************************************************************************)
(* Block trees on which TLC checks BlockChain.                             *)
(***************************************************************************)
EXTENDS BlockChain

CONSTANTS G, A1, A2, B1, B2, B3, C2, C3, sync, rpc1, rpc2

\* G <- A1 <- A2 and G <- B1 <- {B2 <- B3, C2 <- C3}.
Links == (A1 :> G) @@ (A2 :> A1) @@ (B1 :> G) @@ (B2 :> B1) @@ (B3 :> B2)
         @@ (C2 :> B1) @@ (C3 :> C2)

HeightOf[b \in Block] == IF b = G THEN 0 ELSE HeightOf[Parent[b]] + 1
SumOf[b \in Block]    == IF b = G THEN Work[G] ELSE SumOf[Parent[b]] + Work[b]
ChainOf[b \in Block]  == IF b = G THEN {G} ELSE ChainOf[Parent[b]] \cup {b}

MCHeight  == [b \in Block |-> HeightOf[b]]
MCWorkSum == [b \in Block |-> SumOf[b]]
MCChain   == [b \in Block |-> ChainOf[b]]

\* Works such that B3 and C3 are ahead of A2 by between a quarter and a half
\* of its work, and B3 ahead of C3 by less than a quarter.
Works == (G :> 4) @@ (A1 :> 8) @@ (A2 :> 8) @@ (B1 :> 8) @@ (B2 :> 1)
         @@ (B3 :> 10) @@ (C2 :> 2) @@ (C3 :> 8)

\* Any set of these blocks that holds G and every member's parent will do.
MCParent == [b \in Block \ {G} |-> Links[b]]
MCWork   == [b \in Block |-> Works[b]]
=============================================================================
