-------------------------------- MODULE Ledger --------------------------------
(***************************************************************************)
(* What BlockChain promises to its users: the mempool, the indexers, the   *)
(* wallets and the miners see a best chain that grows or shrinks by one    *)
(* block at a time, through blocks that obey the rules only, and a set of  *)
(* coins that is always the one of that chain.  A crash takes the chain    *)
(* back to the tip that was last saved, however many blocks away that is.  *)
(***************************************************************************)
EXTENDS BlockTree

VARIABLES
  best,   \* the tip of the best chain
  coins,  \* the blocks applied to the utxo set
  saved   \* the tip that a crash leaves

ledgerVars == <<best, coins, saved>>

LedgerInit == best = Genesis /\ coins = {Genesis} /\ saved = Genesis

\* The new tip may be saved at once or later.
MaySave == saved' \in {saved, best'}

\* NTBlockConnected
Connect(b) ==
  /\ Parent[b] = best /\ b \notin BadBlock
  /\ best' = b /\ coins' = coins \cup {b}
  /\ MaySave

\* NTBlockDisconnected
Disconnect ==
  /\ best # Genesis
  /\ best' = Parent[best] /\ coins' = coins \ {best}
  /\ MaySave

Save == saved' = best /\ UNCHANGED <<best, coins>>

Crash == best' = saved /\ coins' = Chain[saved] /\ UNCHANGED saved

LedgerNext == Disconnect \/ (\E b \in Block \ {Genesis} : Connect(b)) \/ Save \/ Crash

LedgerSpec == LedgerInit /\ [][LedgerNext]_ledgerVars
===============================================================================
