------------------------------ MODULE MCMempool ------------------------------
(* Mempool with seven transactions: 1 and 2 spend the same confirmed coin,   *)
(* 3 and 5 the same output of 1, 4 spends 3, 6 spends both 1's coin and one  *)
(* of its outputs, and 7 an output of 1 and one of 3.                        *)
EXTENDS Mempool

MCIns == <<{<<0, 1>>}, {<<0, 1>>}, {<<1, 1>>}, {<<3, 1>>},
           {<<1, 1>>}, {<<0, 1>>, <<1, 2>>}, {<<1, 2>>, <<3, 1>>}>>
MCOuts == <<2, 1, 1, 1, 1, 1, 1>>
MCFee == <<2, 5, 2, 1, 4, 9, 3>>
MCSize == <<1, 1, 1, 1, 1, 2, 1>>
SingleBlocks == {<<1>>, <<2>>, <<3>>, <<4>>}
PairBlocks == {<<1, 3>>}
=============================================================================
