------------------------------- MODULE MCFfldb -------------------------------
EXTENDS Ffldb, TLC

Sym == Permutations(Block)

==============================================================================
