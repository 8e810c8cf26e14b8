--------------------------- MODULE MCChainRecovery ---------------------------
(* The requests are alike.                                                    *)
EXTENDS ChainRecovery, TLC

Alike == Permutations(Requests)
==============================================================================
