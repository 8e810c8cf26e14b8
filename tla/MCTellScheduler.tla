--------------------------- MODULE MCTellScheduler ---------------------------
(* Five panes, two workers: a pane can be passed over twice before its turn. *)
EXTENDS TellScheduler

MCNames == 1..5
=============================================================================
