---------------------------- MODULE MCAppRestart ----------------------------
(* A plan for another machine and then the controlling one, and a second    *)
(* plan for the other machine alone.                                        *)
EXTENDS AppRestart

MCTargets == [p \in Plans |-> IF p = "both" THEN <<"mini", "book">> ELSE <<"mini">>]
=============================================================================
