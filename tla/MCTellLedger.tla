---------------------------- MODULE MCTellLedger ----------------------------
(* Two messages with two issue times, two conversations in one pane: both   *)
(* may wait for the pane, be pruned after their lifetime and be submitted   *)
(* again.  A machine with room for one receipt on which everything may go   *)
(* wrong, and one with room for two that is sane.                           *)
EXTENDS TellLedger

MCIds       == {1, 2}
MCAddresses == {"a1", "a2"}
MCSurfaceOf == [a \in MCAddresses |-> "p"]
MCBodies    == {"b"}
MCIssuedAt  == [id \in MCIds |-> id - 1]
MCMachines  == {[room |-> 1, late |-> TRUE,  gui |-> TRUE],
                [room |-> 2, late |-> FALSE, gui |-> FALSE]}
=============================================================================
