--------------------------- MODULE MCApprovalBridge ---------------------------
(* One pane; requests are independent but for it and the wake-up they share. *)
EXTENDS ApprovalBridge

MCPane == [r \in Requests |-> 1]
===============================================================================
