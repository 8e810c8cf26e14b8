-------------------------- MODULE MCApprovalGateway --------------------------
(* The cfg files name the requests and the devices: a Mac that follows the   *)
(* list, a phone that is told by pushes.                                     *)
EXTENDS ApprovalGateway
===============================================================================
