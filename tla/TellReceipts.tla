---------------------------- MODULE TellReceipts ----------------------------
(* The life of a tell receipt (crates/kasa-socket/src/tell.rs), shared by   *)
(* the ledger that stores it and the delivery that drives it.               *)

Final  == {"submitted", "failed", "uncertain"}
States == {"accepted", "dispatching"} \cup Final

(* A dispatch may fall back to "accepted": the worker proved that it wrote  *)
(* nothing.                                                                 *)
Allowed(from, to) ==
  \/ from = "accepted" /\ to \in {"dispatching", "failed"}
  \/ from = "dispatching" /\ to \in Final \cup {"accepted"}
=============================================================================
