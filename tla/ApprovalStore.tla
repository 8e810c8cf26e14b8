---------------------------- MODULE ApprovalStore ----------------------------
(***************************************************************************)
(* One request in the gateway's approval store                             *)
(* (crates/kasa-gateway/src/gateway_approvals.rs), as values: how it       *)
(* opens, expires, closes and is forgotten.                                *)
(***************************************************************************)
EXTENDS Naturals

CONSTANTS Ttl,          \* TTL: how long a request can be decided
          KeepClosed    \* KEEP_CLOSED_MS: how long a closed one stays listed

ASSUME StoreAssumption == Ttl \in Nat \ {0} /\ KeepClosed \in Nat \ {0}

Phases ==
  {"none", "pending", "allowed", "denied", "expired", "cancelled", "forgotten"}

Closed == {"allowed", "denied", "expired", "cancelled"}

Blank(phase) == [phase |-> phase, expires |-> 0, closed |-> 0]

Opened(t) == [phase |-> "pending", expires |-> t + Ttl, closed |-> 0]

ClosedAs(a, phase, t) == [a EXCEPT !.phase = phase, !.closed = t]

(* sweep(): first time closes what is due, then drops what closed long ago. *)
Lapsed(a, t) == a.phase = "pending" /\ t >= a.expires

Expire(a, t) == IF Lapsed(a, t) THEN ClosedAs(a, "expired", t) ELSE a

Outdated(a, t) == a.phase \in Closed /\ t >= a.closed + KeepClosed

Swept(a, t) ==
  LET b == Expire(a, t) IN IF Outdated(b, t) THEN Blank("forgotten") ELSE b

PhaseOf == [allow |-> "allowed", deny |-> "denied"]
=============================================================================
