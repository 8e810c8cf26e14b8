---------------------------- MODULE OneDecision ----------------------------
(***************************************************************************)
(* What the gateway promises of approval requests, to whoever looks: a     *)
(* request is pending until somebody settles it, or to the moment its time *)
(* is over; it is settled once, in time; and it can be looked up for       *)
(* KeepClosed after that.  Only a restart of the gateway forgets it sooner.*)
(***************************************************************************)
EXTENDS ApprovalStore

CONSTANT Requests
VARIABLES time, seen    \* the clock, and each request as it shows

Init == time = 0 /\ seen = [r \in Requests |-> Blank("none")]

Opens(a, b, t) == a.phase = "none" /\ b = Opened(t)

Settles(a, b, t) ==
  /\ a.phase = "pending" /\ t < a.expires
  /\ \E phase \in Closed \ {"expired"} : b = ClosedAs(a, phase, t)

(* It closes by time at its deadline, whenever that is noticed.             *)
RunsOut(a, b, t) ==
  a.phase = "pending" /\ t >= a.expires /\ b = ClosedAs(a, "expired", a.expires)

Fades(a, b, t) ==
  a.phase \in Closed /\ t >= a.closed + KeepClosed /\ b = Blank("forgotten")

Lost(a) == IF a.phase = "none" THEN a ELSE Blank("forgotten")

Next ==
  LET was == seen
      is  == seen'
      after == time'
  IN /\ is \in [Requests -> [phase : Phases, expires : Nat, closed : Nat]]
     /\ \A r \in Requests : is[r].phase = "pending" => after < is[r].expires
     /\ \/ /\ after = time
           /\ \A r \in Requests : \/ is[r] = was[r]
                                  \/ Opens(was[r], is[r], time)
                                  \/ Settles(was[r], is[r], time)
        \/ /\ after > time
           /\ \A r \in Requests : \/ is[r] = was[r]
                                  \/ RunsOut(was[r], is[r], after)
                                  \/ Fades(was[r], is[r], after)
        \/ after = time /\ is = [r \in Requests |-> Lost(was[r])]

Spec == Init /\ [][Next]_<<time, seen>>
=============================================================================
