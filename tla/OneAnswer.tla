------------------------------- MODULE OneAnswer -------------------------------
(***************************************************************************)
(* What remote approval promises of a tool call that asks for permission:  *)
(* the question is offered elsewhere at most once, the first decision made *)
(* on the offer is the only one, nothing is decided after it was           *)
(* withdrawn, and the engine takes one answer: from the desk, or the one   *)
(* decision of the offer.                                                  *)
(***************************************************************************)
CONSTANT Requests

VARIABLES engine,   \* the engine's permission window and how it closed
          offer     \* the request as offered to other screens

Decisions == {"allow", "deny"}

Init == engine = [r \in Requests |-> "none"] /\ offer = [r \in Requests |-> "none"]

Ask(r) ==
  engine[r] = "none" /\ engine' = [engine EXCEPT ![r] = "window"] /\ UNCHANGED offer

AnswerAtDesk(r) ==
  engine[r] = "window" /\ engine' = [engine EXCEPT ![r] = "desk"] /\ UNCHANGED offer

AnswerRemotely(r) ==
  /\ engine[r] = "window" /\ offer[r] \in Decisions
  /\ engine' = [engine EXCEPT ![r] = offer[r]]
  /\ UNCHANGED offer

Offer(r) ==
  /\ engine[r] # "none" /\ offer[r] = "none"
  /\ offer' = [offer EXCEPT ![r] = "open"]
  /\ UNCHANGED engine

Decide(r) ==
  /\ offer[r] = "open"
  /\ \E d \in Decisions : offer' = [offer EXCEPT ![r] = d]
  /\ UNCHANGED engine

(* Several offers close together: a key at the desk, time, a crash.         *)
Withdraw ==
  /\ \E R \in SUBSET {r \in Requests : offer[r] = "open"} :
       offer' = [r \in Requests |-> IF r \in R THEN "closed" ELSE offer[r]]
  /\ UNCHANGED engine

Next ==
  \/ Withdraw
  \/ \E r \in Requests : \/ Ask(r) \/ AnswerAtDesk(r) \/ AnswerRemotely(r)
                         \/ Offer(r) \/ Decide(r)

Spec == Init /\ [][Next]_<<engine, offer>>
===============================================================================
