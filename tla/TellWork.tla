------------------------------ MODULE TellWork ------------------------------
(***************************************************************************)
(* The contract between the ledger of tell messages and the workers that   *)
(* deliver them: who may move a message when, and what a worker that holds *)
(* the licence of a dispatch must report of it.  TellLedger keeps it for   *)
(* any worker, TellDelivery for any ledger that answers as this one does.  *)
(***************************************************************************)
EXTENDS Naturals, TellReceipts

CONSTANT Ids
VARIABLE work   \* each message: its receipt, the licence given for it, and
                \* how often its body was written into a terminal

Item == [state: States \cup {"new", "gone"}, licence: {"none", "unused", "used"},
         wrote: Nat]

WorkInit ==
  work = [id \in Ids |-> [state |-> "new", licence |-> "none", wrote |-> 0]]

(* The message w when only its receipt and its licence have changed.        *)
Now(w, state, licence) == [state |-> state, licence |-> licence, wrote |-> w.wrote]

Queued(w, v) == w.state = "new" /\ v = Now(w, "accepted", w.licence)

(* It expires, or its receiver is gone, before a worker has it.             *)
Closed(w, v) ==
  w.state = "accepted" /\ w.licence = "none" /\ v = Now(w, "failed", "none")

Dispatched(w, v) ==
  w.state = "accepted" /\ w.licence = "none" /\ v = Now(w, "dispatching", "unused")

Written(w, v) ==
  /\ w.state = "dispatching" /\ w.licence = "unused"
  /\ v = [state |-> "dispatching", licence |-> "used", wrote |-> w.wrote + 1]

(* A worker that wrote nothing may say so; one that wrote never does.  What *)
(* a crash or a failed save leaves of a dispatch is "uncertain".            *)
Reported(w, v) ==
  /\ w.state = "dispatching"
  /\ \/ w.licence = "unused" /\ v.state \in {"accepted", "failed", "uncertain"}
     \/ w.licence = "used" /\ v.state \in {"submitted", "uncertain"}
  /\ v = Now(w, v.state, "none")

(* The id has outlived its receipt, and the licence, which is void then.    *)
Aged(w, v) == v = Now(w, "gone", "none")

Moves(w, v) == \/ Queued(w, v) \/ Closed(w, v) \/ Dispatched(w, v)
               \/ Written(w, v) \/ Reported(w, v) \/ Aged(w, v)

WorkNext ==
  LET was == work
      is  == work'
  IN /\ is \in [Ids -> Item]
     /\ \A id \in Ids : is[id] = was[id] \/ Moves(was[id], is[id])

WorkSpec == WorkInit /\ [][WorkNext]_work

-----------------------------------------------------------------------------
(* What the contract is for: a body is written at most once, "submitted" is *)
(* said only of one that was, "failed" only of one that was not.            *)
HonestWork ==
  \A id \in Ids :
    /\ work[id].wrote <= 1
    /\ work[id].state = "submitted" => work[id].wrote = 1
    /\ work[id].state \in {"new", "accepted", "failed"} => work[id].wrote = 0

(* ... and so what TellMailbox promises of each message.                    *)
WorkFate(w) == IF w.wrote > 0 THEN "taken"
               ELSE IF w.state \in Final \cup {"gone"} THEN "closed"
               ELSE IF w.state = "new" THEN "new" ELSE "queued"

Promise == INSTANCE TellMailbox WITH post <- [id \in Ids |-> WorkFate(work[id])]
KeepsMailbox == Promise!Spec
=============================================================================
