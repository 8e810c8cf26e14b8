----------------------------- MODULE TellLedger -----------------------------
(***************************************************************************)
(* The receiving machine's ledger of tell messages                         *)
(* (crates/kasa-socket/src/tell.rs): a map from message ids to receipts,   *)
(* kept in memory under one mutex and saved whole after every change.      *)
(*                                                                         *)
(* The worker that delivers a message is reduced here to the licence that  *)
(* the transition to "dispatching" gives it: with it the worker may write  *)
(* the body into the receiver's terminal, once, and must then report what  *)
(* became of it.  TellDelivery models the workers themselves.              *)
(***************************************************************************)
EXTENDS Integers, FiniteSets, TellReceipts

CONSTANTS Ids,            \* message ids; their order is the map's order
          Addresses,      \* full receiver addresses
          SurfaceOf,      \* the pane an address names
          Bodies,         \* normalised message bodies
          IssuedAt,       \* the issue time embedded in an id
          Lifetime,       \* RECEIPT_LIFETIME_MS
          Ttl,            \* how long a queued message waits
          Skew,           \* how far in the future an id may be issued
          HoldReasons,    \* the reasons "waiting:..." a deferral can carry
          Machines,       \* what a machine has room for and may do wrong
          MaxTime         \* bound on the clock, for model checking

ASSUME TellAssumption ==
  /\ Ids \subseteq Nat
  /\ Lifetime \in Nat \ {0} /\ Ttl \in Nat \ {0} /\ Skew \in Nat
  /\ MaxTime \in Nat /\ Machines # {}
  /\ IssuedAt \in [Ids -> Nat]
  /\ {"stored", "note"} \cap HoldReasons = {}
  /\ Machines \subseteq [room : Nat, late : BOOLEAN, gui : BOOLEAN]

VARIABLES machine,  \* MAX_RECORDS; may a save fail after the rename took effect,
                    \* and may the GUI loop refuse the wake-up of a submit?
          mem,      \* Ledger.records
          disk,     \* what ledger.json holds
          up,       \* "down", "open", or "refused" (opening failed for good)
          now,      \* wall clock
          waking,   \* submits that accepted a message and have yet to wake the GUI
          licence,  \* the worker's right to write: none, unused or used
          wrote,    \* how often the body reached the terminal (history)
          acked     \* the content a submit was acknowledged for (history)

vars == <<machine, mem, disk, up, now, waking, licence, wrote, acked>>

-----------------------------------------------------------------------------
(* Receipts *)

Record   == [state: States, address: Addresses, body: Bodies,
             reason: HoldReasons \cup {"stored", "note"}, expires: Nat]
NoRecord == [state |-> "absent"]
Ledgers  == [Ids -> Record \cup {NoRecord}]

Recorded(l)       == {id \in Ids : l[id] # NoRecord}
InState(l, st)    == {id \in Ids : l[id].state = st}
Outlived(id, t)   == IssuedAt[id] + Lifetime <= t
ValidId(id, t)    == IssuedAt[id] <= t + Skew /\ ~Outlived(id, t)
SamePane(r, q)    == SurfaceOf[r.address] = SurfaceOf[q.address]

(* Faulty: pruning makes room by forgetting finished messages. *)
PrunedFinal(l, t) ==
  [id \in Ids |-> IF Outlived(id, t) \/ l[id].state \in Final THEN NoRecord ELSE l[id]]

Pruned(l, t) == [id \in Ids |-> IF Outlived(id, t) THEN NoRecord ELSE l[id]]

NewRecord(id, a, b, t) ==
  [state |-> "accepted", address |-> a, body |-> b, reason |-> "stored",
   expires |-> IF t + Ttl < IssuedAt[id] + Lifetime
               THEN t + Ttl ELSE IssuedAt[id] + Lifetime]

(* The receipts queued behind id on its pane share the reason of its hold. *)
Behind(l, id) == {o \in InState(l, "accepted") : o > id /\ SamePane(l[o], l[id])}

Moved(l, id, st, why) ==
  [o \in Ids |->
     IF o = id THEN [l[o] EXCEPT !.state = st, !.reason = why]
     ELSE IF st = "accepted" /\ why \in HoldReasons /\ o \in Behind(l, id)
          THEN [l[o] EXCEPT !.reason = why]
          ELSE l[o]]

(* What memory holds when the save of a transition of id failed. *)
Withdrawn(l, id) ==
  IF l[id].state = "dispatching"
  THEN [l EXCEPT ![id].state = "uncertain", ![id].reason = "note"]
  ELSE l

(* Faulty: expiry does not look at the state. *)
ExpiredAnyState(l, t) ==
  [id \in Ids |-> IF l[id] # NoRecord /\ (l[id].state # "dispatching" /\ l[id].expires <= t)
                  THEN [l[id] EXCEPT !.state = "failed", !.reason = "note"]
                  ELSE l[id]]

Expired(l, t) ==
  [id \in Ids |-> IF l[id].state = "accepted" /\ l[id].expires <= t
                  THEN [l[id] EXCEPT !.state = "failed", !.reason = "note"]
                  ELSE l[id]]

(* Faulty: a restart leaves a dispatch as it is, queues it again, or gives  *)
(* it a state that no reader knows.                                         *)
NotRecovered(l) == l
RecoveredToQueue(l) ==
  [id \in Ids |-> IF l[id].state = "dispatching"
                  THEN [l[id] EXCEPT !.state = "accepted", !.reason = "note"] ELSE l[id]]

Recovered(l) ==
  [id \in Ids |-> IF l[id].state = "dispatching"
                  THEN [l[id] EXCEPT !.state = "uncertain", !.reason = "note"]
                  ELSE l[id]]

-----------------------------------------------------------------------------
(* Saving: a temporary file is written, synced and renamed over the ledger, *)
(* then the directory is synced.  An error in the last step is reported as  *)
(* a failed save although the new file is already in place.                 *)

Outcomes == {"saved", "failed"} \cup (IF machine.late THEN {"late"} ELSE {})

Save(outcome, new, rollback) ==
  /\ mem'  = IF outcome = "saved" THEN new ELSE rollback
  /\ disk' = IF outcome = "failed" THEN disk ELSE new

TypeOK ==
  /\ machine \in Machines
  /\ mem \in Ledgers /\ disk \in Ledgers
  /\ up \in {"down", "open", "refused"}
  /\ now \in Nat
  /\ waking \in SUBSET Ids
  /\ licence \in [Ids -> {"none", "unused", "used"}]
  /\ wrote \in [Ids -> Nat]
  /\ acked \in [Ids -> SUBSET (Addresses \X Bodies)]

Init ==
  /\ machine \in Machines
  /\ mem = [id \in Ids |-> NoRecord] /\ disk = mem
  /\ up = "down"
  /\ now = 0
  /\ waking = {}
  /\ licence = [id \in Ids |-> "none"]
  /\ wrote = [id \in Ids |-> 0]
  /\ acked = [id \in Ids |-> {}]

-----------------------------------------------------------------------------
(* A submit.  A known id is answered from its receipt, or refused when the  *)
(* address or the body differ.  Of two submits of one id at a time, the     *)
(* second may look before the first accepts; it then wakes the GUI as well. *)

Repeat(id, a, b) ==
  /\ up = "open" /\ ValidId(id, now)
  /\ mem[id] # NoRecord
  /\ mem[id].address = a /\ mem[id].body = b
  /\ \/ acked' = [acked EXCEPT ![id] = @ \cup {<<a, b>>}] /\ UNCHANGED waking
     \/ waking' = waking \cup {id} /\ UNCHANGED acked
  /\ UNCHANGED <<mem, disk, up, now, licence, wrote>>

Accept(id, a, b) ==
  /\ up = "open" /\ ValidId(id, now)
  /\ mem[id] = NoRecord
  /\ LET kept == Pruned(mem, now)
     IN IF Cardinality(Recorded(kept)) >= machine.room
        THEN mem' = kept /\ UNCHANGED <<disk, waking>>
        ELSE \E outcome \in Outcomes :
               /\ Save(outcome, [kept EXCEPT ![id] = NewRecord(id, a, b, now)], kept)
               /\ waking' = IF outcome = "saved" THEN waking \cup {id} ELSE waking
  /\ UNCHANGED <<up, now, licence, wrote, acked>>

Acknowledge(id) ==
  acked' = IF mem[id] = NoRecord THEN acked
           ELSE [acked EXCEPT ![id] = @ \cup {<<mem[id].address, mem[id].body>>}]

Wake(id) ==
  /\ up = "open" /\ id \in waking
  /\ waking' = waking \ {id}
  /\ Acknowledge(id)
  /\ UNCHANGED <<mem, disk, up, now, licence, wrote>>

(* Ledger::transition, with the licence the caller is left with. *)
Transition(id, to, why, kept, lost) ==
  /\ up = "open"
  /\ Allowed(mem[id].state, to)
  /\ \E outcome \in Outcomes :
       /\ Save(outcome, Moved(mem, id, to, why), Withdrawn(mem, id))
       /\ licence' = [licence EXCEPT ![id] = IF outcome = "saved" THEN kept ELSE lost]
  /\ UNCHANGED <<up, now, wrote>>

Kept == UNCHANGED <<waking, acked>>

(* The worker took the message from pending(), perhaps a while ago. *)
Dispatch(id) ==
  /\ licence[id] = "none"
  /\ Transition(id, "dispatching", "note", "unused", "none")
  /\ Kept

(* The last check before the write refuses an expired message.              *)
WriteLate(id) ==    \* faulty: no check
  /\ licence[id] = "unused"
  /\ licence' = [licence EXCEPT ![id] = "used"]
  /\ wrote' = [wrote EXCEPT ![id] = @ + 1]
  /\ UNCHANGED <<mem, disk, up, now, waking, acked>>

Write(id) ==
  /\ licence[id] = "unused"
  /\ mem[id] # NoRecord /\ now < mem[id].expires
  /\ licence' = [licence EXCEPT ![id] = "used"]
  /\ wrote' = [wrote EXCEPT ![id] = @ + 1]
  /\ UNCHANGED <<mem, disk, up, now, waking, acked>>

(* The reports of a worker.  One that the ledger refuses is dropped. *)
Report(id, to, why) ==
  \/ Transition(id, to, why, "none", "none") /\ Kept
  \/ /\ ~Allowed(mem[id].state, to)
     /\ licence' = [licence EXCEPT ![id] = "none"]
     /\ UNCHANGED <<mem, disk, up, now, waking, wrote, acked>>

Defer(id) ==
  /\ licence[id] = "unused"
  /\ \E why \in HoldReasons : Report(id, "accepted", why)

GiveUp(id) ==
  /\ licence[id] = "unused"
  /\ \E to \in {"failed", "uncertain"} : Report(id, to, "note")

SettleAsFailed(id) ==    \* faulty: an unconfirmed Enter reported as a failure
  /\ licence[id] = "used"
  /\ \E to \in {"submitted", "failed"} : Report(id, to, "note")

Settle(id) ==
  /\ licence[id] = "used"
  /\ \E to \in {"submitted", "uncertain"} : Report(id, to, "note")

(* The identity proof failed before any dispatch. *)
Refuse(id) ==
  /\ licence[id] = "none" /\ mem[id].state = "accepted"
  /\ Transition(id, "failed", "note", "none", "none")
  /\ Kept

(* submit() could not wake the GUI: it fails the message it just accepted,  *)
(* whatever a worker has done with it in between.                           *)
WakeFails(id) ==
  /\ machine.gui /\ id \in waking
  /\ waking' = waking \ {id}
  /\ \/ Transition(id, "failed", "note", licence[id], licence[id]) /\ UNCHANGED acked
     \/ /\ up = "open" /\ ~Allowed(mem[id].state, "failed")
        /\ UNCHANGED <<mem, disk, up, now, licence, wrote, acked>>

ExpirePending ==
  /\ up = "open"
  /\ Expired(mem, now) # mem
  /\ \E outcome \in Outcomes : Save(outcome, Expired(mem, now), mem)
  /\ UNCHANGED <<up, now, waking, licence, wrote, acked>>

Tick ==
  /\ now < MaxTime
  /\ now' = now + 1
  /\ UNCHANGED <<mem, disk, up, waking, licence, wrote, acked>>

(* Memory and workers are gone; mem is kept only as what was last reported. *)
Crash ==
  /\ up # "down"
  /\ up' = "down"
  /\ waking' = {}
  /\ licence' = [id \in Ids |-> "none"]
  /\ UNCHANGED <<mem, disk, now, wrote, acked>>

(* A failed save leaves the ledger unusable for the life of the process.    *)
Open ==
  /\ up = "down"
  /\ \E outcome \in Outcomes :
       IF Recovered(disk) = disk
       THEN up' = "open" /\ mem' = disk /\ disk' = disk
       ELSE /\ up' = IF outcome = "saved" THEN "open" ELSE "refused"
            /\ Save(outcome, Recovered(disk), mem)
  /\ UNCHANGED <<now, waking, licence, wrote, acked>>

Step ==
  \/ \E id \in Ids, a \in Addresses, b \in Bodies : Repeat(id, a, b) \/ Accept(id, a, b)
  \/ \E id \in Ids : \/ Dispatch(id) \/ Write(id) \/ Defer(id) \/ GiveUp(id)
                     \/ Settle(id) \/ Refuse(id) \/ Wake(id) \/ WakeFails(id)
  \/ ExpirePending \/ Tick \/ Crash \/ Open

Next == Step /\ UNCHANGED machine

Spec == Init /\ [][Next]_vars

-----------------------------------------------------------------------------
(* Properties *)

(* The body of a message reaches a terminal at most once, whatever crashes, *)
(* failed saves, retries of the submit and prunings lie in between (the     *)
(* id, its 24 hour lifetime and the terminal states work together).         *)
AtMostOneWrite == \A id \in Ids : wrote[id] <= 1

(* A message whose body may have been written is never queued again: not in *)
(* the running ledger, not in the file a restart will read.                 *)
NeverRequeued ==
  \A id \in Ids : wrote[id] > 0 =>
    mem[id].state # "accepted" /\ disk[id].state # "accepted"

(* A message is "dispatching" only while a worker has it, so no pane stays  *)
(* blocked (pending() skips its messages) by a dispatch that nobody ends.   *)
DispatchHasWorker ==
  up = "open" => \A id \in Ids : mem[id].state = "dispatching" => licence[id] # "none"

(* Exhausted storage, failed saves and restarts never forget a live id that *)
(* was acknowledged, and never change what it was acknowledged for.         *)
AckedIsKept ==
  up = "open" => \A id \in Ids, c \in Addresses \X Bodies :
    c \in acked[id] /\ ~Outlived(id, now) =>
      mem[id] # NoRecord /\ c = <<mem[id].address, mem[id].body>>

(* A receipt that was reported final never changes again, across restarts   *)
(* (no late sync errors).                                                   *)
FinalStays ==
  [][\A id \in Ids : mem[id].state \in Final /\ ~machine.late =>
       \/ mem'[id] = NoRecord
       \/ mem'[id].state = mem[id].state]_vars

(* "failed" is a definite failure: the body of a failed message never       *)
(* reached the terminal, and never will (a GUI that does not stop).         *)
FailedIsUnwritten ==
  ~machine.gui => \A id \in Ids : mem[id].state = "failed" => wrote[id] = 0

-----------------------------------------------------------------------------
(* The ledger of a machine without late sync errors and with a GUI that     *)
(* does not stop keeps the promise of TellMailbox: what has become of a     *)
(* message is read from what was last reported of it, its age, and whether  *)
(* it was written.                                                          *)
Sane == ~machine.late /\ ~machine.gui

Post == [id \in Ids |->
           IF ~Sane THEN "new"
           ELSE IF wrote[id] > 0 THEN "taken"
           ELSE IF Outlived(id, now) \/ mem[id].state \in Final THEN "closed"
           ELSE IF mem[id] = NoRecord THEN "new" ELSE "queued"]

Mailbox == INSTANCE TellMailbox WITH post <- Post

(* At most one hand-over, none after the message was closed.                *)
KeepsPromise == Mailbox!Spec
=============================================================================
