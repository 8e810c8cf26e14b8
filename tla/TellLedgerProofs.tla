-------------------------- MODULE TellLedgerProofs --------------------------
(* Proofs about TellLedger for any messages, addresses, lifetimes and       *)
(* machines.                                                                *)
EXTENDS TellLedger, TLAPS

(* A receipt in any state but "absent" is a record, and stays one when its  *)
(* state and reason change.                                                 *)
LEMMA Retold ==
  ASSUME NEW l \in Ledgers, NEW id \in Ids, l[id].state \in States,
         NEW st \in States, NEW why \in HoldReasons \cup {"stored", "note"}
  PROVE  /\ l[id] \in Record
         /\ [l[id] EXCEPT !.state = st, !.reason = why] \in Record
         /\ [l[id] EXCEPT !.reason = why] \in Record
<1>1. l[id] \in Record
  BY DEF Ledgers, NoRecord, States, Final
<1>. QED BY <1>1 DEF Record

(* What the operators on ledgers return. *)
LEMMA LedgerOps ==
  ASSUME NEW l \in Ledgers, NEW t \in Nat
  PROVE  /\ Pruned(l, t) \in Ledgers
         /\ Expired(l, t) \in Ledgers
         /\ Recovered(l) \in Ledgers
<1>1. {"failed", "uncertain", "accepted", "dispatching"} \subseteq States
  BY DEF States, Final
<1>2. Pruned(l, t) \in Ledgers
  BY DEF Pruned, Ledgers
<1>3. \A id \in Ids : l[id].state = "accepted" =>
        [l[id] EXCEPT !.state = "failed", !.reason = "note"] \in Record
  BY <1>1, Retold
<1>4. \A id \in Ids : l[id].state = "dispatching" =>
        [l[id] EXCEPT !.state = "uncertain", !.reason = "note"] \in Record
  BY <1>1, Retold
<1>5. Expired(l, t) \in Ledgers
  BY <1>3 DEF Expired, Ledgers
<1>6. Recovered(l) \in Ledgers
  BY <1>4 DEF Recovered, Ledgers
<1>. QED BY <1>2, <1>5, <1>6

(* A submit stores a well-formed receipt.                                   *)
LEMMA NewRecordType ==
  ASSUME NEW id \in Ids, NEW a \in Addresses, NEW b \in Bodies, NEW t \in Nat
  PROVE  NewRecord(id, a, b, t) \in Record
  BY TellAssumption DEF NewRecord, Record, States

(* A transition keeps every receipt well formed, those behind it included.  *)
LEMMA MovedType ==
  ASSUME NEW l \in Ledgers, NEW id \in Ids, NEW st \in States,
         NEW why \in HoldReasons \cup {"stored", "note"},
         l[id].state \in {"accepted", "dispatching"}
  PROVE  Moved(l, id, st, why) \in Ledgers /\ Withdrawn(l, id) \in Ledgers
<1>1. /\ [l[id] EXCEPT !.state = st, !.reason = why] \in Record
      /\ [l[id] EXCEPT !.state = "uncertain", !.reason = "note"] \in Record
  BY Retold DEF States, Final
<1>2. \A o \in Behind(l, id) : o \in Ids /\ [l[o] EXCEPT !.reason = why] \in Record
  BY Retold DEF Behind, InState, States
<1>3. Moved(l, id, st, why) \in Ledgers
  BY <1>1, <1>2 DEF Moved, Ledgers
<1>4. Withdrawn(l, id) = [l EXCEPT ![id] =
         IF l[id].state = "dispatching"
         THEN [l[id] EXCEPT !.state = "uncertain", !.reason = "note"] ELSE l[id]]
  <2>1. l[id] \in Record
    BY Retold DEF States
  <2>. QED BY <2>1 DEF Withdrawn, Ledgers, Record
<1>5. Withdrawn(l, id) \in Ledgers
  BY <1>1, <1>4 DEF Ledgers
<1>. QED BY <1>3, <1>5

(* A transition moves its own receipt and no other one's state. *)
LEMMA MovedStates ==
  ASSUME NEW l \in Ledgers, NEW id \in Ids, NEW st, NEW why, NEW o \in Ids, o # id
  PROVE  /\ Moved(l, id, st, why)[o].state = l[o].state
         /\ Moved(l, id, st, why)[o] = NoRecord <=> l[o] = NoRecord
         /\ Withdrawn(l, id)[o] = l[o]
<1>1. CASE o \in Behind(l, id)
  <2>1. l[o] \in Record
    BY <1>1 DEF Behind, InState, Ledgers, NoRecord
  <2>. QED BY <1>1, <2>1 DEF Moved, Withdrawn, Ledgers, Record, NoRecord
<1>2. CASE o \notin Behind(l, id)
  BY <1>2 DEF Moved, Withdrawn, Ledgers
<1>. QED BY <1>1, <1>2

(* The licence's holder has not written yet, or the write is recorded: then *)
(* the message is not queued, in memory or on disk, and its receipt is      *)
(* missing only once the id is too old to be accepted again.                *)
Spent(id) == licence[id] = "unused" \/ wrote[id] > 0

NotQueued(l, id) ==
  /\ l[id].state # "accepted"
  /\ l[id] = NoRecord => Outlived(id, now)

WriteInv ==
  \A id \in Ids :
    /\ wrote[id] <= 1
    /\ licence[id] = "unused" => wrote[id] = 0
    /\ Spent(id) => NotQueued(mem, id) /\ NotQueued(disk, id)

(* A save leaves memory and disk with the new ledger or the rollback.       *)
LEMMA SaveOutcome ==
  ASSUME NEW outcome, NEW new, NEW rollback, Save(outcome, new, rollback)
  PROVE  mem' \in {new, rollback} /\ disk' \in {disk, new}
  BY DEF Save

(* A transition keeps memory, file and licences well formed.                *)
LEMMA TransitionType ==
  ASSUME TypeOK, NEW id \in Ids, NEW to \in States,
         NEW why \in HoldReasons \cup {"stored", "note"},
         NEW kept \in {"none", "unused", "used"}, NEW lost \in {"none", "unused", "used"},
         Transition(id, to, why, kept, lost), waking' \in SUBSET Ids,
         acked' \in [Ids -> SUBSET (Addresses \X Bodies)], machine' = machine
  PROVE  TypeOK'
<1>1. mem[id].state \in {"accepted", "dispatching"}
  BY DEF Transition, Allowed
<1>2. Moved(mem, id, to, why) \in Ledgers /\ Withdrawn(mem, id) \in Ledgers
  BY <1>1, MovedType DEF TypeOK
<1>3. mem' \in Ledgers /\ disk' \in Ledgers
  BY <1>2, SaveOutcome DEF TypeOK, Transition
<1>. QED BY <1>3 DEF TypeOK, Transition

(* An acknowledgement records an address and a body.                        *)
LEMMA AckType ==
  ASSUME TypeOK, NEW id \in Ids, Acknowledge(id)
  PROVE  acked' \in [Ids -> SUBSET (Addresses \X Bodies)]
<1>1. mem[id] # NoRecord => mem[id].address \in Addresses /\ mem[id].body \in Bodies
  BY DEF TypeOK, Ledgers, Record
<1>. QED BY <1>1 DEF Acknowledge, TypeOK

(* Every receipt is well formed in memory and on disk, always. *)
THEOREM TypeCorrect == Spec => []TypeOK
<1>1. Init => TypeOK
  BY DEF Init, TypeOK, Ledgers
<1>2. TypeOK /\ [Next]_vars => TypeOK'
  <2>. SUFFICES ASSUME TypeOK, [Next]_vars PROVE TypeOK'
    OBVIOUS
  <2>m. machine' = machine
    BY DEF Next, vars
  <2>. USE <2>m DEF Kept
  <2>1. ASSUME NEW id \in Ids, NEW a \in Addresses, NEW b \in Bodies, Repeat(id, a, b)
        PROVE  TypeOK'
    BY <2>1 DEF Repeat, TypeOK
  <2>2. ASSUME NEW id \in Ids, NEW a \in Addresses, NEW b \in Bodies, Accept(id, a, b)
        PROVE  TypeOK'
    <3>. DEFINE kept == Pruned(mem, now)
                new  == [kept EXCEPT ![id] = NewRecord(id, a, b, now)]
    <3>1. kept \in Ledgers
      BY LedgerOps DEF TypeOK
    <3>2. new \in Ledgers
      BY <3>1, NewRecordType DEF TypeOK, Ledgers
    <3>3. mem' \in {kept, new} /\ disk' \in {disk, new}
      BY <2>2, SaveOutcome DEF Accept
    <3>4. waking' \in SUBSET Ids
      BY <2>2 DEF Accept, TypeOK
    <3>. QED BY <2>2, <3>1, <3>2, <3>3, <3>4 DEF Accept, TypeOK
  <2>3. ASSUME NEW id \in Ids, Dispatch(id) PROVE TypeOK'
    BY <2>3, TransitionType DEF Dispatch, TypeOK, States
  <2>4. ASSUME NEW id \in Ids, Write(id) PROVE TypeOK'
    BY <2>4 DEF Write, TypeOK
  <2>5. ASSUME NEW id \in Ids, NEW to \in States,
               NEW why \in HoldReasons \cup {"stored", "note"}, Report(id, to, why)
        PROVE  TypeOK'
    <3>1. CASE Transition(id, to, why, "none", "none") /\ Kept
      BY <3>1, TransitionType DEF TypeOK
    <3>2. CASE ~Allowed(mem[id].state, to)
               /\ licence' = [licence EXCEPT ![id] = "none"]
               /\ UNCHANGED <<mem, disk, up, now, waking, wrote, acked>>
      BY <3>2 DEF TypeOK
    <3>. QED BY <2>5, <3>1, <3>2 DEF Report
  <2>6. ASSUME NEW id \in Ids, Defer(id) \/ GiveUp(id) \/ Settle(id) PROVE TypeOK'
    <3>1. PICK to \in States, why \in HoldReasons \cup {"stored", "note"} : Report(id, to, why)
      BY <2>6 DEF Defer, GiveUp, Settle, States, Final
    <3>. QED BY <2>5, <3>1
  <2>7. ASSUME NEW id \in Ids, Refuse(id) PROVE TypeOK'
    BY <2>7, TransitionType DEF Refuse, TypeOK, States, Final
  <2>8. ASSUME NEW id \in Ids, Wake(id) PROVE TypeOK'
    BY <2>8, AckType DEF Wake, TypeOK
  <2>9. ASSUME NEW id \in Ids, WakeFails(id) PROVE TypeOK'
    <3>1. CASE Transition(id, "failed", "note", licence[id], licence[id]) /\ UNCHANGED acked
      <4>1. "failed" \in States /\ licence[id] \in {"none", "unused", "used"}
        BY DEF TypeOK, States, Final
      <4>2. waking' \in SUBSET Ids /\ acked' \in [Ids -> SUBSET (Addresses \X Bodies)]
        BY <2>9, <3>1 DEF WakeFails, TypeOK
      <4>. QED BY <3>1, <4>1, <4>2, TransitionType
    <3>. QED BY <2>9, <3>1 DEF WakeFails, TypeOK
  <2>10. CASE ExpirePending
    <3>1. Expired(mem, now) \in Ledgers
      BY LedgerOps DEF TypeOK
    <3>2. mem' \in {Expired(mem, now), mem} /\ disk' \in {disk, Expired(mem, now)}
      BY <2>10, SaveOutcome DEF ExpirePending
    <3>. QED BY <2>10, <3>1, <3>2 DEF ExpirePending, TypeOK
  <2>11. CASE Tick
    BY <2>11 DEF Tick, TypeOK
  <2>12. CASE Crash
    BY <2>12 DEF Crash, TypeOK
  <2>13. CASE Open
    <3>1. Recovered(disk) \in Ledgers
      BY LedgerOps DEF TypeOK
    <3>2. mem' \in {disk, Recovered(disk), mem} /\ disk' \in {disk, Recovered(disk)}
      BY <2>13, SaveOutcome DEF Open
    <3>3. up' \in {"open", "refused"}
      BY <2>13 DEF Open
    <3>. QED BY <2>13, <3>1, <3>2, <3>3 DEF Open, TypeOK
  <2>14. CASE UNCHANGED vars
    BY <2>14 DEF vars, TypeOK
  <2>. QED BY <2>1, <2>2, <2>3, <2>4, <2>6, <2>7, <2>8, <2>9, <2>10, <2>11, <2>12, <2>13,
              <2>14 DEF Next, Step
<1>. QED BY <1>1, <1>2, PTL DEF Spec

(* What each kind of save does to the states of the receipts that matter.   *)
LEMMA NotQueuedStays ==
  ASSUME NEW l \in Ledgers, NEW o \in Ids, NEW t \in Nat, now \in Nat, t <= now,
         NotQueued(l, o)
  PROVE  /\ NotQueued(Pruned(l, t), o)
         /\ NotQueued(Expired(l, t), o)
         /\ NotQueued(Recovered(l), o)
<1>1. l[o].state \notin {"accepted"}
  BY DEF NotQueued
<1>2. Pruned(l, t)[o] \in {l[o], NoRecord} /\ (Pruned(l, t)[o] # l[o] => Outlived(o, t))
  BY DEF Pruned
<1>3. Outlived(o, t) => Outlived(o, now)
  BY TellAssumption DEF Outlived
<1>4. Expired(l, t)[o] = l[o]
  BY <1>1 DEF Expired
<1>5. \/ Recovered(l)[o] = l[o]
      \/ Recovered(l)[o].state = "uncertain" /\ l[o] # NoRecord
  <2>1. CASE l[o].state = "dispatching"
    <3>1. l[o] \in Record /\ Recovered(l)[o] \in Record
      BY <2>1, LedgerOps, Retold DEF States, Recovered, Final
    <3>2. Recovered(l)[o].state = "uncertain" /\ l[o] # NoRecord
      BY <2>1, <3>1 DEF Recovered, Record, NoRecord
    <3>. QED BY <3>2
  <2>2. CASE l[o].state # "dispatching"
    BY <2>2 DEF Recovered
  <2>. QED BY <2>1, <2>2
<1>. QED BY <1>2, <1>3, <1>4, <1>5 DEF NotQueued, NoRecord

(* What is not queued stays so, unless the transition itself queues it.     *)
LEMMA TransitionNotQueued ==
  ASSUME TypeOK, NEW id \in Ids, NEW to \in States,
         NEW why \in HoldReasons \cup {"stored", "note"}, NEW kept, NEW lost,
         Transition(id, to, why, kept, lost), NEW o \in Ids,
         NotQueued(mem, o), NotQueued(disk, o), o = id => to # "accepted"
  PROVE  NotQueued(mem, o)' /\ NotQueued(disk, o)'
<1>1. mem \in Ledgers /\ mem[id].state \in States /\ mem[id] \in Record /\ now' = now
  BY Retold DEF Transition, Allowed, States, TypeOK
<1>2. CASE o # id
  BY <1>1, <1>2, MovedStates, SaveOutcome DEF Transition, NotQueued, Outlived
<1>3. CASE o = id
  <2>1. Moved(mem, id, to, why)[id].state = to
    BY <1>1 DEF Moved, Record
  <2>2. Withdrawn(mem, id)[id].state \in {"uncertain", mem[id].state}
    BY <1>1 DEF Withdrawn, Ledgers, Record
  <2>3. Moved(mem, id, to, why)[id] # NoRecord /\ Withdrawn(mem, id)[id] # NoRecord
    BY <2>1, <2>2, <1>1 DEF NoRecord, States, Final
  <2>. QED BY <1>1, <1>3, <2>1, <2>2, <2>3, SaveOutcome DEF Transition, NotQueued, Outlived
<1>. QED BY <1>2, <1>3

(* The licences and the writes are in step with memory and disk.            *)
LEMMA Writes == Spec => []WriteInv
<1>1. Init => WriteInv
  BY DEF Init, WriteInv, Spent
<1>2. TypeOK /\ WriteInv /\ [Next]_vars => WriteInv'
  <2>. SUFFICES ASSUME TypeOK, WriteInv, [Next]_vars PROVE WriteInv'
    OBVIOUS
  <2>. USE DEF Kept
  <2>u. ASSUME UNCHANGED <<mem, disk, now, wrote>>,
               \A o \in Ids : licence'[o] \in {licence[o], "none"}
        PROVE  WriteInv'
    BY <2>u DEF WriteInv, Spent, NotQueued, Outlived
  <2>1. ASSUME NEW id \in Ids, NEW a \in Addresses, NEW b \in Bodies, Repeat(id, a, b)
        PROVE  WriteInv'
    BY <2>1, <2>u DEF Repeat
  <2>w. ASSUME NEW id \in Ids, Wake(id) PROVE WriteInv'
    BY <2>w, <2>u DEF Wake
  <2>2. ASSUME NEW id \in Ids, NEW a \in Addresses, NEW b \in Bodies, Accept(id, a, b)
        PROVE  WriteInv'
    <3>. DEFINE kept == Pruned(mem, now)
                new  == [kept EXCEPT ![id] = NewRecord(id, a, b, now)]
    <3>1. kept \in Ledgers
      BY LedgerOps DEF TypeOK
    <3>2. ~Spent(id)
      <4>1. mem[id] = NoRecord /\ ~Outlived(id, now)
        BY <2>2 DEF Accept, ValidId
      <4>. QED BY <4>1 DEF WriteInv, NotQueued
    <3>3. \A o \in Ids \ {id} : new[o] = kept[o]
      BY <3>1 DEF Ledgers
    <3>4. mem' \in {kept, new} /\ disk' \in {disk, new}
      BY <2>2, SaveOutcome DEF Accept
    <3>5. \A o \in Ids : Spent(o) => NotQueued(kept, o) /\ NotQueued(disk, o)
      BY NotQueuedStays DEF TypeOK, WriteInv
    <3>6. \A o \in Ids : Spent(o) => NotQueued(new, o)
      BY <3>2, <3>3, <3>5 DEF NotQueued
    <3>7. UNCHANGED <<now, licence, wrote>>
      BY <2>2 DEF Accept
    <3>. QED BY <3>4, <3>5, <3>6, <3>7 DEF WriteInv, Spent, NotQueued, Outlived
  <2>3. ASSUME NEW id \in Ids, Dispatch(id) PROVE WriteInv'
    <3>1. ~Spent(id) /\ Transition(id, "dispatching", "note", "unused", "none")
      BY <2>3 DEF Dispatch, WriteInv, NotQueued, Transition, Allowed, Final
    <3>2. \A o \in Ids \ {id} : Spent(o) => NotQueued(mem, o)' /\ NotQueued(disk, o)'
      BY <3>1, TransitionNotQueued DEF WriteInv, States
    <3>3. PICK outcome \in Outcomes :
            /\ Save(outcome, Moved(mem, id, "dispatching", "note"), Withdrawn(mem, id))
            /\ licence' = [licence EXCEPT ![id] = IF outcome = "saved" THEN "unused" ELSE "none"]
      BY <3>1 DEF Transition
    <3>4. CASE outcome = "saved"
      <4>1. Moved(mem, id, "dispatching", "note")[id].state = "dispatching"
        <5>1. Allowed(mem[id].state, "dispatching") /\ mem \in Ledgers
          BY <3>1 DEF Transition, TypeOK
        <5>2. mem[id] \in Record
          BY <5>1, Retold DEF Allowed, States
        <5>. QED BY <5>2 DEF Moved, Record
      <4>2. NotQueued(mem, id)' /\ NotQueued(disk, id)'
        BY <3>3, <3>4, <4>1 DEF Save, NotQueued, NoRecord
      <4>. QED BY <3>1, <3>2, <3>3, <3>4, <4>2
             DEF WriteInv, Spent, Transition, TypeOK
    <3>5. CASE outcome # "saved"
      BY <3>1, <3>2, <3>3, <3>5 DEF WriteInv, Spent, Transition, TypeOK
    <3>. QED BY <3>4, <3>5
  <2>4. ASSUME NEW id \in Ids, Write(id) PROVE WriteInv'
    BY <2>4 DEF Write, WriteInv, Spent, NotQueued, Outlived, TypeOK
  <2>5. ASSUME NEW id \in Ids, NEW to \in States,
               NEW why \in HoldReasons \cup {"stored", "note"},
               Report(id, to, why), wrote[id] > 0 => to # "accepted"
        PROVE  WriteInv'
    <3>1. CASE Transition(id, to, why, "none", "none")
      <4>1. licence' = [licence EXCEPT ![id] = "none"] /\ wrote' = wrote
        BY <3>1 DEF Transition
      <4>2. \A o \in Ids : Spent(o)' => Spent(o) /\ (o = id => wrote[id] > 0)
        BY <4>1 DEF Spent, TypeOK
      <4>3. \A o \in Ids : Spent(o)' => NotQueued(mem, o)' /\ NotQueued(disk, o)'
        BY <2>5, <3>1, <4>2, TransitionNotQueued DEF WriteInv
      <4>. QED BY <4>1, <4>3 DEF WriteInv, TypeOK
    <3>2. CASE UNCHANGED <<mem, disk, up, now, waking, wrote, acked>>
               /\ licence' = [licence EXCEPT ![id] = "none"]
      BY <3>2, <2>u DEF TypeOK
    <3>. QED BY <2>5, <3>1, <3>2 DEF Report
  <2>6. ASSUME NEW id \in Ids, Defer(id) \/ GiveUp(id) \/ Settle(id) PROVE WriteInv'
    <3>1. Defer(id) => wrote[id] = 0
      BY DEF Defer, WriteInv
    <3>. QED BY <2>5, <2>6, <3>1 DEF Defer, GiveUp, Settle, States, Final
  <2>7. ASSUME NEW id \in Ids, NEW l \in {"none", "unused", "used"}, l = licence[id],
               Transition(id, "failed", "note", l, l)
        PROVE  WriteInv'
    <3>1. licence' = licence /\ wrote' = wrote
      BY <2>7 DEF Transition, TypeOK
    <3>2. \A o \in Ids : Spent(o) => NotQueued(mem, o)' /\ NotQueued(disk, o)'
      BY <2>7, TransitionNotQueued DEF WriteInv, States, Final
    <3>. QED BY <3>1, <3>2 DEF WriteInv, Spent
  <2>8. ASSUME NEW id \in Ids, Refuse(id) \/ WakeFails(id) PROVE WriteInv'
    <3>1. licence[id] \in {"none", "unused", "used"}
      BY DEF TypeOK
    <3>2. CASE UNCHANGED <<mem, disk, up, now, licence, wrote, acked>>
      BY <3>2, <2>u
    <3>. QED BY <2>7, <2>8, <3>1, <3>2 DEF Refuse, WakeFails
  <2>9. CASE ExpirePending
    <3>1. \A o \in Ids : Spent(o) => NotQueued(mem, o) /\ NotQueued(Expired(mem, now), o)
                                     /\ NotQueued(disk, o)
      BY NotQueuedStays DEF WriteInv, TypeOK
    <3>2. mem' \in {Expired(mem, now), mem} /\ disk' \in {disk, Expired(mem, now)}
      BY <2>9, SaveOutcome DEF ExpirePending
    <3>3. UNCHANGED <<now, licence, wrote>>
      BY <2>9 DEF ExpirePending
    <3>. QED BY <3>1, <3>2, <3>3 DEF WriteInv, Spent, NotQueued, Outlived
  <2>10. CASE Tick
    <3>1. \A o \in Ids : Outlived(o, now) => Outlived(o, now')
      BY <2>10, TellAssumption DEF Tick, Outlived, TypeOK
    <3>. QED BY <2>10, <3>1 DEF Tick, WriteInv, Spent, NotQueued
  <2>11. CASE Crash
    BY <2>11, <2>u DEF Crash
  <2>12. CASE Open
    <3>1. \A o \in Ids : Spent(o) => NotQueued(mem, o) /\ NotQueued(disk, o)
                                     /\ NotQueued(Recovered(disk), o)
      BY NotQueuedStays DEF WriteInv, TypeOK
    <3>2. mem' \in {disk, Recovered(disk), mem} /\ disk' \in {disk, Recovered(disk)}
      BY <2>12, SaveOutcome DEF Open
    <3>3. UNCHANGED <<now, licence, wrote>>
      BY <2>12 DEF Open
    <3>. QED BY <3>1, <3>2, <3>3 DEF WriteInv, Spent, NotQueued, Outlived
  <2>13. CASE UNCHANGED vars
    BY <2>13, <2>u DEF vars
  <2>. QED BY <2>1, <2>w, <2>2, <2>3, <2>4, <2>6, <2>8, <2>9, <2>10, <2>11, <2>12, <2>13 DEF Next, Step
<1>. QED BY <1>1, <1>2, TypeCorrect, PTL DEF Spec

(* A message's body is written at most once, and a message that may have    *)
(* been written is never queued again, in memory or on disk.                *)
THEOREM WriteSafety == Spec => [](AtMostOneWrite /\ NeverRequeued)
<1>1. WriteInv /\ TypeOK => AtMostOneWrite /\ NeverRequeued
  BY DEF WriteInv, AtMostOneWrite, NeverRequeued, Spent, NotQueued
<1>. QED BY <1>1, Writes, TypeCorrect, PTL

(* What a transition leaves under dispatch. *)
LEMMA TransitionDispatch ==
  ASSUME TypeOK, NEW id \in Ids, NEW to \in States,
         NEW why \in HoldReasons \cup {"stored", "note"}, NEW kept, NEW lost,
         Transition(id, to, why, kept, lost),
         NEW o \in Ids, mem'[o].state = "dispatching"
  PROVE  \/ o # id /\ mem[o].state = "dispatching" /\ licence'[o] = licence[o]
         \/ o = id /\ to = "dispatching" /\ licence'[o] = kept
<1>1. PICK outcome \in Outcomes :
        /\ Save(outcome, Moved(mem, id, to, why), Withdrawn(mem, id))
        /\ licence' = [licence EXCEPT ![id] = IF outcome = "saved" THEN kept ELSE lost]
  BY DEF Transition
<1>2. mem \in Ledgers /\ mem[id] \in Record /\ mem[id].state \in {"accepted", "dispatching"}
  BY Retold DEF TypeOK, Transition, Allowed, States
<1>3. CASE o # id
  BY <1>1, <1>2, <1>3, MovedStates DEF Save, TypeOK
<1>4. CASE o = id
  <2>1. Moved(mem, id, to, why)[id].state = to
    BY <1>2 DEF Moved, Record
  <2>2. Withdrawn(mem, id)[id].state # "dispatching"
    BY <1>2 DEF Withdrawn, Ledgers, Record
  <2>3. outcome = "saved" /\ to = "dispatching"
    BY <1>1, <1>4, <2>1, <2>2 DEF Save
  <2>. QED BY <1>1, <1>4, <2>3 DEF TypeOK
<1>. QED BY <1>3, <1>4

(* What is under dispatch after a pruning, an expiry or a recovery.         *)
LEMMA DispatchLeft ==
  ASSUME NEW l \in Ledgers, NEW o \in Ids, NEW t
  PROVE  /\ Pruned(l, t)[o].state = "dispatching" => l[o].state = "dispatching"
         /\ Expired(l, t)[o].state = "dispatching" => l[o].state = "dispatching"
         /\ Recovered(l)[o].state # "dispatching"
<1>1. Pruned(l, t)[o].state = "dispatching" => l[o].state = "dispatching"
  BY DEF Pruned, NoRecord
<1>2. Expired(l, t)[o].state = "dispatching" => l[o].state = "dispatching"
  <2>1. l[o].state = "accepted" => l[o] \in Record
    BY Retold DEF States
  <2>. QED BY <2>1 DEF Expired, Record
<1>3. Recovered(l)[o].state # "dispatching"
  <2>1. l[o].state = "dispatching" => l[o] \in Record
    BY Retold DEF States
  <2>. QED BY <2>1 DEF Recovered, Record
<1>. QED BY <1>1, <1>2, <1>3

(* No dispatch is left without a worker: no pane is blocked for ever.       *)
THEOREM NoOrphanDispatch == Spec => []DispatchHasWorker
<1>1. Init => DispatchHasWorker
  BY DEF Init, DispatchHasWorker
<1>2. TypeOK /\ DispatchHasWorker /\ [Next]_vars => DispatchHasWorker'
  <2>. SUFFICES ASSUME TypeOK, DispatchHasWorker, [Next]_vars,
                       up' = "open", NEW o \in Ids, mem'[o].state = "dispatching"
                PROVE  licence'[o] # "none"
    BY DEF DispatchHasWorker
  <2>. USE DEF Kept
  <2>u. ASSUME UNCHANGED up, mem[o].state = "dispatching", licence'[o] = licence[o]
        PROVE  licence'[o] # "none"
    BY <2>u DEF DispatchHasWorker
  <2>1. ASSUME NEW id \in Ids, NEW a \in Addresses, NEW b \in Bodies, Repeat(id, a, b)
        PROVE  licence'[o] # "none"
    BY <2>1, <2>u DEF Repeat
  <2>2. ASSUME NEW id \in Ids, NEW a \in Addresses, NEW b \in Bodies, Accept(id, a, b)
        PROVE  licence'[o] # "none"
    <3>. DEFINE kept == Pruned(mem, now)
                new  == [kept EXCEPT ![id] = NewRecord(id, a, b, now)]
    <3>1. kept \in Ledgers
      BY LedgerOps DEF TypeOK
    <3>2. mem' \in {kept, new}
      BY <2>2, SaveOutcome DEF Accept
    <3>3. new[id].state = "accepted"
      BY <3>1 DEF Ledgers, NewRecord
    <3>4. kept[o].state = "dispatching"
      BY <3>1, <3>2, <3>3 DEF Ledgers
    <3>. QED BY <2>2, <2>u, <3>4, DispatchLeft DEF Accept, TypeOK
  <2>3. ASSUME NEW id \in Ids, Dispatch(id) PROVE licence'[o] # "none"
    <3>1. Transition(id, "dispatching", "note", "unused", "none") /\ UNCHANGED up
      BY <2>3 DEF Dispatch, Transition
    <3>2. \/ mem[o].state = "dispatching" /\ licence'[o] = licence[o]
          \/ licence'[o] = "unused"
      <4>1. "dispatching" \in States
        BY DEF States
      <4>. QED BY <3>1, <4>1, TransitionDispatch
    <3>. QED BY <3>1, <3>2, <2>u
  <2>4. ASSUME NEW id \in Ids, Write(id) PROVE licence'[o] # "none"
    BY <2>4 DEF Write, DispatchHasWorker, TypeOK
  <2>5. ASSUME NEW id \in Ids, NEW to \in Final \cup {"accepted"},
               NEW why \in HoldReasons \cup {"stored", "note"}, Report(id, to, why)
        PROVE  licence'[o] # "none"
    <3>1. CASE Transition(id, to, why, "none", "none")
      <4>1. to \in States /\ to # "dispatching" /\ UNCHANGED up
        BY <3>1 DEF States, Final, Transition
      <4>2. mem[o].state = "dispatching" /\ licence'[o] = licence[o]
        BY <3>1, <4>1, TransitionDispatch
      <4>. QED BY <4>1, <4>2, <2>u
    <3>2. CASE ~Allowed(mem[id].state, to)
               /\ licence' = [licence EXCEPT ![id] = "none"]
               /\ UNCHANGED <<mem, disk, up, now, waking, wrote, acked>>
      <4>1. o # id
        BY <3>2 DEF Allowed
      <4>. QED BY <3>2, <4>1, <2>u DEF TypeOK
    <3>. QED BY <2>5, <3>1, <3>2 DEF Report
  <2>6. ASSUME NEW id \in Ids, Defer(id) \/ GiveUp(id) \/ Settle(id)
        PROVE  licence'[o] # "none"
    BY <2>5, <2>6 DEF Defer, GiveUp, Settle, Final
  <2>7. ASSUME NEW id \in Ids, NEW l, Transition(id, "failed", "note", l, l)
        PROVE  licence'[o] # "none"
    <3>1. UNCHANGED up
      BY <2>7 DEF Transition
    <3>2. mem[o].state = "dispatching" /\ licence'[o] = licence[o]
      BY <2>7, TransitionDispatch DEF States, Final
    <3>. QED BY <3>1, <3>2, <2>u
  <2>8. ASSUME NEW id \in Ids, Refuse(id) PROVE licence'[o] # "none"
    BY <2>7, <2>8 DEF Refuse
  <2>9. ASSUME NEW id \in Ids, WakeFails(id) PROVE licence'[o] # "none"
    <3>1. CASE UNCHANGED <<mem, disk, up, now, licence, wrote, acked>>
      BY <3>1, <2>u
    <3>. QED BY <2>7, <2>9, <3>1 DEF WakeFails
  <2>10. ASSUME NEW id \in Ids, Wake(id) PROVE licence'[o] # "none"
    BY <2>10, <2>u DEF Wake
  <2>11. CASE ExpirePending
    <3>1. mem' \in {Expired(mem, now), mem}
      BY <2>11, SaveOutcome DEF ExpirePending
    <3>. QED BY <2>11, <2>u, <3>1, DispatchLeft DEF ExpirePending, TypeOK
  <2>12. CASE Tick
    BY <2>12, <2>u DEF Tick
  <2>13. CASE Crash
    BY <2>13 DEF Crash
  <2>14. CASE Open
    <3>1. mem' = Recovered(disk)
      BY <2>14 DEF Open, Save
    <3>. QED BY <3>1, DispatchLeft DEF TypeOK
  <2>15. CASE UNCHANGED vars
    BY <2>15, <2>u DEF vars
  <2>. QED BY <2>1, <2>2, <2>3, <2>4, <2>6, <2>8, <2>9, <2>10, <2>11, <2>12, <2>13, <2>14,
              <2>15 DEF Next, Step
<1>. QED BY <1>1, <1>2, TypeCorrect, PTL DEF Spec

-----------------------------------------------------------------------------
(* Two ledgers hold the same message under an id, or both hold none.        *)
Alike(q, r) ==
  /\ r = NoRecord <=> q = NoRecord
  /\ q # NoRecord => r.address = q.address /\ r.body = q.body /\ r.expires = q.expires

(* A record that changes its state or its reason is about the same message. *)
LEMMA RetoldContent ==
  ASSUME NEW l \in Ledgers, NEW o \in Ids, l[o].state \in States,
         NEW st \in States, NEW why \in HoldReasons \cup {"stored", "note"}
  PROVE  /\ Alike(l[o], [l[o] EXCEPT !.state = st, !.reason = why])
         /\ Alike(l[o], [l[o] EXCEPT !.reason = why])
<1>1. /\ l[o] \in Record
      /\ [l[o] EXCEPT !.state = st, !.reason = why] \in Record
      /\ [l[o] EXCEPT !.reason = why] \in Record
  BY Retold
<1>2. \A r \in Record : r # NoRecord
  BY DEF Record, NoRecord, States, Final
<1>. QED BY <1>1, <1>2 DEF Record, Alike

(* What a transition or its withdrawal makes of every receipt.              *)
LEMMA MovedContent ==
  ASSUME NEW l \in Ledgers, NEW id \in Ids, NEW st \in States,
         NEW why \in HoldReasons \cup {"stored", "note"},
         l[id].state \in {"accepted", "dispatching"}, NEW o \in Ids
  PROVE  /\ Alike(l[o], Moved(l, id, st, why)[o]) /\ Alike(l[o], Withdrawn(l, id)[o])
         /\ Moved(l, id, st, why)[o].state = IF o = id THEN st ELSE l[o].state
         /\ Withdrawn(l, id)[o].state =
              IF o = id /\ l[id].state = "dispatching" THEN "uncertain" ELSE l[o].state
<1>1. l[id] \in Record /\ {"uncertain", "accepted", "dispatching"} \subseteq States
  BY Retold DEF States, Final
<1>2. Withdrawn(l, id) = [l EXCEPT ![id] =
         IF l[id].state = "dispatching"
         THEN [l[id] EXCEPT !.state = "uncertain", !.reason = "note"] ELSE l[id]]
  BY <1>1 DEF Withdrawn, Ledgers, Record
<1>3. Alike(l[o], Withdrawn(l, id)[o])
  <2>1. CASE o = id /\ l[id].state = "dispatching"
    <3>1. Alike(l[o], [l[o] EXCEPT !.state = "uncertain", !.reason = "note"])
      BY <1>1, <2>1, RetoldContent
    <3>. QED BY <1>2, <2>1, <3>1 DEF Ledgers
  <2>2. CASE ~(o = id /\ l[id].state = "dispatching")
    BY <1>2, <2>2 DEF Ledgers, Alike
  <2>. QED BY <2>1, <2>2
<1>4. Withdrawn(l, id)[o].state =
        IF o = id /\ l[id].state = "dispatching" THEN "uncertain" ELSE l[o].state
  BY <1>1, <1>2 DEF Ledgers, Record
<1>5. CASE o = id
  <2>1. Moved(l, id, st, why)[o] = [l[o] EXCEPT !.state = st, !.reason = why]
    BY <1>5 DEF Moved
  <2>2. Alike(l[o], [l[o] EXCEPT !.state = st, !.reason = why])
    BY <1>1, <1>5, RetoldContent DEF States
  <2>. QED BY <1>1, <1>3, <1>4, <1>5, <2>1, <2>2 DEF Record
<1>6. CASE o # id
  <2>1. CASE o \in Behind(l, id) /\ st = "accepted" /\ why \in HoldReasons
    <3>1. l[o].state = "accepted" /\ Moved(l, id, st, why)[o] = [l[o] EXCEPT !.reason = why]
      BY <1>6, <2>1 DEF Moved, Behind, InState
    <3>2. Alike(l[o], [l[o] EXCEPT !.reason = why])
      BY <1>1, <3>1, RetoldContent
    <3>. QED BY <1>3, <1>4, <1>6, <3>1, <3>2, MovedStates
  <2>2. CASE ~(o \in Behind(l, id) /\ st = "accepted" /\ why \in HoldReasons)
    <3>1. Moved(l, id, st, why)[o] = l[o]
      BY <1>6, <2>2 DEF Moved
    <3>. QED BY <1>3, <1>4, <1>6, <3>1 DEF Alike
  <2>. QED BY <2>1, <2>2
<1>. QED BY <1>5, <1>6

(* What an expiry, a recovery and a pruning make of every receipt.          *)
LEMMA SweptContent ==
  ASSUME NEW l \in Ledgers, NEW t \in Nat, NEW o \in Ids
  PROVE  /\ Alike(l[o], Expired(l, t)[o]) /\ Alike(l[o], Recovered(l)[o])
         /\ Expired(l, t)[o].state \in {l[o].state, "failed"}
         /\ l[o].state # "accepted" => Expired(l, t)[o].state = l[o].state
         /\ Recovered(l)[o].state =
              IF l[o].state = "dispatching" THEN "uncertain" ELSE l[o].state
         /\ Pruned(l, t)[o] = IF Outlived(o, t) THEN NoRecord ELSE l[o]
<1>1. {"failed", "uncertain", "accepted", "dispatching"} \subseteq States
  BY DEF States, Final
<1>2. /\ Alike(l[o], Expired(l, t)[o]) /\ Expired(l, t)[o].state \in {l[o].state, "failed"}
      /\ l[o].state # "accepted" => Expired(l, t)[o].state = l[o].state
  <2>1. CASE l[o].state = "accepted" /\ l[o].expires <= t
    <3>1. Expired(l, t)[o] = [l[o] EXCEPT !.state = "failed", !.reason = "note"] /\ l[o] \in Record
      BY <1>1, <2>1, Retold DEF Expired
    <3>2. Alike(l[o], [l[o] EXCEPT !.state = "failed", !.reason = "note"])
      BY <1>1, <2>1, RetoldContent
    <3>3. Alike(l[o], Expired(l, t)[o])
      BY <3>1, <3>2
    <3>. QED BY <2>1, <3>1, <3>3 DEF Record
  <2>2. CASE ~(l[o].state = "accepted" /\ l[o].expires <= t)
    BY <2>2 DEF Expired, Alike
  <2>. QED BY <2>1, <2>2
<1>3. /\ Alike(l[o], Recovered(l)[o])
      /\ Recovered(l)[o].state = IF l[o].state = "dispatching" THEN "uncertain" ELSE l[o].state
  <2>1. CASE l[o].state = "dispatching"
    <3>1. Recovered(l)[o] = [l[o] EXCEPT !.state = "uncertain", !.reason = "note"] /\ l[o] \in Record
      BY <1>1, <2>1, Retold DEF Recovered
    <3>2. Alike(l[o], [l[o] EXCEPT !.state = "uncertain", !.reason = "note"])
      BY <1>1, <2>1, RetoldContent
    <3>3. Alike(l[o], Recovered(l)[o])
      BY <3>1, <3>2
    <3>. QED BY <2>1, <3>1, <3>3 DEF Record
  <2>2. CASE l[o].state # "dispatching"
    BY <2>2 DEF Recovered, Alike
  <2>. QED BY <2>1, <2>2
<1>. QED BY <1>2, <1>3 DEF Pruned

-----------------------------------------------------------------------------
(* Every change of the ledger is one of these, and is saved by one call.    *)
Stores(new, rollback) == \E outcome \in Outcomes : Save(outcome, new, rollback)

AcceptStep(id, a, b) ==
  /\ up = "open" /\ mem[id] = NoRecord /\ ~Outlived(id, now)
  /\ Stores([Pruned(mem, now) EXCEPT ![id] = NewRecord(id, a, b, now)], Pruned(mem, now))
  /\ UNCHANGED <<up, now, licence, wrote, acked>>

(* A message fails before its dispatch or by the worker that has yet to     *)
(* write it, unless the GUI stops; only that worker queues it again, and    *)
(* only one that wrote submits it.  Only a dispatch gives a licence.        *)
MoveStep(id, to, why) ==
  /\ up = "open" /\ Allowed(mem[id].state, to)
  /\ Stores(Moved(mem, id, to, why), Withdrawn(mem, id))
  /\ to = "failed" => mem[id].state = "accepted" \/ licence[id] = "unused" \/ machine.gui
  /\ to = "accepted" => licence[id] = "unused"
  /\ to = "submitted" => licence[id] = "used"
  /\ licence'[id] # "used" \/ machine.gui
  /\ \A o \in Ids \ {id} : licence'[o] = licence[o]
  /\ \/ licence'[id] = "none" \/ machine.gui
     \/ to = "dispatching" /\ mem' = Moved(mem, id, to, why) /\ disk' = mem'
  /\ UNCHANGED <<up, now, wrote, acked>>

ExpireStep ==
  /\ up = "open" /\ Stores(Expired(mem, now), mem)
  /\ UNCHANGED <<up, now, licence, wrote, acked>>

(* The others leave it alone; an acknowledgement is of what memory holds.   *)
Acks(o) == /\ up = "open" /\ mem[o] # NoRecord
           /\ acked'[o] = acked[o] \cup {<<mem[o].address, mem[o].body>>}

OtherStep ==
  /\ UNCHANGED <<mem, disk>> /\ up' \in {up, "down"}
  /\ now' \in Nat /\ now' >= now
  /\ \A o \in Ids : acked'[o] = acked[o] \/ Acks(o)
  /\ \A o \in Ids : licence'[o] # "none" => licence[o] # "none" /\ up' = up
  /\ \A o \in Ids : licence'[o] \in {licence[o], "none"} \/ Write(o)
  /\ \/ UNCHANGED wrote
     \/ now' = now /\ \E id \in Ids : Write(id)

(* What a step does to the ledger, one form for each kind of step.          *)
LEMMA LedgerSteps ==
  ASSUME TypeOK, [Next]_vars
  PROVE  /\ machine' = machine
         /\ \/ \E id \in Ids, a \in Addresses, b \in Bodies : AcceptStep(id, a, b)
            \/ \E id \in Ids, to \in States, why \in HoldReasons \cup {"stored", "note"} :
                 MoveStep(id, to, why)
            \/ ExpireStep \/ Open \/ OtherStep
<1>. DEFINE Whys == HoldReasons \cup {"stored", "note"}
            Goal == \/ \E id \in Ids, a \in Addresses, b \in Bodies : AcceptStep(id, a, b)
                    \/ \E id \in Ids, to \in States, why \in Whys : MoveStep(id, to, why)
                    \/ ExpireStep \/ Open \/ OtherStep
<1>m. machine' = machine
  BY DEF Next, vars
<1>. SUFFICES Goal
  BY <1>m
<1>n. now \in Nat /\ now >= now /\ now + 1 \in Nat /\ now + 1 >= now
  BY DEF TypeOK
<1>l. licence \in [Ids -> {"none", "unused", "used"}]
  BY DEF TypeOK
<1>t. ASSUME NEW id \in Ids, NEW to \in States, NEW why \in Whys, NEW kept, NEW lost,
             Transition(id, to, why, kept, lost), UNCHANGED acked,
             to = "failed" => mem[id].state = "accepted" \/ licence[id] = "unused" \/ machine.gui,
             to = "accepted" => licence[id] = "unused", to = "submitted" => licence[id] = "used",
             kept # "used" \/ machine.gui, lost = "none" \/ machine.gui, kept = "none" \/ to = "dispatching" \/ machine.gui
      PROVE  Goal
  <2>1. PICK outcome \in Outcomes :
          /\ Save(outcome, Moved(mem, id, to, why), Withdrawn(mem, id))
          /\ licence' = [licence EXCEPT ![id] = IF outcome = "saved" THEN kept ELSE lost]
    BY <1>t DEF Transition
  <2>2. outcome = "saved" => mem' = Moved(mem, id, to, why) /\ disk' = mem'
    BY <2>1 DEF Save
  <2>3. /\ \A o \in Ids \ {id} : licence'[o] = licence[o]
        /\ licence'[id] = IF outcome = "saved" THEN kept ELSE lost
    BY <1>l, <2>1
  <2>4. Stores(Moved(mem, id, to, why), Withdrawn(mem, id))
    BY <2>1 DEF Stores
  <2>. QED BY <1>t, <2>2, <2>3, <2>4 DEF Transition, MoveStep
<1>u. ASSUME UNCHANGED <<mem, disk, now, wrote, acked>>, up' \in {up, "down"},
             \A o \in Ids : licence'[o] # "none" => licence[o] # "none" /\ up' = up,
             \A o \in Ids : licence'[o] \in {licence[o], "none"}
      PROVE  Goal
  BY <1>n, <1>u DEF OtherStep
<1>s. {"failed", "uncertain", "submitted", "dispatching", "accepted"} \subseteq States
  BY DEF States, Final
<1>1. ASSUME NEW id \in Ids, NEW a \in Addresses, NEW b \in Bodies, Repeat(id, a, b) PROVE Goal
  <2>1. \A o \in Ids : acked'[o] = acked[o] \/ Acks(o)
    BY <1>1 DEF Repeat, Acks, TypeOK
  <2>. QED BY <1>1, <1>n, <2>1 DEF Repeat, OtherStep
<1>2. ASSUME NEW id \in Ids, NEW a \in Addresses, NEW b \in Bodies, Accept(id, a, b) PROVE Goal
  <2>1. CASE mem' = Pruned(mem, now) /\ UNCHANGED disk
    <3>1. Save("failed", [Pruned(mem, now) EXCEPT ![id] = NewRecord(id, a, b, now)], Pruned(mem, now))
      BY <2>1 DEF Save
    <3>. QED BY <1>2, <3>1 DEF Accept, ValidId, AcceptStep, Stores, Outcomes
  <2>2. CASE Stores([Pruned(mem, now) EXCEPT ![id] = NewRecord(id, a, b, now)], Pruned(mem, now))
    BY <1>2, <2>2 DEF Accept, ValidId, AcceptStep
  <2>. QED BY <1>2, <2>1, <2>2 DEF Accept, Stores
<1>3. ASSUME NEW id \in Ids, Dispatch(id) \/ Refuse(id) PROVE Goal
  BY <1>3, <1>s, <1>t DEF Dispatch, Refuse, Kept
<1>4. ASSUME NEW id \in Ids, Write(id) PROVE Goal
  BY <1>4, <1>l, <1>n DEF Write, OtherStep
<1>5. ASSUME NEW id \in Ids, NEW to \in States, NEW why \in Whys, Report(id, to, why),
             to \in {"failed", "accepted"} => licence[id] = "unused",
             to = "submitted" => licence[id] = "used"
      PROVE  Goal
  <2>1. CASE Transition(id, to, why, "none", "none") /\ Kept
    BY <1>5, <1>t, <2>1 DEF Kept
  <2>2. CASE licence' = [licence EXCEPT ![id] = "none"]
             /\ UNCHANGED <<mem, disk, up, now, waking, wrote, acked>>
    BY <1>l, <1>u, <2>2
  <2>. QED BY <1>5, <2>1, <2>2 DEF Report
<1>6. ASSUME NEW id \in Ids, Defer(id) \/ GiveUp(id) \/ Settle(id) PROVE Goal
  <2>1. PICK to \in States, why \in Whys :
          /\ Report(id, to, why) /\ (to = "submitted" => licence[id] = "used")
          /\ to \in {"failed", "accepted"} => licence[id] = "unused"
    BY <1>6, <1>s DEF Defer, GiveUp, Settle
  <2>. QED BY <1>5, <2>1
<1>7. ASSUME NEW id \in Ids, Wake(id) PROVE Goal
  <2>1. \A o \in Ids : acked'[o] = acked[o] \/ Acks(o)
    BY <1>7 DEF Wake, Acknowledge, Acks, TypeOK
  <2>. QED BY <1>7, <1>n, <2>1 DEF Wake, OtherStep
<1>8. ASSUME NEW id \in Ids, WakeFails(id) PROVE Goal
  BY <1>8, <1>s, <1>t, <1>u DEF WakeFails
<1>9. CASE ExpirePending
  BY <1>9 DEF ExpirePending, ExpireStep, Stores
<1>10. CASE Tick
  BY <1>10, <1>n DEF Tick, OtherStep
<1>11. CASE Crash \/ UNCHANGED vars
  BY <1>11, <1>u DEF Crash, vars
<1>. QED BY <1>1, <1>2, <1>3, <1>4, <1>6, <1>7, <1>8, <1>9, <1>10, <1>11 DEF Next, Step

(* Which ledger a save leaves where.                                        *)
LEMMA StoresParts ==
  ASSUME NEW new, NEW rollback, Stores(new, rollback), machine \in Machines
  PROVE  \/ mem' = new /\ disk' = new
         \/ mem' = rollback /\ disk' = disk
         \/ machine.late /\ mem' = rollback /\ disk' = new
<1>1. machine.late \in BOOLEAN
  BY TellAssumption
<1>. QED BY <1>1 DEF Stores, Save, Outcomes

-----------------------------------------------------------------------------
(* Acknowledgements.  What was acknowledged of a live id is on disk, and in *)
(* memory while the ledger is open; memory holds nothing else of a live id  *)
(* than the disk.                                                           *)
Has(l, id, c) == l[id] # NoRecord /\ c = <<l[id].address, l[id].body>>

AckInv ==
  \A o \in Ids : ~Outlived(o, now) =>
    /\ up = "open" /\ mem[o] # NoRecord => Alike(mem[o], disk[o])
    /\ \A c \in acked[o] : Has(disk, o, c) /\ (up = "open" => Has(mem, o, c))

(* Alike receipts have the same body.                                       *)
LEMMA AlikeHas ==
  ASSUME NEW l, NEW m, NEW o, NEW c, Alike(l[o], m[o])
  PROVE  Has(l, o, c) <=> Has(m, o, c)
BY DEF Alike, Has

(* Neither exhausted storage nor a failed save nor a restart forgets or     *)
(* changes what a live id was acknowledged for.                             *)
THEOREM AcksKept == Spec => []AckedIsKept
<1>1. Init => AckInv
  BY DEF Init, AckInv
<1>2. TypeOK /\ AckInv /\ [Next]_vars => AckInv'
  <2>. SUFFICES ASSUME TypeOK, AckInv, [Next]_vars, NEW o \in Ids, ~Outlived(o, now')
                PROVE  /\ up' = "open" /\ mem'[o] # NoRecord => Alike(mem'[o], disk'[o])
                       /\ \A c \in acked'[o] : Has(disk', o, c) /\ (up' = "open" => Has(mem', o, c))
    BY DEF AckInv, Has
  <2>0. /\ mem \in Ledgers /\ disk \in Ledgers /\ now \in Nat /\ machine \in Machines
        /\ Alike(mem[o], mem[o]) /\ Alike(disk[o], disk[o])
    BY DEF TypeOK, Alike
  <2>a. ASSUME now' = now
        PROVE  /\ ~Outlived(o, now)
               /\ up = "open" /\ mem[o] # NoRecord => Alike(mem[o], disk[o])
               /\ \A c \in acked[o] : Has(disk, o, c) /\ (up = "open" => Has(mem, o, c))
    BY <2>a DEF AckInv
  <2>s. ASSUME NEW new, NEW rollback, up = "open", UNCHANGED <<up, now, acked>>, Stores(new, rollback),
               Alike(mem[o], new[o]), Alike(mem[o], rollback[o])
        PROVE  /\ mem'[o] # NoRecord => Alike(mem'[o], disk'[o])
               /\ \A c \in acked'[o] : Has(disk', o, c) /\ Has(mem', o, c)
    <3>1. Alike(mem[o], mem'[o]) /\ (disk' = disk \/ Alike(mem[o], disk'[o]))
      BY <2>0, <2>s, StoresParts
    <3>2. mem[o] # NoRecord => Alike(mem[o], disk[o])
      BY <2>a, <2>s
    <3>3. mem'[o] # NoRecord => Alike(mem'[o], disk'[o])
      BY <3>1, <3>2 DEF Alike
    <3>4. \A c \in acked[o] : Has(mem, o, c) /\ Has(disk, o, c)
      BY <2>a, <2>s
    <3>. QED BY <2>s, <3>1, <3>3, <3>4, AlikeHas
  <2>1. ASSUME NEW id \in Ids, NEW a \in Addresses, NEW b \in Bodies, AcceptStep(id, a, b)
        PROVE  /\ mem'[o] # NoRecord => Alike(mem'[o], disk'[o])
               /\ \A c \in acked'[o] : Has(disk', o, c) /\ Has(mem', o, c)
    <3>. DEFINE kept == Pruned(mem, now)
                new  == [kept EXCEPT ![id] = NewRecord(id, a, b, now)]
    <3>1. kept[o] = mem[o] /\ kept \in Ledgers
      BY <2>0, <2>1, <2>a, SweptContent, LedgerOps DEF AcceptStep
    <3>2. CASE o # id
      <4>1. new[o] = mem[o]
        BY <3>1, <3>2 DEF Ledgers
      <4>. QED BY <2>0, <2>1, <2>s, <3>1, <4>1 DEF AcceptStep
    <3>3. CASE o = id
      <4>1. acked'[o] = {} /\ mem[o] = NoRecord
        BY <2>1, <2>a, <3>3 DEF AcceptStep, Has, TypeOK
      <4>2. (mem' = new /\ disk' = new) \/ mem' = kept
        BY <2>0, <2>1, StoresParts DEF AcceptStep
      <4>. QED BY <3>1, <4>1, <4>2 DEF Alike
    <3>. QED BY <3>2, <3>3
  <2>2. ASSUME NEW id \in Ids, NEW to \in States, NEW why \in HoldReasons \cup {"stored", "note"},
               MoveStep(id, to, why)
        PROVE  /\ mem'[o] # NoRecord => Alike(mem'[o], disk'[o])
               /\ \A c \in acked'[o] : Has(disk', o, c) /\ Has(mem', o, c)
    <3>1. mem[id].state \in {"accepted", "dispatching"}
      BY <2>2 DEF MoveStep, Allowed
    <3>2. Alike(mem[o], Moved(mem, id, to, why)[o]) /\ Alike(mem[o], Withdrawn(mem, id)[o])
      BY <2>0, <3>1, MovedContent
    <3>. QED BY <2>2, <2>s, <3>2 DEF MoveStep
  <2>3. CASE ExpireStep
    <3>1. Alike(mem[o], Expired(mem, now)[o])
      BY <2>0, SweptContent
    <3>. QED BY <2>0, <2>3, <2>s, <3>1 DEF ExpireStep
  <2>4. CASE Open
    <3>1. Alike(disk[o], Recovered(disk)[o]) /\ UNCHANGED <<now, acked>>
      BY <2>0, <2>4, SweptContent DEF Open
    <3>2. disk' = disk \/ disk' = Recovered(disk)
      BY <2>4 DEF Open, Save
    <3>3. up' = "open" => mem' = disk'
      BY <2>4 DEF Open, Save
    <3>. QED BY <2>0, <2>a, <3>1, <3>2, <3>3, AlikeHas DEF Alike
  <2>5. CASE OtherStep
    <3>1. ~Outlived(o, now)
      BY <2>0, <2>5, TellAssumption DEF OtherStep, Outlived
    <3>2. /\ up = "open" /\ mem[o] # NoRecord => Alike(mem[o], disk[o])
          /\ \A c \in acked[o] : Has(disk, o, c) /\ (up = "open" => Has(mem, o, c))
      BY <3>1 DEF AckInv
    <3>3. UNCHANGED <<mem, disk>> /\ up' \in {up, "down"}
      BY <2>5 DEF OtherStep
    <3>4. CASE acked'[o] = acked[o]
      BY <3>2, <3>3, <3>4
    <3>5. CASE Acks(o)
      <4>1. Has(mem, o, <<mem[o].address, mem[o].body>>) /\ Alike(mem[o], disk[o])
        BY <3>2, <3>5 DEF Acks, Has
      <4>2. \A c \in acked'[o] : Has(disk, o, c) /\ Has(mem, o, c)
        BY <3>2, <3>5, <4>1, AlikeHas DEF Acks
      <4>. QED BY <3>3, <4>1, <4>2
    <3>. QED BY <2>5, <3>4, <3>5 DEF OtherStep
  <2>. QED BY <2>1, <2>2, <2>3, <2>4, <2>5, LedgerSteps
<1>3. TypeOK /\ AckInv => AckedIsKept
  BY DEF AckInv, AckedIsKept, Has
<1>. QED BY <1>1, <1>2, <1>3, TypeCorrect, PTL DEF Spec

-----------------------------------------------------------------------------
(* Without late sync errors memory holds what the disk does, or the verdict *)
(* "uncertain" on a dispatch whose next transition could not be saved; so   *)
(* a restart finds every receipt as it was last reported.                   *)
Trails(o) ==
  \/ mem[o] = NoRecord
  \/ disk[o].state = mem[o].state
  \/ mem[o].state = "uncertain" /\ disk[o].state = "dispatching"

TrailsInv == ~machine.late => \A o \in Ids : Trails(o)

(* Every step lets the file trail the memory.                               *)
LEMMA TrailsKept ==
  ASSUME TypeOK, TrailsInv, [Next]_vars
  PROVE  TrailsInv'
<1>. SUFFICES ASSUME ~machine'.late, NEW o \in Ids PROVE Trails(o)'
  BY DEF TrailsInv
<1>0. /\ mem \in Ledgers /\ disk \in Ledgers /\ now \in Nat
      /\ machine \in Machines /\ machine' = machine /\ ~machine.late
  BY LedgerSteps DEF TypeOK
<1>1. Trails(o)
  BY <1>0 DEF TrailsInv
<1>s. ASSUME NEW new, NEW rollback, Stores(new, rollback),
             \/ rollback[o] = NoRecord
             \/ rollback[o].state = mem[o].state /\ mem[o] # NoRecord
             \/ rollback[o].state = "uncertain" /\ mem[o].state = "dispatching"
      PROVE  Trails(o)'
  <2>1. CASE mem' = new /\ disk' = new
    BY <2>1 DEF Trails
  <2>2. CASE mem' = rollback /\ disk' = disk
    BY <1>1, <1>s, <2>2 DEF Trails, NoRecord
  <2>. QED BY <1>0, <1>s, <2>1, <2>2, StoresParts
<1>2. ASSUME NEW id \in Ids, NEW a \in Addresses, NEW b \in Bodies, AcceptStep(id, a, b)
      PROVE  Trails(o)'
  <2>1. Pruned(mem, now)[o] = NoRecord \/ Pruned(mem, now)[o] = mem[o]
    BY <1>0, SweptContent
  <2>. QED BY <1>2, <1>s, <2>1 DEF AcceptStep
<1>3. ASSUME NEW id \in Ids, NEW to \in States, NEW why \in HoldReasons \cup {"stored", "note"},
             MoveStep(id, to, why)
      PROVE  Trails(o)'
  <2>1. mem[id].state \in {"accepted", "dispatching"}
    BY <1>3 DEF MoveStep, Allowed
  <2>2. /\ Alike(mem[o], Withdrawn(mem, id)[o])
        /\ Withdrawn(mem, id)[o].state =
              IF o = id /\ mem[id].state = "dispatching" THEN "uncertain" ELSE mem[o].state
    BY <1>0, <2>1, MovedContent
  <2>. QED BY <1>3, <1>s, <2>2 DEF MoveStep, Alike
<1>4. CASE ExpireStep
  BY <1>4, <1>s DEF ExpireStep
<1>5. CASE Open
  <2>1. mem' = disk' \/ (mem' = mem /\ disk' = disk)
    BY <1>0, <1>5 DEF Open, Save, Outcomes
  <2>. QED BY <1>1, <2>1 DEF Trails
<1>6. CASE OtherStep
  BY <1>1, <1>6 DEF OtherStep, Trails
<1>. QED BY <1>2, <1>3, <1>4, <1>5, <1>6, LedgerSteps

(* A record goes only when its id has outlived its life, and a final state  *)
(* does not change.                                                         *)
LEMMA RecordSteps ==
  ASSUME TypeOK, TrailsInv, [Next]_vars, ~machine.late, NEW o \in Ids, mem[o] # NoRecord
  PROVE  /\ mem'[o] = NoRecord => Outlived(o, now)
         /\ mem[o].state \in Final => mem'[o] = NoRecord \/ mem'[o].state = mem[o].state
<1>0. /\ mem \in Ledgers /\ disk \in Ledgers /\ now \in Nat /\ machine \in Machines
  BY DEF TypeOK
<1>1. Trails(o)
  BY DEF TrailsInv
<1>2. ASSUME NEW id \in Ids, NEW a \in Addresses, NEW b \in Bodies, AcceptStep(id, a, b)
      PROVE  mem'[o] = mem[o] \/ (mem'[o] = NoRecord /\ Outlived(o, now))
  <2>. DEFINE kept == Pruned(mem, now)
              new  == [kept EXCEPT ![id] = NewRecord(id, a, b, now)]
  <2>1. kept[o] = (IF Outlived(o, now) THEN NoRecord ELSE mem[o]) /\ kept \in Ledgers /\ o # id
    BY <1>0, <1>2, SweptContent, LedgerOps DEF AcceptStep
  <2>2. new[o] = kept[o]
    BY <2>1 DEF Ledgers
  <2>3. mem' \in {kept, new}
    BY <1>0, <1>2, StoresParts DEF AcceptStep
  <2>. QED BY <2>1, <2>2, <2>3
<1>3. ASSUME NEW id \in Ids, NEW to \in States, NEW why \in HoldReasons \cup {"stored", "note"},
             MoveStep(id, to, why)
      PROVE  mem'[o] # NoRecord /\ (mem[o].state \in Final => mem'[o].state = mem[o].state)
  <2>1. mem[id].state \in {"accepted", "dispatching"}
    BY <1>3 DEF MoveStep, Allowed
  <2>2. mem' \in {Moved(mem, id, to, why), Withdrawn(mem, id)}
    BY <1>0, <1>3, StoresParts DEF MoveStep
  <2>3. mem[o].state \in Final => o # id
    BY <2>1 DEF Final
  <2>4. /\ Alike(mem[o], Moved(mem, id, to, why)[o]) /\ Alike(mem[o], Withdrawn(mem, id)[o])
        /\ Moved(mem, id, to, why)[o].state = IF o = id THEN to ELSE mem[o].state
        /\ Withdrawn(mem, id)[o].state =
              IF o = id /\ mem[id].state = "dispatching" THEN "uncertain" ELSE mem[o].state
    BY <1>0, <2>1, MovedContent
  <2>. QED BY <2>2, <2>3, <2>4 DEF Alike
<1>4. CASE ExpireStep
  <2>1. mem' \in {Expired(mem, now), mem}
    BY <1>0, <1>4, StoresParts DEF ExpireStep
  <2>2. /\ Alike(mem[o], Expired(mem, now)[o])
        /\ mem[o].state # "accepted" => Expired(mem, now)[o].state = mem[o].state
    BY <1>0, SweptContent
  <2>. QED BY <2>1, <2>2 DEF Alike, Final
<1>5. CASE Open
  <2>1. \/ mem' = mem
        \/ mem' = disk /\ Recovered(disk) = disk
        \/ mem' = Recovered(disk)
    BY <1>5 DEF Open, Save
  <2>2. /\ Alike(disk[o], Recovered(disk)[o])
        /\ Recovered(disk)[o].state =
              IF disk[o].state = "dispatching" THEN "uncertain" ELSE disk[o].state
    BY <1>0, SweptContent
  <2>3. mem[o].state # "absent" /\ disk[o] # NoRecord
    BY <1>0, <1>1 DEF Trails, Ledgers, Record, NoRecord, States, Final
  <2>. QED BY <1>1, <2>1, <2>2, <2>3 DEF Trails, Alike, Final
<1>6. CASE OtherStep
  BY <1>6 DEF OtherStep
<1>. QED BY <1>2, <1>3, <1>4, <1>5, <1>6, LedgerSteps

(* The file trails the memory, in every state.                              *)
LEMMA Trailing == Spec => []TrailsInv
<1>1. Init => TrailsInv
  BY DEF Init, TrailsInv, Trails
<1>2. TypeOK /\ TrailsInv /\ [Next]_vars => TrailsInv'
  BY TrailsKept
<1>. QED BY <1>1, <1>2, TypeCorrect, PTL DEF Spec

(* A receipt that was reported final never changes again, across restarts   *)
(* (transition() and recovery), without late sync errors.                   *)
THEOREM FinalIsFinal == Spec => FinalStays
<1>1. TypeOK /\ TrailsInv /\ [Next]_vars =>
        [\A id \in Ids : mem[id].state \in Final /\ ~machine.late =>
           \/ mem'[id] = NoRecord
           \/ mem'[id].state = mem[id].state]_vars
  <2>1. \A id \in Ids : mem[id].state \in Final => mem[id] # NoRecord
    BY DEF NoRecord, Final
  <2>. QED BY <2>1, RecordSteps
<1>. QED BY <1>1, Trailing, TypeCorrect, PTL DEF Spec, FinalStays

-----------------------------------------------------------------------------
(* A licence is of a running worker, and its message is under dispatch in   *)
(* memory and on disk, or forgotten for its age (a GUI that does not stop). *)
Worker(o) ==
  licence[o] # "none" =>
    /\ up = "open"
    /\ ~machine.gui => \/ mem[o].state = "dispatching" /\ disk[o].state = "dispatching"
                       \/ mem[o] = NoRecord /\ Outlived(o, now)

(* Every step keeps a worker with a dispatching receipt.                    *)
LEMMA WorkerKept ==
  ASSUME TypeOK, \A o \in Ids : Worker(o), [Next]_vars, NEW o \in Ids
  PROVE  Worker(o)'
<1>0. /\ mem \in Ledgers /\ disk \in Ledgers /\ now \in Nat
      /\ machine \in Machines /\ machine' = machine /\ machine.gui \in BOOLEAN
  BY LedgerSteps, TellAssumption DEF TypeOK
<1>1. ASSUME NEW id \in Ids, NEW a \in Addresses, NEW b \in Bodies, AcceptStep(id, a, b)
      PROVE  Worker(o)'
  <2>. DEFINE kept == Pruned(mem, now)
              new  == [kept EXCEPT ![id] = NewRecord(id, a, b, now)]
  <2>1. kept[o] = (IF Outlived(o, now) THEN NoRecord ELSE mem[o]) /\ kept \in Ledgers
    BY <1>0, SweptContent, LedgerOps
  <2>2. mem' \in {kept, new} /\ disk' \in {new, disk} /\ UNCHANGED <<up, now, licence>>
    BY <1>0, <1>1, StoresParts DEF AcceptStep
  <2>3. CASE o = id
    <3>1. licence[o] # "none" => machine.gui /\ up = "open"
      BY <1>1, <2>3 DEF AcceptStep, Worker, NoRecord
    <3>. QED BY <1>0, <2>2, <3>1 DEF Worker
  <2>4. CASE o # id
    <3>1. new[o] = kept[o]
      BY <2>1, <2>4 DEF Ledgers
    <3>2. (mem'[o] = mem[o] /\ disk'[o] \in {mem[o], disk[o]}) \/ (mem'[o] = NoRecord /\ Outlived(o, now))
      BY <2>1, <2>2, <3>1
    <3>. QED BY <1>0, <2>2, <3>2 DEF Worker, Outlived
  <2>. QED BY <2>3, <2>4
<1>2. ASSUME NEW id \in Ids, NEW to \in States, NEW why \in HoldReasons \cup {"stored", "note"},
             MoveStep(id, to, why)
      PROVE  Worker(o)'
  <2>1. mem[id].state \in {"accepted", "dispatching"} /\ UNCHANGED <<up, now>> /\ up = "open"
    BY <1>2 DEF MoveStep, Allowed
  <2>2. /\ Alike(mem[o], Moved(mem, id, to, why)[o]) /\ Alike(mem[o], Withdrawn(mem, id)[o])
        /\ Moved(mem, id, to, why)[o].state = IF o = id THEN to ELSE mem[o].state
        /\ Withdrawn(mem, id)[o].state =
              IF o = id /\ mem[id].state = "dispatching" THEN "uncertain" ELSE mem[o].state
    BY <1>0, <2>1, MovedContent
  <2>3. CASE o = id
    BY <1>0, <1>2, <2>1, <2>2, <2>3 DEF MoveStep, Worker
  <2>4. CASE o # id
    <3>1. mem' \in {Moved(mem, id, to, why), Withdrawn(mem, id)}
          /\ disk' \in {Moved(mem, id, to, why), disk}
      BY <1>0, <1>2, StoresParts DEF MoveStep
    <3>2. /\ mem'[o].state = mem[o].state /\ (mem[o] = NoRecord => mem'[o] = NoRecord)
          /\ disk'[o].state \in {mem[o].state, disk[o].state}
      BY <2>2, <2>4, <3>1 DEF Alike
    <3>3. licence'[o] = licence[o]
      BY <1>2, <2>4 DEF MoveStep
    <3>. QED BY <1>0, <2>1, <3>2, <3>3 DEF Worker, Outlived
  <2>. QED BY <2>3, <2>4
<1>3. CASE ExpireStep
  <2>1. mem' \in {Expired(mem, now), mem} /\ disk' \in {Expired(mem, now), disk}
    BY <1>0, <1>3, StoresParts DEF ExpireStep
  <2>2. /\ Alike(mem[o], Expired(mem, now)[o])
        /\ mem[o].state # "accepted" => Expired(mem, now)[o].state = mem[o].state
    BY <1>0, SweptContent
  <2>3. UNCHANGED <<up, now, licence>>
    BY <1>3 DEF ExpireStep
  <2>4. mem[o] = NoRecord => mem'[o] = NoRecord
    BY <2>1, <2>2 DEF Alike
  <2>5. mem[o].state = "dispatching" /\ disk[o].state = "dispatching" =>
          mem'[o].state = "dispatching" /\ disk'[o].state = "dispatching"
    BY <2>1, <2>2
  <2>. QED BY <1>0, <2>3, <2>4, <2>5 DEF Worker, Outlived
<1>4. CASE Open
  BY <1>4 DEF Open, Worker
<1>5. CASE OtherStep
  <2>1. Outlived(o, now) => Outlived(o, now')
    BY <1>0, <1>5, TellAssumption DEF OtherStep, Outlived
  <2>. QED BY <1>0, <1>5, <2>1 DEF OtherStep, Worker
<1>. QED BY <1>1, <1>2, <1>3, <1>4, <1>5, LedgerSteps

(* A dispatching receipt has its worker, in every state.                    *)
LEMMA Workers == Spec => [](\A o \in Ids : Worker(o))
<1>1. Init => \A o \in Ids : Worker(o)
  BY DEF Init, Worker
<1>2. TypeOK /\ (\A o \in Ids : Worker(o)) /\ [Next]_vars => (\A o \in Ids : Worker(o))'
  BY WorkerKept
<1>. QED BY <1>1, <1>2, TypeCorrect, PTL DEF Spec

-----------------------------------------------------------------------------
(* No message that is failed, in memory or on disk, was written.            *)
UnwrittenInv ==
  ~machine.gui => \A o \in Ids : mem[o].state = "failed" \/ disk[o].state = "failed" => wrote[o] = 0

(* Every step keeps what failed unwritten.                                  *)
LEMMA UnwrittenKept ==
  ASSUME TypeOK, WriteInv, \A o \in Ids : Worker(o), UnwrittenInv, [Next]_vars
  PROVE  UnwrittenInv'
<1>. SUFFICES ASSUME ~machine'.gui, NEW o \in Ids, mem'[o].state = "failed" \/ disk'[o].state = "failed"
              PROVE  wrote'[o] = 0
  BY DEF UnwrittenInv
<1>0. /\ mem \in Ledgers /\ disk \in Ledgers /\ now \in Nat /\ wrote[o] \in Nat
      /\ machine \in Machines /\ ~machine.gui
  BY LedgerSteps DEF TypeOK
<1>1. mem[o].state \in {"failed", "accepted"} \/ disk[o].state = "failed" \/ licence[o] = "unused" =>
        wrote[o] = 0
  BY <1>0 DEF UnwrittenInv, WriteInv, Spent, NotQueued
<1>2. ASSUME NEW id \in Ids, NEW a \in Addresses, NEW b \in Bodies, AcceptStep(id, a, b)
      PROVE  wrote'[o] = 0
  <2>. DEFINE kept == Pruned(mem, now)
              new  == [kept EXCEPT ![id] = NewRecord(id, a, b, now)]
  <2>a. kept[o] = (IF Outlived(o, now) THEN NoRecord ELSE mem[o])
    BY <1>0, SweptContent
  <2>b. kept \in Ledgers
    BY <1>0, LedgerOps
  <2>1. kept \in Ledgers /\ (kept[o].state = "failed" => mem[o].state = "failed")
    <3>1. NoRecord.state # "failed"
      BY DEF NoRecord
    <3>. HIDE DEF kept
    <3>. QED BY <2>a, <2>b, <3>1
  <2>2. new[o].state = "failed" => kept[o].state = "failed"
    BY <2>1 DEF Ledgers, NewRecord
  <2>3. mem' \in {kept, new} /\ disk' \in {new, disk} /\ wrote' = wrote
    BY <1>0, <1>2, StoresParts DEF AcceptStep
  <2>. HIDE DEF kept, new
  <2>. QED BY <1>1, <2>1, <2>2, <2>3
<1>3. ASSUME NEW id \in Ids, NEW to \in States, NEW why \in HoldReasons \cup {"stored", "note"},
             MoveStep(id, to, why)
      PROVE  wrote'[o] = 0
  <2>1. mem[id].state \in {"accepted", "dispatching"} /\ wrote' = wrote
    BY <1>3 DEF MoveStep, Allowed
  <2>2. /\ Moved(mem, id, to, why)[o].state = IF o = id THEN to ELSE mem[o].state
        /\ Withdrawn(mem, id)[o].state =
              IF o = id /\ mem[id].state = "dispatching" THEN "uncertain" ELSE mem[o].state
    BY <1>0, <2>1, MovedContent
  <2>3. o = id /\ to = "failed" => wrote[o] = 0
    BY <1>0, <1>1, <1>3 DEF MoveStep
  <2>4. Moved(mem, id, to, why)[o].state = "failed" => wrote[o] = 0
    BY <1>1, <2>2, <2>3
  <2>5. Withdrawn(mem, id)[o].state = "failed" => wrote[o] = 0
    BY <1>1, <2>2
  <2>6. mem' \in {Moved(mem, id, to, why), Withdrawn(mem, id)}
        /\ disk' \in {Moved(mem, id, to, why), disk}
    BY <1>0, <1>3, StoresParts DEF MoveStep
  <2>. QED BY <1>1, <2>1, <2>4, <2>5, <2>6
<1>4. CASE ExpireStep
  <2>1. mem' \in {Expired(mem, now), mem} /\ disk' \in {Expired(mem, now), disk} /\ wrote' = wrote
    BY <1>0, <1>4, StoresParts DEF ExpireStep
  <2>2. Expired(mem, now)[o].state = "failed" => mem[o].state \in {"failed", "accepted"}
    BY <1>0, SweptContent
  <2>. QED BY <1>1, <2>1, <2>2
<1>5. CASE Open
  <2>1. mem' \in {mem, disk, Recovered(disk)} /\ disk' \in {disk, Recovered(disk)} /\ wrote' = wrote
    BY <1>5 DEF Open, Save
  <2>2. Recovered(disk)[o].state = "failed" => disk[o].state = "failed"
    BY <1>0, SweptContent
  <2>. QED BY <1>1, <2>1, <2>2
<1>6. CASE OtherStep
  <2>1. UNCHANGED <<mem, disk>> /\ wrote[o] = 0
    BY <1>1, <1>6 DEF OtherStep
  <2>2. ASSUME NEW id \in Ids, Write(id) PROVE wrote'[o] = 0
    <3>1. mem[id].state = "dispatching" /\ disk[id].state = "dispatching"
      BY <1>0, <2>2 DEF Write, Worker
    <3>2. o # id
      BY <2>1, <3>1
    <3>. QED BY <2>1, <2>2, <3>2 DEF Write, TypeOK
  <2>. QED BY <1>6, <2>1, <2>2 DEF OtherStep
<1>. QED BY <1>2, <1>3, <1>4, <1>5, <1>6, LedgerSteps

(* "failed" is a definite failure: a GUI that does not stop fails a message *)
(* only where nothing of it can have been written, and nothing ever is.     *)
THEOREM FailuresAreDefinite == Spec => []FailedIsUnwritten
<1>1. Init => UnwrittenInv
  BY DEF Init, UnwrittenInv
<1>2. TypeOK /\ WriteInv /\ (\A o \in Ids : Worker(o)) /\ UnwrittenInv /\ [Next]_vars => UnwrittenInv'
  BY UnwrittenKept
<1>3. UnwrittenInv => FailedIsUnwritten
  BY DEF UnwrittenInv, FailedIsUnwritten
<1>. QED BY <1>1, <1>2, <1>3, TypeCorrect, Writes, Workers, PTL DEF Spec

-----------------------------------------------------------------------------
(* No receipt waits beyond the life of its id.                              *)
Lasting(l) == \A o \in Ids : l[o] # NoRecord => l[o].expires <= IssuedAt[o] + Lifetime

ExpiresInv == Lasting(mem) /\ Lasting(disk)

(* Lifetimes are alike where receipts are.                                  *)
LEMMA AlikeLasting ==
  ASSUME NEW l, NEW m, Lasting(l), \A o \in Ids : m[o] = NoRecord \/ Alike(l[o], m[o])
  PROVE  Lasting(m)
BY DEF Alike, Lasting

(* Receipts last as long as their lifetime, in every state.                 *)
LEMMA Expiries == Spec => []ExpiresInv
<1>1. Init => ExpiresInv
  BY DEF Init, ExpiresInv, Lasting
<1>2. TypeOK /\ ExpiresInv /\ [Next]_vars => ExpiresInv'
  <2>. SUFFICES ASSUME TypeOK, ExpiresInv, [Next]_vars PROVE Lasting(mem') /\ Lasting(disk')
    BY DEF ExpiresInv, Lasting
  <2>0. mem \in Ledgers /\ disk \in Ledgers /\ now \in Nat /\ machine \in Machines
    BY DEF TypeOK
  <2>1. ASSUME NEW id \in Ids, NEW a \in Addresses, NEW b \in Bodies, AcceptStep(id, a, b)
        PROVE  Lasting(mem') /\ Lasting(disk')
    <3>. DEFINE kept == Pruned(mem, now)
                new  == [kept EXCEPT ![id] = NewRecord(id, a, b, now)]
    <3>1. kept \in Ledgers /\ \A o \in Ids : kept[o] = NoRecord \/ kept[o] = mem[o]
      BY <2>0, SweptContent, LedgerOps
    <3>2. Lasting(kept)
      BY <3>1 DEF ExpiresInv, Lasting
    <3>3. NewRecord(id, a, b, now).expires <= IssuedAt[id] + Lifetime
      BY <2>0, TellAssumption DEF NewRecord
    <3>4. Lasting(new)
      BY <3>1, <3>2, <3>3 DEF Lasting, Ledgers
    <3>5. mem' \in {kept, new} /\ disk' \in {new, disk}
      BY <2>0, <2>1, StoresParts DEF AcceptStep
    <3>. QED BY <3>2, <3>4, <3>5 DEF ExpiresInv
  <2>2. ASSUME NEW id \in Ids, NEW to \in States, NEW why \in HoldReasons \cup {"stored", "note"},
               MoveStep(id, to, why)
        PROVE  Lasting(mem') /\ Lasting(disk')
    <3>1. mem[id].state \in {"accepted", "dispatching"}
      BY <2>2 DEF MoveStep, Allowed
    <3>2. Lasting(Moved(mem, id, to, why)) /\ Lasting(Withdrawn(mem, id))
      BY <2>0, <3>1, MovedContent, AlikeLasting DEF ExpiresInv
    <3>3. mem' \in {Moved(mem, id, to, why), Withdrawn(mem, id)}
          /\ disk' \in {Moved(mem, id, to, why), disk}
      BY <2>0, <2>2, StoresParts DEF MoveStep
    <3>. QED BY <3>2, <3>3 DEF ExpiresInv
  <2>3. CASE ExpireStep
    <3>1. Lasting(Expired(mem, now))
      BY <2>0, SweptContent, AlikeLasting DEF ExpiresInv
    <3>2. mem' \in {Expired(mem, now), mem} /\ disk' \in {Expired(mem, now), disk}
      BY <2>0, <2>3, StoresParts DEF ExpireStep
    <3>. QED BY <3>1, <3>2 DEF ExpiresInv
  <2>4. CASE Open
    <3>1. Lasting(Recovered(disk))
      BY <2>0, SweptContent, AlikeLasting DEF ExpiresInv
    <3>2. mem' \in {mem, disk, Recovered(disk)} /\ disk' \in {disk, Recovered(disk)}
      BY <2>4 DEF Open, Save
    <3>. QED BY <3>1, <3>2 DEF ExpiresInv
  <2>5. CASE OtherStep
    BY <2>5 DEF OtherStep, ExpiresInv
  <2>. QED BY <2>1, <2>2, <2>3, <2>4, <2>5, LedgerSteps
<1>. QED BY <1>1, <1>2, TypeCorrect, PTL DEF Spec

-----------------------------------------------------------------------------
(* What has become of a message, on a sane machine.                         *)
Fate(o) ==
  IF wrote[o] > 0 THEN "taken"
  ELSE IF Outlived(o, now) \/ mem[o].state \in Final THEN "closed"
  ELSE IF mem[o] = NoRecord THEN "new" ELSE "queued"

(* A step moves the fate of a message as the mailbox allows, or not at all. *)
LEMMA FateMoves ==
  ASSUME TypeOK, WriteInv, TrailsInv, ExpiresInv, \A o \in Ids : Worker(o), [Next]_vars,
         Sane, NEW o \in Ids
  PROVE  Fate(o)' = Fate(o) \/ <<Fate(o), Fate(o)'>> \in Mailbox!Moves
<1>0. /\ mem \in Ledgers /\ now \in Nat /\ wrote[o] \in Nat /\ machine \in Machines
      /\ ~machine.late /\ ~machine.gui /\ IssuedAt[o] + Lifetime \in Nat
  BY TellAssumption DEF TypeOK, Sane
<1>n. NoRecord.state \notin Final
  BY DEF NoRecord, Final
<1>t. now' \in Nat /\ now' >= now
  <2>1. now >= now
    BY <1>0
  <2>2. now' = now \/ OtherStep
    BY LedgerSteps DEF AcceptStep, MoveStep, ExpireStep, Open
  <2>. QED BY <1>0, <2>1, <2>2 DEF OtherStep
<1>o. Outlived(o, now) => Outlived(o, now')
  BY <1>0, <1>t, TellAssumption DEF Outlived
<1>1. CASE wrote'[o] = wrote[o]
  <2>1. CASE wrote[o] > 0
    BY <1>1, <2>1 DEF Fate
  <2>2. CASE ~(wrote[o] > 0) /\ Fate(o) = "closed"
    <3>1. Outlived(o, now) \/ (mem[o].state \in Final /\ mem[o] # NoRecord)
      BY <1>n, <2>2 DEF Fate
    <3>2. Outlived(o, now') \/ mem'[o].state \in Final
      BY <1>0, <1>o, <3>1, RecordSteps
    <3>. QED BY <1>1, <2>2, <3>2 DEF Fate
  <2>3. CASE ~(wrote[o] > 0) /\ Fate(o) = "queued"
    <3>1. mem[o] # NoRecord
      BY <2>3 DEF Fate
    <3>2. Outlived(o, now') \/ mem'[o] # NoRecord
      BY <1>0, <1>o, <3>1, RecordSteps
    <3>3. Fate(o)' \in {"closed", "queued"}
      BY <1>1, <2>3, <3>2 DEF Fate
    <3>. QED BY <2>3, <3>3 DEF Mailbox!Moves
  <2>4. CASE ~(wrote[o] > 0) /\ Fate(o) = "new"
    <3>1. Fate(o)' \in {"closed", "queued", "new"}
      BY <1>1, <2>4 DEF Fate
    <3>. QED BY <2>4, <3>1 DEF Mailbox!Moves
  <2>. QED BY <2>1, <2>2, <2>3, <2>4 DEF Fate
<1>2. CASE wrote'[o] # wrote[o]
  <2>1. Write(o)
    <3>1. OtherStep
      BY <1>2, LedgerSteps DEF AcceptStep, MoveStep, ExpireStep, Open
    <3>2. PICK id \in Ids : Write(id)
      BY <1>2, <3>1 DEF OtherStep
    <3>. QED BY <1>2, <3>2 DEF Write, TypeOK
  <2>2. wrote[o] = 0 /\ wrote'[o] = 1
    BY <1>0, <2>1 DEF Write, WriteInv, TypeOK
  <2>3. mem[o] # NoRecord /\ mem[o].state = "dispatching"
    BY <1>0, <2>1 DEF Write, Worker
  <2>4. ~Outlived(o, now)
    <3>1. mem[o].expires \in Nat /\ mem[o].expires <= IssuedAt[o] + Lifetime /\ now < mem[o].expires
      BY <1>0, <2>1, <2>3 DEF Write, ExpiresInv, Lasting, Ledgers, Record
    <3>. QED BY <1>0, <3>1 DEF Outlived
  <2>5. Fate(o) = "queued" /\ Fate(o)' = "taken"
    BY <2>2, <2>3, <2>4 DEF Fate, Final
  <2>. QED BY <2>5 DEF Mailbox!Moves
<1>. QED BY <1>1, <1>2

(* The ledger keeps the promise of TellMailbox: a message is handed over at *)
(* most once, and never after it was closed, whatever crashes, failed saves *)
(* and retries lie in between.                                              *)
THEOREM PromiseKept == Spec => KeepsPromise
<1>0. /\ Post = [id \in Ids |-> IF ~Sane THEN "new" ELSE Fate(id)]
      /\ Post' = [id \in Ids |-> IF ~Sane' THEN "new" ELSE Fate(id)']
  BY DEF Post, Fate
<1>1. Init => Mailbox!Init
  <2>. SUFFICES ASSUME Init, NEW o \in Ids PROVE Fate(o) = "new"
    BY <1>0 DEF Mailbox!Init
  <2>1. ~Outlived(o, 0)
    BY TellAssumption DEF Outlived
  <2>. QED BY <2>1 DEF Init, Fate, NoRecord, Final
<1>2. TypeOK /\ WriteInv /\ TrailsInv /\ ExpiresInv /\ (\A o \in Ids : Worker(o)) /\ [Next]_vars =>
        [Mailbox!Next]_Post
  <2>. SUFFICES ASSUME TypeOK, WriteInv, TrailsInv, ExpiresInv, \A o \in Ids : Worker(o), [Next]_vars
                PROVE  Mailbox!Next
    OBVIOUS
  <2>1. Sane' = Sane
    BY LedgerSteps DEF Sane
  <2>2. Post' \in [Ids -> {"new", "queued", "taken", "closed"}]
    BY <1>0 DEF Fate
  <2>3. ASSUME NEW o \in Ids PROVE Post[o] = Post'[o] \/ <<Post[o], Post'[o]>> \in Mailbox!Moves
    <3>1. CASE Sane
      BY <1>0, <2>1, <3>1, FateMoves
    <3>2. CASE ~Sane
      BY <1>0, <2>1, <3>2
    <3>. QED BY <3>1, <3>2
  <2>. QED BY <2>2, <2>3 DEF Mailbox!Next
<1>. QED BY <1>1, <1>2, TypeCorrect, Writes, Trailing, Expiries, Workers, PTL
     DEF Spec, KeepsPromise, Mailbox!Spec

-----------------------------------------------------------------------------
(* The ledger keeps the contract of TellWork.                               *)

(* Without late sync errors the disk holds nothing of a live id that memory *)
(* has not.                                                                 *)
Bare(o) == ~machine.late /\ mem[o] = NoRecord => disk[o] = NoRecord \/ Outlived(o, now)

(* Every step keeps memory and disk about the same ids.                     *)
LEMMA BareKept ==
  ASSUME TypeOK, TrailsInv, [Next]_vars, NEW o \in Ids, Bare(o)
  PROVE  Bare(o)'
<1>. SUFFICES ASSUME ~machine'.late, mem'[o] = NoRecord
              PROVE  disk'[o] = NoRecord \/ Outlived(o, now')
  BY DEF Bare, Outlived
<1>0. /\ mem \in Ledgers /\ disk \in Ledgers /\ now \in Nat /\ machine \in Machines
      /\ machine' = machine /\ ~machine.late /\ IssuedAt[o] + Lifetime \in Nat
  BY LedgerSteps, TellAssumption DEF TypeOK
<1>o. Outlived(o, now) => Outlived(o, now')
  <2>1. now >= now
    BY <1>0
  <2>2. now' = now \/ OtherStep
    BY LedgerSteps DEF AcceptStep, MoveStep, ExpireStep, Open
  <2>. QED BY <1>0, <2>1, <2>2 DEF OtherStep, Outlived
<1>1. CASE mem[o] # NoRecord
  BY <1>0, <1>1, <1>o, RecordSteps
<1>2. CASE mem[o] = NoRecord
  <2>0. disk[o] = NoRecord \/ Outlived(o, now)
    BY <1>0, <1>2 DEF Bare
  <2>1. ASSUME NEW id \in Ids, NEW a \in Addresses, NEW b \in Bodies, AcceptStep(id, a, b)
        PROVE  disk'[o] = NoRecord \/ Outlived(o, now)
    <3>. DEFINE kept == Pruned(mem, now)
                new  == [kept EXCEPT ![id] = NewRecord(id, a, b, now)]
    <3>1. kept[o] = NoRecord /\ kept \in Ledgers
      BY <1>0, <1>2, SweptContent, LedgerOps
    <3>2. disk' = disk \/ (disk' = new /\ mem' = new)
      BY <1>0, <2>1, StoresParts DEF AcceptStep
    <3>. HIDE DEF kept, new
    <3>. QED BY <2>0, <3>2
  <2>2. ASSUME NEW id \in Ids, NEW to \in States, NEW why \in HoldReasons \cup {"stored", "note"},
               MoveStep(id, to, why)
        PROVE  disk'[o] = NoRecord \/ Outlived(o, now)
    BY <1>0, <2>0, <2>2, StoresParts DEF MoveStep
  <2>3. CASE ExpireStep
    BY <1>0, <2>0, <2>3, StoresParts DEF ExpireStep
  <2>4. CASE Open
    <3>1. mem' = disk' \/ disk' = disk
      BY <1>0, <2>4 DEF Open, Save, Outcomes
    <3>. QED BY <1>o, <2>0, <3>1
  <2>5. CASE OtherStep
    BY <1>o, <2>0, <2>5 DEF OtherStep
  <2>. QED BY <1>o, <2>1, <2>2, <2>3, <2>4, <2>5, LedgerSteps
<1>. QED BY <1>1, <1>2

(* Memory and disk are about the same ids, in every state.                  *)
LEMMA Bares == Spec => [](\A o \in Ids : Bare(o))
<1>1. Init => \A o \in Ids : Bare(o)
  BY DEF Init, Bare
<1>2. TypeOK /\ TrailsInv /\ (\A o \in Ids : Bare(o)) /\ [Next]_vars => (\A o \in Ids : Bare(o))'
  <2>. SUFFICES ASSUME TypeOK, TrailsInv, \A o \in Ids : Bare(o), [Next]_vars, NEW o \in Ids
                PROVE  Bare(o)'
    OBVIOUS
  <2>. QED BY BareKept
<1>. QED BY <1>1, <1>2, TypeCorrect, Trailing, PTL DEF Spec

(* The receipt as a process that is up shows it, or will after its restart; *)
(* what was left under dispatch will be "uncertain" (Recovered).            *)
Shown(r, u) ==
  IF r = NoRecord THEN "new"
  ELSE IF u # "open" /\ r.state = "dispatching" THEN "uncertain" ELSE r.state

(* A message of a sane machine, as TellWork has it.  The licence of an id   *)
(* that is outlived is void, since the last check before the write looks at *)
(* the expiry.                                                              *)
ItemOf(o) ==
  [state   |-> IF Outlived(o, now) THEN "gone" ELSE Shown(mem[o], up),
   licence |-> IF Outlived(o, now) THEN "none" ELSE licence[o],
   wrote   |-> wrote[o]]

Work == [o \in Ids |-> IF Sane THEN ItemOf(o)
                       ELSE [state |-> "new", licence |-> "none", wrote |-> 0]]

Contract == INSTANCE TellWork WITH work <- Work

(* Who holds a licence, on a sane machine while the id lives.               *)
Licensed(o) == licence[o] # "none" <=> up = "open" /\ mem[o].state = "dispatching"

(* The invariants above say so.                                             *)
LEMMA LicensedNow ==
  ASSUME DispatchHasWorker, \A o \in Ids : Worker(o), Sane, NEW o \in Ids, ~Outlived(o, now)
  PROVE  Licensed(o)
BY DEF DispatchHasWorker, Worker, Sane, Licensed

(* The moves of a message whose id lives on, by what they do to its shown   *)
(* state and to its licence.                                                *)
ItemMoves(st, lic, st2, lic2) ==
  \/ st2 = st /\ lic2 = lic
  \/ st = "new" /\ st2 = "accepted" /\ lic2 = lic
  \/ st = "accepted" /\ lic = "none" /\ st2 = "failed" /\ lic2 = "none"
  \/ st = "accepted" /\ lic = "none" /\ st2 = "dispatching" /\ lic2 = "unused"
  \/ /\ st = "dispatching" /\ lic2 = "none"
     /\ \/ lic = "unused" /\ st2 \in {"accepted", "failed", "uncertain"}
        \/ lic = "used" /\ st2 \in {"submitted", "uncertain"}

(* Such a move of a message, its ageing and the write of its body are moves *)
(* of the contract.                                                         *)
LEMMA ContractMoves ==
  ASSUME NEW st, NEW lic, NEW st2, NEW lic2, NEW n
  PROVE  LET It(s, l, k) == [state |-> s, licence |-> l, wrote |-> k]
         IN /\ ItemMoves(st, lic, st2, lic2) =>
                 \/ It(st2, lic2, n) = It(st, lic, n)
                 \/ Contract!Moves(It(st, lic, n), It(st2, lic2, n))
            /\ Contract!Moves(It(st, lic, n), It("gone", "none", n))
            /\ Contract!Moves(It("dispatching", "unused", n), It("dispatching", "used", n + 1))
<1>. DEFINE It(s, l, k) == [state |-> s, licence |-> l, wrote |-> k]
<1>0. \A s, l, k : [state |-> s, licence |-> l, wrote |-> k] = It(s, l, k)
  OBVIOUS
<1>1. \A s, l, k : /\ It(s, l, k).state = s /\ It(s, l, k).licence = l /\ It(s, l, k).wrote = k
                   /\ \A t, m : Contract!Now(It(s, l, k), t, m) = It(t, m, k)
  BY DEF Contract!Now
<1>. HIDE DEF It
<1>2. Contract!Aged(It(st, lic, n), It("gone", "none", n))
  BY <1>1 DEF Contract!Aged
<1>3. Contract!Written(It("dispatching", "unused", n), It("dispatching", "used", n + 1))
  BY <1>1, <1>0 DEF Contract!Written
<1>4. ASSUME ItemMoves(st, lic, st2, lic2)
      PROVE  \/ It(st2, lic2, n) = It(st, lic, n)
             \/ Contract!Moves(It(st, lic, n), It(st2, lic2, n))
  <2>1. CASE st2 = st /\ lic2 = lic
    BY <2>1
  <2>2. CASE st = "new" /\ st2 = "accepted" /\ lic2 = lic
    BY <1>1, <2>2 DEF Contract!Moves, Contract!Queued
  <2>3. CASE st = "accepted" /\ lic = "none" /\ st2 = "failed" /\ lic2 = "none"
    BY <1>1, <2>3 DEF Contract!Moves, Contract!Closed
  <2>4. CASE st = "accepted" /\ lic = "none" /\ st2 = "dispatching" /\ lic2 = "unused"
    BY <1>1, <2>4 DEF Contract!Moves, Contract!Dispatched
  <2>5. CASE /\ st = "dispatching" /\ lic2 = "none"
             /\ \/ lic = "unused" /\ st2 \in {"accepted", "failed", "uncertain"}
                \/ lic = "used" /\ st2 \in {"submitted", "uncertain"}
    BY <1>1, <2>5 DEF Contract!Moves, Contract!Reported
  <2>. QED BY <1>4, <2>1, <2>2, <2>3, <2>4, <2>5 DEF ItemMoves
<1>5. /\ Contract!Moves(It(st, lic, n), It("gone", "none", n))
      /\ Contract!Moves(It("dispatching", "unused", n), It("dispatching", "used", n + 1))
  BY <1>2, <1>3 DEF Contract!Moves
<1>. USE DEF It
<1>. QED BY <1>4, <1>5

(* Every step that writes nothing makes one of them.                        *)
LEMMA LedgerMoves ==
  ASSUME TypeOK, TypeOK', TrailsInv, [Next]_vars, Sane, NEW o \in Ids, Bare(o),
         Licensed(o), Licensed(o)', ~Outlived(o, now), ~Outlived(o, now'), ~Write(o)
  PROVE  ItemMoves(Shown(mem[o], up), licence[o], Shown(mem'[o], up'), licence'[o])
<1>. DEFINE Goal == ItemMoves(Shown(mem[o], up), licence[o], Shown(mem'[o], up'), licence'[o])
<1>0. /\ mem \in Ledgers /\ disk \in Ledgers /\ now \in Nat /\ machine \in Machines
      /\ ~machine.late /\ ~machine.gui /\ licence[o] \in {"none", "unused", "used"}
      /\ licence'[o] \in {"none", "unused", "used"}
  BY DEF TypeOK, Sane
<1>n. /\ NoRecord.state = "absent" /\ "absent" \notin States
      /\ \A l \in Ledgers : l[o] # NoRecord => l[o].state \in States
  BY DEF NoRecord, States, Final, Ledgers, Record
<1>l. Licensed(o) /\ (licence'[o] # "none" <=> up' = "open" /\ mem'[o].state = "dispatching")
  BY DEF Licensed
<1>1. ASSUME NEW id \in Ids, NEW a \in Addresses, NEW b \in Bodies, AcceptStep(id, a, b)
      PROVE  Goal
  <2>. DEFINE kept == Pruned(mem, now)
              new  == [kept EXCEPT ![id] = NewRecord(id, a, b, now)]
  <2>1. kept[o] = mem[o] /\ kept \in Ledgers
    BY <1>0, SweptContent, LedgerOps
  <2>2. mem' \in {kept, new} /\ UNCHANGED <<up, licence>>
    BY <1>0, <1>1, StoresParts DEF AcceptStep
  <2>3. mem'[o] = mem[o] \/ (o = id /\ mem'[o] = NewRecord(id, a, b, now))
    BY <2>1, <2>2 DEF Ledgers
  <2>4. CASE mem'[o] = mem[o]
    BY <2>2, <2>4 DEF ItemMoves
  <2>5. CASE o = id /\ mem'[o] = NewRecord(id, a, b, now)
    <3>1. Shown(mem[o], up) = "new"
      BY <1>1, <2>5 DEF AcceptStep, Shown
    <3>2. mem'[o].state = "accepted"
      BY <2>5 DEF NewRecord
    <3>3. Shown(mem'[o], up') = "accepted"
      BY <1>n, <3>2 DEF Shown
    <3>. QED BY <2>2, <3>1, <3>3 DEF ItemMoves
  <2>. QED BY <2>3, <2>4, <2>5
<1>2. ASSUME NEW id \in Ids, NEW to \in States, NEW why \in HoldReasons \cup {"stored", "note"},
             MoveStep(id, to, why)
      PROVE  Goal
  <2>1. /\ mem[id].state \in {"accepted", "dispatching"} /\ up' = up /\ up = "open"
        /\ mem[id] # NoRecord
    BY <1>2, <1>n DEF MoveStep, Allowed
  <2>2. /\ Alike(mem[o], Moved(mem, id, to, why)[o]) /\ Alike(mem[o], Withdrawn(mem, id)[o])
        /\ Moved(mem, id, to, why)[o].state = IF o = id THEN to ELSE mem[o].state
        /\ Withdrawn(mem, id)[o].state =
              IF o = id /\ mem[id].state = "dispatching" THEN "uncertain" ELSE mem[o].state
    BY <1>0, <2>1, MovedContent
  <2>3. mem' \in {Moved(mem, id, to, why), Withdrawn(mem, id)}
    BY <1>0, <1>2, StoresParts DEF MoveStep
  <2>4. CASE o # id
    <3>1. mem'[o].state = mem[o].state /\ (mem'[o] = NoRecord <=> mem[o] = NoRecord)
      BY <2>2, <2>3, <2>4 DEF Alike
    <3>2. licence'[o] = licence[o]
      BY <1>2, <2>4 DEF MoveStep
    <3>. QED BY <2>1, <3>1, <3>2 DEF ItemMoves, Shown
  <2>5. CASE o = id
    <3>1. /\ Shown(mem[o], up) = mem[o].state /\ Shown(mem'[o], up') = mem'[o].state
          /\ mem'[o].state \in {to, IF mem[o].state = "dispatching" THEN "uncertain" ELSE mem[o].state}
      BY <2>1, <2>2, <2>3, <2>5 DEF Shown, Alike
    <3>2. licence'[o] # "used" /\ Allowed(mem[o].state, to)
      BY <1>0, <1>2, <2>5 DEF MoveStep
    <3>3. CASE mem[o].state = "accepted"
      <4>1. licence[o] = "none" /\ to \in {"dispatching", "failed"}
        BY <1>l, <3>2, <3>3 DEF Licensed, Allowed
      <4>2. mem'[o].state \in {"dispatching", "failed", "accepted"}
        BY <3>1, <3>3, <4>1
      <4>3. licence'[o] = IF mem'[o].state = "dispatching" THEN "unused" ELSE "none"
        BY <1>0, <1>l, <2>1, <3>2
      <4>. QED BY <3>1, <3>3, <4>1, <4>2, <4>3 DEF ItemMoves
    <3>4. CASE mem[o].state = "dispatching"
      <4>1. licence[o] # "none" /\ to \in Final \cup {"accepted"}
        BY <1>l, <2>1, <3>2, <3>4 DEF Licensed, Allowed
      <4>2. mem'[o].state \in {to, "uncertain"}
        BY <3>1, <3>4
      <4>3. licence'[o] = "none"
        BY <1>l, <4>1, <4>2 DEF Final
      <4>4. /\ to \in {"failed", "accepted"} => licence[o] = "unused"
            /\ to = "submitted" => licence[o] = "used"
        BY <1>0, <1>2, <2>5, <3>4 DEF MoveStep
      <4>. QED BY <1>0, <3>1, <3>4, <4>1, <4>2, <4>3, <4>4 DEF ItemMoves, Final
    <3>. QED BY <2>1, <2>5, <3>3, <3>4
  <2>. QED BY <2>4, <2>5
<1>3. CASE ExpireStep
  <2>1. mem' \in {Expired(mem, now), mem} /\ UNCHANGED <<up, licence>> /\ up = "open"
    BY <1>0, <1>3, StoresParts DEF ExpireStep
  <2>2. /\ Alike(mem[o], Expired(mem, now)[o])
        /\ Expired(mem, now)[o].state \in {mem[o].state, "failed"}
        /\ mem[o].state # "accepted" => Expired(mem, now)[o].state = mem[o].state
    BY <1>0, SweptContent
  <2>3. /\ mem'[o] = NoRecord <=> mem[o] = NoRecord
        /\ mem'[o].state = mem[o].state \/ (mem[o].state = "accepted" /\ mem'[o].state = "failed")
    BY <2>1, <2>2 DEF Alike
  <2>4. CASE mem'[o].state = mem[o].state
    BY <2>1, <2>3, <2>4 DEF ItemMoves, Shown
  <2>5. CASE mem[o].state = "accepted" /\ mem'[o].state = "failed"
    <3>1. Shown(mem[o], up) = "accepted" /\ Shown(mem'[o], up') = "failed"
      BY <1>n, <2>1, <2>5 DEF Shown
    <3>2. licence[o] = "none" /\ licence'[o] = "none"
      BY <1>l, <2>1, <2>5 DEF Licensed
    <3>. QED BY <3>1, <3>2 DEF ItemMoves
  <2>. QED BY <2>3, <2>4, <2>5
<1>4. CASE Open
  <2>1. /\ up = "down" /\ licence' = licence
        /\ \/ mem' = mem /\ up' # "open"
           \/ mem' = disk /\ Recovered(disk) = disk
           \/ mem' = Recovered(disk)
    BY <1>0, <1>4 DEF Open, Save, Outcomes
  <2>2. /\ Alike(disk[o], Recovered(disk)[o])
        /\ Recovered(disk)[o].state =
              IF disk[o].state = "dispatching" THEN "uncertain" ELSE disk[o].state
    BY <1>0, SweptContent
  <2>3. Trails(o) /\ (mem[o] = NoRecord => disk[o] = NoRecord)
    BY <1>0 DEF TrailsInv, Bare
  <2>4. CASE mem' = mem /\ up' # "open"
    BY <2>1, <2>4 DEF ItemMoves, Shown
  <2>5. CASE (mem' = disk /\ Recovered(disk) = disk) \/ mem' = Recovered(disk)
    <3>1. mem'[o] = Recovered(disk)[o]
      BY <2>5
    <3>2. mem'[o] = NoRecord <=> disk[o] = NoRecord
      BY <2>2, <3>1 DEF Alike
    <3>3. mem'[o].state = IF disk[o].state = "dispatching" THEN "uncertain" ELSE disk[o].state
      BY <2>2, <3>1
    <3>4. mem[o] # NoRecord => disk[o] # NoRecord
      BY <1>0, <1>n, <2>3 DEF Trails, States, Final
    <3>5. Shown(mem'[o], up') = Shown(mem[o], up)
      <4>1. CASE mem[o] = NoRecord
        BY <2>3, <3>2, <4>1 DEF Shown
      <4>2. CASE mem[o] # NoRecord
        BY <2>1, <2>3, <3>2, <3>3, <3>4, <4>2 DEF Shown, Trails
      <4>. QED BY <4>1, <4>2
    <3>. QED BY <2>1, <3>5 DEF ItemMoves
  <2>. QED BY <2>1, <2>4, <2>5
<1>5. CASE OtherStep
  <2>1. mem'[o] = mem[o] /\ up' \in {up, "down"} /\ licence'[o] \in {licence[o], "none"}
    BY <1>5 DEF OtherStep
  <2>2. CASE up' = up
    <3>1. licence'[o] = licence[o]
      BY <1>l, <2>1, <2>2 DEF Licensed
    <3>. QED BY <2>1, <2>2, <3>1 DEF ItemMoves
  <2>3. CASE up' # up
    <3>1. up' = "down" /\ licence'[o] = "none"
      BY <1>l, <2>1, <2>3
    <3>2. CASE mem[o].state = "dispatching" /\ up = "open"
      <4>1. licence[o] \in {"unused", "used"}
        BY <1>0, <1>l, <3>2 DEF Licensed
      <4>2. Shown(mem[o], up) = "dispatching" /\ Shown(mem'[o], up') = "uncertain"
        BY <1>n, <2>1, <3>1, <3>2 DEF Shown
      <4>. QED BY <3>1, <4>1, <4>2 DEF ItemMoves
    <3>3. CASE ~(mem[o].state = "dispatching" /\ up = "open")
      <4>1. licence[o] = "none"
        BY <1>l, <3>3 DEF Licensed
      <4>2. Shown(mem[o], up) = Shown(mem'[o], up')
        BY <2>1, <3>1, <3>3 DEF Shown
      <4>. QED BY <3>1, <4>1, <4>2 DEF ItemMoves
    <3>. QED BY <3>2, <3>3
  <2>. QED BY <2>2, <2>3
<1>. QED BY <1>1, <1>2, <1>3, <1>4, <1>5, LedgerSteps

(* A step of the ledger is a step of the contract for every message.        *)
LEMMA ItemSteps ==
  ASSUME TypeOK, TypeOK', WriteInv, TrailsInv, ExpiresInv, DispatchHasWorker, DispatchHasWorker',
         \A o \in Ids : Worker(o), \A o \in Ids : Worker(o)', \A o \in Ids : Bare(o),
         [Next]_vars, Sane, NEW o \in Ids
  PROVE  ItemOf(o)' = ItemOf(o) \/ Contract!Moves(ItemOf(o), ItemOf(o)')
<1>0. /\ mem \in Ledgers /\ now \in Nat /\ now' \in Nat /\ wrote[o] \in Nat
      /\ ~machine.late /\ ~machine.gui /\ IssuedAt[o] + Lifetime \in Nat /\ Sane'
  BY LedgerSteps, TellAssumption DEF TypeOK, Sane
<1>t. now' >= now
  <2>1. now >= now
    BY <1>0
  <2>2. now' = now \/ OtherStep
    BY LedgerSteps DEF AcceptStep, MoveStep, ExpireStep, Open
  <2>. QED BY <1>0, <2>1, <2>2 DEF OtherStep
<1>o. Outlived(o, now) => Outlived(o, now')
  BY <1>0, <1>t DEF Outlived
<1>w. wrote'[o] = wrote[o] \/ Write(o)
  <2>1. ASSUME wrote'[o] # wrote[o] PROVE Write(o)
    <3>1. OtherStep
      BY <2>1, LedgerSteps DEF AcceptStep, MoveStep, ExpireStep, Open
    <3>2. PICK id \in Ids : Write(id)
      BY <2>1, <3>1 DEF OtherStep
    <3>. QED BY <2>1, <3>2 DEF Write, TypeOK
  <2>. QED BY <2>1
<1>1. CASE Write(o)
  <2>1. /\ mem'[o] = mem[o] /\ up' = up /\ now' = now /\ licence[o] = "unused"
        /\ licence'[o] = "used" /\ wrote'[o] = wrote[o] + 1 /\ mem[o] # NoRecord
    BY <1>1 DEF Write, TypeOK
  <2>2. mem[o].state = "dispatching" /\ up = "open"
    BY <1>0, <2>1 DEF Worker
  <2>3. ~Outlived(o, now)
    <3>1. mem[o].expires \in Nat /\ mem[o].expires <= IssuedAt[o] + Lifetime /\ now < mem[o].expires
      BY <1>0, <1>1, <2>1 DEF Write, ExpiresInv, Lasting, Ledgers, Record
    <3>. QED BY <1>0, <3>1 DEF Outlived
  <2>4. /\ ItemOf(o) = [state |-> "dispatching", licence |-> "unused", wrote |-> wrote[o]]
        /\ ItemOf(o)' = [state |-> "dispatching", licence |-> "used", wrote |-> wrote[o] + 1]
    BY <2>1, <2>2, <2>3 DEF ItemOf, Shown, Outlived
  <2>. QED BY <2>4, ContractMoves
<1>2. CASE ~Write(o) /\ Outlived(o, now')
  <2>1. ItemOf(o)' = [state |-> "gone", licence |-> "none", wrote |-> wrote[o]]
    BY <1>2, <1>w DEF ItemOf
  <2>2. PICK st, lic : ItemOf(o) = [state |-> st, licence |-> lic, wrote |-> wrote[o]]
    BY DEF ItemOf
  <2>. QED BY <2>1, <2>2, ContractMoves
<1>3. CASE ~Write(o) /\ ~Outlived(o, now')
  <2>1. ~Outlived(o, now) /\ wrote'[o] = wrote[o]
    BY <1>3, <1>o, <1>w
  <2>2. PICK st, lic, st2, lic2 : /\ st = Shown(mem[o], up) /\ lic = licence[o]
                                  /\ st2 = Shown(mem'[o], up') /\ lic2 = licence'[o]
    OBVIOUS
  <2>3. /\ ItemOf(o) = [state |-> st, licence |-> lic, wrote |-> wrote[o]]
        /\ ItemOf(o)' = [state |-> st2, licence |-> lic2, wrote |-> wrote[o]]
    BY <1>3, <2>1, <2>2 DEF ItemOf
  <2>4. Licensed(o) /\ Licensed(o)'
    <3>1. Licensed(o)
      BY <2>1, LicensedNow
    <3>2. licence'[o] # "none" <=> up' = "open" /\ mem'[o].state = "dispatching"
      BY <1>0, <1>3 DEF DispatchHasWorker, Worker, Sane
    <3>. QED BY <3>1, <3>2 DEF Licensed
  <2>5. ItemMoves(st, lic, st2, lic2)
    BY <1>3, <2>1, <2>2, <2>4, LedgerMoves
  <2>. QED BY <2>3, <2>5, ContractMoves
<1>. QED BY <1>1, <1>2, <1>3

(* The ledger of a sane machine keeps the contract of TellWork: whatever    *)
(* crashes, failed saves, prunings and retries lie in between, a message    *)
(* moves only as the worker that holds its licence may report.              *)
THEOREM LedgerKeepsContract == Spec => Contract!WorkSpec
<1>1. Init => Contract!WorkInit
  <2>. SUFFICES ASSUME Init, NEW o \in Ids, Sane
                PROVE  ItemOf(o) = [state |-> "new", licence |-> "none", wrote |-> 0]
    BY DEF Contract!WorkInit, Work
  <2>1. ~Outlived(o, 0)
    BY TellAssumption DEF Outlived
  <2>. QED BY <2>1 DEF Init, ItemOf, Shown
<1>2. /\ TypeOK /\ TypeOK' /\ WriteInv /\ TrailsInv /\ ExpiresInv
      /\ DispatchHasWorker /\ DispatchHasWorker'
      /\ (\A o \in Ids : Worker(o)) /\ (\A o \in Ids : Worker(o))'
      /\ (\A o \in Ids : Bare(o)) /\ [Next]_vars
      => [Contract!WorkNext]_Work
  <2>. SUFFICES ASSUME TypeOK, TypeOK', WriteInv, TrailsInv, ExpiresInv,
                       DispatchHasWorker, DispatchHasWorker', \A o \in Ids : Worker(o),
                       \A o \in Ids : Worker(o)', \A o \in Ids : Bare(o), [Next]_vars
                PROVE  Contract!WorkNext
    OBVIOUS
  <2>1. Sane' = Sane
    BY LedgerSteps DEF Sane
  <2>2. ASSUME NEW o \in Ids PROVE ItemOf(o)' \in Contract!Item
    <3>1. mem'[o] # NoRecord => mem'[o].state \in States
      BY DEF TypeOK, Ledgers, Record, NoRecord
    <3>2. Shown(mem'[o], up') \in States \cup {"new"}
      BY <3>1 DEF Shown, States, Final
    <3>3. wrote'[o] \in Nat /\ licence'[o] \in {"none", "unused", "used"}
      BY DEF TypeOK
    <3>. QED BY <3>2, <3>3 DEF ItemOf, Contract!Item, Contract!States, States, Contract!Final, Final
  <2>3. Work' \in [Ids -> Contract!Item]
    <3>1. [state |-> "new", licence |-> "none", wrote |-> 0] \in Contract!Item
      BY DEF Contract!Item
    <3>. QED BY <2>2, <3>1 DEF Work
  <2>4. ASSUME NEW o \in Ids PROVE Work'[o] = Work[o] \/ Contract!Moves(Work[o], Work'[o])
    <3>1. CASE Sane
      <4>1. Work[o] = ItemOf(o) /\ Work'[o] = ItemOf(o)'
        BY <2>1, <3>1 DEF Work
      <4>2. ItemOf(o)' = ItemOf(o) \/ Contract!Moves(ItemOf(o), ItemOf(o)')
        BY <3>1, ItemSteps
      <4>. QED BY <4>1, <4>2
    <3>2. CASE ~Sane
      BY <2>1, <3>2 DEF Work
    <3>. QED BY <3>1, <3>2
  <2>. QED BY <2>3, <2>4 DEF Contract!WorkNext
<1>. QED BY <1>1, <1>2, TypeCorrect, Writes, Trailing, Expiries, NoOrphanDispatch, Workers, Bares, PTL
     DEF Spec, Contract!WorkSpec

-----------------------------------------------------------------------------
(* The contract is enough: whatever ledger and workers keep it, the promise *)
(* to the sender is kept.                                                   *)
VARIABLE work

Any == INSTANCE TellWork

(* What the contract lets become of a message.                              *)
Usual(w) ==
  /\ w \in Any!Item
  /\ w.state \in {"new", "accepted", "failed"} => w.licence = "none" /\ w.wrote = 0
  /\ w.state = "dispatching" => \/ w.licence = "unused" /\ w.wrote = 0
                                \/ w.licence = "used" /\ w.wrote = 1
  /\ w.state = "submitted" => w.licence = "none" /\ w.wrote = 1
  /\ w.state \in {"uncertain", "gone"} => w.licence = "none" /\ w.wrote \in {0, 1}

(* A move of the contract leaves a usual message usual, and moves its fate  *)
(* as the mailbox allows.                                                   *)
LEMMA UsualMoves ==
  ASSUME NEW w, NEW v \in Any!Item, Usual(w), Any!Moves(w, v)
  PROVE  /\ Usual(v)
         /\ \/ Any!WorkFate(v) = Any!WorkFate(w)
            \/ <<Any!WorkFate(w), Any!WorkFate(v)>> \in Any!Promise!Moves
<1>. DEFINE Goal == /\ Usual(v)
                    /\ \/ Any!WorkFate(v) = Any!WorkFate(w)
                       \/ <<Any!WorkFate(w), Any!WorkFate(v)>> \in Any!Promise!Moves
<1>0. /\ w \in Any!Item
      /\ w.state \in {"accepted", "dispatching", "submitted", "failed", "uncertain", "new", "gone"}
      /\ w.licence \in {"none", "unused", "used"} /\ w.wrote \in {0, 1}
      /\ v.state \in {"accepted", "dispatching", "submitted", "failed", "uncertain", "new", "gone"}
  BY DEF Usual, Any!Item, Any!States, Any!Final
<1>n. \A s, l : /\ Any!Now(w, s, l).state = s /\ Any!Now(w, s, l).licence = l
                /\ Any!Now(w, s, l).wrote = w.wrote
  BY DEF Any!Now
<1>1. CASE Any!Queued(w, v)
  BY <1>0, <1>1, <1>n DEF Any!Queued, Usual, Any!WorkFate, Any!Promise!Moves, Any!Final
<1>2. CASE Any!Closed(w, v)
  BY <1>0, <1>2, <1>n DEF Any!Closed, Usual, Any!WorkFate, Any!Promise!Moves, Any!Final
<1>3. CASE Any!Dispatched(w, v)
  BY <1>0, <1>3, <1>n DEF Any!Dispatched, Usual, Any!WorkFate, Any!Promise!Moves, Any!Final
<1>4. CASE Any!Written(w, v)
  BY <1>0, <1>4 DEF Any!Written, Usual, Any!WorkFate, Any!Promise!Moves, Any!Final
<1>5. CASE Any!Reported(w, v)
  BY <1>0, <1>5, <1>n DEF Any!Reported, Usual, Any!WorkFate, Any!Promise!Moves, Any!Final
<1>6. CASE Any!Aged(w, v)
  BY <1>0, <1>6, <1>n DEF Any!Aged, Usual, Any!WorkFate, Any!Promise!Moves, Any!Final
<1>. QED BY <1>1, <1>2, <1>3, <1>4, <1>5, <1>6 DEF Any!Moves

(* The contract of TellWork implies what it is for: at most one write of    *)
(* each body, receipts that say whether it was written, and the promise of  *)
(* TellMailbox.                                                             *)
THEOREM ContractSuffices == Any!WorkSpec => []Any!HonestWork /\ Any!KeepsMailbox
<1>. DEFINE AllUsual == \A id \in Ids : Usual(work[id])
<1>1. Any!WorkInit => AllUsual /\ Any!Promise!Init
  BY DEF Any!WorkInit, Usual, Any!Item, Any!States, Any!Final, Any!WorkFate, Any!Promise!Init
<1>2. AllUsual /\ [Any!WorkNext]_work =>
        AllUsual' /\ [Any!Promise!Next]_([id \in Ids |-> Any!WorkFate(work[id])])
  <2>1. CASE UNCHANGED work
    BY <2>1
  <2>2. CASE Any!WorkNext
    <3>. SUFFICES ASSUME AllUsual
                  PROVE  AllUsual' /\ Any!Promise!Next
      OBVIOUS
    <3>1. ASSUME NEW id \in Ids
          PROVE  /\ Usual(work'[id])
                 /\ \/ Any!WorkFate(work[id]) = Any!WorkFate(work'[id])
                    \/ <<Any!WorkFate(work[id]), Any!WorkFate(work'[id])>> \in Any!Promise!Moves
      BY <2>2, UsualMoves DEF Any!WorkNext
    <3>2. \A w : Any!WorkFate(w) \in {"new", "queued", "taken", "closed"}
      BY DEF Any!WorkFate
    <3>. QED BY <3>1, <3>2 DEF Any!Promise!Next
  <2>. QED BY <2>1, <2>2
<1>3. AllUsual => Any!HonestWork
  <2>. SUFFICES ASSUME NEW id \in Ids, Usual(work[id])
                PROVE  /\ work[id].wrote <= 1
                       /\ work[id].state = "submitted" => work[id].wrote = 1
                       /\ work[id].state \in {"new", "accepted", "failed"} => work[id].wrote = 0
    BY DEF Any!HonestWork
  <2>1. work[id].state \in {"accepted", "dispatching", "submitted", "failed", "uncertain",
                           "new", "gone"}
    BY DEF Usual, Any!Item, Any!States, Any!Final
  <2>. QED BY <2>1 DEF Usual
<1>. QED BY <1>1, <1>2, <1>3, PTL DEF Any!WorkSpec, Any!KeepsMailbox, Any!Promise!Spec
=============================================================================
