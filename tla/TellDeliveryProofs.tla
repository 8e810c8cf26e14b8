------------------------- MODULE TellDeliveryProofs -------------------------
(* Proofs about TellDelivery for any messages, panes and addresses, any     *)
(* policy, harness, GUI and drawing speed.                                  *)
EXTENDS TellDelivery, TellScheduler, TLAPS, FiniteSetTheorems

Receipts == States \cup {"absent"}
Texts    == SUBSET (Ids \cup {User})
Turn     == [id: Ids, box: Texts, live: BOOLEAN]

(* The input gate of a pane stays a gate under every key, and letting go of *)
(* the input holds nothing back.                                            *)
LEMMA GateValues ==
  ASSUME NEW g \in Pty
  PROVE  /\ Entered(g) \in Pty /\ Typed(g) \in Pty /\ StashKey(g) \in Pty
         /\ \A key : Keyed(g, key) \in Pty
         /\ \A id \in Ids : Pasted(g, id) \in Pty
         /\ Released(g) \in Pty /\ Released(g).hold = "none"
<1>1. \A h \in Pty : Entered(h) \in Pty /\ Entered(h).hold = h.hold
  BY DEF Entered, Pty
<1>2. \A h \in Pty : Typed(h) \in Pty /\ Typed(h).hold = h.hold
  BY DEF Typed, Pty
<1>3. \A h \in Pty : StashKey(h) \in Pty /\ StashKey(h).hold = h.hold
  BY DEF StashKey, Pty
<1>4. \A h \in Pty : \A key : Keyed(h, key) \in Pty /\ Keyed(h, key).hold = h.hold
  BY <1>1, <1>2, <1>3 DEF Keyed
<1>5. [g EXCEPT !.hold = "none", !.buf = "none"] \in Pty
      /\ [g EXCEPT !.hold = "none", !.buf = "none"].hold = "none"
  BY DEF Pty
<1>6. Released(g) \in Pty /\ Released(g).hold = "none"
  BY <1>4, <1>5 DEF Released
<1>7. \A id \in Ids : Pasted(g, id) \in Pty
  BY DEF Pasted, Pty
<1>. QED BY <1>1, <1>2, <1>3, <1>4, <1>6, <1>7

(* Counting what a turn takes along keeps a count for every message.        *)
LEMMA CountValues ==
  ASSUME sent \in [Ids -> Nat]
  PROVE  /\ \A g : Counted(g) \in [Ids -> Nat]
         /\ \A was \in [Ids -> Nat] : \A g : FlushCounted(g, was) \in [Ids -> Nat]
<1>1. ASSUME NEW g PROVE Counted(g) \in [Ids -> Nat]
  BY DEF Counted
<1>2. ASSUME NEW g, NEW was \in [Ids -> Nat] PROVE FlushCounted(g, was) \in [Ids -> Nat]
  <2>1. [id \in Ids |-> IF id \in g.box THEN was[id] + 1 ELSE was[id]] \in [Ids -> Nat]
    OBVIOUS
  <2>. QED BY <2>1 DEF FlushCounted
<1>. QED BY <1>1, <1>2

(* Writes of others, new deliveries and ended ones are deliveries still.    *)
LEMMA JobValues ==
  /\ \A js \in SUBSET Job : \A p : Touched(js, p) \subseteq Job
  /\ \A id \in Ids : /\ NewJob(id) \in Job /\ NewJob(id).id = id
                     /\ NewJob(id).stage = "proving" /\ NewJob(id).proof = "none"
                     /\ ~NewJob(id).stashed /\ ~NewJob(id).written
  /\ \A j \in Job : \A to \in Final \cup {"accepted"} :
       /\ Finishing(j, to) \in Job /\ Finishing(j, to).id = j.id
       /\ Finishing(j, to).stage = "finishing" /\ Finishing(j, to).to = to
       /\ Finishing(j, to).proof = "none" /\ ~Finishing(j, to).same
       /\ ~Finishing(j, to).stashed /\ ~Finishing(j, to).written
<1>1. \A js \in SUBSET Job : \A p : Touched(js, p) \subseteq Job
  BY DEF Touched, Job
<1>2. \A id \in Ids : /\ NewJob(id) \in Job /\ NewJob(id).id = id
                      /\ NewJob(id).stage = "proving" /\ NewJob(id).proof = "none"
                      /\ ~NewJob(id).stashed /\ ~NewJob(id).written
  <2>. SUFFICES ASSUME NEW id \in Ids
                PROVE  /\ NewJob(id) \in Job /\ NewJob(id).id = id
                       /\ NewJob(id).stage = "proving" /\ NewJob(id).proof = "none"
                       /\ ~NewJob(id).stashed /\ ~NewJob(id).written
    OBVIOUS
  <2>1. NewJob(id) \in Job
    BY DEF NewJob, Job
  <2>. QED BY <2>1 DEF NewJob
<1>3. ASSUME NEW j \in Job, NEW to \in Final \cup {"accepted"}
      PROVE  /\ Finishing(j, to) \in Job /\ Finishing(j, to).id = j.id
             /\ Finishing(j, to).stage = "finishing" /\ Finishing(j, to).to = to
             /\ Finishing(j, to).proof = "none" /\ ~Finishing(j, to).same
             /\ ~Finishing(j, to).stashed /\ ~Finishing(j, to).written
  <2>1. j.id \in Ids
    BY DEF Job
  <2>2. NewJob(j.id) \in Job
    BY <2>1, <1>2
  <2>3. [NewJob(j.id) EXCEPT !.stage = "finishing", !.same = FALSE, !.to = to] \in Job
    BY <2>2 DEF Job
  <2>. QED BY <2>1, <2>3 DEF Finishing, NewJob
<1>. QED BY <1>1, <1>2, <1>3

(* A delivery and its pane.                                                 *)
LEMMA Addressed ==
  ASSUME TypeOK, NEW j \in jobs
  PROVE  /\ j \in Job /\ j.id \in Ids /\ At(j) \in Panes /\ At(j) = PaneOf[j.id]
         /\ pty[At(j)] \in Pty /\ live[At(j)] \in BOOLEAN
         /\ receipt[j.id] \in Receipts
<1>1. j \in Job /\ j.id \in Ids
  BY DEF TypeOK, Job
<1>2. At(j) \in Panes /\ At(j) = PaneOf[j.id]
  BY <1>1, DeliveryAssumption DEF At
<1>. QED BY <1>1, <1>2 DEF TypeOK, Receipts

(* Letting go of the input keeps the types of the gates and the deliveries. *)
LEMMA LetGoTyped ==
  ASSUME TypeOK, NEW p \in Panes, NEW pre \in Pty, NEW js \in SUBSET Job, LetGo(p, pre, js)
  PROVE  pty' \in [Panes -> Pty] /\ jobs' \in SUBSET Job
<1>1. Released(pre) \in Pty
  BY GateValues
<1>. QED BY <1>1, JobValues DEF LetGo, TypeOK

(* The steps of a pane alone, as an edit of its gate.                       *)
Edit(p, g) == g \in Pty /\ pty' = [pty EXCEPT ![p] = g]

(* Where agents draw in time, a screen that the gate trusts is up to date:  *)
(* an empty box is empty, and without "> stashed" nothing is put away.      *)
Drawn(g) == ~SlowDraw /\ ~g.typing =>
  /\ g.shown = {} => g.box = {}
  /\ ~g.stashed => g.stash = {}

(* An edit that leaves the box, the draft put away and the hold's end.      *)
Still(p, g) == /\ Edit(p, g) /\ g.box = pty[p].box /\ g.stash = pty[p].stash
               /\ Drawn(pty[p]) => Drawn(g)
               /\ pty[p].hold = "none" => g.hold = "none"

(* Held keys that expire, a drawing and an old draft mark write nothing.    *)
LEMMA Stills ==
  ASSUME TypeOK, NEW p \in Panes, HoldExpires(p) \/ Draw(p) \/ TrustEnds(p)
  PROVE  \E g : Still(p, g)
<1>. DEFINE g0 == pty[p]
<1>0. pty \in [Panes -> Pty] /\ g0 \in Pty
  BY DEF TypeOK
<1>1. CASE HoldExpires(p)
  <2>1. PICK g : g = [g0 EXCEPT !.hold = "expired"]
    OBVIOUS
  <2>2. /\ g \in Pty /\ g.box = g0.box /\ g.stash = g0.stash /\ g.shown = g0.shown
        /\ g.stashed = g0.stashed /\ g.typing = g0.typing
    BY <1>0, <2>1 DEF Pty
  <2>3. pty' = [pty EXCEPT ![p] = g] /\ g0.hold # "none"
    BY <1>1, <2>1 DEF HoldExpires
  <2>. QED BY <2>2, <2>3 DEF Still, Edit, Drawn
<1>2. CASE Draw(p)
  <2>1. PICK g : g = [g0 EXCEPT !.shown = g0.box, !.stashed = (g0.stash # {}),
                                !.typing = FALSE]
    OBVIOUS
  <2>2. /\ g \in Pty /\ g.box = g0.box /\ g.stash = g0.stash /\ g.shown = g.box
        /\ g.stashed = (g0.stash # {}) /\ g.hold = g0.hold
    BY <1>0, <2>1 DEF Pty
  <2>3. pty' = [pty EXCEPT ![p] = g]
    BY <1>0, <1>2, <2>1 DEF Draw, Pty
  <2>. QED BY <2>2, <2>3 DEF Still, Edit, Drawn
<1>3. CASE TrustEnds(p)
  <2>1. PICK g : g = [g0 EXCEPT !.typing = FALSE]
    OBVIOUS
  <2>2. /\ g \in Pty /\ g.box = g0.box /\ g.stash = g0.stash /\ g.hold = g0.hold
    BY <1>0, <2>1 DEF Pty
  <2>3. pty' = [pty EXCEPT ![p] = g] /\ SlowDraw
    BY <1>3, <2>1 DEF TrustEnds
  <2>. QED BY <2>2, <2>3 DEF Still, Edit, Drawn
<1>. QED BY <1>1, <1>2, <1>3

(* Closing may clear the box; another conversation starts with nothing.     *)
LEMMA Clearings ==
  ASSUME TypeOK, NEW p \in Panes
  PROVE  /\ SetClosed(p) =>
              \E g : /\ Edit(p, g) /\ g.box \in {pty[p].box, {}} /\ g.stash = pty[p].stash
                     /\ g.hold = pty[p].hold /\ (Drawn(pty[p]) => Drawn(g))
         /\ Replace(p) =>
              \E g : /\ Edit(p, g) /\ g.box = {} /\ g.stash = {} /\ g.hold = pty[p].hold
                     /\ Drawn(g)
<1>. DEFINE g0 == pty[p]
<1>0. pty \in [Panes -> Pty] /\ g0 \in Pty
  BY DEF TypeOK
<1>1. ASSUME SetClosed(p)
      PROVE  \E g : /\ Edit(p, g) /\ g.box \in {g0.box, {}} /\ g.stash = g0.stash
                    /\ g.hold = g0.hold /\ (Drawn(g0) => Drawn(g))
  <2>1. PICK box \in {g0.box, {}} : pty' = [pty EXCEPT ![p].closed = ~@, ![p].box = box]
    BY <1>1 DEF SetClosed
  <2>2. PICK g : g = [g0 EXCEPT !.closed = ~@, !.box = box]
    OBVIOUS
  <2>3. /\ g \in Pty /\ g.box = box /\ g.stash = g0.stash /\ g.hold = g0.hold
        /\ g.shown = g0.shown /\ g.stashed = g0.stashed /\ g.typing = g0.typing
    BY <1>0, <2>2 DEF Pty
  <2>4. pty' = [pty EXCEPT ![p] = g]
    BY <1>0, <2>1, <2>2 DEF Pty
  <2>. QED BY <2>3, <2>4 DEF Edit, Drawn
<1>2. ASSUME Replace(p)
      PROVE  \E g : /\ Edit(p, g) /\ g.box = {} /\ g.stash = {} /\ g.hold = g0.hold
                    /\ Drawn(g)
  <2>1. PICK g : g = [g0 EXCEPT !.box = {}, !.stash = {}]
    OBVIOUS
  <2>2. g \in Pty /\ g.box = {} /\ g.stash = {} /\ g.hold = g0.hold
    BY <1>0, <2>1 DEF Pty
  <2>3. pty' = [pty EXCEPT ![p] = g]
    BY <1>0, <1>2, <2>1 DEF Replace, Pty
  <2>. QED BY <2>2, <2>3 DEF Edit, Drawn
<1>. QED BY <1>1, <1>2

(* The key a person's key turns into: itself, or the one that waits.        *)
LEMMA FirstKey ==
  ASSUME TypeOK, NEW p \in Panes, NEW key \in Keys(p)
  PROVE  (IF pty[p].buf = "none" THEN key ELSE pty[p].buf) \in {"text", "enter", "stash"}
<1>1. pty[p] \in Pty
  BY DEF TypeOK
<1>2. key \in {"text", "enter", "stash"}
  BY DEF Keys
<1>. QED BY <1>1, <1>2 DEF Pty

(* Every variable keeps its type.                                           *)
THEOREM TypeCorrect == Spec => []TypeOK
<1>1. Init => TypeOK
  <2>. SUFFICES ASSUME Init PROVE TypeOK
    OBVIOUS
  <2>1. pty \in [Panes -> Pty]
    BY DEF Init, Pty
  <2>. QED BY <2>1 DEF Init, TypeOK
<1>2. TypeOK /\ [Next]_vars => TypeOK'
  <2>. SUFFICES ASSUME TypeOK, [Next]_vars PROVE TypeOK'
    OBVIOUS
  <2>. USE DEF ledger, sched, agent, history
  <2>s. sent \in [Ids -> Nat] /\ jobs \in SUBSET Job /\ pty \in [Panes -> Pty]
    BY DEF TypeOK
  <2>r. {"accepted", "failed", "dispatching", "uncertain"} \subseteq Receipts
    BY DEF Receipts, States, Final
  <2>f. {"accepted", "failed", "uncertain", "submitted"} = Final \cup {"accepted"}
    BY DEF Final
  <2>1. ASSUME NEW id \in Ids, Submit(id) PROVE TypeOK'
    BY <2>1, <2>r DEF Submit, TypeOK, Receipts
  <2>2. CASE Tick
    <3>1. Expired \in [Ids -> Receipts]
      BY <2>r DEF Expired, TypeOK, Receipts
    <3>. QED BY <2>2, <3>1 DEF Tick, TypeOK, Receipts
  <2>3. CASE Select
    <3>1. PICK S \in Selections : /\ jobs' = jobs \cup {NewJob(id) : id \in S}
                                  /\ active' = active \cup {PaneOf[id] : id \in S}
      BY <2>3 DEF Select
    <3>s. S \subseteq Ids
      BY <2>3, <3>1 DEF Select, Selections, Chosen, TypeOK
    <3>2. jobs' \subseteq Job
      BY <3>1, <3>s, <2>s, JobValues
    <3>3. active' \subseteq Panes
      BY <3>1, <3>s, DeliveryAssumption DEF TypeOK
    <3>. QED BY <2>3, <3>2, <3>3 DEF Select, TypeOK
  <2>4. CASE StopGui
    BY <2>4 DEF StopGui, TypeOK
  <2>5. ASSUME NEW id \in Ids, Lapse(id) PROVE TypeOK'
    BY <2>5 DEF Lapse, TypeOK
  <2>6. ASSUME NEW p \in Panes, HoldExpires(p) \/ Draw(p) \/ TrustEnds(p) PROVE TypeOK'
    <3>1. pty' \in [Panes -> Pty]
      BY <2>6, <2>s, Stills DEF Still, Edit
    <3>. QED BY <2>6, <3>1 DEF HoldExpires, Draw, TrustEnds, TypeOK
  <2>7. ASSUME NEW p \in Panes, NEW key \in Keys(p), Press(p, key) PROVE TypeOK'
    <3>. DEFINE first == IF pty[p].buf = "none" THEN key ELSE pty[p].buf
                open == [pty[p] EXCEPT !.hold = "none", !.buf = "none"]
    <3>0. pty[p] \in Pty /\ first \in {"text", "enter", "stash"}
      BY <2>s, FirstKey
    <3>1. open \in Pty /\ [pty[p] EXCEPT !.buf = first] \in Pty
      BY <3>0 DEF Pty
    <3>2. Keyed(open, first) \in Pty
      BY <3>1, GateValues
    <3>3. pty' \in [Panes -> Pty]
      BY <2>7, <2>s, <3>0, <3>1, <3>2 DEF Press
    <3>4. jobs' \subseteq Job /\ sent' \in [Ids -> Nat]
      BY <2>7, <2>s, JobValues, CountValues DEF Press
    <3>. QED BY <2>7, <3>3, <3>4 DEF Press, TypeOK
  <2>8. ASSUME NEW p \in Panes, SetClosed(p) PROVE TypeOK'
    <3>1. pty' \in [Panes -> Pty]
      BY <2>8, <2>s, Clearings DEF Edit
    <3>2. jobs' \subseteq Job
      BY <2>8, <2>s, JobValues DEF SetClosed
    <3>. QED BY <2>8, <3>1, <3>2 DEF SetClosed, TypeOK
  <2>9. ASSUME NEW p \in Panes, Replace(p) PROVE TypeOK'
    <3>1. pty' \in [Panes -> Pty]
      BY <2>9, <2>s, Clearings DEF Edit
    <3>2. jobs' \subseteq Job
      BY <2>9, <2>s DEF Replace, Job
    <3>. QED BY <2>9, <3>1, <3>2 DEF Replace, TypeOK
  <2>10. ASSUME NEW p \in Panes, Rebind(p) PROVE TypeOK'
    BY <2>10 DEF Rebind, TypeOK
  <2>11. ASSUME NEW j \in jobs, Worker(j) \/ Gui(j) \/ ProofAges(j) \/ DeadlinePasses(j)
         PROVE  TypeOK'
    <3>a. j \in Job /\ j.id \in Ids /\ At(j) \in Panes /\ pty[At(j)] \in Pty
      BY Addressed
    <3>b. \A to \in Final \cup {"accepted"} : (jobs \ {j}) \cup {Finishing(j, to)} \in SUBSET Job
      BY <3>a, <2>s, JobValues
    <3>1. CASE BeginProof(j)
      <4>1. \A r \in {"current"} : [j EXCEPT !.proof = r, !.stage = "proven"] \in Job
        BY <3>a DEF Job
      <4>2. jobs' \subseteq Job
        BY <3>1, <4>1, <3>b, <2>s, <2>f DEF BeginProof, Become, Quit
      <4>3. active' \subseteq Panes
        BY <3>1 DEF BeginProof, Quit, TypeOK
      <4>. QED BY <3>1, <4>2, <4>3 DEF BeginProof, TypeOK
    <3>2. CASE Dispatch(j)
      <4>1. [j EXCEPT !.stage = "ready"] \in Job
        BY <3>a DEF Job
      <4>2. jobs' \subseteq Job
        BY <3>2, <4>1, <3>b, <2>s, <2>f DEF Dispatch, Become, Quit
      <4>3. active' \subseteq Panes /\ receipt' \in [Ids -> Receipts]
        BY <3>2, <2>r DEF Dispatch, Quit, TypeOK, Receipts
      <4>. QED BY <3>2, <4>2, <4>3 DEF Dispatch, TypeOK, Receipts
    <3>3. CASE Resume(j)
      <4>1. PICK r \in ProofResults(j) \cup {"transient"} :
              IF gui = "running"
              THEN /\ Become(j, [Proved(j, r) EXCEPT
                               !.stage = IF j.stage = "rechecking" THEN "ready" ELSE "commit"])
                   /\ UNCHANGED <<pty, sent>>
              ELSE /\ LetGo(At(j), pty[At(j)], (jobs \ {j}) \cup {Finishing(j, "uncertain")})
                   /\ sent' = FlushCounted(pty[At(j)], sent)
        BY <3>3 DEF Resume
      <4>2. Proved(j, r) \in Job
        BY <3>a DEF Proved, ProofResults, Job
      <4>3. [Proved(j, r) EXCEPT !.stage = IF j.stage = "rechecking" THEN "ready" ELSE "commit"]
              \in Job
        BY <4>2 DEF Job
      <4>4. pty' \in [Panes -> Pty] /\ jobs' \in SUBSET Job
        BY <4>1, <4>3, <3>a, <3>b, <2>s, <2>f, LetGoTyped DEF Become
      <4>5. sent' \in [Ids -> Nat]
        BY <4>1, <2>s, CountValues
      <4>. QED BY <3>3, <4>4, <4>5 DEF Resume, TypeOK
    <3>4. CASE Finish(j)
      <4>1. ASSUME NEW saved \in BOOLEAN PROVE Reported(j, saved) \in [Ids -> Receipts]
        BY <2>r DEF Reported, Allowed, Receipts, States, TypeOK
      <4>. QED BY <3>4, <4>1 DEF Finish, TypeOK, Receipts
    <3>5. CASE ProofAges(j) \/ DeadlinePasses(j)
      <4>1. [j EXCEPT !.proof = "aged"] \in Job /\ [j EXCEPT !.late = TRUE] \in Job
        BY <3>a DEF Job
      <4>. QED BY <3>5, <4>1 DEF ProofAges, DeadlinePasses, Become, TypeOK
    <3>6. CASE Ready(j)
      <4>0. Unstashed(j, pty[At(j)]) \in Pty
        BY <3>a, GateValues DEF Unstashed
      <4>1. ASSUME NEW to \in {"accepted", "failed"}, BackOff(j, to)
            PROVE  pty' \in [Panes -> Pty] /\ jobs' \in SUBSET Job /\ sent' \in [Ids -> Nat]
        BY <4>0, <4>1, <3>a, <3>b, <2>f, <2>s, LetGoTyped, CountValues DEF BackOff
      <4>2. /\ [j EXCEPT !.stage = "pasting"] \in Job /\ [j EXCEPT !.stage = "stashing"] \in Job
            /\ [j EXCEPT !.stage = "rechecking"] \in Job
        BY <3>a DEF Job
      <4>3. \/ \E to \in {"accepted", "failed"} : BackOff(j, to)
            \/ /\ \E st \in {"pasting", "stashing", "rechecking"} :
                     Become(j, [j EXCEPT !.stage = st])
               /\ UNCHANGED <<pty, sent>>
        BY <3>6 DEF Ready
      <4>4. pty' \in [Panes -> Pty] /\ jobs' \in SUBSET Job /\ sent' \in [Ids -> Nat]
        BY <4>1, <4>2, <4>3, <2>s DEF Become
      <4>. QED BY <3>6, <4>4 DEF Ready, TypeOK
    <3>7. CASE Stash(j)
      <4>1. [StashKey(pty[At(j)]) EXCEPT !.hold = "held"] \in Pty
        <5>1. StashKey(pty[At(j)]) \in Pty
          BY <3>a, GateValues
        <5>. QED BY <5>1 DEF Pty
      <4>2. [j EXCEPT !.stage = "rechecking", !.stashed = TRUE, !.late = FALSE] \in Job
        BY <3>a DEF Job
      <4>3. pty' \in [Panes -> Pty] /\ jobs' \in SUBSET Job /\ sent' \in [Ids -> Nat]
        BY <3>7, <4>1, <4>2, <3>a, <3>b, <2>f, <2>s, LetGoTyped, CountValues, JobValues
           DEF Stash, Wrote
      <4>. QED BY <3>7, <4>3 DEF Stash, TypeOK
    <3>8. CASE Paste(j)
      <4>. DEFINE filled == Pasted(pty[At(j)], j.id)
      <4>0. filled \in Pty
        BY <3>a, GateValues
      <4>1. filled \in Pty /\ [filled EXCEPT !.hold = "held"] \in Pty
        <5>. HIDE DEF filled
        <5>. QED BY <4>0 DEF Pty
      <4>2. [j EXCEPT !.stage = "reproving", !.written = TRUE, !.late = FALSE] \in Job
        BY <3>a DEF Job
      <4>. HIDE DEF filled
      <4>d. filled = Pasted(pty[At(j)], j.id)
        BY DEF filled
      <4>3. pty' \in [Panes -> Pty] /\ jobs' \in SUBSET Job /\ sent' \in [Ids -> Nat]
        BY <3>8, <4>d, <4>1, <4>2, <3>a, <3>b, <2>f, <2>s, LetGoTyped, CountValues, JobValues
           DEF Paste, Wrote
      <4>4. pasted' \in [Ids -> Nat]
        BY <3>8, <3>a DEF Paste, TypeOK
      <4>. QED BY <3>8, <4>3, <4>4 DEF Paste, TypeOK
    <3>9. CASE Commit(j)
      <4>1. \A st \in {"entering", "reproving", "waiting"} : [j EXCEPT !.stage = st] \in Job
        BY <3>a DEF Job
      <4>2. pty' \in [Panes -> Pty] /\ jobs' \in SUBSET Job /\ sent' \in [Ids -> Nat]
        BY <3>9, <4>1, <3>a, <3>b, <2>f, <2>s, LetGoTyped, CountValues
           DEF Commit, Withhold, Become
      <4>. QED BY <3>9, <4>2 DEF Commit, TypeOK
    <3>10. CASE Enter(j)
      <4>1. Entered(pty[At(j)]) \in Pty
        BY <3>a, GateValues
      <4>2. pty' \in [Panes -> Pty] /\ jobs' \in SUBSET Job /\ sent' \in [Ids -> Nat]
        BY <3>10, <4>1, <3>a, <3>b, <2>f, <2>s, LetGoTyped, CountValues DEF Enter
      <4>3. [id |-> j.id, box |-> pty[At(j)].box, live |-> live[At(j)]] \in Turn
        BY <3>a, Addressed DEF Turn, Texts, Pty
      <4>4. turns' \subseteq Turn
        BY <3>10, <4>3 DEF Enter, Turn, Texts, TypeOK
      <4>. QED BY <3>10, <4>2, <4>4 DEF Enter, TypeOK, Turn, Texts
    <3>. QED BY <2>11, <3>1, <3>2, <3>3, <3>4, <3>5, <3>6, <3>7, <3>8, <3>9, <3>10
             DEF Worker, Gui
  <2>12. CASE UNCHANGED vars
    BY <2>12 DEF vars, TypeOK
  <2>. QED BY <2>1, <2>2, <2>3, <2>4, <2>5, <2>6, <2>7, <2>8, <2>9, <2>10, <2>11, <2>12
           DEF Next, Time, Person
<1>. QED BY <1>1, <1>2, PTL DEF Spec

-----------------------------------------------------------------------------
(* The inductive invariant.  One delivery at a time works on a pane; each    *)
(* part says what it may rely on at its stage, or what the ledger, the      *)
(* pane and the history owe it.                                             *)

Early    == {"proving", "proven"}
Unpasted == {"ready", "stashing", "pasting", "rechecking"}
Pasting  == {"commit", "entering", "waiting", "reproving"}

Alone == \A i, k \in jobs : At(i) = At(k) => i = k

(* What a delivery has written at each stage.                               *)
Shape(j) ==
  /\ j.stage \in Early \cup {"finishing"} => ~j.stashed /\ ~j.written
  /\ j.stage \in Unpasted => ~j.written
  /\ j.stage \in Pasting => j.written
  /\ j.stage = "rechecking" => j.stashed
  /\ j.stage = "stashing" => ~j.stashed
  /\ j.stage = "finishing" => j.to # "none" /\ ~j.same

(* What the ledger and the scheduler hold for it.                           *)
Booked(j) ==
  /\ At(j) \in active
  /\ j.stage \in Early => receipt[j.id] # "dispatching"
  /\ j.stage \in Unpasted => receipt[j.id] = "dispatching" /\ pasted[j.id] = 0
  /\ j.stage \in Pasting => receipt[j.id] = "dispatching"
  /\ j.stage = "finishing" /\ j.to = "submitted" => \E t \in turns : t.id = j.id
  /\ j.stage = "finishing" /\ j.to \in {"accepted", "failed"} /\ receipt[j.id] = "dispatching"
       => pasted[j.id] = 0

(* What it knows of its pane while nobody else has written to it.           *)
Boxed(j) ==
  /\ j.proof = "current" => live[At(j)]
  /\ j.stage = "entering" /\ j.same => j.proof = "current"

(* ... and of the text in it, when agents draw in time: from the look of    *)
(* Ready on, the box and the draft are as the screen had them.              *)
Clean(j) == ~SlowDraw =>
  /\ j.stage = "stashing" /\ j.same => pty[At(j)].stash = {}
  /\ j.stashed /\ ~j.written /\ j.same => pty[At(j)].box = {}
  /\ j.stage = "pasting" /\ j.same => pty[At(j)].box = {}
  /\ j.written /\ j.same /\ live[At(j)] => pty[At(j)].box = {j.id}

Fits(j) == Shape(j) /\ Booked(j) /\ Boxed(j) /\ Clean(j)

(* A dispatch under way has its delivery, a message that was written is not *)
(* reported as unwritten, a submitted one has its turn.                     *)
Told(id) ==
  /\ receipt[id] = "dispatching" => \E j \in jobs : j.id = id /\ j.stage \notin Early
  /\ pasted[id] > 0 => receipt[id] \in {"dispatching", "submitted", "uncertain"}
  /\ receipt[id] = "submitted" => \E t \in turns : t.id = id

(* A message in a pane's box or in the draft put away there was written     *)
(* once, into this pane, and is not sent yet; a trusted screen is right.    *)
Sound(g, p, s, n) ==
  /\ Drawn(g)
  /\ \A id \in Ids :
       /\ id \in g.box \cup g.stash => PaneOf[id] = p /\ n[id] = 1 /\ s[id] = 0
       /\ ~(id \in g.box /\ id \in g.stash)

Within(s, n) == \A id \in Ids : n[id] <= 1 /\ s[id] <= n[id]

Owns(j)  == j.stage # "finishing" /\ (j.stashed \/ j.written)
Owned(p) == pty[p].hold # "none" => \E j \in jobs : At(j) = p /\ Owns(j)

TurnsRight == \A t \in turns : t.live /\ (~SlowDraw => t.box = {t.id})

Inv ==
  /\ Alone /\ \A j \in jobs : Fits(j)
  /\ \A id \in Ids : Told(id)
  /\ \A p \in Panes : Sound(pty[p], p, sent, pasted)
  /\ Within(sent, pasted)
  /\ \A p \in Panes : Owned(p)
  /\ TurnsRight

(* A step that disturbs nothing beside delivery j and its pane.             *)
Beside(j) ==
  /\ \A q \in Panes \ {At(j)} : pty'[q] = pty[q]
  /\ \A id \in Ids \ {j.id} : receipt'[id] = receipt[id] /\ pasted'[id] = pasted[id]
  /\ \A id \in Ids : PaneOf[id] # At(j) => sent'[id] = sent[id]
  /\ live' = live /\ turns \subseteq turns' /\ active \ {At(j)} \subseteq active'

(* The deliveries of other panes go on as they were.                        *)
LEMMA OthersFit ==
  ASSUME TypeOK, Inv, NEW j \in jobs, NEW i \in jobs \ {j}, Beside(j)
  PROVE  Fits(i)' /\ At(i) # At(j) /\ i.id # j.id
<1>1. i \in jobs /\ At(i) # At(j) /\ Fits(i)
  BY DEF Inv, Alone
<1>2. i.id \in Ids /\ i.id # j.id /\ At(i) \in Panes
  BY <1>1, Addressed DEF At
<1>3. /\ pty'[At(i)] = pty[At(i)] /\ receipt'[i.id] = receipt[i.id]
      /\ pasted'[i.id] = pasted[i.id] /\ live' = live /\ turns \subseteq turns'
      /\ At(i) \in active => At(i) \in active'
  BY <1>1, <1>2 DEF Beside
<1>4. Shape(i)'
  BY <1>1 DEF Fits, Shape
<1>5. Booked(i)'
  BY <1>1, <1>3 DEF Fits, Booked, At
<1>6. Boxed(i)'
  BY <1>1, <1>3 DEF Fits, Boxed, At
<1>7. Clean(i)'
  BY <1>1, <1>3 DEF Fits, Clean, At
<1>. QED BY <1>1, <1>2, <1>4, <1>5, <1>6, <1>7 DEF Fits

(* What other panes hold stays sound.                                       *)
LEMMA OthersSound ==
  ASSUME TypeOK, Inv, NEW j \in jobs, NEW q \in Panes \ {At(j)}, Beside(j)
  PROVE  Sound(pty[q], q, sent, pasted)'
<1>1. pty'[q] = pty[q] /\ Sound(pty[q], q, sent, pasted)
  BY DEF Beside, Inv
<1>2. \A id \in Ids : PaneOf[id] = q => sent'[id] = sent[id] /\ pasted'[id] = pasted[id]
  BY Addressed DEF Beside
<1>. QED BY <1>1, <1>2 DEF Sound

(* A delivery that goes on: what is left to show is about it and its pane.  *)
LEMMA GoesOn ==
  ASSUME TypeOK, Inv, NEW j \in jobs, NEW k \in Job, k.id = j.id,
         jobs' = (jobs \ {j}) \cup {k}, Beside(j), Fits(k)', Told(j.id)',
         Sound(pty[At(j)], At(j), sent, pasted)', Within(sent, pasted)',
         pty'[At(j)].hold = "none" \/ Owns(k), TurnsRight'
  PROVE  Inv'
<1>0. At(k) = At(j) /\ j.id \in Ids /\ At(j) \in Panes
  BY Addressed DEF At
<1>1. \A i \in jobs \ {j} : Fits(i)' /\ At(i) # At(j) /\ i.id # j.id
  BY OthersFit
<1>2. Alone'
  BY <1>0, <1>1 DEF Inv, Alone, At
<1>3. \A i \in jobs' : Fits(i)'
  BY <1>1
<1>4. ASSUME NEW id \in Ids PROVE Told(id)'
  <2>1. CASE id = j.id
    BY <2>1
  <2>2. CASE id # j.id
    <3>1. receipt'[id] = receipt[id] /\ pasted'[id] = pasted[id] /\ turns \subseteq turns'
      BY <2>2 DEF Beside
    <3>2. Told(id)
      BY DEF Inv
    <3>3. receipt[id] = "dispatching" => \E i \in jobs' : i.id = id /\ i.stage \notin Early
      BY <2>2, <3>2 DEF Told
    <3>. QED BY <3>1, <3>2, <3>3 DEF Told
  <2>. QED BY <2>1, <2>2
<1>5. \A q \in Panes : Sound(pty[q], q, sent, pasted)'
  BY OthersSound
<1>6. ASSUME NEW q \in Panes PROVE Owned(q)'
  <2>1. CASE q = At(j)
    BY <1>0, <2>1 DEF Owned, At
  <2>2. CASE q # At(j)
    <3>1. pty'[q] = pty[q] /\ Owned(q)
      BY <2>2 DEF Beside, Inv
    <3>. QED BY <2>2, <3>1 DEF Owned, At
  <2>. QED BY <2>1, <2>2
<1>. QED BY <1>2, <1>3, <1>4, <1>5, <1>6 DEF Inv

(* A delivery that leaves without having written.                           *)
LEMMA Leaves ==
  ASSUME TypeOK, Inv, NEW j \in jobs, ~Owns(j), jobs' = jobs \ {j}, Beside(j),
         receipt'[j.id] # "dispatching", Told(j.id)',
         UNCHANGED <<pty, pasted, sent, turns>>
  PROVE  Inv'
<1>1. \A i \in jobs \ {j} : Fits(i)' /\ At(i) # At(j) /\ i.id # j.id
  BY OthersFit
<1>2. Alone'
  BY DEF Inv, Alone, At
<1>4. ASSUME NEW id \in Ids PROVE Told(id)'
  <2>1. CASE id = j.id
    BY <2>1
  <2>2. CASE id # j.id
    <3>1. receipt'[id] = receipt[id]
      BY <2>2 DEF Beside
    <3>2. Told(id)
      BY DEF Inv
    <3>3. receipt[id] = "dispatching" => \E i \in jobs' : i.id = id /\ i.stage \notin Early
      BY <2>2, <3>2 DEF Told
    <3>. QED BY <3>1, <3>2, <3>3 DEF Told
  <2>. QED BY <2>1, <2>2
<1>5. \A q \in Panes : Sound(pty[q], q, sent, pasted)'
  BY DEF Inv
<1>6. ASSUME NEW q \in Panes PROVE Owned(q)'
  BY DEF Owned, At, Inv
<1>7. Within(sent, pasted)' /\ TurnsRight'
  BY DEF Inv, TurnsRight
<1>. QED BY <1>1, <1>2, <1>4, <1>5, <1>6, <1>7 DEF Inv

(* The count after the turn that takes along the box of g.                  *)
Taken(g, s) == [id \in Ids |-> IF id \in g.box THEN s[id] + 1 ELSE s[id]]

(* Every key keeps the text of a pane sound, and its Enter counts each      *)
(* message of the box once.                                                 *)
LEMMA KeysSound ==
  ASSUME NEW g \in Pty, NEW p, NEW s \in [Ids -> Nat], NEW n \in [Ids -> Nat],
         Sound(g, p, s, n), Within(s, n)
  PROVE  /\ Sound(Typed(g), p, s, n) /\ Sound(StashKey(g), p, s, n)
         /\ Sound(Entered(g), p, Taken(g, s), n) /\ Within(Taken(g, s), n)
         /\ \A id \in Ids : PaneOf[id] # p => Taken(g, s)[id] = s[id]
         /\ Taken(g, s) \in [Ids -> Nat]
<1>0. Drawn(Typed(g)) /\ Drawn(StashKey(g)) /\ Drawn(Entered(g))
  <2>1. Typed(g).typing /\ StashKey(g).typing /\ Entered(g).typing
    BY DEF Typed, StashKey, Entered, Pty
  <2>. QED BY <2>1 DEF Drawn
<1>1. Typed(g).box = g.box \cup {User} /\ Typed(g).stash = g.stash
  BY DEF Typed, Pty
<1>2. User \notin Ids
  BY DeliveryAssumption DEF User
<1>3. Sound(Typed(g), p, s, n)
  BY <1>0, <1>1, <1>2 DEF Sound
<1>4. \/ StashKey(g).stash = g.box /\ StashKey(g).box = {}
      \/ StashKey(g).box = g.stash /\ StashKey(g).stash = {}
  BY DEF StashKey, Pty
<1>5. Sound(StashKey(g), p, s, n)
  BY <1>0, <1>4 DEF Sound
<1>6. Entered(g).box = g.stash /\ Entered(g).stash = {}
  BY DEF Entered, Pty
<1>7. ASSUME NEW id \in Ids
      PROVE  Taken(g, s)[id] = IF id \in g.box THEN s[id] + 1 ELSE s[id]
  BY DEF Taken
<1>8. Sound(Entered(g), p, Taken(g, s), n)
  BY <1>0, <1>6, <1>7 DEF Sound
<1>9. Within(Taken(g, s), n)
  <2>. SUFFICES ASSUME NEW id \in Ids PROVE n[id] <= 1 /\ Taken(g, s)[id] <= n[id]
    BY DEF Within
  <2>1. s[id] \in Nat /\ n[id] \in Nat /\ n[id] <= 1 /\ s[id] <= n[id]
    BY DEF Within
  <2>2. id \in g.box => n[id] = 1 /\ s[id] = 0
    BY DEF Sound
  <2>. QED BY <1>7, <2>1, <2>2
<1>10. \A id \in Ids : PaneOf[id] # p => Taken(g, s)[id] = s[id]
  BY <1>7 DEF Sound
<1>11. Taken(g, s) \in [Ids -> Nat]
  BY DEF Taken
<1>. QED BY <1>3, <1>5, <1>8, <1>9, <1>10, <1>11

(* So does letting go of the input, with the keys that waited.              *)
LEMMA ReleaseSound ==
  ASSUME NEW g \in Pty, NEW p, NEW s \in [Ids -> Nat], NEW n \in [Ids -> Nat],
         Sound(g, p, s, n), Within(s, n)
  PROVE  /\ Sound(Released(g), p, FlushCounted(g, s), n) /\ Within(FlushCounted(g, s), n)
         /\ \A id \in Ids : PaneOf[id] # p => FlushCounted(g, s)[id] = s[id]
<1>1. PICK free : free = [g EXCEPT !.hold = "none", !.buf = "none"]
  OBVIOUS
<1>2. /\ free \in Pty /\ free.box = g.box /\ free.stash = g.stash
      /\ free.shown = g.shown /\ free.stashed = g.stashed /\ free.typing = g.typing
  BY <1>1 DEF Pty
<1>3. Sound(free, p, s, n) /\ Taken(free, s) = Taken(g, s)
  BY <1>2 DEF Sound, Taken, Drawn
<1>4. Released(g) = IF Flushes(g) THEN Keyed(free, g.buf) ELSE free
  BY <1>1 DEF Released, Flushes
<1>5. FlushCounted(g, s) = IF Flushes(g) /\ g.buf = "enter" THEN Taken(g, s) ELSE s
  BY DEF FlushCounted, Taken
<1>6. CASE ~Flushes(g)
  BY <1>3, <1>4, <1>5, <1>6
<1>7. CASE Flushes(g) /\ g.buf = "enter"
  BY <1>2, <1>3, <1>4, <1>5, <1>7, KeysSound DEF Keyed
<1>8. CASE Flushes(g) /\ g.buf # "enter"
  BY <1>2, <1>3, <1>4, <1>5, <1>8, KeysSound DEF Keyed
<1>. QED BY <1>6, <1>7, <1>8

(* Nobody else works on the pane of a delivery, so its writes disturb no    *)
(* other one.                                                               *)
LEMMA NobodyElse ==
  ASSUME TypeOK, Inv, NEW j \in jobs
  PROVE  /\ Touched(jobs \ {j}, At(j)) = jobs \ {j}
         /\ \A to \in Final \cup {"accepted"} :
              Touched((jobs \ {j}) \cup {Finishing(j, to)}, At(j))
                = (jobs \ {j}) \cup {Finishing(j, to)}
<1>0. j \in Job
  BY Addressed
<1>1. \A i \in jobs \ {j} : At(i) # At(j)
  BY DEF Inv, Alone
<1>2. Touched(jobs \ {j}, At(j)) = jobs \ {j}
  BY <1>1 DEF Touched
<1>3. ASSUME NEW to \in Final \cup {"accepted"}
      PROVE  Touched((jobs \ {j}) \cup {Finishing(j, to)}, At(j))
                = (jobs \ {j}) \cup {Finishing(j, to)}
  <2>1. PICK k : k = Finishing(j, to)
    OBVIOUS
  <2>2. k \in Job /\ k.same = FALSE
    BY <1>0, <2>1, JobValues DEF Job
  <2>3. [k EXCEPT !.same = FALSE] = k
    BY <2>2 DEF Job
  <2>4. Touched((jobs \ {j}) \cup {k}, At(j)) = (jobs \ {j}) \cup {k}
    BY <1>1, <2>3 DEF Touched
  <2>. QED BY <2>1, <2>4
<1>. QED BY <1>2, <1>3

(* A delivery that ends: its finishing thread knows what to report.         *)
LEMMA Ends ==
  ASSUME TypeOK, Inv, NEW j \in jobs, NEW to \in Final \cup {"accepted"},
         jobs' = (jobs \ {j}) \cup {Finishing(j, to)}, Beside(j), active' = active,
         pty'[At(j)].hold = "none",
         Sound(pty[At(j)], At(j), sent, pasted)', Within(sent, pasted)',
         Told(j.id)', TurnsRight',
         to = "submitted" => \E t \in turns' : t.id = j.id,
         to \in {"accepted", "failed"} /\ receipt'[j.id] = "dispatching" => pasted'[j.id] = 0
  PROVE  Inv'
<1>1. PICK k : k = Finishing(j, to)
  OBVIOUS
<1>2. /\ k \in Job /\ k.id = j.id /\ k.stage = "finishing" /\ k.to = to
      /\ k.proof = "none" /\ ~k.same /\ ~k.stashed /\ ~k.written
  BY <1>1, Addressed, JobValues
<1>3. Shape(k)'
  BY <1>2 DEF Shape, Early, Unpasted, Pasting, Final
<1>4. Booked(k)'
  <2>1. At(k) \in active'
    BY <1>2 DEF Inv, Fits, Booked, At
  <2>. QED BY <1>2, <2>1 DEF Booked, At, Early, Unpasted, Pasting
<1>5. Boxed(k)' /\ Clean(k)'
  BY <1>2 DEF Boxed, Clean, Unpasted
<1>. QED BY <1>1, <1>2, <1>3, <1>4, <1>5, GoesOn DEF Fits

(* A delivery that lets go of the pane's input, with the gate as pre left   *)
(* it and was turns counted so far.                                         *)
LEMMA LetsGo ==
  ASSUME TypeOK, TypeOK', Inv, NEW j \in jobs, NEW to \in Final \cup {"accepted"},
         NEW pre \in Pty, NEW was \in [Ids -> Nat],
         LetGo(At(j), pre, (jobs \ {j}) \cup {Finishing(j, to)}),
         sent' = FlushCounted(pre, was),
         Sound(pre, At(j), was, pasted'), Within(was, pasted'),
         \A id \in Ids : PaneOf[id] # At(j) => was[id] = sent[id],
         \A id \in Ids \ {j.id} : pasted'[id] = pasted[id],
         UNCHANGED <<receipt, active, live>>, receipt[j.id] = "dispatching",
         to = "submitted" => \E t \in turns' : t.id = j.id,
         to \in {"accepted", "failed"} => pasted'[j.id] = 0,
         turns \subseteq turns', TurnsRight'
  PROVE  Inv'
<1>0. /\ At(j) \in Panes /\ pty \in [Panes -> Pty] /\ pasted' \in [Ids -> Nat]
      /\ j \in Job /\ j.id \in Ids
  BY Addressed DEF TypeOK
<1>1. jobs' = (jobs \ {j}) \cup {Finishing(j, to)}
  BY NobodyElse DEF LetGo
<1>2. pty' = [pty EXCEPT ![At(j)] = Released(pre)]
  BY DEF LetGo
<1>3. /\ Sound(Released(pre), At(j), sent', pasted') /\ Within(sent', pasted')
      /\ \A id \in Ids : PaneOf[id] # At(j) => sent'[id] = was[id]
  <2>1. PICK n, p : n = pasted' /\ p = At(j)
    OBVIOUS
  <2>2. n \in [Ids -> Nat] /\ Sound(pre, p, was, n) /\ Within(was, n)
    BY <1>0, <2>1
  <2>3. /\ Sound(Released(pre), p, FlushCounted(pre, was), n)
        /\ Within(FlushCounted(pre, was), n)
        /\ \A id \in Ids : PaneOf[id] # p => FlushCounted(pre, was)[id] = was[id]
    BY <2>2, ReleaseSound
  <2>. QED BY <2>1, <2>3
<1>4. pty'[At(j)] = Released(pre) /\ pty'[At(j)].hold = "none"
  BY <1>0, <1>2, GateValues
<1>5. Beside(j)
  BY <1>0, <1>2, <1>3 DEF Beside
<1>6. Told(j.id)'
  <2>1. Finishing(j, to).id = j.id /\ Finishing(j, to).stage = "finishing"
    BY <1>0, JobValues
  <2>. QED BY <1>1, <2>1 DEF Told, Early
<1>7. Sound(pty[At(j)], At(j), sent, pasted)'
  BY <1>3, <1>4 DEF At
<1>. QED BY <1>1, <1>3, <1>4, <1>5, <1>6, <1>7, Ends

(* The common case: the gate as it is, nothing written and nothing counted. *)
LEMMA LetsGoAsIs ==
  ASSUME TypeOK, TypeOK', Inv, NEW j \in jobs, NEW to \in {"accepted", "failed", "uncertain"},
         LetGo(At(j), pty[At(j)], (jobs \ {j}) \cup {Finishing(j, to)}),
         sent' = FlushCounted(pty[At(j)], sent), receipt[j.id] = "dispatching",
         UNCHANGED <<receipt, active, live, pasted, turns>>,
         to \in {"accepted", "failed"} => pasted[j.id] = 0
  PROVE  Inv'
<1>1. PICK pre, was : pre = pty[At(j)] /\ was = sent
  OBVIOUS
<1>2. pre \in Pty /\ was \in [Ids -> Nat] /\ At(j) \in Panes
  BY <1>1, Addressed DEF TypeOK
<1>3. Sound(pre, At(j), was, pasted') /\ Within(was, pasted') /\ TurnsRight'
  BY <1>1, <1>2 DEF Inv, TurnsRight
<1>4. to \in Final \cup {"accepted"} /\ to # "submitted"
  BY DEF Final
<1>5. \A id \in Ids : (PaneOf[id] # At(j) => was[id] = sent[id]) /\ pasted'[id] = pasted[id]
  BY <1>1
<1>6. /\ LetGo(At(j), pre, (jobs \ {j}) \cup {Finishing(j, to)})
      /\ sent' = FlushCounted(pre, was)
  BY <1>1
<1>. QED BY <1>2, <1>3, <1>4, <1>5, <1>6, LetsGo

(* A delivery that goes on and leaves everything else as it is.             *)
LEMMA JustGoesOn ==
  ASSUME TypeOK, Inv, NEW j \in jobs, NEW k \in Job, k.id = j.id, Become(j, k),
         UNCHANGED <<receipt, active, pty, live, pasted, sent, turns>>,
         Fits(k), k.stage \notin Early \/ receipt[j.id] # "dispatching",
         Owns(j) => Owns(k)
  PROVE  Inv'
<1>0. j.id \in Ids /\ At(j) \in Panes
  BY Addressed
<1>1. Beside(j) /\ jobs' = (jobs \ {j}) \cup {k}
  BY DEF Beside, Become
<1>2. Shape(k)' /\ Booked(k)' /\ Boxed(k)' /\ Clean(k)'
  BY DEF Fits, Shape, Booked, Boxed, Clean, At
<1>3. Told(j.id)'
  <2>1. Told(j.id)
    BY <1>0 DEF Inv
  <2>. QED BY <1>1, <2>1 DEF Told
<1>4. Sound(pty[At(j)], At(j), sent, pasted)' /\ Within(sent, pasted)' /\ TurnsRight'
  BY <1>0 DEF Inv, At, TurnsRight
<1>5. pty'[At(j)].hold = "none" \/ Owns(k)
  <2>1. Owned(At(j))
    BY <1>0 DEF Inv
  <2>2. pty[At(j)].hold # "none" => Owns(j)
    BY <2>1 DEF Owned, Inv, Alone
  <2>. QED BY <2>2
<1>. QED BY <1>1, <1>2, <1>3, <1>4, <1>5, GoesOn DEF Fits

(* A delivery that ends with nothing to let go of.                          *)
LEMMA JustEnds ==
  ASSUME TypeOK, Inv, NEW j \in jobs, NEW to \in {"accepted", "failed"},
         Become(j, Finishing(j, to)), ~Owns(j), Told(j.id)',
         UNCHANGED <<active, pty, live, pasted, sent, turns>>,
         \A id \in Ids \ {j.id} : receipt'[id] = receipt[id],
         receipt'[j.id] = "dispatching" => pasted[j.id] = 0
  PROVE  Inv'
<1>0. j.id \in Ids /\ At(j) \in Panes
  BY Addressed
<1>1. Beside(j) /\ jobs' = (jobs \ {j}) \cup {Finishing(j, to)}
  BY DEF Beside, Become
<1>2. Sound(pty[At(j)], At(j), sent, pasted)' /\ Within(sent, pasted)' /\ TurnsRight'
  BY <1>0 DEF Inv, At, TurnsRight
<1>3. pty'[At(j)].hold = "none"
  <2>1. Owned(At(j))
    BY <1>0 DEF Inv
  <2>. QED BY <2>1 DEF Owned, Inv, Alone
<1>4. to \in Final \cup {"accepted"} /\ to # "submitted"
  BY DEF Final
<1>. QED BY <1>1, <1>2, <1>3, <1>4, Ends

-----------------------------------------------------------------------------
(* Every step of a delivery keeps the invariant.                            *)

(* What the invariant says of one delivery.                                 *)
LEMMA Known ==
  ASSUME TypeOK, Inv, NEW j \in jobs
  PROVE  /\ Fits(j) /\ Told(j.id) /\ Sound(pty[At(j)], At(j), sent, pasted)
         /\ pasted[j.id] \in Nat /\ receipt[j.id] \in Receipts
BY Addressed DEF Inv, TypeOK

(* A proof that ages and a deadline that passes.                            *)
LEMMA TimeKeeps ==
  ASSUME TypeOK, Inv, NEW j \in jobs, ProofAges(j) \/ DeadlinePasses(j)
  PROVE  Inv'
<1>0. j \in Job /\ Fits(j) /\ j.stage \in {"ready", "commit"}
  BY Addressed, Known DEF ProofAges, DeadlinePasses
<1>1. PICK k : /\ k \in {[j EXCEPT !.proof = "aged"], [j EXCEPT !.late = TRUE]}
               /\ Become(j, k)
  BY DEF ProofAges, DeadlinePasses
<1>2. /\ k \in Job /\ k.id = j.id /\ k.stage = j.stage /\ k.same = j.same
      /\ k.stashed = j.stashed /\ k.written = j.written /\ k.to = j.to
      /\ k.proof \in {j.proof, "aged"}
  BY <1>0, <1>1 DEF Job
<1>3. Fits(k)
  BY <1>0, <1>2 DEF Fits, Shape, Booked, Boxed, Clean, At
<1>4. UNCHANGED <<receipt, active, pty, live, pasted, sent, turns>>
  BY DEF ProofAges, DeadlinePasses, ledger, sched, agent, history
<1>5. k.stage \notin Early /\ (Owns(j) => Owns(k))
  BY <1>0, <1>2 DEF Early, Owns
<1>. QED BY <1>1, <1>2, <1>3, <1>4, <1>5, JustGoesOn

(* The first proof: it holds, is put off, or finds another conversation.    *)
LEMMA BeginKeeps ==
  ASSUME TypeOK, Inv, NEW j \in jobs, BeginProof(j)
  PROVE  Inv'
<1>0. /\ j \in Job /\ Fits(j) /\ j.stage = "proving" /\ ~j.stashed /\ ~j.written
      /\ receipt[j.id] # "dispatching" /\ Told(j.id) /\ ~Owns(j)
  BY Addressed, Known DEF BeginProof, Fits, Shape, Booked, Early, Owns
<1>u. UNCHANGED <<receipt, pty, live, pasted, sent, turns>>
  BY DEF BeginProof, ledger, agent, history
<1>t. Told(j.id)'
  BY <1>0, <1>u DEF Told
<1>1. CASE live[At(j)] /\ UNCHANGED active
           /\ Become(j, [j EXCEPT !.proof = "current", !.stage = "proven"])
  <2>1. PICK k : k = [j EXCEPT !.proof = "current", !.stage = "proven"]
    OBVIOUS
  <2>2. /\ k \in Job /\ k.id = j.id /\ k.stage = "proven" /\ k.proof = "current"
        /\ ~k.stashed /\ ~k.written
    BY <1>0, <2>1 DEF Job
  <2>3. Shape(k) /\ Booked(k)
    BY <1>0, <2>2 DEF Shape, Booked, Fits, Early, Unpasted, Pasting, At
  <2>4. Boxed(k) /\ Clean(k)
    BY <1>1, <2>2 DEF Boxed, Clean, At, BeginProof, Unpasted
  <2>. QED BY <1>0, <1>1, <1>u, <2>1, <2>2, <2>3, <2>4, JustGoesOn DEF Fits
<1>2. CASE Quit(j)
  <2>1. Beside(j)
    BY <1>2, <1>u DEF Quit, Beside
  <2>. QED BY <1>0, <1>2, <1>u, <1>t, <2>1, Leaves DEF Quit
<1>3. CASE Become(j, Finishing(j, "failed")) /\ UNCHANGED active
  BY <1>0, <1>3, <1>u, <1>t, JustEnds
<1>. QED BY <1>1, <1>2, <1>3 DEF BeginProof, ProofResults

(* The reservation in the ledger, with or without a GUI to go on to.        *)
LEMMA DispatchKeeps ==
  ASSUME TypeOK, Inv, NEW j \in jobs, Dispatch(j)
  PROVE  Inv'
<1>0. /\ j \in Job /\ Fits(j) /\ j.stage = "proven" /\ ~j.stashed /\ ~j.written
      /\ receipt[j.id] # "dispatching" /\ Told(j.id) /\ ~Owns(j) /\ j.id \in Ids
      /\ At(j) \in Panes /\ pasted[j.id] \in Nat /\ receipt \in [Ids -> Receipts]
  BY Addressed, Known DEF Dispatch, Fits, Shape, Booked, Early, Owns, TypeOK, Receipts
<1>u. UNCHANGED <<pty, live, pasted, sent, turns>>
  BY DEF Dispatch, agent, history
<1>1. CASE Quit(j) /\ UNCHANGED receipt
  <2>1. Beside(j) /\ Told(j.id)'
    BY <1>0, <1>1, <1>u DEF Quit, Beside, Told
  <2>. QED BY <1>0, <1>1, <1>u, <2>1, Leaves DEF Quit
<1>2. CASE /\ Allowed(receipt[j.id], "dispatching") /\ UNCHANGED active
           /\ receipt' = [receipt EXCEPT ![j.id] = "dispatching"]
           /\ Become(j, IF gui = "running" THEN [j EXCEPT !.stage = "ready"]
                        ELSE Finishing(j, "failed"))
  <2>1. receipt[j.id] = "accepted"
    BY <1>0, <1>2 DEF Allowed
  <2>2. pasted[j.id] = 0
    BY <1>0, <2>1 DEF Told
  <2>3. receipt'[j.id] = "dispatching" /\ \A id \in Ids \ {j.id} : receipt'[id] = receipt[id]
    BY <1>0, <1>2
  <2>4. CASE gui = "running"
    <3>1. PICK k : k = [j EXCEPT !.stage = "ready"]
      OBVIOUS
    <3>2. /\ k \in Job /\ k.id = j.id /\ k.stage = "ready" /\ k.proof = j.proof
          /\ ~k.stashed /\ ~k.written /\ k.same = j.same
      BY <1>0, <3>1 DEF Job
    <3>3. jobs' = (jobs \ {j}) \cup {k}
      BY <1>2, <2>4, <3>1 DEF Become
    <3>4. Beside(j)
      BY <1>2, <1>u, <2>3 DEF Beside
    <3>5. Shape(k)'
      BY <3>2 DEF Shape, Early, Unpasted, Pasting
    <3>6. Booked(k)'
      BY <1>0, <1>2, <1>u, <2>2, <2>3, <3>2 DEF Booked, Fits, Early, Unpasted, Pasting, At
    <3>7. Boxed(k)'
      BY <1>0, <1>u, <3>2 DEF Boxed, Fits, At
    <3>8. Clean(k)'
      BY <1>0, <1>u, <3>2 DEF Clean, Fits, Unpasted, At
    <3>9. Told(j.id)'
      BY <1>u, <2>3, <3>2, <3>3 DEF Told, Early
    <3>10. Sound(pty[At(j)], At(j), sent, pasted)' /\ Within(sent, pasted)' /\ TurnsRight'
      BY <1>0, <1>u DEF Inv, TurnsRight, At
    <3>11. pty'[At(j)].hold = "none"
      BY <1>0, <1>u DEF Inv, Owned, Alone
    <3>. QED BY <3>2, <3>3, <3>4, <3>5, <3>6, <3>7, <3>8, <3>9, <3>10, <3>11, GoesOn DEF Fits
  <2>5. CASE gui # "running"
    <3>1. Become(j, Finishing(j, "failed"))
      BY <1>2, <2>5
    <3>2. Finishing(j, "failed").id = j.id /\ Finishing(j, "failed").stage = "finishing"
      BY <1>0, JobValues DEF Final
    <3>3. Told(j.id)'
      BY <1>u, <2>3, <3>1, <3>2 DEF Told, Early, Become
    <3>. QED BY <1>0, <1>2, <1>u, <2>2, <2>3, <3>1, <3>3, JustEnds
  <2>. QED BY <2>4, <2>5
<1>. QED BY <1>1, <1>2 DEF Dispatch

(* A timer fires, with a fresh proof or the old one; the GUI may be gone.   *)
LEMMA ResumeKeeps ==
  ASSUME TypeOK, TypeOK', Inv, NEW j \in jobs, Resume(j)
  PROVE  Inv'
<1>0. /\ j \in Job /\ Fits(j) /\ j.stage \in {"rechecking", "waiting", "reproving"}
      /\ receipt[j.id] = "dispatching"
  BY Addressed, Known DEF Resume, Fits, Booked, Unpasted, Pasting
<1>u. UNCHANGED <<receipt, active, live, pasted, turns>>
  BY DEF Resume, ledger, sched, agent
<1>1. PICK r \in ProofResults(j) \cup {"transient"} :
         IF gui = "running"
         THEN /\ Become(j, [Proved(j, r) EXCEPT
                          !.stage = IF j.stage = "rechecking" THEN "ready" ELSE "commit"])
              /\ UNCHANGED <<pty, sent>>
         ELSE /\ LetGo(At(j), pty[At(j)], (jobs \ {j}) \cup {Finishing(j, "uncertain")})
              /\ sent' = FlushCounted(pty[At(j)], sent)
  BY DEF Resume
<1>2. CASE gui = "running"
  <2>1. PICK k : k = [Proved(j, r) EXCEPT
                        !.stage = IF j.stage = "rechecking" THEN "ready" ELSE "commit"]
    OBVIOUS
  <2>2. /\ Proved(j, r) \in Job /\ Proved(j, r).id = j.id /\ Proved(j, r).same = j.same
        /\ Proved(j, r).stashed = j.stashed /\ Proved(j, r).written = j.written
        /\ Proved(j, r).proof = "current" => live[At(j)]
    BY <1>0 DEF Proved, ProofResults, Job, Fits, Boxed
  <2>3. /\ k \in Job /\ k.id = j.id /\ k.same = j.same /\ k.stashed = j.stashed
        /\ k.written = j.written /\ (k.proof = "current" => live[At(j)])
        /\ k.stage = IF j.stage = "rechecking" THEN "ready" ELSE "commit"
    BY <2>1, <2>2 DEF Job
  <2>4. Shape(k) /\ Booked(k)
    BY <1>0, <2>3 DEF Fits, Shape, Booked, Early, Unpasted, Pasting, At
  <2>5. Boxed(k) /\ Clean(k)
    BY <1>0, <2>3 DEF Fits, Shape, Boxed, Clean, Early, Unpasted, Pasting, At
  <2>6. k.stage \notin Early /\ (Owns(j) => Owns(k))
    BY <1>0, <2>3 DEF Early, Owns
  <2>. QED BY <1>1, <1>2, <1>u, <2>1, <2>3, <2>4, <2>5, <2>6, JustGoesOn DEF Fits
<1>3. CASE gui # "running"
  BY <1>0, <1>1, <1>3, <1>u, LetsGoAsIs
<1>. QED BY <1>2, <1>3

(* The finishing thread moves the receipt and frees the pane.               *)
LEMMA FinishKeeps ==
  ASSUME TypeOK, Inv, NEW j \in jobs, Finish(j)
  PROVE  Inv'
<1>0. /\ j \in Job /\ Fits(j) /\ j.stage = "finishing" /\ Told(j.id) /\ ~Owns(j)
      /\ j.id \in Ids /\ pasted[j.id] \in Nat /\ receipt \in [Ids -> Receipts]
      /\ j.to \in Final \cup {"accepted"}
  BY Addressed, Known DEF Finish, Fits, Shape, Owns, TypeOK, Receipts, Job
<1>u. jobs' = jobs \ {j} /\ active' = active \ {At(j)}
      /\ UNCHANGED <<pty, live, pasted, sent, turns>>
  BY DEF Finish, agent, history
<1>1. PICK saved \in BOOLEAN : receipt' = Reported(j, saved)
  BY DEF Finish
<1>2. \A id \in Ids \ {j.id} : receipt'[id] = receipt[id]
  BY <1>0, <1>1 DEF Reported
<1>3. /\ receipt'[j.id] \in {receipt[j.id], j.to, "uncertain"}
      /\ receipt'[j.id] = receipt[j.id] \/ Allowed(receipt[j.id], j.to)
      /\ receipt'[j.id] # "dispatching"
      /\ receipt'[j.id] = "uncertain" \/ receipt'[j.id] = receipt[j.id] \/ receipt'[j.id] = j.to
  BY <1>0, <1>1 DEF Reported, Allowed, Final
<1>4. Told(j.id)'
  <2>1. receipt'[j.id] = "submitted" => \E t \in turns' : t.id = j.id
    BY <1>0, <1>u, <1>3 DEF Told, Fits, Booked
  <2>2. ASSUME pasted[j.id] > 0
        PROVE  receipt'[j.id] \in {"dispatching", "submitted", "uncertain"}
    <3>1. receipt[j.id] \in {"dispatching", "submitted", "uncertain"}
      BY <1>0, <2>2 DEF Told
    <3>2. receipt[j.id] = "dispatching" => j.to \notin {"accepted", "failed"}
      BY <1>0, <2>2 DEF Fits, Booked
    <3>. QED BY <1>0, <1>3, <3>1, <3>2 DEF Allowed, Final
  <2>. QED BY <1>u, <1>3, <2>1, <2>2 DEF Told
<1>5. Beside(j)
  BY <1>u, <1>2 DEF Beside
<1>. QED BY <1>0, <1>u, <1>3, <1>4, <1>5, Leaves

(* Backing off: a draft that was put away may come back on the way.         *)
LEMMA BackOffKeeps ==
  ASSUME TypeOK, TypeOK', Inv, NEW j \in jobs, NEW to \in {"accepted", "failed"},
         j.stage = "ready", BackOff(j, to),
         UNCHANGED <<receipt, active, live, pasted, turns>>
  PROVE  Inv'
<1>0. /\ Fits(j) /\ ~j.written /\ receipt[j.id] = "dispatching" /\ pasted[j.id] = 0
      /\ At(j) \in Panes /\ Told(j.id)
  BY Addressed, Known DEF Fits, Shape, Booked, Unpasted
<1>1. CASE j.stashed
  <2>1. PICK pre, was : pre = Unstashed(j, pty[At(j)]) /\ was = sent
    OBVIOUS
  <2>2. pty[At(j)] \in Pty /\ was \in [Ids -> Nat] /\ pasted \in [Ids -> Nat]
    BY <2>1, Addressed DEF TypeOK
  <2>3. pre \in Pty
    BY <2>1, <2>2, GateValues DEF Unstashed
  <2>4. Sound(pty[At(j)], At(j), sent, pasted) /\ Within(sent, pasted)
    BY <1>0 DEF Inv
  <2>5. Sound(pre, At(j), was, pasted)
    <3>1. PICK g, p, n : g = pty[At(j)] /\ p = At(j) /\ n = pasted
      OBVIOUS
    <3>2. Sound(g, p, was, n) /\ Sound(StashKey(g), p, was, n)
      BY <2>1, <2>2, <2>4, <3>1, KeysSound
    <3>. QED BY <2>1, <3>1, <3>2 DEF Unstashed
  <2>6. /\ LetGo(At(j), pre, (jobs \ {j}) \cup {Finishing(j, to)})
        /\ sent' = FlushCounted(pre, was)
    BY <1>1, <2>1 DEF BackOff
  <2>7. Sound(pre, At(j), was, pasted') /\ Within(was, pasted') /\ TurnsRight'
    BY <2>1, <2>4, <2>5 DEF Inv, TurnsRight
  <2>8. to \in Final \cup {"accepted"} /\ to # "submitted"
    BY DEF Final
  <2>. QED BY <1>0, <2>1, <2>2, <2>3, <2>6, <2>7, <2>8, LetsGo
<1>2. CASE ~j.stashed
  <2>1. Become(j, Finishing(j, to)) /\ UNCHANGED <<pty, sent>> /\ ~Owns(j)
    BY <1>0, <1>2 DEF BackOff, Become, Owns
  <2>2. Told(j.id)'
    <3>1. Finishing(j, to).id = j.id /\ Finishing(j, to).stage = "finishing"
      BY Addressed, JobValues DEF Final
    <3>. QED BY <1>0, <2>1, <3>1 DEF Told, Early, Become
  <2>. QED BY <1>0, <2>1, <2>2, JustEnds
<1>. QED BY <1>1, <1>2

(* The last look before the first write.                                    *)
LEMMA ReadyKeeps ==
  ASSUME TypeOK, TypeOK', Inv, NEW j \in jobs, Ready(j)
  PROVE  Inv'
<1>0. /\ j \in Job /\ Fits(j) /\ j.stage = "ready" /\ ~j.written
      /\ receipt[j.id] = "dispatching" /\ pasted[j.id] = 0
  BY Addressed, Known DEF Ready, Fits, Shape, Booked, Unpasted
<1>u. UNCHANGED <<receipt, active, live, pasted, turns>>
  BY DEF Ready, ledger, sched, agent
<1>d. Drawn(pty[At(j)])
  BY Known DEF Sound
<1>1. ASSUME NEW to \in {"accepted", "failed"}, BackOff(j, to) PROVE Inv'
  BY <1>0, <1>1, <1>u, BackOffKeeps
<1>2. ASSUME NEW st \in {"pasting", "stashing", "rechecking"},
             Become(j, [j EXCEPT !.stage = st]), UNCHANGED <<pty, sent>>,
             st = "pasting" => pty[At(j)].shown = {} /\ (j.stashed \/ ~pty[At(j)].typing),
             st = "stashing" => ~j.stashed /\ ~pty[At(j)].typing /\ ~pty[At(j)].stashed,
             st = "rechecking" => j.stashed
      PROVE  Inv'
  <2>1. PICK k : k = [j EXCEPT !.stage = st]
    OBVIOUS
  <2>2. /\ k \in Job /\ k.id = j.id /\ k.stage = st /\ k.proof = j.proof
        /\ k.stashed = j.stashed /\ ~k.written /\ k.same = j.same
    BY <1>0, <2>1 DEF Job
  <2>3. Shape(k) /\ Booked(k)
    BY <1>0, <1>2, <2>2 DEF Fits, Shape, Booked, Early, Unpasted, Pasting, At
  <2>4. Boxed(k)
    BY <1>0, <1>2, <2>2 DEF Fits, Boxed, At
  <2>5. Clean(k)
    BY <1>0, <1>2, <1>d, <2>2 DEF Fits, Clean, Drawn, At
  <2>6. k.stage \notin Early /\ (Owns(j) => Owns(k))
    BY <1>0, <2>2 DEF Early, Owns
  <2>. QED BY <1>2, <1>u, <2>1, <2>2, <2>3, <2>4, <2>5, <2>6, JustGoesOn DEF Fits
<1>3. CASE TargetChanged(j)
  BY <1>1, <1>3 DEF Ready
<1>4. CASE ~TargetChanged(j)
  <2>1. PICK hold \in Holds(j) :
       CASE hold = "none" -> Become(j, [j EXCEPT !.stage = "pasting"]) /\ UNCHANGED <<pty, sent>>
         [] hold = "draft" /\ ~j.stashed /\ CanStash(j) ->
              Become(j, [j EXCEPT !.stage = "stashing"]) /\ UNCHANGED <<pty, sent>>
         [] hold \in {"draft", "identity"} /\ j.stashed /\ ~j.late ->
              Become(j, [j EXCEPT !.stage = "rechecking"]) /\ UNCHANGED <<pty, sent>>
         [] OTHER -> BackOff(j, IF j.id \in Rejecting THEN "failed" ELSE "accepted")
    BY <1>4 DEF Ready
  <2>2. CASE hold = "none"
    <3>1. pty[At(j)].shown = {} /\ (j.stashed \/ ~pty[At(j)].typing)
      BY <2>2 DEF Holds
    <3>. QED BY <1>2, <2>1, <2>2, <3>1
  <2>3. CASE hold = "draft" /\ ~j.stashed /\ CanStash(j)
    <3>1. ~pty[At(j)].typing
      BY <2>3 DEF Holds
    <3>. QED BY <1>2, <2>1, <2>3, <3>1 DEF CanStash
  <2>4. CASE hold \in {"draft", "identity"} /\ j.stashed /\ ~j.late
    BY <1>2, <2>1, <2>4
  <2>5. CASE /\ hold # "none" /\ ~(hold = "draft" /\ ~j.stashed /\ CanStash(j))
             /\ ~(hold \in {"draft", "identity"} /\ j.stashed /\ ~j.late)
    BY <1>1, <2>1, <2>5
  <2>. QED BY <2>2, <2>3, <2>4, <2>5
<1>. QED BY <1>3, <1>4

(* The draft goes away, or the pane has changed and the delivery ends.      *)
LEMMA StashKeeps ==
  ASSUME TypeOK, TypeOK', Inv, NEW j \in jobs, Stash(j)
  PROVE  Inv'
<1>0. /\ j \in Job /\ Fits(j) /\ j.stage = "stashing" /\ ~j.written /\ ~j.stashed
      /\ receipt[j.id] = "dispatching" /\ pasted[j.id] = 0
      /\ At(j) \in Panes /\ Told(j.id) /\ pty[At(j)] \in Pty
  BY Addressed, Known DEF Stash, Fits, Shape, Booked, Unpasted
<1>u. UNCHANGED <<receipt, active, live, pasted, turns>>
  BY DEF Stash, ledger, sched, agent
<1>1. CASE j.same /\ ~pty[At(j)].closed
  <2>1. PICK k : k = [j EXCEPT !.stage = "rechecking", !.stashed = TRUE, !.late = FALSE]
    OBVIOUS
  <2>2. /\ k \in Job /\ k.id = j.id /\ k.stage = "rechecking" /\ k.proof = j.proof
        /\ k.stashed /\ ~k.written
    BY <1>0, <2>1 DEF Job
  <2>3. PICK g, p : g = pty[At(j)] /\ p = At(j)
    OBVIOUS
  <2>4. PICK g1 : g1 = StashKey(g)
    OBVIOUS
  <2>5. PICK g2 : g2 = [g1 EXCEPT !.hold = "held"]
    OBVIOUS
  <2>6. g1 \in Pty /\ g2 \in Pty /\ g2.box = g1.box /\ g2.stash = g1.stash /\ g2.typing
    <3>1. g \in Pty
      BY <1>0, <2>3
    <3>2. g1 \in Pty
      BY <2>4, <3>1, GateValues
    <3>3. g1.typing
      BY <2>4, <3>1 DEF StashKey, Pty
    <3>. QED BY <2>5, <3>2, <3>3 DEF Pty
  <2>7. pty' = [pty EXCEPT ![p] = g2] /\ UNCHANGED sent /\ Wrote(j, k)
    BY <1>1, <2>1, <2>3, <2>4, <2>5 DEF Stash
  <2>8. jobs' = (jobs \ {j}) \cup {k}
    BY <2>7, NobodyElse DEF Wrote
  <2>9. pty'[At(j)] = g2 /\ \A q \in Panes \ {At(j)} : pty'[q] = pty[q]
    BY <1>0, <2>3, <2>7 DEF TypeOK
  <2>10. ~SlowDraw => g1.box = {}
    <3>1. ~SlowDraw => g.stash = {}
      BY <1>0, <1>1, <2>3 DEF Fits, Clean
    <3>. QED BY <1>0, <2>3, <2>4, <3>1 DEF StashKey, Pty
  <2>11. Beside(j)
    BY <1>u, <2>7, <2>9 DEF Beside
  <2>12. Shape(k)' /\ Booked(k)'
    BY <1>0, <1>u, <2>2 DEF Fits, Shape, Booked, Early, Unpasted, Pasting, At
  <2>13. Boxed(k)' /\ Clean(k)'
    BY <1>0, <1>u, <2>2, <2>6, <2>9, <2>10 DEF Fits, Boxed, Clean, At
  <2>14. Told(j.id)'
    BY <1>0, <1>u, <2>2, <2>8 DEF Told, Early
  <2>15. Sound(pty[At(j)], At(j), sent, pasted)'
    <3>1. PICK s, n : s = sent /\ n = pasted
      OBVIOUS
    <3>2. s \in [Ids -> Nat] /\ n \in [Ids -> Nat] /\ Sound(g, p, s, n) /\ Within(s, n)
      BY <1>0, <2>3, <3>1 DEF Inv, TypeOK
    <3>3. Sound(g1, p, s, n)
      BY <1>0, <2>3, <2>4, <3>2, KeysSound
    <3>4. Sound(g2, p, s, n)
      BY <2>6, <3>3 DEF Sound, Drawn
    <3>. QED BY <1>u, <2>3, <2>7, <2>9, <3>1, <3>4 DEF At
  <2>16. Within(sent, pasted)' /\ TurnsRight' /\ Owns(k)
    BY <1>u, <2>2, <2>7 DEF Inv, TurnsRight, Owns
  <2>. QED BY <2>2, <2>8, <2>11, <2>12, <2>13, <2>14, <2>15, <2>16, GoesOn DEF Fits
<1>2. CASE ~(j.same /\ ~pty[At(j)].closed)
  BY <1>0, <1>2, <1>u, LetsGoAsIs DEF Stash
<1>. QED BY <1>1, <1>2

(* A message that joins the box is sound there: written once, into the pane *)
(* it is addressed to, and in no turn yet.                                  *)
LEMMA FilledSound ==
  ASSUME TypeOK, Inv, NEW j \in jobs, pasted[j.id] = 0,
         pasted' = [pasted EXCEPT ![j.id] = @ + 1],
         NEW g \in Pty, g.box = pty[At(j)].box \cup {j.id}, g.stash = pty[At(j)].stash, g.typing
  PROVE  Sound(g, At(j), sent, pasted') /\ Within(sent, pasted')
<1>0. /\ j.id \in Ids /\ PaneOf[j.id] = At(j) /\ pasted \in [Ids -> Nat] /\ sent \in [Ids -> Nat]
      /\ Sound(pty[At(j)], At(j), sent, pasted) /\ Within(sent, pasted)
  BY Addressed, Known DEF TypeOK, Inv
<1>1. pasted'[j.id] = 1 /\ \A id \in Ids \ {j.id} : pasted'[id] = pasted[id]
  BY <1>0
<1>2. sent[j.id] = 0
  <2>1. sent[j.id] \in Nat /\ sent[j.id] <= pasted[j.id]
    BY <1>0 DEF Within
  <2>. QED BY <2>1
<1>3. j.id \notin pty[At(j)].box \cup pty[At(j)].stash
  BY <1>0 DEF Sound
<1>4. Sound(g, At(j), sent, pasted')
  BY <1>0, <1>1, <1>2, <1>3 DEF Sound, Drawn
<1>5. Within(sent, pasted')
  BY <1>0, <1>1, <1>2 DEF Within
<1>. QED BY <1>4, <1>5

(* The body is written, in part, or not at all.                             *)
LEMMA PasteKeeps ==
  ASSUME TypeOK, TypeOK', Inv, NEW j \in jobs, Paste(j)
  PROVE  Inv'
<1>0. /\ j \in Job /\ Fits(j) /\ j.stage = "pasting"
      /\ receipt[j.id] = "dispatching" /\ pasted[j.id] = 0 /\ j.id \in Ids
      /\ At(j) \in Panes /\ Told(j.id) /\ pty[At(j)] \in Pty
  BY Addressed, Known DEF Paste, Fits, Booked, Unpasted
<1>u. UNCHANGED <<receipt, active, live, turns>>
  BY DEF Paste, ledger, sched, agent
<1>1. CASE j.same /\ ~pty[At(j)].closed
  <2>1. PICK g : g = Pasted(pty[At(j)], j.id)
    OBVIOUS
  <2>2. /\ g \in Pty /\ g.box = pty[At(j)].box \cup {j.id} /\ g.stash = pty[At(j)].stash
        /\ g.typing
    BY <1>0, <2>1 DEF Pasted, Pty
  <2>3. pasted' = [pasted EXCEPT ![j.id] = @ + 1]
    BY <1>1 DEF Paste
  <2>4. Sound(g, At(j), sent, pasted') /\ Within(sent, pasted')
    BY <1>0, <2>2, <2>3, FilledSound
  <2>5. \A id \in Ids \ {j.id} : pasted'[id] = pasted[id]
    BY <2>3 DEF TypeOK
  <2>t. TurnsRight'
    BY <1>u DEF Inv, TurnsRight
  <2>6. CASE /\ pty' = [pty EXCEPT ![At(j)] = [g EXCEPT !.hold = "held"]]
             /\ Wrote(j, [j EXCEPT !.stage = "reproving", !.written = TRUE, !.late = FALSE])
             /\ UNCHANGED sent
    <3>1. PICK k : k = [j EXCEPT !.stage = "reproving", !.written = TRUE, !.late = FALSE]
      OBVIOUS
    <3>2. /\ k \in Job /\ k.id = j.id /\ k.stage = "reproving" /\ k.proof = j.proof
          /\ k.written
      BY <1>0, <3>1 DEF Job
    <3>3. PICK g2 : g2 = [g EXCEPT !.hold = "held"]
      OBVIOUS
    <3>4. g2 \in Pty /\ g2.box = g.box /\ g2.stash = g.stash /\ g2.typing
      BY <2>2, <3>3 DEF Pty
    <3>5. jobs' = (jobs \ {j}) \cup {k}
      BY <2>6, <3>1, NobodyElse DEF Wrote
    <3>6. pty'[At(j)] = g2 /\ \A q \in Panes \ {At(j)} : pty'[q] = pty[q]
      BY <1>0, <2>6, <3>3 DEF TypeOK
    <3>7. Beside(j)
      BY <1>u, <2>5, <2>6, <3>6 DEF Beside
    <3>8. Shape(k)' /\ Booked(k)'
      BY <1>0, <1>u, <3>2 DEF Fits, Shape, Booked, Early, Unpasted, Pasting, At
    <3>9. Boxed(k)'
      BY <1>0, <1>u, <3>2 DEF Fits, Boxed, At
    <3>10. Clean(k)'
      <4>1. ~SlowDraw => g2.box = {j.id}
        BY <1>0, <1>1, <2>2, <3>4 DEF Fits, Clean
      <4>. QED BY <3>2, <3>6, <4>1 DEF Clean, Unpasted, At
    <3>11. Told(j.id)'
      BY <1>0, <1>u, <3>2, <3>5 DEF Told, Early
    <3>12. Sound(g2, At(j), sent, pasted')
      BY <2>4, <3>4 DEF Sound, Drawn
    <3>13. Sound(pty[At(j)], At(j), sent, pasted)' /\ Within(sent, pasted)' /\ Owns(k)
      BY <2>4, <2>6, <3>2, <3>6, <3>12 DEF Owns, At
    <3>. QED BY <2>t, <3>2, <3>5, <3>7, <3>8, <3>9, <3>10, <3>11, <3>13, GoesOn DEF Fits
  <2>7. CASE /\ LetGo(At(j), g, (jobs \ {j}) \cup {Finishing(j, "uncertain")})
             /\ sent' = FlushCounted(g, sent)
    <3>1. PICK was : was = sent
      OBVIOUS
    <3>2. was \in [Ids -> Nat] /\ "uncertain" \in Final \cup {"accepted"}
      BY <3>1 DEF TypeOK, Final
    <3>3. /\ LetGo(At(j), g, (jobs \ {j}) \cup {Finishing(j, "uncertain")})
          /\ sent' = FlushCounted(g, was) /\ Sound(g, At(j), was, pasted')
          /\ Within(was, pasted') /\ \A id \in Ids : PaneOf[id] # At(j) => was[id] = sent[id]
      BY <2>4, <2>7, <3>1
    <3>. QED BY <1>0, <1>u, <2>2, <2>5, <2>t, <3>2, <3>3, LetsGo
  <2>. QED BY <1>1, <2>1, <2>6, <2>7 DEF Paste
<1>2. CASE ~(j.same /\ ~pty[At(j)].closed)
  BY <1>0, <1>2, <1>u, LetsGoAsIs DEF Paste
<1>. QED BY <1>1, <1>2

(* Enter, wait, prove again, or withhold.                                   *)
LEMMA CommitKeeps ==
  ASSUME TypeOK, TypeOK', Inv, NEW j \in jobs, Commit(j)
  PROVE  Inv'
<1>0. /\ j \in Job /\ Fits(j) /\ j.stage = "commit" /\ j.written
      /\ receipt[j.id] = "dispatching"
  BY Addressed, Known DEF Commit, Fits, Shape, Booked, Pasting
<1>u. UNCHANGED <<receipt, active, live, pasted, turns>>
  BY DEF Commit, ledger, sched, agent
<1>1. CASE Withhold(j)
  BY <1>0, <1>1, <1>u, LetsGoAsIs DEF Withhold
<1>2. ASSUME NEW st \in {"entering", "reproving", "waiting"},
             Become(j, [j EXCEPT !.stage = st]), UNCHANGED <<pty, sent>>,
             st = "entering" => j.proof = "current"
      PROVE  Inv'
  <2>1. PICK k : k = [j EXCEPT !.stage = st]
    OBVIOUS
  <2>2. /\ k \in Job /\ k.id = j.id /\ k.stage = st /\ k.proof = j.proof
        /\ k.stashed = j.stashed /\ k.written /\ k.same = j.same
    BY <1>0, <2>1 DEF Job
  <2>3. Shape(k) /\ Booked(k)
    BY <1>0, <2>2 DEF Fits, Shape, Booked, Early, Unpasted, Pasting, At
  <2>4. Boxed(k) /\ Clean(k)
    BY <1>0, <1>2, <2>2 DEF Fits, Boxed, Clean, Unpasted, At
  <2>5. k.stage \notin Early /\ (Owns(j) => Owns(k))
    BY <2>2 DEF Early, Owns
  <2>. QED BY <1>2, <1>u, <2>1, <2>2, <2>3, <2>4, <2>5, JustGoesOn DEF Fits
<1>. QED BY <1>1, <1>2 DEF Commit

(* Enter submits the turn, or is refused.                                   *)
LEMMA EnterKeeps ==
  ASSUME TypeOK, TypeOK', Inv, NEW j \in jobs, Enter(j)
  PROVE  Inv'
<1>0. /\ j \in Job /\ Fits(j) /\ j.stage = "entering" /\ j.written
      /\ receipt[j.id] = "dispatching" /\ At(j) \in Panes /\ pty[At(j)] \in Pty
  BY Addressed, Known DEF Enter, Fits, Shape, Booked, Pasting
<1>u. UNCHANGED <<receipt, active, live, pasted>>
  BY DEF Enter, ledger, sched, agent
<1>1. CASE /\ j.same /\ ~pty[At(j)].closed
           /\ LetGo(At(j), Entered(pty[At(j)]), (jobs \ {j}) \cup {Finishing(j, "submitted")})
           /\ sent' = FlushCounted(Entered(pty[At(j)]), Counted(pty[At(j)]))
           /\ turns' = turns \cup
                {[id |-> j.id, box |-> pty[At(j)].box, live |-> live[At(j)]]}
  <2>1. PICK g, p, s, n : g = pty[At(j)] /\ p = At(j) /\ s = sent /\ n = pasted
    OBVIOUS
  <2>2. s \in [Ids -> Nat] /\ n \in [Ids -> Nat] /\ Sound(g, p, s, n) /\ Within(s, n) /\ g \in Pty
    BY <1>0, <2>1 DEF Inv, TypeOK
  <2>3. PICK pre, was : pre = Entered(g) /\ was = Taken(g, s)
    OBVIOUS
  <2>4. /\ Sound(pre, p, was, n) /\ Within(was, n) /\ was \in [Ids -> Nat] /\ pre \in Pty
        /\ \A id \in Ids : PaneOf[id] # p => was[id] = s[id]
    BY <2>2, <2>3, KeysSound, GateValues
  <2>5. Counted(pty[At(j)]) = was
    BY <2>1, <2>3 DEF Counted, Taken
  <2>6. /\ LetGo(At(j), pre, (jobs \ {j}) \cup {Finishing(j, "submitted")})
        /\ sent' = FlushCounted(pre, was)
    BY <1>1, <2>1, <2>3, <2>5
  <2>7. Sound(pre, At(j), was, pasted') /\ Within(was, pasted')
        /\ \A id \in Ids : (PaneOf[id] # At(j) => was[id] = sent[id]) /\ pasted'[id] = pasted[id]
    BY <1>u, <2>1, <2>4
  <2>8. live[At(j)] /\ (~SlowDraw => pty[At(j)].box = {j.id})
    BY <1>0, <1>1 DEF Fits, Boxed, Clean
  <2>9. TurnsRight' /\ turns \subseteq turns' /\ \E t \in turns' : t.id = j.id
    <3>1. PICK t0 : t0 = [id |-> j.id, box |-> pty[At(j)].box, live |-> live[At(j)]]
      OBVIOUS
    <3>2. t0.id = j.id /\ t0.live /\ (~SlowDraw => t0.box = {t0.id})
      BY <2>8, <3>1
    <3>3. turns' = turns \cup {t0}
      BY <1>1, <3>1
    <3>. QED BY <3>2, <3>3 DEF Inv, TurnsRight
  <2>10. "submitted" \in Final \cup {"accepted"}
    BY DEF Final
  <2>. QED BY <1>0, <1>u, <2>4, <2>6, <2>7, <2>9, <2>10, LetsGo
<1>2. CASE /\ LetGo(At(j), pty[At(j)], (jobs \ {j}) \cup {Finishing(j, "uncertain")})
           /\ sent' = FlushCounted(pty[At(j)], sent) /\ UNCHANGED turns
  BY <1>0, <1>2, <1>u, LetsGoAsIs
<1>. QED BY <1>1, <1>2 DEF Enter

-----------------------------------------------------------------------------
(* So does every step of people, panes, agents, clocks and the scheduler.   *)

(* A step that changes none of what the invariant reads.                    *)
LEMMA NothingSeen ==
  ASSUME Inv, UNCHANGED <<receipt, active, jobs, pty, live, pasted, sent, turns>>
  PROVE  Inv'
BY DEF Inv, Alone, Fits, Shape, Booked, Boxed, Clean, Told, Owned, TurnsRight, At

(* A pane step that writes nothing leaves every delivery as it was.         *)
LEMMA StillKeeps ==
  ASSUME TypeOK, Inv, NEW p \in Panes, NEW g, Still(p, g),
         UNCHANGED <<receipt, active, jobs, live, pasted, sent, turns>>
  PROVE  Inv'
<1>1. /\ pty'[p] = g /\ g.box = pty[p].box /\ g.stash = pty[p].stash
      /\ Drawn(pty[p]) => Drawn(g)
      /\ pty[p].hold = "none" => g.hold = "none"
      /\ \A q \in Panes \ {p} : pty'[q] = pty[q]
  BY DEF Still, Edit, TypeOK
<1>2. ASSUME NEW j \in jobs PROVE Fits(j)'
  <2>1. Fits(j) /\ At(j) \in Panes
    BY Addressed DEF Inv
  <2>2. Shape(j)' /\ Booked(j)'
    BY <2>1 DEF Fits, Shape, Booked, At
  <2>3. pty'[At(j)].box = pty[At(j)].box /\ pty'[At(j)].stash = pty[At(j)].stash
    BY <1>1, <2>1
  <2>4. Boxed(j)'
    BY <2>1, <2>3 DEF Fits, Boxed, At
  <2>5. Clean(j)'
    BY <2>1, <2>3 DEF Fits, Clean, At
  <2>. QED BY <2>2, <2>4, <2>5 DEF Fits
<1>3. ASSUME NEW q \in Panes PROVE Sound(pty[q], q, sent, pasted)'
  <2>1. Sound(pty[q], q, sent, pasted)
    BY DEF Inv
  <2>2. CASE q = p
    <3>1. Sound(g, q, sent, pasted)
      BY <1>1, <2>1, <2>2 DEF Sound
    <3>. QED BY <1>1, <2>2, <3>1
  <2>3. CASE q # p
    BY <1>1, <2>1, <2>3
  <2>. QED BY <2>2, <2>3
<1>4. \A q \in Panes : Owned(q)'
  BY <1>1 DEF Inv, Owned, At
<1>5. Alone' /\ (\A id \in Ids : Told(id)') /\ Within(sent, pasted)' /\ TurnsRight'
  BY DEF Inv, Alone, Told, TurnsRight, At
<1>. QED BY <1>2, <1>3, <1>4, <1>5 DEF Inv

(* A write of someone else: the deliveries of the pane learn of it, and     *)
(* rely on nothing in the box any more.                                     *)
LEMMA TouchKeeps ==
  ASSUME TypeOK, Inv, NEW p \in Panes, NEW g, Edit(p, g),
         jobs' = Touched(jobs, p), UNCHANGED <<receipt, active, live, pasted, turns>>,
         pty[p].hold = "none" => g.hold = "none",
         Sound(g, p, sent', pasted'), Within(sent', pasted'),
         \A id \in Ids : PaneOf[id] # p => sent'[id] = sent[id]
  PROVE  Inv'
<1>1. pty'[p] = g /\ \A q \in Panes \ {p} : pty'[q] = pty[q]
  BY DEF Edit, TypeOK
<1>2. ASSUME NEW j \in jobs, NEW k, k = [j EXCEPT !.same = FALSE]
      PROVE  /\ k.id = j.id /\ k.stage = j.stage /\ k.proof = j.proof /\ ~k.same
             /\ k.stashed = j.stashed /\ k.written = j.written /\ k.to = j.to
             /\ At(k) = At(j)
  <2>1. j \in Job
    BY Addressed
  <2>. QED BY <1>2, <2>1 DEF Job, At
<1>3. /\ \A k \in jobs' : \E j \in jobs :
           \/ At(j) = p /\ k = [j EXCEPT !.same = FALSE]
           \/ At(j) # p /\ k = j
      /\ \A j \in jobs : At(j) = p => [j EXCEPT !.same = FALSE] \in jobs'
      /\ \A j \in jobs : At(j) # p => j \in jobs'
  BY DEF Touched
<1>4. ASSUME NEW k \in jobs' PROVE Fits(k)'
  <2>1. PICK j \in jobs : \/ At(j) = p /\ k = [j EXCEPT !.same = FALSE]
                          \/ At(j) # p /\ k = j
    BY <1>3
  <2>2. Fits(j) /\ At(j) \in Panes
    BY Addressed DEF Inv
  <2>3. CASE At(j) # p
    <3>1. k = j /\ pty'[At(j)] = pty[At(j)]
      BY <1>1, <2>1, <2>2, <2>3
    <3>. QED BY <2>2, <3>1 DEF Fits, Shape, Booked, Boxed, Clean, At
  <2>4. CASE At(j) = p
    <3>1. /\ k.id = j.id /\ k.stage = j.stage /\ k.proof = j.proof /\ ~k.same
          /\ k.stashed = j.stashed /\ k.written = j.written /\ k.to = j.to
          /\ At(k) = At(j)
      BY <1>2, <2>1, <2>4
    <3>2. Shape(k)'
      BY <2>2, <3>1 DEF Fits, Shape
    <3>3. Booked(k)'
      BY <2>2, <3>1 DEF Fits, Booked, At
    <3>4. Boxed(k)' /\ Clean(k)'
      BY <2>2, <3>1 DEF Fits, Boxed, Clean, At
    <3>. QED BY <3>2, <3>3, <3>4 DEF Fits
  <2>. QED BY <2>3, <2>4
<1>5. Alone'
  <2>. SUFFICES ASSUME NEW i \in jobs', NEW k \in jobs', At(i) = At(k) PROVE i = k
    BY DEF Alone, At
  <2>1. PICK a \in jobs : \/ At(a) = p /\ i = [a EXCEPT !.same = FALSE]
                          \/ At(a) # p /\ i = a
    BY <1>3
  <2>2. PICK b \in jobs : \/ At(b) = p /\ k = [b EXCEPT !.same = FALSE]
                          \/ At(b) # p /\ k = b
    BY <1>3
  <2>3. At(a) = At(i) /\ At(b) = At(k)
    BY <1>2, <2>1, <2>2
  <2>4. a = b
    BY <2>3 DEF Inv, Alone
  <2>5. CASE At(a) = p
    <3>1. i = [a EXCEPT !.same = FALSE]
      BY <2>1, <2>5
    <3>2. k = [b EXCEPT !.same = FALSE]
      BY <2>2, <2>4, <2>5
    <3>. QED BY <2>4, <3>1, <3>2
  <2>6. CASE At(a) # p
    <3>1. i = a /\ k = b
      BY <2>1, <2>2, <2>4, <2>6
    <3>. QED BY <2>4, <3>1
  <2>. QED BY <2>5, <2>6
<1>6. ASSUME NEW id \in Ids PROVE Told(id)'
  <2>1. Told(id)
    BY DEF Inv
  <2>2. ASSUME NEW j \in jobs, j.id = id, j.stage \notin Early
        PROVE  \E k \in jobs' : k.id = id /\ k.stage \notin Early
    <3>1. PICK k : k = IF At(j) = p THEN [j EXCEPT !.same = FALSE] ELSE j
      OBVIOUS
    <3>2. k \in jobs' /\ k.id = id /\ k.stage \notin Early
      BY <1>2, <1>3, <2>2, <3>1
    <3>. QED BY <3>2
  <2>. QED BY <2>1, <2>2 DEF Told
<1>7. ASSUME NEW q \in Panes PROVE Sound(pty[q], q, sent, pasted)'
  <2>1. CASE q = p
    BY <1>1, <2>1
  <2>2. CASE q # p
    BY <1>1, <2>2 DEF Inv, Sound, Drawn
  <2>. QED BY <2>1, <2>2
<1>8. ASSUME NEW q \in Panes PROVE Owned(q)'
  <2>1. Owned(q) /\ (pty'[q].hold # "none" => pty[q].hold # "none")
    BY <1>1 DEF Inv
  <2>2. ASSUME NEW j \in jobs, At(j) = q, Owns(j)
        PROVE  \E k \in jobs' : At(k) = q /\ Owns(k)
    <3>1. PICK k : k = IF At(j) = p THEN [j EXCEPT !.same = FALSE] ELSE j
      OBVIOUS
    <3>2. k \in jobs' /\ At(k) = q /\ Owns(k)
      BY <1>2, <1>3, <2>2, <3>1 DEF Owns
    <3>. QED BY <3>2
  <2>. QED BY <2>1, <2>2 DEF Owned, At
<1>9. TurnsRight'
  BY DEF Inv, TurnsRight
<1>. QED BY <1>4, <1>5, <1>6, <1>7, <1>8, <1>9 DEF Inv

(* A key: it waits while the input is held, goes nowhere in a closed pane,  *)
(* and is a write of someone else otherwise.                                *)
LEMMA PressKeeps ==
  ASSUME TypeOK, Inv, NEW p \in Panes, NEW key \in Keys(p), Press(p, key)
  PROVE  Inv'
<1>. DEFINE first == IF pty[p].buf = "none" THEN key ELSE pty[p].buf
<1>0. pty[p] \in Pty /\ pty \in [Panes -> Pty] /\ first \in {"text", "enter", "stash"}
  BY FirstKey DEF TypeOK
<1>u. UNCHANGED <<receipt, active, live, pasted, turns>>
  BY DEF Press, ledger, sched, agent
<1>. HIDE DEF first
<1>1. PICK open : open = [pty[p] EXCEPT !.hold = "none", !.buf = "none"]
  OBVIOUS
<1>2. /\ open \in Pty /\ open.box = pty[p].box /\ open.stash = pty[p].stash
      /\ open.shown = pty[p].shown /\ open.stashed = pty[p].stashed
      /\ open.typing = pty[p].typing /\ open.hold = "none"
  BY <1>0, <1>1 DEF Pty
<1>3. CASE pty[p].hold = "held"
  <2>1. PICK g : g = [pty[p] EXCEPT !.buf = first]
    OBVIOUS
  <2>2. /\ g \in Pty /\ g.box = pty[p].box /\ g.stash = pty[p].stash
        /\ g.shown = pty[p].shown /\ g.stashed = pty[p].stashed
        /\ g.typing = pty[p].typing /\ g.hold = pty[p].hold
    BY <1>0, <2>1 DEF Pty
  <2>3. pty' = [pty EXCEPT ![p] = g] /\ UNCHANGED <<jobs, sent>>
    BY <1>3, <2>1 DEF Press, first
  <2>4. Still(p, g)
    BY <2>2, <2>3 DEF Still, Edit, Drawn
  <2>. QED BY <1>u, <2>3, <2>4, StillKeeps
<1>4. CASE pty[p].hold # "held" /\ pty[p].closed
  <2>1. pty' = [pty EXCEPT ![p] = open] /\ UNCHANGED <<jobs, sent>>
    BY <1>1, <1>4 DEF Press
  <2>2. Still(p, open)
    BY <1>2, <2>1 DEF Still, Edit, Drawn
  <2>. QED BY <1>u, <2>1, <2>2, StillKeeps
<1>5. CASE pty[p].hold # "held" /\ ~pty[p].closed
  <2>1. PICK g, s, n : g = Keyed(open, first) /\ s = sent /\ n = pasted
    OBVIOUS
  <2>2. /\ pty' = [pty EXCEPT ![p] = g] /\ jobs' = Touched(jobs, p)
        /\ sent' = IF first = "enter" THEN Counted(pty[p]) ELSE sent
    BY <1>1, <1>5, <2>1 DEF Press, first
  <2>3. /\ s \in [Ids -> Nat] /\ n \in [Ids -> Nat] /\ Within(s, n)
        /\ Sound(open, p, s, n)
    <3>1. Sound(pty[p], p, sent, pasted) /\ Within(sent, pasted)
      BY DEF Inv
    <3>2. Sound(open, p, sent, pasted)
      BY <1>2, <3>1 DEF Sound, Drawn
    <3>. QED BY <2>1, <3>1, <3>2 DEF TypeOK
  <2>4. Counted(pty[p]) = Taken(open, s)
    BY <1>2, <2>1 DEF Counted, Taken
  <2>5. g \in Pty /\ g.hold = "none"
    <3>1. g \in Pty
      BY <1>2, <2>1, GateValues
    <3>2. Entered(open).hold = "none" /\ Typed(open).hold = "none" /\ StashKey(open).hold = "none"
      BY <1>2 DEF Entered, Typed, StashKey, Pty
    <3>. QED BY <2>1, <3>1, <3>2 DEF Keyed
  <2>6. CASE first = "enter"
    <3>1. g = Entered(open) /\ sent' = Taken(open, s)
      BY <2>1, <2>2, <2>4, <2>6 DEF Keyed
    <3>2. /\ Sound(g, p, sent', n) /\ Within(sent', n)
          /\ \A id \in Ids : PaneOf[id] # p => sent'[id] = s[id]
      BY <1>2, <2>3, <3>1, KeysSound
    <3>. QED BY <1>u, <2>1, <2>2, <2>5, <3>2, TouchKeeps DEF Edit
  <2>7. CASE first # "enter"
    <3>1. g \in {Typed(open), StashKey(open)} /\ sent' = s
      BY <2>1, <2>2, <2>7 DEF Keyed
    <3>2. Sound(g, p, sent', n) /\ Within(sent', n)
      BY <1>2, <2>3, <3>1, KeysSound
    <3>. QED BY <1>u, <2>1, <2>2, <2>5, <3>1, <3>2, TouchKeeps DEF Edit
  <2>. QED BY <2>6, <2>7
<1>. QED BY <1>3, <1>4, <1>5

(* A pane closed or reopened counts as a write of someone else.             *)
LEMMA CloseKeeps ==
  ASSUME TypeOK, Inv, NEW p \in Panes, SetClosed(p)
  PROVE  Inv'
<1>1. PICK g : /\ Edit(p, g) /\ g.box \in {pty[p].box, {}} /\ g.stash = pty[p].stash
               /\ g.hold = pty[p].hold /\ (Drawn(pty[p]) => Drawn(g))
  BY Clearings
<1>2. jobs' = Touched(jobs, p) /\ UNCHANGED <<receipt, active, live, pasted, sent, turns>>
  BY DEF SetClosed, ledger, sched, agent, history
<1>3. Sound(g, p, sent', pasted') /\ Within(sent', pasted')
  BY <1>1, <1>2 DEF Inv, Sound
<1>. QED BY <1>1, <1>2, <1>3, TouchKeeps

(* Another conversation takes the pane: every proof of it is out of date,   *)
(* and nothing of the old one is left in the box.                           *)
LEMMA ReplaceKeeps ==
  ASSUME TypeOK, Inv, NEW p \in Panes, Replace(p)
  PROVE  Inv'
<1>1. PICK g : Edit(p, g) /\ g.box = {} /\ g.stash = {} /\ g.hold = pty[p].hold /\ Drawn(g)
  BY Clearings
<1>2. /\ pty'[p] = g /\ \A q \in Panes \ {p} : pty'[q] = pty[q]
  BY <1>1 DEF Edit, TypeOK
<1>3. /\ UNCHANGED <<receipt, active, pasted, sent, turns>>
      /\ ~live'[p] /\ \A q \in Panes \ {p} : live'[q] = live[q]
      /\ jobs' = {IF At(j) = p /\ j.proof = "current" THEN [j EXCEPT !.proof = "aged"]
                  ELSE j : j \in jobs}
  BY DEF Replace, ledger, sched, history, TypeOK
<1>4. ASSUME NEW j \in jobs, NEW k, k = [j EXCEPT !.proof = "aged"]
      PROVE  /\ k.id = j.id /\ k.stage = j.stage /\ k.proof = "aged" /\ k.same = j.same
             /\ k.stashed = j.stashed /\ k.written = j.written /\ k.to = j.to
             /\ At(k) = At(j)
  <2>1. j \in Job
    BY Addressed
  <2>. QED BY <1>4, <2>1 DEF Job, At
<1>5. \A k \in jobs' : \E j \in jobs :
        \/ At(j) = p /\ j.proof = "current" /\ k = [j EXCEPT !.proof = "aged"]
        \/ ~(At(j) = p /\ j.proof = "current") /\ k = j
  BY <1>3
<1>6. \A j \in jobs : \E k \in jobs' :
        \/ At(j) = p /\ j.proof = "current" /\ k = [j EXCEPT !.proof = "aged"]
        \/ ~(At(j) = p /\ j.proof = "current") /\ k = j
  BY <1>3
<1>7. ASSUME NEW k \in jobs' PROVE Fits(k)'
  <2>1. PICK j \in jobs :
          \/ At(j) = p /\ j.proof = "current" /\ k = [j EXCEPT !.proof = "aged"]
          \/ ~(At(j) = p /\ j.proof = "current") /\ k = j
    BY <1>5
  <2>2. Fits(j) /\ At(j) \in Panes
    BY Addressed DEF Inv
  <2>3. /\ k.id = j.id /\ k.stage = j.stage /\ k.same = j.same
        /\ k.stashed = j.stashed /\ k.written = j.written /\ k.to = j.to
        /\ At(k) = At(j) /\ k.proof \in {j.proof, "aged"}
        /\ At(j) = p => k.proof # "current"
        /\ At(j) # p => k = j
    BY <1>4, <2>1
  <2>4. CASE At(j) # p
    <3>1. k = j /\ pty'[At(j)] = pty[At(j)] /\ live'[At(j)] = live[At(j)]
      BY <1>2, <1>3, <2>2, <2>3, <2>4
    <3>. QED BY <1>3, <2>2, <3>1 DEF Fits, Shape, Booked, Boxed, Clean, At
  <2>5. CASE At(j) = p
    <3>1. Shape(k)'
      BY <2>2, <2>3 DEF Fits, Shape
    <3>2. Booked(k)'
      BY <1>3, <2>2, <2>3 DEF Fits, Booked, At
    <3>3. k.same => k.stage \notin Writing
      BY <2>3, <2>5 DEF Replace
    <3>4. Boxed(k)'
      BY <1>1, <1>2, <1>3, <2>3, <2>5, <3>3 DEF Boxed, Writing, At
    <3>5. Clean(k)'
      BY <1>1, <1>2, <1>3, <2>3, <2>5 DEF Clean, At
    <3>. QED BY <3>1, <3>2, <3>4, <3>5 DEF Fits
  <2>. QED BY <2>4, <2>5
<1>8. Alone'
  <2>. SUFFICES ASSUME NEW i \in jobs', NEW k \in jobs', At(i) = At(k) PROVE i = k
    BY DEF Alone, At
  <2>1. PICK a \in jobs :
          \/ At(a) = p /\ a.proof = "current" /\ i = [a EXCEPT !.proof = "aged"]
          \/ ~(At(a) = p /\ a.proof = "current") /\ i = a
    BY <1>5
  <2>2. PICK b \in jobs :
          \/ At(b) = p /\ b.proof = "current" /\ k = [b EXCEPT !.proof = "aged"]
          \/ ~(At(b) = p /\ b.proof = "current") /\ k = b
    BY <1>5
  <2>3. At(a) = At(i) /\ At(b) = At(k)
    BY <1>4, <2>1, <2>2
  <2>4. a = b
    BY <2>3 DEF Inv, Alone
  <2>5. CASE At(a) = p /\ a.proof = "current"
    <3>1. i = [a EXCEPT !.proof = "aged"]
      BY <2>1, <2>5
    <3>2. k = [b EXCEPT !.proof = "aged"]
      BY <2>2, <2>4, <2>5
    <3>. QED BY <2>4, <3>1, <3>2
  <2>6. CASE ~(At(a) = p /\ a.proof = "current")
    <3>1. i = a /\ k = b
      BY <2>1, <2>2, <2>4, <2>6
    <3>. QED BY <2>4, <3>1
  <2>. QED BY <2>5, <2>6
<1>9. \A j \in jobs : \E k \in jobs' : /\ k.id = j.id /\ k.stage = j.stage /\ At(k) = At(j)
                                       /\ Owns(j) => Owns(k)
  BY <1>4, <1>6 DEF Owns
<1>10. ASSUME NEW id \in Ids PROVE Told(id)'
  <2>1. Told(id)
    BY DEF Inv
  <2>2. receipt[id] = "dispatching" => \E k \in jobs' : k.id = id /\ k.stage \notin Early
    BY <1>9, <2>1 DEF Told
  <2>. QED BY <1>3, <2>1, <2>2 DEF Told
<1>11. ASSUME NEW q \in Panes PROVE Sound(pty[q], q, sent, pasted)'
  <2>1. CASE q = p
    <3>1. Sound(g, q, sent', pasted')
      BY <1>1 DEF Sound
    <3>. QED BY <1>2, <2>1, <3>1
  <2>2. CASE q # p
    BY <1>2, <1>3, <2>2 DEF Inv
  <2>. QED BY <2>1, <2>2
<1>12. ASSUME NEW q \in Panes PROVE Owned(q)'
  <2>1. Owned(q) /\ (pty'[q].hold # "none" => pty[q].hold # "none")
    BY <1>1, <1>2 DEF Inv
  <2>. QED BY <1>9, <2>1 DEF Owned, At
<1>13. Within(sent, pasted)' /\ TurnsRight'
  BY <1>3 DEF Inv, TurnsRight
<1>. QED BY <1>7, <1>8, <1>10, <1>11, <1>12, <1>13 DEF Inv

(* A submit and the expiry of a queued message concern no dispatch.         *)
LEMMA QueueKeeps ==
  ASSUME Inv, TypeOK, UNCHANGED <<active, jobs, pty, live, pasted, sent, turns>>,
         \A id \in Ids : \/ receipt'[id] = receipt[id]
                         \/ /\ receipt[id] \in {"absent", "accepted"}
                            /\ receipt'[id] \in {"accepted", "failed"}
  PROVE  Inv'
<1>1. ASSUME NEW j \in jobs PROVE Fits(j)'
  <2>1. Fits(j) /\ j.id \in Ids
    BY Addressed DEF Inv
  <2>2. receipt'[j.id] = "dispatching" <=> receipt[j.id] = "dispatching"
    BY <2>1
  <2>. QED BY <2>1, <2>2 DEF Fits, Shape, Booked, Boxed, Clean, At
<1>2. ASSUME NEW id \in Ids PROVE Told(id)'
  BY DEF Inv, Told
<1>3. Alone' /\ (\A p \in Panes : Sound(pty[p], p, sent, pasted)') /\ Within(sent, pasted)'
      /\ (\A p \in Panes : Owned(p)') /\ TurnsRight'
  BY DEF Inv, Alone, Owned, TurnsRight, At
<1>. QED BY <1>1, <1>2, <1>3 DEF Inv

(* The scheduler starts one delivery for a pane that has none: the oldest   *)
(* message of the pane.                                                     *)
LEMMA SelectKeeps ==
  ASSUME TypeOK, Inv, Select
  PROVE  Inv'
<1>0. PICK S \in Selections : /\ jobs' = jobs \cup {NewJob(id) : id \in S}
                              /\ active' = active \cup {PaneOf[id] : id \in S}
  BY DEF Select
<1>1. /\ batch[1] \subseteq Ids /\ Chosen \subseteq batch[1] /\ S \subseteq Chosen
      /\ jobs' = jobs \cup {NewJob(id) : id \in S}
      /\ active' = active \cup {PaneOf[id] : id \in S}
      /\ UNCHANGED <<receipt, pty, live, pasted, sent, turns>>
  <2>1. batch[1] \subseteq Ids /\ UNCHANGED <<receipt, pty, live, pasted, sent, turns>>
    BY DEF Select, TypeOK, ledger, agent, history
  <2>2. Chosen \subseteq batch[1] /\ S \subseteq Chosen
    BY DEF Chosen, Selections
  <2>. QED BY <1>0, <2>1, <2>2
<1>2. ASSUME NEW id \in S
      PROVE  /\ id \in Ids /\ (\A j \in jobs : At(j) # PaneOf[id])
             /\ receipt[id] # "dispatching" /\ At(NewJob(id)) = PaneOf[id]
             /\ Fits(NewJob(id))'
  <2>1. id \in Ids /\ PaneOf[id] \notin active
    BY <1>1 DEF Chosen
  <2>2. \A j \in jobs : At(j) # PaneOf[id]
    BY <2>1 DEF Inv, Fits, Booked
  <2>3. receipt[id] # "dispatching"
    BY <2>1, <2>2 DEF Inv, Told, At
  <2>4. PICK k : k = NewJob(id)
    OBVIOUS
  <2>5. /\ k.id = id /\ k.stage = "proving" /\ k.proof = "none" /\ ~k.stashed /\ ~k.written
        /\ At(k) = PaneOf[id]
    BY <2>1, <2>4, JobValues DEF At
  <2>6. Shape(k)' /\ Boxed(k)' /\ Clean(k)'
    BY <2>5 DEF Shape, Boxed, Clean, Early, Unpasted, Pasting
  <2>7. Booked(k)'
    BY <1>1, <2>3, <2>5 DEF Booked, At, Early, Unpasted, Pasting
  <2>. QED BY <2>1, <2>2, <2>3, <2>4, <2>5, <2>6, <2>7 DEF Fits
<1>3. ASSUME NEW id \in S, NEW o \in S, PaneOf[id] = PaneOf[o] PROVE id = o
  <2>1. id <= o /\ o <= id
    BY <1>1, <1>3 DEF Chosen, Oldest
  <2>2. id \in Nat /\ o \in Nat
    BY <1>2, DeliveryAssumption
  <2>. QED BY <2>1, <2>2
<1>4. ASSUME NEW j \in jobs PROVE Fits(j)'
  BY <1>1 DEF Inv, Fits, Shape, Booked, Boxed, Clean, At
<1>5. \A j \in jobs' : Fits(j)'
  BY <1>1, <1>2, <1>4
<1>6. Alone'
  <2>. SUFFICES ASSUME NEW i \in jobs', NEW k \in jobs', At(i) = At(k) PROVE i = k
    BY DEF Alone, At
  <2>1. CASE i \in jobs /\ k \in jobs
    BY <2>1 DEF Inv, Alone
  <2>2. CASE i \in jobs /\ k \notin jobs
    BY <1>1, <1>2, <2>2
  <2>3. CASE i \notin jobs /\ k \in jobs
    BY <1>1, <1>2, <2>3
  <2>4. CASE i \notin jobs /\ k \notin jobs
    <3>1. PICK id \in S, o \in S : i = NewJob(id) /\ k = NewJob(o)
      BY <1>1, <2>4
    <3>2. PaneOf[id] = PaneOf[o]
      BY <1>2, <3>1
    <3>. QED BY <1>3, <3>1, <3>2
  <2>. QED BY <2>1, <2>2, <2>3, <2>4
<1>7. ASSUME NEW id \in Ids PROVE Told(id)'
  BY <1>1 DEF Inv, Told
<1>8. \A p \in Panes : Owned(p)'
  BY <1>1 DEF Inv, Owned, At
<1>9. (\A p \in Panes : Sound(pty[p], p, sent, pasted)') /\ Within(sent, pasted)' /\ TurnsRight'
  BY <1>1 DEF Inv, TurnsRight
<1>. QED BY <1>5, <1>6, <1>7, <1>8, <1>9 DEF Inv

-----------------------------------------------------------------------------

(* The inductive invariant holds in every state.                            *)
LEMMA Delivering == Spec => []Inv
<1>1. Init => Inv
  <2>. SUFFICES ASSUME Init PROVE Inv
    OBVIOUS
  <2>1. Alone /\ (\A j \in jobs : Fits(j)) /\ TurnsRight
    BY DEF Init, Alone, TurnsRight
  <2>2. \A id \in Ids : Told(id)
    BY DEF Init, Told
  <2>3. \A p \in Panes : Sound(pty[p], p, sent, pasted) /\ Owned(p)
    BY DEF Init, Sound, Drawn, Owned
  <2>4. Within(sent, pasted)
    BY DEF Init, Within
  <2>. QED BY <2>1, <2>2, <2>3, <2>4 DEF Inv
<1>2. TypeOK /\ TypeOK' /\ Inv /\ [Next]_vars => Inv'
  <2>. SUFFICES ASSUME TypeOK, TypeOK', Inv, [Next]_vars PROVE Inv'
    OBVIOUS
  <2>1. ASSUME NEW id \in Ids, Submit(id) PROVE Inv'
    BY <2>1, QueueKeeps DEF Submit, TypeOK, sched, agent, history
  <2>2. CASE Tick
    BY <2>2, QueueKeeps DEF Tick, Expired, agent, history
  <2>3. CASE Select
    BY <2>3, SelectKeeps
  <2>4. CASE StopGui \/ (\E id \in Ids : Lapse(id)) \/ (\E p \in Panes : Rebind(p))
             \/ UNCHANGED vars
    BY <2>4, NothingSeen DEF StopGui, Lapse, Rebind, ledger, sched, agent, history, vars
  <2>5. ASSUME NEW p \in Panes, HoldExpires(p) \/ Draw(p) \/ TrustEnds(p) PROVE Inv'
    <3>1. PICK g : Still(p, g)
      BY <2>5, Stills
    <3>. QED BY <2>5, <3>1, StillKeeps
         DEF HoldExpires, Draw, TrustEnds, ledger, sched, agent, history
  <2>6. ASSUME NEW j \in jobs, Worker(j) \/ Gui(j) \/ ProofAges(j) \/ DeadlinePasses(j)
        PROVE  Inv'
    BY <2>6, BeginKeeps, DispatchKeeps, ResumeKeeps, FinishKeeps, ReadyKeeps, StashKeeps,
       PasteKeeps, CommitKeeps, EnterKeeps, TimeKeeps DEF Worker, Gui
  <2>7. ASSUME NEW p \in Panes, Person(p) \/ Replace(p) PROVE Inv'
    BY <2>7, PressKeeps, CloseKeeps, ReplaceKeeps DEF Person
  <2>. QED BY <2>1, <2>2, <2>3, <2>4, <2>5, <2>6, <2>7 DEF Next, Time
<1>. QED BY <1>1, <1>2, TypeCorrect, PTL DEF Spec

(* A delivery submits its message only to the conversation it is addressed  *)
(* to.                                                                      *)
THEOREM RightReceiver == Spec => []RightConversation
<1>1. Inv => RightConversation
  BY DEF Inv, TurnsRight, RightConversation
<1>. QED BY <1>1, Delivering, PTL

(* The Enter of a delivery submits its message and nothing else, where an   *)
(* agent has drawn what a write did before the gate trusts its screen again *)
(* (DRAFT_TRUST after a key, 300 ms after any write): no delivery starts on *)
(* a box that only looks empty (App::tell_ready).                           *)
THEOREM OnlyTheMessage ==
  ASSUME ~SlowDraw
  PROVE  Spec => []CleanTurn
<1>1. Inv => CleanTurn
  BY DEF Inv, TurnsRight, CleanTurn
<1>. QED BY <1>1, Delivering, PTL

(* Keys are held back only while a delivery that wrote is there to let go.  *)
THEOREM HoldsOwned == Spec => []HoldHasOwner
<1>1. Inv => HoldHasOwner
  BY DEF Inv, Owned, Owns, HoldHasOwner
<1>. QED BY <1>1, Delivering, PTL

(* The text of a message is part of at most one turn, whoever sends it off. *)
THEOREM SentOnce == Spec => []AtMostOnceSent
<1>1. TypeOK /\ Inv => AtMostOnceSent
  <2>. SUFFICES ASSUME TypeOK, Inv, NEW id \in Ids PROVE pasted[id] <= 1 /\ sent[id] <= 1
    BY DEF AtMostOnceSent
  <2>1. pasted[id] \in Nat /\ sent[id] \in Nat
    BY DEF TypeOK
  <2>2. pasted[id] <= 1 /\ sent[id] <= pasted[id]
    BY DEF Inv, Within
  <2>. QED BY <2>1, <2>2
<1>. QED BY <1>1, Delivering, TypeCorrect, PTL

(* A receipt says what happened to its message.                             *)
THEOREM ReceiptsHonest == Spec => []HonestReceipt
<1>1. TypeOK /\ Inv => HonestReceipt
  <2>. SUFFICES ASSUME TypeOK, Inv, NEW id \in Ids
                PROVE  /\ receipt[id] = "submitted" => \E t \in turns : t.id = id
                       /\ receipt[id] \in {"accepted", "failed"} => pasted[id] = 0
    BY DEF HonestReceipt
  <2>1. pasted[id] \in Nat /\ Told(id)
    BY DEF TypeOK, Inv
  <2>. QED BY <2>1 DEF Told
<1>. QED BY <1>1, Delivering, TypeCorrect, PTL

(* Under the same assumption a delivery presses the stash key only where no *)
(* draft can be lost: when it puts one away the screen has said that none   *)
(* is there, and when it brings one back the box is as its own stash left   *)
(* it (App::safe_tell_ready, App::tell_unstash).                            *)
THEOREM DraftsSurvive ==
  ASSUME ~SlowDraw
  PROVE  Spec => []DraftSurvives
<1>1. Inv => DraftSurvives
  <2>. SUFFICES ASSUME Inv, NEW j \in jobs, PressesStash(j)
                PROVE  pty[At(j)].box = {} \/ pty[At(j)].stash = {}
    BY DEF DraftSurvives
  <2>1. Shape(j) /\ Clean(j) /\ j.same
    BY DEF Inv, Fits, PressesStash
  <2>2. CASE j.stage = "stashing"
    BY <2>1, <2>2 DEF Clean
  <2>3. CASE j.stage = "ready" /\ j.stashed
    BY <2>1, <2>3 DEF Clean, Shape, Unpasted
  <2>. QED BY <2>2, <2>3 DEF PressesStash
<1>. QED BY <1>1, Delivering, PTL

-----------------------------------------------------------------------------
(* The delivery keeps the promise of TellMailbox, as the ledger does: what  *)
(* has become of a message, seen at the terminal.                           *)
Fate(id) == IF receipt[id] = "absent" THEN "new"
            ELSE IF pasted[id] > 0 THEN "taken"
            ELSE IF receipt[id] \in Final THEN "closed" ELSE "queued"

Mailbox == INSTANCE TellMailbox WITH post <- [id \in Ids |-> Fate(id)]

(* A step moves the receipt of a message, writes its body, or does neither. *)
Moved(id) ==
  \/ receipt'[id] = receipt[id] /\ pasted'[id] = pasted[id]
  \/ /\ pasted'[id] = pasted[id] /\ receipt'[id] # "absent"
     /\ receipt[id] \notin Final
     /\ receipt[id] = "absent" => receipt'[id] = "accepted"
  \/ /\ receipt'[id] = receipt[id] /\ receipt[id] = "dispatching"
     /\ pasted[id] = 0 /\ pasted'[id] = 1

(* Only a delivery's own steps do either; Finish moves the receipt, Paste   *)
(* writes the body while the message is under dispatch and unwritten.       *)
LEMMA DeliveryMoves ==
  ASSUME TypeOK, Inv, NEW j \in jobs, Worker(j) \/ Gui(j), NEW id \in Ids
  PROVE  Moved(id)
<1>0. /\ j \in Job /\ j.id \in Ids /\ Fits(j) /\ receipt \in [Ids -> Receipts]
      /\ pasted \in [Ids -> Nat]
  BY Addressed, Known DEF TypeOK, Receipts
<1>1. CASE UNCHANGED <<receipt, pasted>>
  BY <1>1 DEF Moved
<1>2. CASE Dispatch(j)
  <2>1. \/ UNCHANGED receipt
        \/ /\ Allowed(receipt[j.id], "dispatching")
           /\ receipt' = [receipt EXCEPT ![j.id] = "dispatching"]
    BY <1>2 DEF Dispatch
  <2>2. pasted' = pasted
    BY <1>2 DEF Dispatch, history
  <2>. QED BY <1>0, <2>1, <2>2 DEF Moved, Allowed, Final
<1>3. CASE Finish(j)
  <2>1. j.stage = "finishing" /\ j.to \in Final \cup {"accepted"}
    BY <1>0, <1>3 DEF Finish, Fits, Shape, Job
  <2>2. PICK saved \in BOOLEAN : receipt' = Reported(j, saved)
    BY <1>3 DEF Finish
  <2>3. pasted' = pasted
    BY <1>3 DEF Finish, history
  <2>4. \/ receipt' = receipt
        \/ /\ Allowed(receipt[j.id], j.to)
           /\ \E r \in Final \cup {"accepted"} : receipt' = [receipt EXCEPT ![j.id] = r]
    BY <2>1, <2>2 DEF Reported, Final
  <2>. QED BY <1>0, <2>3, <2>4 DEF Moved, Allowed, Final
<1>4. CASE Paste(j)
  <2>1. receipt' = receipt
    BY <1>4 DEF Paste, ledger
  <2>2. pasted' = pasted \/ pasted' = [pasted EXCEPT ![j.id] = @ + 1]
    BY <1>4 DEF Paste
  <2>3. receipt[j.id] = "dispatching" /\ pasted[j.id] = 0
    BY <1>0, <1>4 DEF Paste, Fits, Booked, Unpasted
  <2>. QED BY <1>0, <2>1, <2>2, <2>3 DEF Moved
<1>. QED BY <1>1, <1>2, <1>3, <1>4
     DEF Worker, Gui, BeginProof, Resume, Ready, Stash, Commit, Enter, ledger, history

(* A message is written into a terminal at most once, and never after its   *)
(* receipt said that it was over (App::safe_tell_ready, safe_tell_commit):  *)
(* the delivery implements TellMailbox.                                     *)
THEOREM MailboxKept == Spec => Mailbox!Spec
<1>1. Init => Mailbox!Init
  BY DEF Init, Mailbox!Init, Fate
<1>2. TypeOK /\ Inv /\ [Next]_vars => [Mailbox!Next]_([id \in Ids |-> Fate(id)])
  <2>. SUFFICES ASSUME TypeOK, Inv, [Next]_vars
                PROVE  [Mailbox!Next]_([id \in Ids |-> Fate(id)])
    BY Zenon
  <2>1. ASSUME NEW id \in Ids PROVE Moved(id)
    <3>0. receipt \in [Ids -> Receipts]
      BY DEF TypeOK, Receipts
    <3>1. CASE UNCHANGED <<receipt, pasted>>
      BY <3>1 DEF Moved
    <3>2. CASE Tick \/ \E o \in Ids : Submit(o)
      BY <3>0, <3>2 DEF Tick, Submit, Expired, Moved, Final, history
    <3>3. CASE \E j \in jobs : Worker(j) \/ Gui(j)
      BY <3>3, DeliveryMoves
    <3>. QED BY <3>1, <3>2, <3>3
         DEF Next, Time, Person, Select, StopGui, Lapse, HoldExpires, Draw, TrustEnds, ProofAges,
             DeadlinePasses, Press, SetClosed, Replace, Rebind, vars, ledger, history
  <2>2. ASSUME NEW id \in Ids
        PROVE  Fate(id) = Fate(id)' \/ <<Fate(id), Fate(id)'>> \in Mailbox!Moves
    <3>1. /\ Moved(id) /\ Told(id) /\ pasted[id] \in Nat
          /\ receipt[id] \in Receipts
      BY <2>1 DEF Inv, TypeOK, Receipts
    <3>2. pasted[id] > 0 => receipt[id] # "absent"
      BY <3>1 DEF Told
    <3>. QED BY <3>1, <3>2 DEF Moved, Fate, Mailbox!Moves, Final, Receipts, States
  <2>3. \A id \in Ids : Fate(id)' \in {"new", "queued", "taken", "closed"}
    BY DEF Fate
  <2>. QED BY <2>2, <2>3 DEF Mailbox!Next
<1>. QED BY <1>1, <1>2, TypeCorrect, Delivering, PTL DEF Spec, Mailbox!Spec

-----------------------------------------------------------------------------
(* The workers keep the contract of TellWork: a message whose receipt they  *)
(* moved to "dispatching" carries the licence for one write.                *)
ItemOf(r, n) ==
  [state   |-> IF r = "absent" THEN "new" ELSE r,
   licence |-> IF r # "dispatching" THEN "none" ELSE IF n > 0 THEN "used" ELSE "unused",
   wrote   |-> n]

Work == [id \in Ids |-> ItemOf(receipt[id], pasted[id])]

Contract == INSTANCE TellWork WITH work <- Work

(* A delivery that waits to commit, or has submitted, has written the body. *)
Hot(j)  == j.stage \in Pasting \/ (j.stage = "finishing" /\ j.to = "submitted")
Paid(j) == Hot(j) => pasted[j.id] > 0

(* The writes of others leave what a delivery is about.                     *)
LEMMA TouchedOf ==
  ASSUME NEW js \in SUBSET Job, NEW p, NEW k \in Touched(js, p)
  PROVE  \E i \in js : k.id = i.id /\ k.stage = i.stage /\ k.to = i.to
<1>1. PICK i \in js : k = IF At(i) = p THEN [i EXCEPT !.same = FALSE] ELSE i
  BY DEF Touched
<1>. QED BY <1>1 DEF Job

(* A step of a delivery leaves the others and, at most, one of its own id.  *)
LEMMA PaidOne ==
  ASSUME TypeOK, NEW j \in jobs, NEW js \in SUBSET Job, \A i \in jobs : Paid(i),
         \A id \in Ids : pasted[id] > 0 => pasted'[id] > 0,
         \A i \in js : i \in jobs \/ (i.id = j.id /\ (Hot(i) => Hot(j) \/ pasted'[j.id] > 0)),
         \A k \in jobs' : \E i \in js : k.id = i.id /\ k.stage = i.stage /\ k.to = i.to
  PROVE  (\A i \in jobs : Paid(i))'
<1>. SUFFICES ASSUME NEW k \in jobs', Hot(k) PROVE pasted'[k.id] > 0
  BY DEF Paid, Hot
<1>1. PICK i \in js : k.id = i.id /\ k.stage = i.stage /\ k.to = i.to
  OBVIOUS
<1>2. Hot(i)
  BY <1>1 DEF Hot
<1>3. CASE i \in jobs
  <2>1. i.id \in Ids
    BY <1>3, Addressed
  <2>. QED BY <1>1, <1>2, <1>3, <2>1 DEF Paid
<1>4. CASE i.id = j.id /\ (Hot(i) => Hot(j) \/ pasted'[j.id] > 0)
  <2>1. j.id \in Ids
    BY Addressed
  <2>. QED BY <1>1, <1>2, <1>4, <2>1 DEF Paid
<1>. QED BY <1>3, <1>4

(* A delivery commits only what it has written, and reports as submitted    *)
(* only what it has committed.                                              *)
LEMMA PaidSteps ==
  ASSUME TypeOK, Inv, NEW j \in jobs, Worker(j) \/ Gui(j) \/ ProofAges(j) \/ DeadlinePasses(j),
         \A i \in jobs : Paid(i)
  PROVE  (\A i \in jobs : Paid(i))'
<1>. DEFINE Goal == (\A i \in jobs : Paid(i))'
<1>0. /\ j \in Job /\ j.id \in Ids /\ Fits(j) /\ pasted \in [Ids -> Nat] /\ jobs \subseteq Job
  BY Addressed, Known DEF TypeOK
<1>m. \A id \in Ids : pasted[id] > 0 => pasted'[id] > 0
  <2>1. pasted' = pasted \/ pasted' = [pasted EXCEPT ![j.id] = @ + 1]
    BY DEF Worker, Gui, BeginProof, Dispatch, Resume, Finish, Ready, Stash, Paste, Commit, Enter,
           ProofAges, DeadlinePasses, history
  <2>. QED BY <1>0, <2>1
(* It goes on as k, or ends.                                                *)
<1>o. ASSUME NEW k \in Job, k.id = j.id, Hot(k) => Hot(j) \/ pasted'[j.id] > 0,
             \/ jobs' \subseteq (jobs \ {j}) \cup {k}
             \/ jobs' = Touched((jobs \ {j}) \cup {k}, At(j))
             \/ jobs' = Touched(jobs \ {j}, At(j)) \cup {k}
      PROVE  Goal
  <2>. DEFINE js == (jobs \ {j}) \cup {k}
  <2>1. js \in SUBSET Job /\ jobs \ {j} \in SUBSET Job
    BY <1>0
  <2>2. \A i \in jobs' : \E l \in js : i.id = l.id /\ i.stage = l.stage /\ i.to = l.to
    BY <1>o, <2>1, TouchedOf
  <2>3. \A i \in js : i \in jobs \/ (i.id = j.id /\ (Hot(i) => Hot(j) \/ pasted'[j.id] > 0))
    BY <1>o
  <2>. HIDE DEF js
  <2>. QED BY <1>m, <2>1, <2>2, <2>3, PaidOne
<1>f. ASSUME NEW to \in {"accepted", "failed", "uncertain"}, NEW pre,
             \/ jobs' = (jobs \ {j}) \cup {Finishing(j, to)}
             \/ LetGo(At(j), pre, (jobs \ {j}) \cup {Finishing(j, to)})
      PROVE  Goal
  <2>1. PICK k : k = Finishing(j, to)
    OBVIOUS
  <2>2. k \in Job /\ k.id = j.id /\ ~Hot(k)
    BY <1>0, <2>1, JobValues DEF Hot, Final, Pasting
  <2>. QED BY <1>f, <1>o, <2>1, <2>2 DEF LetGo
<1>q. ASSUME jobs' = jobs \ {j} PROVE Goal
  BY <1>0, <1>o, <1>q
<1>1. CASE BeginProof(j)
  <2>1. ~Hot([j EXCEPT !.proof = "current", !.stage = "proven"])
        /\ [j EXCEPT !.proof = "current", !.stage = "proven"] \in Job
        /\ [j EXCEPT !.proof = "current", !.stage = "proven"].id = j.id
    BY <1>0 DEF Job, Hot, Pasting
  <2>. QED BY <1>1, <1>f, <1>o, <1>q, <2>1 DEF BeginProof, Become, Quit
<1>2. CASE Dispatch(j)
  <2>1. ~Hot([j EXCEPT !.stage = "ready"]) /\ [j EXCEPT !.stage = "ready"] \in Job
        /\ [j EXCEPT !.stage = "ready"].id = j.id
    BY <1>0 DEF Job, Hot, Pasting
  <2>. QED BY <1>2, <1>f, <1>o, <1>q, <2>1 DEF Dispatch, Become, Quit
<1>3. CASE Resume(j)
  <2>1. PICK r : /\ r \in {"current", "broken", "transient"}
                 /\ \/ Become(j, [Proved(j, r) EXCEPT
                                   !.stage = IF j.stage = "rechecking" THEN "ready" ELSE "commit"])
                    \/ LetGo(At(j), pty[At(j)], (jobs \ {j}) \cup {Finishing(j, "uncertain")})
    BY <1>3 DEF Resume, ProofResults
  <2>2. PICK k : k = [Proved(j, r) EXCEPT
                        !.stage = IF j.stage = "rechecking" THEN "ready" ELSE "commit"]
    OBVIOUS
  <2>3. Proved(j, r) \in Job /\ Proved(j, r).id = j.id
    BY <1>0, <2>1 DEF Proved, Job
  <2>4. k \in Job /\ k.id = j.id
        /\ k.stage = IF j.stage = "rechecking" THEN "ready" ELSE "commit"
    BY <2>2, <2>3 DEF Job
  <2>5. Hot(k) => Hot(j)
    BY <1>3, <2>4 DEF Resume, Hot, Pasting
  <2>. QED BY <1>f, <1>o, <2>1, <2>2, <2>4, <2>5 DEF Become
<1>4. CASE Finish(j)
  BY <1>4, <1>q DEF Finish
<1>5. CASE Ready(j)
  <2>1. ASSUME NEW to \in {"accepted", "failed"}, BackOff(j, to) PROVE Goal
    BY <1>f, <2>1 DEF BackOff
  <2>2. ASSUME NEW t \in {"pasting", "stashing", "rechecking"}, Become(j, [j EXCEPT !.stage = t])
        PROVE  Goal
    <3>1. ~Hot([j EXCEPT !.stage = t]) /\ [j EXCEPT !.stage = t] \in Job
          /\ [j EXCEPT !.stage = t].id = j.id
      BY <1>0, <2>2 DEF Job, Hot, Pasting
    <3>. QED BY <1>o, <2>2, <3>1 DEF Become
  <2>. QED BY <1>5, <2>1, <2>2 DEF Ready
<1>6. CASE Stash(j)
  <2>1. PICK k : k = [j EXCEPT !.stage = "rechecking", !.stashed = TRUE, !.late = FALSE]
    OBVIOUS
  <2>2. k \in Job /\ k.id = j.id /\ ~Hot(k)
    BY <1>0, <2>1 DEF Job, Hot, Pasting
  <2>. QED BY <1>6, <1>f, <1>o, <2>1, <2>2 DEF Stash, Wrote
<1>7. CASE Paste(j)
  <2>1. PICK k : k = [j EXCEPT !.stage = "reproving", !.written = TRUE, !.late = FALSE]
    OBVIOUS
  <2>2. k \in Job /\ k.id = j.id
    BY <1>0, <2>1 DEF Job
  <2>3. CASE pasted' = [pasted EXCEPT ![j.id] = @ + 1]
    <3>1. pasted'[j.id] > 0
      BY <1>0, <2>3
    <3>. QED BY <1>7, <1>f, <1>o, <2>1, <2>2, <3>1 DEF Paste, Wrote
  <2>4. CASE LetGo(At(j), pty[At(j)], (jobs \ {j}) \cup {Finishing(j, "uncertain")})
    BY <1>f, <2>4
  <2>. QED BY <1>7, <2>3, <2>4 DEF Paste
<1>8. CASE Commit(j)
  <2>1. ASSUME NEW t \in {"entering", "reproving", "waiting"}, Become(j, [j EXCEPT !.stage = t])
        PROVE  Goal
    <3>1. [j EXCEPT !.stage = t] \in Job /\ [j EXCEPT !.stage = t].id = j.id /\ Hot(j)
      BY <1>0, <1>8, <2>1 DEF Commit, Job, Hot, Pasting
    <3>. QED BY <1>o, <2>1, <3>1 DEF Become
  <2>. QED BY <1>8, <1>f, <2>1 DEF Commit, Withhold
<1>9. CASE Enter(j)
  <2>1. ASSUME NEW pre, LetGo(At(j), pre, (jobs \ {j}) \cup {Finishing(j, "submitted")})
        PROVE  Goal
    <3>1. Finishing(j, "submitted") \in Job /\ Finishing(j, "submitted").id = j.id /\ Hot(j)
      BY <1>0, <1>9, JobValues DEF Enter, Hot, Final, Pasting
    <3>. QED BY <1>o, <2>1, <3>1 DEF LetGo
  <2>. QED BY <1>9, <1>f, <2>1 DEF Enter
<1>10. CASE ProofAges(j) \/ DeadlinePasses(j)
  <2>1. PICK k : k \in {[j EXCEPT !.proof = "aged"], [j EXCEPT !.late = TRUE]} /\ Become(j, k)
    BY <1>10 DEF ProofAges, DeadlinePasses
  <2>2. k \in Job /\ k.id = j.id /\ k.stage = j.stage /\ k.to = j.to
    BY <1>0, <2>1 DEF Job
  <2>. QED BY <1>o, <2>1, <2>2 DEF Become, Hot
<1>. QED BY <1>1, <1>2, <1>3, <1>4, <1>5, <1>6, <1>7, <1>8, <1>9, <1>10 DEF Worker, Gui

(* What has been committed was written.                                     *)
LEMMA Paids == Spec => [](\A j \in jobs : Paid(j))
<1>1. Init => \A j \in jobs : Paid(j)
  BY DEF Init
<1>2. TypeOK /\ Inv /\ (\A j \in jobs : Paid(j)) /\ [Next]_vars => (\A j \in jobs : Paid(j))'
  <2>. SUFFICES ASSUME TypeOK, Inv, \A j \in jobs : Paid(j), [Next]_vars
                PROVE  (\A j \in jobs : Paid(j))'
    OBVIOUS
  <2>0. jobs \in SUBSET Job
    BY DEF TypeOK
  <2>1. CASE \E j \in jobs : Worker(j) \/ Gui(j) \/ ProofAges(j) \/ DeadlinePasses(j)
    BY <2>1, PaidSteps
  <2>2. ASSUME UNCHANGED pasted,
               \A k \in jobs' : ~Hot(k) \/ \E i \in jobs : k.id = i.id /\ k.stage = i.stage /\ k.to = i.to
        PROVE  \A k \in jobs' : Paid(k)'
    BY <2>2 DEF Paid, Hot
  <2>3. CASE UNCHANGED <<jobs, pasted>>
    BY <2>2, <2>3
  <2>4. CASE \E p \in Panes : Person(p)
    <3>1. PICK p \in Panes : Person(p)
      BY <2>4
    <3>2. UNCHANGED pasted /\ (jobs' = jobs \/ jobs' = Touched(jobs, p))
      BY <3>1 DEF Person, Press, SetClosed, history
    <3>. QED BY <2>0, <2>2, <3>2, TouchedOf
  <2>5. CASE \E p \in Panes : Replace(p)
    <3>1. PICK p \in Panes :
            jobs' = {IF At(j) = p /\ j.proof = "current" THEN [j EXCEPT !.proof = "aged"]
                     ELSE j : j \in jobs}
      BY <2>5 DEF Replace
    <3>2. \A k \in jobs' : \E i \in jobs : k.id = i.id /\ k.stage = i.stage /\ k.to = i.to
      BY <2>0, <3>1 DEF Job
    <3>. QED BY <2>2, <2>5, <3>2 DEF Replace, history
  <2>6. CASE Select
    <3>1. PICK S \in Selections : jobs' = jobs \cup {NewJob(id) : id \in S}
      BY <2>6 DEF Select
    <3>2. S \subseteq Ids
      BY <2>6, <3>1 DEF Select, Selections, Chosen, TypeOK
    <3>3. \A id \in S : ~Hot(NewJob(id))
      BY <3>2, JobValues DEF Hot, Pasting
    <3>. QED BY <2>2, <2>6, <3>1, <3>3 DEF Select, history
  <2>. QED BY <2>1, <2>3, <2>4, <2>5, <2>6
       DEF Next, Time, Submit, Tick, StopGui, Lapse, HoldExpires, Draw, TrustEnds, Rebind, vars,
           history
<1>. QED BY <1>1, <1>2, TypeCorrect, Delivering, PTL DEF Spec

(* The moves of a message, by its receipt and the writes of its body.       *)
WorkMoves(r, n, r2, n2) ==
  \/ r2 = r /\ n2 = n
  \/ r = "absent" /\ r2 = "accepted" /\ n2 = n
  \/ r = "accepted" /\ r2 \in {"dispatching", "failed"} /\ n = 0 /\ n2 = 0
  \/ r = "dispatching" /\ r2 = "dispatching" /\ n = 0 /\ n2 = 1
  \/ r = "dispatching" /\ r2 \in {"accepted", "failed"} /\ n = 0 /\ n2 = 0
  \/ r = "dispatching" /\ r2 = "uncertain" /\ n2 = n
  \/ r = "dispatching" /\ r2 = "submitted" /\ n > 0 /\ n2 = n

(* They are moves of the contract.                                          *)
LEMMA ContractMoves ==
  ASSUME NEW r, NEW r2, NEW n \in Nat, NEW n2 \in Nat, WorkMoves(r, n, r2, n2)
  PROVE  ItemOf(r2, n2) = ItemOf(r, n) \/ Contract!Moves(ItemOf(r, n), ItemOf(r2, n2))
<1>1. CASE r2 = r /\ n2 = n
  BY <1>1
<1>2. CASE r = "absent" /\ r2 = "accepted" /\ n2 = n
  BY <1>2 DEF ItemOf, Contract!Moves, Contract!Queued, Contract!Now
<1>3. CASE r = "accepted" /\ r2 = "dispatching" /\ n = 0 /\ n2 = 0
  BY <1>3 DEF ItemOf, Contract!Moves, Contract!Dispatched, Contract!Now
<1>4. CASE r = "accepted" /\ r2 = "failed" /\ n = 0 /\ n2 = 0
  BY <1>4 DEF ItemOf, Contract!Moves, Contract!Closed, Contract!Now
<1>5. CASE r = "dispatching" /\ r2 = "dispatching" /\ n = 0 /\ n2 = 1
  BY <1>5 DEF ItemOf, Contract!Moves, Contract!Written
<1>6. CASE r = "dispatching" /\ r2 \in {"accepted", "failed"} /\ n = 0 /\ n2 = 0
  BY <1>6 DEF ItemOf, Contract!Moves, Contract!Reported, Contract!Now
<1>7. CASE r = "dispatching" /\ r2 = "uncertain" /\ n2 = n
  BY <1>7 DEF ItemOf, Contract!Moves, Contract!Reported, Contract!Now
<1>8. CASE r = "dispatching" /\ r2 = "submitted" /\ n > 0 /\ n2 = n
  BY <1>8 DEF ItemOf, Contract!Moves, Contract!Reported, Contract!Now
<1>. QED BY <1>1, <1>2, <1>3, <1>4, <1>5, <1>6, <1>7, <1>8 DEF WorkMoves

(* A step of a delivery makes one of them for every message.                *)
LEMMA DeliveryWorks ==
  ASSUME TypeOK, Inv, NEW j \in jobs, Paid(j), Worker(j) \/ Gui(j), NEW id \in Ids
  PROVE  WorkMoves(receipt[id], pasted[id], receipt'[id], pasted'[id])
<1>0. /\ j \in Job /\ j.id \in Ids /\ Fits(j) /\ Told(id) /\ receipt \in [Ids -> Receipts]
      /\ pasted \in [Ids -> Nat]
  BY Addressed, Known DEF TypeOK, Receipts, Inv
<1>u. receipt[id] = "accepted" => pasted[id] = 0
  BY <1>0 DEF Told
<1>1. CASE UNCHANGED <<receipt, pasted>>
  BY <1>1 DEF WorkMoves
<1>2. CASE Dispatch(j)
  <2>1. \/ UNCHANGED receipt
        \/ /\ Allowed(receipt[j.id], "dispatching")
           /\ receipt' = [receipt EXCEPT ![j.id] = "dispatching"]
    BY <1>2 DEF Dispatch
  <2>2. pasted' = pasted
    BY <1>2 DEF Dispatch, history
  <2>. QED BY <1>0, <1>u, <2>1, <2>2 DEF WorkMoves, Allowed, Final
<1>3. CASE Finish(j)
  <2>1. j.stage = "finishing" /\ j.to \in Final \cup {"accepted"}
    BY <1>0, <1>3 DEF Finish, Fits, Shape, Job
  <2>2. PICK saved \in BOOLEAN : receipt' = Reported(j, saved)
    BY <1>3 DEF Finish
  <2>3. pasted' = pasted
    BY <1>3 DEF Finish, history
  <2>4. CASE receipt'[id] = receipt[id]
    BY <2>3, <2>4 DEF WorkMoves
  <2>5. CASE receipt'[id] # receipt[id]
    <3>1. /\ id = j.id /\ Allowed(receipt[id], j.to)
          /\ receipt'[id] = j.to \/ (receipt[id] = "dispatching" /\ receipt'[id] = "uncertain")
      BY <1>0, <2>1, <2>2, <2>5 DEF Reported
    <3>2. CASE receipt[id] = "accepted"
      BY <1>u, <2>1, <2>3, <3>1, <3>2 DEF WorkMoves, Allowed, Final
    <3>3. CASE receipt[id] = "dispatching"
      <4>1. /\ j.to = "submitted" => pasted[id] > 0
            /\ j.to \in {"accepted", "failed"} => pasted[id] = 0
        BY <1>0, <2>1, <3>1, <3>3 DEF Paid, Hot, Fits, Booked
      <4>. QED BY <2>1, <2>3, <3>1, <3>3, <4>1 DEF WorkMoves, Final
    <3>. QED BY <3>1, <3>2, <3>3 DEF Allowed
  <2>. QED BY <2>4, <2>5
<1>4. CASE Paste(j)
  <2>1. receipt' = receipt
    BY <1>4 DEF Paste, ledger
  <2>2. pasted' = pasted \/ pasted' = [pasted EXCEPT ![j.id] = @ + 1]
    BY <1>4 DEF Paste
  <2>3. receipt[j.id] = "dispatching" /\ pasted[j.id] = 0
    BY <1>0, <1>4 DEF Paste, Fits, Booked, Unpasted
  <2>. QED BY <1>0, <2>1, <2>2, <2>3 DEF WorkMoves
<1>. QED BY <1>1, <1>2, <1>3, <1>4
     DEF Worker, Gui, BeginProof, Resume, Ready, Stash, Commit, Enter, ledger, history

(* The workers, the GUI and the timers keep the contract of TellWork: a     *)
(* message moves only as the worker that holds its licence may report, and  *)
(* a body is written only under an unused one (begin_proof,                 *)
(* App::safe_tell_ready, App::safe_tell_commit, finish).                    *)
THEOREM DeliveryKeepsContract == Spec => Contract!WorkSpec
<1>1. Init => Contract!WorkInit
  BY DEF Init, Contract!WorkInit, Work, ItemOf
<1>2. TypeOK /\ TypeOK' /\ Inv /\ (\A j \in jobs : Paid(j)) /\ [Next]_vars
        => [Contract!WorkNext]_Work
  <2>. SUFFICES ASSUME TypeOK, TypeOK', Inv, \A j \in jobs : Paid(j), [Next]_vars
                PROVE  Contract!WorkNext
    BY Zenon
  <2>1. ASSUME NEW id \in Ids
        PROVE  WorkMoves(receipt[id], pasted[id], receipt'[id], pasted'[id])
    <3>0. receipt \in [Ids -> Receipts] /\ Told(id) /\ pasted[id] \in Nat
      BY DEF TypeOK, Receipts, Inv
    <3>1. CASE UNCHANGED <<receipt, pasted>>
      BY <3>1 DEF WorkMoves
    <3>2. CASE Tick \/ \E o \in Ids : Submit(o)
      BY <3>0, <3>2 DEF Tick, Submit, Expired, WorkMoves, Told, history
    <3>3. CASE \E j \in jobs : Worker(j) \/ Gui(j)
      BY <3>3, DeliveryWorks
    <3>. QED BY <3>1, <3>2, <3>3
         DEF Next, Time, Person, Select, StopGui, Lapse, HoldExpires, Draw, TrustEnds, ProofAges,
             DeadlinePasses, Press, SetClosed, Replace, Rebind, vars, ledger, history
  <2>2. ASSUME NEW id \in Ids
        PROVE  Work[id] = Work'[id] \/ Contract!Moves(Work[id], Work'[id])
    <3>1. pasted[id] \in Nat /\ pasted'[id] \in Nat
      BY DEF TypeOK
    <3>. QED BY <2>1, <3>1, ContractMoves DEF Work
  <2>3. Work' \in [Ids -> Contract!Item]
    <3>. SUFFICES ASSUME NEW id \in Ids PROVE ItemOf(receipt'[id], pasted'[id]) \in Contract!Item
      BY DEF Work
    <3>1. receipt'[id] \in States \cup {"absent"} /\ pasted'[id] \in Nat
      BY DEF TypeOK
    <3>. QED BY <3>1 DEF ItemOf, Contract!Item, Contract!States, States, Contract!Final, Final
  <2>. QED BY <2>2, <2>3 DEF Contract!WorkNext
<1>. QED BY <1>1, <1>2, TypeCorrect, Delivering, Paids, PTL DEF Spec, Contract!WorkSpec

-----------------------------------------------------------------------------
(* The choice of the panes a tick serves (TellScheduler), for any finite    *)
(* set of pane names and any number of workers.                             *)
(* q comes before p in the order that starts after c, as Before has it.    *)
Prec(c, q, p) == IF (q > c) = (p > c) THEN q < p ELSE q > c

Ahead(c, S, p) == {q \in S : Prec(c, q, p)}

(* Rotation is a strict linear order on the names.                         *)
LEMMA Rotation ==
  ASSUME NEW c \in Int
  PROVE  /\ \A p \in Int : ~Prec(c, p, p)
         /\ \A p, q \in Int : p = q \/ Prec(c, p, q) \/ Prec(c, q, p)
         /\ \A p, q, r \in Int : Prec(c, p, q) /\ Prec(c, q, r) => Prec(c, p, r)
BY DEF Prec

(* Once d was passed, every name between c and d comes after p.             *)
LEMMA Turned ==
  ASSUME NEW c \in Int, NEW d \in Int, NEW p \in Int, NEW q \in Int,
         Prec(c, d, p), Prec(d, q, p)
  PROVE  Prec(c, q, p) /\ Prec(c, d, q)
BY DEF Prec

(* The number of those ahead grows along the order.                         *)
LEMMA Ranks ==
  ASSUME NEW c \in Int, NEW S, S \subseteq Int, IsFiniteSet(S), NEW p \in S
  PROVE  /\ IsFiniteSet(Ahead(c, S, p)) /\ Cardinality(Ahead(c, S, p)) \in Nat
         /\ Cardinality(Ahead(c, S, p)) < Cardinality(S)
         /\ \A q \in S : Prec(c, q, p) =>
              Cardinality(Ahead(c, S, q)) < Cardinality(Ahead(c, S, p))
<1>1. IsFiniteSet(S \ {p}) /\ Cardinality(S \ {p}) = Cardinality(S) - 1
      /\ Cardinality(S) \in Nat
  BY FS_RemoveElement, FS_CardinalityType
<1>2. \A q \in S : IsFiniteSet(Ahead(c, S, q)) /\ Cardinality(Ahead(c, S, q)) \in Nat
  <2>. TAKE q \in S
  <2>. Ahead(c, S, q) \in SUBSET S
    BY DEF Ahead
  <2>. QED BY FS_Subset, FS_CardinalityType
<1>3. Cardinality(Ahead(c, S, p)) =< Cardinality(S \ {p})
  <2>. Ahead(c, S, p) \in SUBSET (S \ {p})
    BY Rotation DEF Ahead
  <2>. QED BY <1>1, FS_Subset
<1>4. ASSUME NEW q \in S, Prec(c, q, p)
      PROVE  Cardinality(Ahead(c, S, q)) < Cardinality(Ahead(c, S, p))
  <2>1. Ahead(c, S, q) \in SUBSET Ahead(c, S, p)
    BY <1>4, Rotation DEF Ahead
  <2>2. q \in Ahead(c, S, p) /\ q \notin Ahead(c, S, q)
    BY <1>4, Rotation DEF Ahead
  <2>. QED BY <1>2, <2>1, <2>2, FS_Subset
<1>. QED BY <1>1, <1>2, <1>3, <1>4

(* A set of names has a first and a last.                                   *)
LEMMA FirstAndLast ==
  ASSUME NEW c \in Int, NEW S, S \subseteq Int, IsFiniteSet(S), S # {}
  PROVE  /\ \E p \in S : \A q \in S : q = p \/ Prec(c, p, q)
         /\ \E p \in S : \A q \in S : q = p \/ Prec(c, q, p)
<1>1. IsWellFoundedOn(StrictSubsetOrdering(S), SUBSET S)
  BY FS_StrictSubsetOrderingWellFounded, FS_FiniteSubsetsOfFinite
<1>2. \E p \in S : \A q \in S : q = p \/ Prec(c, p, q)
  <2>. DEFINE T == {Ahead(c, S, q) : q \in S}
  <2>1. T \subseteq SUBSET S /\ T # {}
    BY DEF Ahead
  <2>2. PICK A \in T : \A B \in T : <<B, A>> \notin StrictSubsetOrdering(S)
    BY <1>1, <2>1, WFMin
  <2>3. PICK p \in S : A = Ahead(c, S, p)
    BY <2>2
  <2>4. ASSUME NEW q \in S, Prec(c, q, p) PROVE FALSE
    <3>1. Ahead(c, S, q) \subseteq Ahead(c, S, p) /\ q \in Ahead(c, S, p)
          /\ q \notin Ahead(c, S, q)
      BY <2>4, Rotation DEF Ahead
    <3>2. <<Ahead(c, S, q), A>> \in StrictSubsetOrdering(S)
      BY <2>1, <2>3, <3>1 DEF StrictSubsetOrdering
    <3>. QED BY <2>2, <3>2
  <2>. QED BY <2>4, Rotation
<1>3. \E p \in S : \A q \in S : q = p \/ Prec(c, q, p)
  <2>. DEFINE After(q) == {r \in S : Prec(c, q, r)}
              T == {After(q) : q \in S}
  <2>1. T \subseteq SUBSET S /\ T # {}
    OBVIOUS
  <2>2. PICK A \in T : \A B \in T : <<B, A>> \notin StrictSubsetOrdering(S)
    <3>. HIDE DEF T
    <3>. QED BY <1>1, <2>1, WFMin
  <2>3. PICK p \in S : A = After(p)
    BY <2>2
  <2>4. ASSUME NEW q \in S, Prec(c, p, q) PROVE FALSE
    <3>1. After(q) \subseteq After(p) /\ q \in After(p) /\ q \notin After(q)
      BY <2>4, Rotation
    <3>2. <<After(q), A>> \in StrictSubsetOrdering(S)
      BY <2>1, <2>3, <3>1 DEF StrictSubsetOrdering
    <3>. QED BY <2>2, <3>2
  <2>. QED BY <2>4, Rotation
<1>. QED BY <1>2, <1>3

(* One round: whoever is not among the first Workers of the free panes has  *)
(* Workers of them ahead, and all of those come before it.                  *)
Picked(c, S) == {p \in S : Cardinality(Ahead(c, S, p)) < Workers}

(* Whoever is passed over has a full round of picked ones before it.        *)
LEMMA Round ==
  ASSUME NEW c \in Int, NEW S, S \subseteq Int, IsFiniteSet(S), Workers \in Nat \ {0},
         NEW p \in S \ Picked(c, S)
  PROVE  /\ IsFiniteSet(Picked(c, S)) /\ Cardinality(Picked(c, S)) >= Workers
         /\ \A q \in Picked(c, S) : Prec(c, q, p)
<1>. DEFINE C == Picked(c, S)
<1>1. C \in SUBSET S /\ S \ C \in SUBSET S /\ S \ C # {} /\ IsFiniteSet(S \ C) /\ IsFiniteSet(C)
      /\ S \ C \subseteq Int
  BY FS_Subset DEF Picked
<1>2. PICK r \in S \ C : \A q \in S \ C : q = r \/ Prec(c, r, q)
  <2>. HIDE DEF C
  <2>. QED BY <1>1, FirstAndLast
<1>3. Ahead(c, S, r) \in SUBSET C
  BY <1>2, Rotation DEF Ahead
<1>4. Cardinality(Ahead(c, S, r)) =< Cardinality(C)
  BY <1>1, <1>3, FS_Subset
<1>5. Cardinality(Ahead(c, S, r)) \in Nat /\ Cardinality(C) \in Nat
  BY <1>1, Ranks, FS_CardinalityType
<1>6. ~(Cardinality(Ahead(c, S, r)) < Workers)
  BY <1>2 DEF Picked
<1>7. Cardinality(C) >= Workers
  BY <1>4, <1>5, <1>6
<1>8. ASSUME NEW q \in C PROVE Prec(c, q, p)
  <2>1. q \in S /\ p \in S /\ q # p
    BY <1>8 DEF Picked
  <2>2. ASSUME Prec(c, p, q) PROVE FALSE
    <3>1. Cardinality(Ahead(c, S, p)) < Cardinality(Ahead(c, S, q))
      BY <2>1, <2>2, Ranks
    <3>2. Cardinality(Ahead(c, S, q)) < Workers /\ ~(Cardinality(Ahead(c, S, p)) < Workers)
      BY <1>8 DEF Picked
    <3>3. Cardinality(Ahead(c, S, p)) \in Nat /\ Cardinality(Ahead(c, S, q)) \in Nat
      BY <2>1, Ranks
    <3>. QED BY <3>1, <3>2, <3>3
  <2>. QED BY <2>1, <2>2, Rotation
<1>. QED BY <1>1, <1>7, <1>8
-----------------------------------------------------------------------------
USE SchedulerAssumption

(* How far p is from its turn.                                              *)
Distance(p) == Cardinality(Ahead(cursor, Names, p))

Near == \A p \in Names : passed[p] * Workers + Distance(p) < Cardinality(Names)

(* Types of the scheduler, and its choice in terms of the order.            *)
LEMMA SchedTyped ==
  ASSUME SchedulerTypeOK
  PROVE  /\ cursor \in Int /\ Names \subseteq Int /\ Servable \subseteq Names
         /\ IsFiniteSet(Servable) /\ NextServed = Picked(cursor, Servable)
         /\ \A p \in Names : Distance(p) \in Nat /\ Distance(p) < Cardinality(Names)
         /\ Cardinality(Names) \in Nat
<1>1. cursor \in Int /\ Names \subseteq Int /\ Servable \subseteq Names
  BY DEF SchedulerTypeOK, Servable
<1>2. IsFiniteSet(Servable) /\ Cardinality(Names) \in Nat
  BY <1>1, FS_Subset, FS_CardinalityType
<1>3. NextServed = Picked(cursor, Servable)
  BY DEF NextServed, Picked, Ahead, Prec, Before
<1>4. \A p \in Names : Distance(p) \in Nat /\ Distance(p) < Cardinality(Names)
  BY <1>1, Ranks DEF Distance
<1>. QED BY <1>1, <1>2, <1>3, <1>4

(* A tick serves as many panes as there are to serve and workers to serve   *)
(* them (Scheduler::select, its take(limit)), and each of them is free.     *)
THEOREM AllWorkersServe ==
  ASSUME SchedulerTypeOK
  PROVE  /\ NextServed \subseteq Servable
         /\ Cardinality(NextServed) = IF Workers < Cardinality(Servable) THEN Workers
                                      ELSE Cardinality(Servable)
<1>. DEFINE F == Servable
            C == Picked(cursor, F)
<1>1. cursor \in Int /\ F \subseteq Int /\ IsFiniteSet(F) /\ NextServed = C
  BY SchedTyped
<1>2. C \in SUBSET F
  BY DEF Picked
<1>3. IsFiniteSet(C) /\ Cardinality(C) \in Nat /\ Cardinality(F) \in Nat
      /\ Cardinality(C) =< Cardinality(F)
  <2>. HIDE DEF F, C
  <2>. QED BY <1>1, <1>2, FS_Subset, FS_CardinalityType
<1>4. Cardinality(C) =< Workers
  <2>1. CASE C = {}
    BY <2>1, FS_EmptySet
  <2>2. CASE C # {}
    <3>1. PICK p \in C : \A q \in C : q = p \/ Prec(cursor, q, p)
      <4>. HIDE DEF F, C
      <4>. QED BY <1>1, <1>2, <1>3, <2>2, FirstAndLast
    <3>2. p \in F /\ Cardinality(Ahead(cursor, F, p)) < Workers
      BY <3>1 DEF Picked
    <3>3. C \ {p} \in SUBSET Ahead(cursor, F, p)
      BY <1>2, <3>1 DEF Ahead
    <3>4. IsFiniteSet(Ahead(cursor, F, p)) /\ Cardinality(Ahead(cursor, F, p)) \in Nat
      BY <1>1, <3>2, Ranks
    <3>5. Cardinality(C \ {p}) = Cardinality(C) - 1
      <4>. HIDE DEF F, C
      <4>. QED BY <1>3, <3>1, FS_RemoveElement
    <3>6. Cardinality(C \ {p}) =< Cardinality(Ahead(cursor, F, p))
      <4>. HIDE DEF F, C
      <4>. QED BY <3>3, <3>4, FS_Subset
    <3>. HIDE DEF F, C
    <3>. QED BY <1>3, <3>2, <3>4, <3>5, <3>6
  <2>. QED BY <2>1, <2>2
<1>5. CASE F \subseteq C
  <2>. C = F
    BY <1>2, <1>5
  <2>. HIDE DEF F, C
  <2>. QED BY <1>1, <1>2, <1>3, <1>4 DEF F
<1>6. CASE ~(F \subseteq C)
  <2>1. PICK p \in F \ C : TRUE
    BY <1>6
  <2>2. Cardinality(C) >= Workers
    BY <1>1, <2>1, Round
  <2>3. C \in SUBSET (F \ {p}) /\ IsFiniteSet(F \ {p})
        /\ Cardinality(F \ {p}) = Cardinality(F) - 1
    <3>. HIDE DEF F, C
    <3>. QED BY <1>1, <1>2, <2>1, FS_RemoveElement
  <2>4. Cardinality(C) =< Cardinality(F \ {p})
    <3>. HIDE DEF F, C
    <3>. QED BY <2>3, FS_Subset
  <2>. HIDE DEF C
  <2>. QED BY <1>1, <1>2, <1>3, <1>4, <2>2, <2>3, <2>4
<1>. QED BY <1>5, <1>6

(* The pane a tick leaves the cursor at is the last it chose.               *)
LEMMA LastChosen ==
  ASSUME SchedulerTypeOK, Serve
  PROVE  /\ cursor' \in NextServed
         /\ \A q \in NextServed : q = cursor' \/ Prec(cursor, q, cursor')
<1>. DEFINE F == Servable
            C == Picked(cursor, F)
<1>1. cursor \in Int /\ F \subseteq Int /\ IsFiniteSet(F) /\ NextServed = C /\ F # {}
  BY SchedTyped DEF Serve
<1>2. C \subseteq Int /\ IsFiniteSet(C)
  <2>. C \in SUBSET F
    BY DEF Picked
  <2>. HIDE DEF F, C
  <2>. QED BY <1>1, FS_Subset
<1>3. C # {}
  <2>. SUFFICES ASSUME C = {} PROVE FALSE
    OBVIOUS
  <2>1. PICK p \in F : TRUE
    BY <1>1
  <2>2. Cardinality(C) >= Workers
    BY <1>1, <2>1, Round
  <2>. QED BY <2>2, FS_EmptySet
<1>4. \E p \in C : \A q \in C : q = p \/ Prec(cursor, q, p)
  <2>. HIDE DEF C
  <2>. QED BY <1>1, <1>2, <1>3, FirstAndLast
<1>5. cursor' = CHOOSE p \in C : \A q \in C : q = p \/ Prec(cursor, q, p)
  <2>1. cursor' = CHOOSE p \in NextServed :
                    \A q \in NextServed : q = p \/ Before(q, p)
    BY DEF Serve
  <2>2. \A p, q : Before(q, p) = Prec(cursor, q, p)
    BY DEF Before, Prec
  <2>. QED BY <1>1, <2>1, <2>2
<1>6. cursor' \in C /\ \A q \in C : q = cursor' \/ Prec(cursor, q, cursor')
  <2>. HIDE DEF C
  <2>. QED BY <1>4, <1>5
<1>. QED BY <1>1, <1>6

(* A pane that a tick passes over comes nearer by the panes the tick took.  *)
LEMMA Nearer ==
  ASSUME SchedulerTypeOK, Serve, NEW p \in Servable \ NextServed
  PROVE  Distance(p)' + Workers =< Distance(p)
<1>. DEFINE C == NextServed
<1>1. PICK c, d : c = cursor /\ d = cursor'
  OBVIOUS
<1>2. /\ c \in Int /\ Names \subseteq Int /\ Servable \subseteq Names
      /\ IsFiniteSet(Servable) /\ C = Picked(c, Servable) /\ p \in Names
  BY <1>1, SchedTyped
<1>3. IsFiniteSet(C) /\ Cardinality(C) >= Workers /\ \A q \in C : Prec(c, q, p)
  BY <1>2, Round
<1>4. d \in C /\ \A q \in C : q = d \/ Prec(c, q, d)
  BY <1>1, LastChosen
<1>5. C \subseteq Int /\ C \subseteq Names /\ d \in Int /\ p \in Int
  BY <1>2, <1>4 DEF Picked
<1>. DEFINE Old == Ahead(c, Names, p)
            New == Ahead(d, Names, p)
<1>6. New \subseteq Old /\ C \subseteq Old /\ New \cap C = {}
  <2>1. \A q \in New : Prec(c, q, p) /\ Prec(c, d, q)
    BY <1>2, <1>3, <1>4, <1>5, Turned DEF Ahead
  <2>2. C \subseteq Old
    BY <1>3, <1>5 DEF Ahead
  <2>3. \A q \in C : ~Prec(c, d, q)
    BY <1>2, <1>4, <1>5, Rotation
  <2>. QED BY <2>1, <2>2, <2>3 DEF Ahead
<1>7. IsFiniteSet(Old) /\ IsFiniteSet(New) /\ Cardinality(Old) \in Nat /\ Cardinality(New) \in Nat
  BY <1>2, <1>5, Ranks
<1>8. Cardinality(New) + Cardinality(C) =< Cardinality(Old)
  <2>. HIDE DEF New, Old, C
  <2>1. IsFiniteSet(New \cup C)
        /\ Cardinality(New \cup C) = Cardinality(New) + Cardinality(C) - Cardinality(New \cap C)
    BY <1>3, <1>7, FS_Union
  <2>2. New \cup C \in SUBSET Old
    BY <1>6
  <2>3. Cardinality(New \cup C) =< Cardinality(Old) /\ Cardinality(New \cap C) = 0
    BY <1>6, <1>7, <2>2, FS_Subset, FS_EmptySet
  <2>. QED BY <1>3, <1>7, <2>1, <2>3, FS_CardinalityType
<1>9. Cardinality(C) \in Nat
  BY <1>3, FS_CardinalityType
<1>10. Distance(p) = Cardinality(Old) /\ Distance(p)' = Cardinality(New)
  BY <1>1 DEF Distance
<1>. QED BY <1>3, <1>7, <1>8, <1>9, <1>10

(* Every step keeps the bound: a tick adds one to the count of those it     *)
(* passes over and takes Workers off their distance; nothing else counts.   *)
LEMMA NearKept ==
  ASSUME SchedulerTypeOK, SchedulerTypeOK', Near, [SchedulerNext]_schedulerVars
  PROVE  Near'
<1>. SUFFICES ASSUME NEW p \in Names
              PROVE  passed'[p] * Workers + Distance(p)' < Cardinality(Names)
  BY DEF Near
<1>1. /\ passed[p] \in Nat /\ passed'[p] \in Nat
      /\ Distance(p) \in Nat /\ Distance(p)' \in Nat
      /\ Distance(p)' < Cardinality(Names) /\ Cardinality(Names) \in Nat
  <2>1. cursor \in Int /\ cursor' \in Int /\ Names \subseteq Int
    BY DEF SchedulerTypeOK
  <2>. QED BY <2>1, Ranks, FS_CardinalityType DEF SchedulerTypeOK, Distance
<1>2. passed[p] * Workers + Distance(p) < Cardinality(Names)
  BY DEF Near
<1>3. CASE passed'[p] = 0
  BY <1>1, <1>3
<1>4. CASE passed'[p] = passed[p] /\ cursor' = cursor
  BY <1>2, <1>4 DEF Distance
<1>5. CASE Serve /\ p \in Servable \ NextServed
  <2>1. passed'[p] = passed[p] + 1
    BY <1>5 DEF Serve
  <2>2. Distance(p)' + Workers =< Distance(p)
    BY <1>5, Nearer
  <2>3. ASSUME NEW n \in Nat, NEW w \in Nat PROVE (n + 1) * w = n * w + w /\ n * w \in Nat
    BY <2>3
  <2>4. PICK n, m, a, b, t : n = passed[p] /\ m = passed'[p] /\ a = Distance(p)
                             /\ b = Distance(p)' /\ t = n * Workers
    OBVIOUS
  <2>. QED BY <1>1, <1>2, <2>1, <2>2, <2>3, <2>4
<1>6. CASE Serve /\ p \notin Servable \ NextServed
  <2>. passed'[p] = 0
    BY <1>6 DEF Serve
  <2>. QED BY <1>3
<1>7. ASSUME NEW q \in Names, Release(q) \/ Arrive(q) \/ Depart(q)
      PROVE  passed'[p] = 0 \/ (passed'[p] = passed[p] /\ cursor' = cursor)
  BY <1>7 DEF Release, Arrive, Depart, SchedulerTypeOK
<1>8. CASE UNCHANGED schedulerVars
  <2>. passed' = passed /\ cursor' = cursor
    BY <1>8 DEF schedulerVars
  <2>. QED BY <1>4
<1>. QED BY <1>3, <1>4, <1>5, <1>6, <1>7, <1>8 DEF SchedulerNext

(* Type correctness of the scheduler.                                       *)
LEMMA SchedTypeKept ==
  ASSUME SchedulerTypeOK, [SchedulerNext]_schedulerVars
  PROVE  SchedulerTypeOK'
<1>1. CASE Serve
  <2>1. NextServed \subseteq Servable /\ Servable \subseteq Names
    BY DEF NextServed, Servable, SchedulerTypeOK
  <2>2. cursor' \in Names
    BY <1>1, <2>1, LastChosen
  <2>. QED BY <1>1, <2>1, <2>2 DEF Serve, SchedulerTypeOK
<1>2. ASSUME NEW p \in Names, Release(p) \/ Arrive(p) \/ Depart(p)
      PROVE  SchedulerTypeOK'
  <2>1. CASE Release(p)
    BY <2>1 DEF Release, SchedulerTypeOK
  <2>2. CASE Arrive(p)
    BY <1>2, <2>2 DEF Arrive, SchedulerTypeOK
  <2>3. CASE Depart(p)
    BY <2>3 DEF Depart, SchedulerTypeOK
  <2>. QED BY <1>2, <2>1, <2>2, <2>3
<1>3. CASE UNCHANGED schedulerVars
  BY <1>3 DEF schedulerVars, SchedulerTypeOK
<1>. QED BY <1>1, <1>2, <1>3 DEF SchedulerNext

(* A pane with a message waiting and no delivery under way is passed over   *)
(* fewer than |panes| / WORKERS times before a tick serves it               *)
(* (Scheduler::select), for any set of panes and any number of workers.     *)
THEOREM NoneOvertakenLong == SchedulerSpec => []BoundedOvertaking
<1>1. SchedulerInit => SchedulerTypeOK /\ Near
  <2>. SUFFICES ASSUME SchedulerInit PROVE SchedulerTypeOK /\ Near
    OBVIOUS
  <2>1. SchedulerTypeOK
    BY DEF SchedulerInit, SchedulerTypeOK
  <2>2. \A p \in Names : passed[p] = 0
    BY DEF SchedulerInit
  <2>. QED BY <2>1, <2>2, SchedTyped DEF Near
<1>2. SchedulerTypeOK /\ Near /\ [SchedulerNext]_schedulerVars => SchedulerTypeOK' /\ Near'
  BY SchedTypeKept, NearKept
<1>3. SchedulerTypeOK /\ Near => BoundedOvertaking
  <2>. SUFFICES ASSUME SchedulerTypeOK, Near, NEW p \in Names
                PROVE  passed[p] * Workers < Cardinality(Names)
    BY DEF BoundedOvertaking
  <2>1. passed[p] \in Nat /\ Distance(p) \in Nat /\ Cardinality(Names) \in Nat
    BY SchedTyped DEF SchedulerTypeOK
  <2>2. passed[p] * Workers + Distance(p) < Cardinality(Names)
    BY DEF Near
  <2>3. ASSUME NEW n \in Nat, NEW w \in Nat PROVE n * w \in Nat
    BY <2>3
  <2>4. PICK t : t = passed[p] * Workers
    OBVIOUS
  <2>. QED BY <2>1, <2>2, <2>3, <2>4
<1>. QED BY <1>1, <1>2, <1>3, PTL DEF SchedulerSpec
=============================================================================
