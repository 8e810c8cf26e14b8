---------------------------- MODULE TellDelivery ----------------------------
(***************************************************************************)
(* Delivery of queued tell messages into live terminals                    *)
(* (app/kasaterm/src/tell_delivery.rs), against the input gate of the      *)
(* terminal (crates/kasa-pty/src/state/input.rs), a person who types, and  *)
(* an agent whose screen follows its input box with a delay.               *)
(*                                                                         *)
(* Threads and events are the elements of jobs: a worker that proves the   *)
(* receiver's identity, an event waiting for the GUI, the GUI between its  *)
(* last check and the guarded write, a timer thread, a finishing thread.   *)
(* The input revision of a pane is kept relative to each job: "same" says  *)
(* that nothing but the job itself has written since the job read it.      *)
(***************************************************************************)
EXTENDS Integers, FiniteSets, TellReceipts

CONSTANTS Ids,         \* messages, in the order of the ledger's map
          Panes,
          PaneOf,      \* the pane a message is addressed to
          Rejecting,   \* messages sent with policy "reject"
          Claude,      \* panes whose harness can stash a draft
          GuiMayStop,  \* may the GUI loop end while workers still run?
          SlowDraw     \* may an agent draw what a write did later than the gate waits for it?

ASSUME DeliveryAssumption ==
  /\ Ids \subseteq Nat \ {0} /\ PaneOf \in [Ids -> Panes]
  /\ Rejecting \subseteq Ids /\ Claude \subseteq Panes
  /\ GuiMayStop \in BOOLEAN /\ SlowDraw \in BOOLEAN

User == 0    \* text a person typed, next to the message ids

VARIABLES receipt,  \* state of each message in the ledger
          lapsed,   \* messages whose queue time is over
          active,   \* Scheduler.active
          batch,    \* the snapshot of pending() a tick is working on, or <<>>
          jobs,     \* deliveries in flight
          gui,      \* "running" or "stopped"
          pty,      \* each pane's input gate, input box and screen
          live,     \* does the addressed conversation still run in the pane?
          bound,    \* does the transcript binding still say so?
          pasted,   \* how often a body was written into a pane (history)
          sent,     \* how often it was part of a submitted turn (history)
          turns     \* the turns submitted by a delivery's Enter (history)

vars == <<receipt, lapsed, active, batch, jobs, gui, pty, live, bound,
          pasted, sent, turns>>
ledger  == <<receipt, lapsed>>
sched   == <<active, batch>>
agent   == <<live, bound>>
history == <<pasted, sent, turns>>

Job == [id: Ids, proof: {"none", "current", "aged", "broken"}, same: BOOLEAN,
        stage: {"proving", "proven", "ready", "stashing", "pasting", "rechecking",
                "commit", "entering", "waiting", "reproving", "finishing"},
        stashed: BOOLEAN, written: BOOLEAN, late: BOOLEAN,
        to: Final \cup {"accepted", "none"}]

(* box and stash are the agent's; shown and stashed what its screen says of *)
(* them (the last for "> stashed").  typing: the last write is so recent    *)
(* that the screen is not trusted yet.                                      *)
Pty == [hold: {"none", "held", "expired"}, buf: {"none", "text", "enter", "stash"},
        closed: BOOLEAN, typing: BOOLEAN,
        box: SUBSET (Ids \cup {User}), shown: SUBSET (Ids \cup {User}),
        stash: SUBSET (Ids \cup {User}), stashed: BOOLEAN]

TypeOK ==
  /\ receipt \in [Ids -> States \cup {"absent"}]
  /\ lapsed \subseteq Ids /\ active \subseteq Panes
  /\ batch \in {<<>>} \cup {<<S>> : S \in SUBSET Ids}
  /\ jobs \subseteq Job /\ gui \in {"running", "stopped"}
  /\ pty \in [Panes -> Pty]
  /\ live \in [Panes -> BOOLEAN] /\ bound \in [Panes -> BOOLEAN]
  /\ pasted \in [Ids -> Nat] /\ sent \in [Ids -> Nat]
  /\ turns \subseteq [id: Ids, box: SUBSET (Ids \cup {User}), live: BOOLEAN]

Init ==
  /\ receipt = [id \in Ids |-> "absent"] /\ lapsed = {}
  /\ active = {} /\ batch = <<>> /\ jobs = {} /\ gui = "running"
  /\ pty = [p \in Panes |-> [hold |-> "none", buf |-> "none", closed |-> FALSE,
                             typing |-> FALSE, box |-> {}, shown |-> {}, stash |-> {},
                             stashed |-> FALSE]]
  /\ live = [p \in Panes |-> TRUE] /\ bound = [p \in Panes |-> TRUE]
  /\ pasted = [id \in Ids |-> 0] /\ sent = [id \in Ids |-> 0] /\ turns = {}

At(j)       == PaneOf[j.id]
Become(j, k) == jobs' = (jobs \ {j}) \cup {k}
Writing     == {"stashing", "pasting", "entering"}
GuiIdle     == gui = "running" /\ \A j \in jobs : j.stage \notin Writing

(* What a write to pane p does to the revision the other jobs hold. *)
Touched(js, p) == {IF At(j) = p THEN [j EXCEPT !.same = FALSE] ELSE j : j \in js}

(* Delivery j wrote to its pane and goes on as k, with the new revision. *)
Wrote(j, k) == jobs' = Touched(jobs \ {j}, At(j)) \cup {k}

-----------------------------------------------------------------------------
(* The input gate and the input box behind it *)

(* Enter: what is in the box becomes a turn; a stashed draft comes back.    *)
Entered(g) == [g EXCEPT !.box = g.stash, !.stash = {}, !.typing = TRUE]
Typed(g)   == [g EXCEPT !.box = @ \cup {User}, !.typing = TRUE]

(* The stash key puts a draft away, over the one already there; in an empty *)
(* box it brings the draft back.                                            *)
StashKey(g) == IF g.box # {} THEN [g EXCEPT !.stash = g.box, !.box = {}, !.typing = TRUE]
               ELSE [g EXCEPT !.box = g.stash, !.stash = {}, !.typing = TRUE]

Pasted(g, id) == [g EXCEPT !.box = @ \cup {id}, !.typing = TRUE]

Keyed(g, key) ==
  CASE key = "enter" -> Entered(g) [] key = "stash" -> StashKey(g) [] OTHER -> Typed(g)

Counted(g) == [id \in Ids |-> IF id \in g.box THEN sent[id] + 1 ELSE sent[id]]

(* release_input: the held keys are written in order, if the pane is open.  *)
Released(g) ==
  LET free == [g EXCEPT !.hold = "none", !.buf = "none"]
  IN IF g.buf = "none" \/ g.closed THEN free ELSE Keyed(free, g.buf)
Flushes(g) == g.buf # "none" /\ ~g.closed

(* A delivery lets go of the pane's input, after doing pre to the gate. *)
KeepsHold(p, pre, js) == pty' = [pty EXCEPT ![p] = pre] /\ jobs' = js    \* faulty

LetGo(p, pre, js) ==
  /\ pty' = [pty EXCEPT ![p] = Released(pre)]
  /\ jobs' = IF Flushes(pre) THEN Touched(js, p) ELSE js

FlushCounted(pre, was) ==
  IF Flushes(pre) /\ pre.buf = "enter"
  THEN [id \in Ids |-> IF id \in pre.box THEN was[id] + 1 ELSE was[id]] ELSE was

(* A person's key.  While the input is held it waits in the buffer; after   *)
(* the hold's time is up the next key takes the buffer along.  The buffer   *)
(* is its first key: the ones behind it are pressed again once it is        *)
(* written, in their order and with nothing between them, or later.         *)
Keys(p) == {"text", "enter"} \cup (IF p \in Claude THEN {"stash"} ELSE {})

Press(p, key) ==
  LET g == pty[p]
      first == IF g.buf = "none" THEN key ELSE g.buf
      open == [g EXCEPT !.hold = "none", !.buf = "none"]
  IN /\ IF g.hold = "held"
        THEN /\ pty' = [pty EXCEPT ![p].buf = first]
             /\ UNCHANGED <<jobs, sent>>
        ELSE IF g.closed
        THEN pty' = [pty EXCEPT ![p] = open] /\ UNCHANGED <<jobs, sent>>
        ELSE /\ pty' = [pty EXCEPT ![p] = Keyed(open, first)]
             /\ jobs' = Touched(jobs, p)
             /\ sent' = IF first = "enter" THEN Counted(g) ELSE sent
     /\ UNCHANGED <<ledger, sched, gui, agent, pasted, turns>>

HoldExpires(p) ==
  /\ pty[p].hold = "held"
  /\ pty' = [pty EXCEPT ![p].hold = "expired"]
  /\ UNCHANGED <<ledger, sched, jobs, gui, agent, history>>

(* The GUI closes and reopens panes.  A closing may interrupt the pane's    *)
(* agent, which clears the box.                                             *)
SetClosed(p) ==
  /\ GuiIdle
  /\ \E box \in {pty[p].box} \cup (IF pty[p].closed THEN {} ELSE {{}}) :
       pty' = [pty EXCEPT ![p].closed = ~@, ![p].box = box]
  /\ jobs' = Touched(jobs, p)
  /\ UNCHANGED <<ledger, sched, gui, agent, history>>

(* The agent draws its box.  The gate distrusts the screen at least until   *)
(* then; that it may do so longer only puts a delivery off.                 *)
Draw(p) ==
  /\ LET g == pty[p] IN g.shown # g.box \/ g.stashed # (g.stash # {}) \/ g.typing
  /\ pty' = [pty EXCEPT ![p].shown = pty[p].box, ![p].stashed = (pty[p].stash # {}),
                        ![p].typing = FALSE]
  /\ UNCHANGED <<ledger, sched, jobs, gui, agent, history>>

(* DRAFT_TRUST after a person's key, or the 300 ms after any write, are     *)
(* over before the agent has drawn what was written.                        *)
TrustEnds(p) ==
  /\ SlowDraw /\ pty[p].typing
  /\ pty' = [pty EXCEPT ![p].typing = FALSE]
  /\ UNCHANGED <<ledger, sched, jobs, gui, agent, history>>

(* Another conversation takes the pane, with an empty box; its binding is   *)
(* recorded later.  A restart of the agent takes longer than an identity    *)
(* proof stays fresh and a GUI event lasts; only a key can be as quick.     *)
Replace(p) ==
  /\ live[p]
  /\ \A j \in jobs : At(j) = p /\ j.same => j.stage \notin Writing
  /\ live' = [live EXCEPT ![p] = FALSE]
  /\ pty' = [pty EXCEPT ![p].box = {}, ![p].stash = {}]
  /\ jobs' = {IF At(j) = p /\ j.proof = "current" THEN [j EXCEPT !.proof = "aged"]
              ELSE j : j \in jobs}
  /\ UNCHANGED <<ledger, sched, gui, bound, history>>

Rebind(p) ==
  /\ ~live[p] /\ bound[p]
  /\ bound' = [bound EXCEPT ![p] = FALSE]
  /\ UNCHANGED <<ledger, sched, jobs, gui, pty, live, history>>

-----------------------------------------------------------------------------
(* The ledger, its expiry and the scheduler *)

(* A submit whose wake-up finds the GUI gone is in TellLedger (WakeFails).  *)
Submit(id) ==
  /\ gui = "running" /\ receipt[id] = "absent" /\ live[PaneOf[id]] /\ ~pty[PaneOf[id]].closed
  /\ receipt' = [receipt EXCEPT ![id] = "accepted"]
  /\ UNCHANGED <<lapsed, sched, jobs, gui, pty, agent, history>>

(* A message's queue time is over.  Ticks look at the ones that are queued, *)
(* the GUI at the delivery it takes up.                                     *)
Lapse(id) ==
  /\ gui = "running" /\ id \notin lapsed
  /\ \/ receipt[id] = "accepted"
     \/ \E j \in jobs : j.id = id /\ j.stage \in {"ready", "commit"}
  /\ lapsed' = lapsed \cup {id}
  /\ UNCHANGED <<receipt, sched, jobs, gui, pty, agent, history>>

(* A tick: expire what is overdue, then take the messages of panes with no  *)
(* dispatch under way; Select picks the oldest one of each free pane.       *)
Expired == [id \in Ids |-> IF receipt[id] = "accepted" /\ id \in lapsed
                           THEN "failed" ELSE receipt[id]]

Tick ==
  /\ gui = "running" /\ batch = <<>>
  /\ LET kept == Expired
         free == {id \in Ids : /\ kept[id] = "accepted"
                               /\ \A o \in Ids : PaneOf[o] = PaneOf[id] =>
                                    kept[o] # "dispatching"}
     IN /\ receipt' = kept
        /\ kept # receipt \/ free # {}
        /\ batch' = IF free = {} THEN <<>> ELSE <<free>>
  /\ UNCHANGED <<lapsed, active, jobs, gui, pty, agent, history>>

NewJob(id) == [id |-> id, proof |-> "none", same |-> TRUE, stage |-> "proving",
               stashed |-> FALSE, written |-> FALSE, late |-> FALSE, to |-> "none"]

Oldest(id, S) == \A o \in S : PaneOf[o] = PaneOf[id] => id <= o

Chosen == {id \in batch[1] : PaneOf[id] \notin active /\ Oldest(id, batch[1])}

(* Some of them are served, WORKERS at most: which, TellScheduler says.     *)
Selections == {S \in SUBSET Chosen : S = {} => Chosen = {}}

Select ==
  /\ batch # <<>>
  /\ \E S \in Selections :
       /\ jobs' = jobs \cup {NewJob(id) : id \in S}
       /\ active' = active \cup {PaneOf[id] : id \in S}
  /\ batch' = <<>>
  /\ UNCHANGED <<ledger, gui, pty, agent, history>>

(* finish(): a thread of its own moves the receipt, then frees the pane.    *)
Finishing(j, to) == [NewJob(j.id) EXCEPT !.stage = "finishing", !.same = FALSE, !.to = to]

(* Faulty: a failed save leaves the receipt under dispatch, or queues it.   *)
ReportedStuck(j, saved) ==
  IF saved /\ Allowed(receipt[j.id], j.to) THEN [receipt EXCEPT ![j.id] = j.to] ELSE receipt
ReportedAgain(j, saved) ==
  IF ~Allowed(receipt[j.id], j.to) THEN receipt
  ELSE [receipt EXCEPT ![j.id] = IF saved THEN j.to ELSE "accepted"]

(* What tell_service::transition leaves in the ledger, if the save works    *)
(* and if it fails.                                                         *)
Reported(j, saved) ==
  IF ~Allowed(receipt[j.id], j.to) THEN receipt
  ELSE IF saved THEN [receipt EXCEPT ![j.id] = j.to]
  ELSE IF receipt[j.id] = "dispatching"
       THEN [receipt EXCEPT ![j.id] = "uncertain"] ELSE receipt

Finish(j) ==
  /\ j.stage = "finishing"
  /\ \E saved \in BOOLEAN : receipt' = Reported(j, saved)
  /\ active' = active \ {At(j)}
  /\ jobs' = jobs \ {j}
  /\ UNCHANGED <<lapsed, batch, gui, pty, agent, history>>

-----------------------------------------------------------------------------
(* begin_proof, collect_proof, and the timer threads that prove again *)

(* Transient failures (workers busy, deadline over) keep the old proof.     *)
Assumed(j)      == {"current", "transient"}    \* faulty: the conversation is not compared
ProofResults(j) == {IF live[At(j)] THEN "current" ELSE "broken", "transient"}
Proved(j, r)    == IF r = "transient" THEN j ELSE [j EXCEPT !.proof = r]

Quit(j) == jobs' = jobs \ {j} /\ active' = active \ {At(j)}

BeginProof(j) ==
  /\ j.stage = "proving"
  /\ \E r \in ProofResults(j) :
       \/ r = "current" /\ UNCHANGED active
          /\ Become(j, [j EXCEPT !.proof = r, !.stage = "proven"])
       \/ r = "transient" /\ Quit(j)
       \/ r = "broken" /\ Become(j, Finishing(j, "failed")) /\ UNCHANGED active
  /\ UNCHANGED <<ledger, batch, gui, pty, agent, history>>

Dispatch(j) ==
  /\ j.stage = "proven"
  /\ \E saved \in BOOLEAN :
       IF saved /\ Allowed(receipt[j.id], "dispatching")
       THEN /\ receipt' = [receipt EXCEPT ![j.id] = "dispatching"]
            /\ Become(j, IF gui = "running" THEN [j EXCEPT !.stage = "ready"]
                         ELSE Finishing(j, "failed"))
            /\ UNCHANGED active
       ELSE Quit(j) /\ UNCHANGED receipt
  /\ UNCHANGED <<lapsed, batch, gui, pty, agent, history>>

(* schedule_ready and schedule_commit: after a pause, back to the GUI.      *)
Resume(j) ==
  /\ j.stage \in {"rechecking", "waiting", "reproving"}
  /\ \E r \in IF j.stage = "waiting" THEN {"transient"} ELSE ProofResults(j) :
       IF gui = "running"
       THEN /\ Become(j, [Proved(j, r) EXCEPT
                            !.stage = IF j.stage = "rechecking" THEN "ready" ELSE "commit"])
            /\ UNCHANGED <<pty, sent>>
       ELSE /\ LetGo(At(j), pty[At(j)], (jobs \ {j}) \cup {Finishing(j, "uncertain")})
            /\ sent' = FlushCounted(pty[At(j)], sent)
  /\ UNCHANGED <<ledger, sched, gui, agent, pasted, turns>>

(* PROOF_FRESHNESS is over; STASH_DEADLINE or ECHO_DEADLINE is.  The GUI    *)
(* looks at them when it takes up the delivery.                             *)
ProofAges(j) ==
  /\ gui = "running" /\ j.stage \in {"ready", "commit"}
  /\ j.proof = "current" /\ Become(j, [j EXCEPT !.proof = "aged"])
  /\ UNCHANGED <<ledger, sched, gui, pty, agent, history>>

DeadlinePasses(j) ==
  /\ gui = "running" /\ j.stage \in {"ready", "commit"}
  /\ (j.stashed \/ j.written) /\ ~j.late /\ Become(j, [j EXCEPT !.late = TRUE])
  /\ UNCHANGED <<ledger, sched, gui, pty, agent, history>>

-----------------------------------------------------------------------------
(* safe_tell_ready: the last look before the first write *)

TargetChanged(j) == j.proof = "broken" \/ ~bound[At(j)] \/ pty[At(j)].closed

(* tell_ready; approval and composition stand for what else can be on the   *)
(* screen: an approval widget, no paste mode, an input method at work.      *)
HoldsUnmarked(j) ==    \* faulty: the draft mark is not looked at
  LET g == pty[At(j)] IN
  IF j.proof # "current" \/ ~j.same \/ j.id \in lapsed THEN {"identity"}
  ELSE {"approval"} \cup (IF j.stashed THEN {} ELSE {"composition"})
       \cup (IF g.shown # {} THEN {"draft"} ELSE {"none"})

Holds(j) ==
  LET g == pty[At(j)] IN
  IF j.proof # "current" \/ ~j.same \/ j.id \in lapsed THEN {"identity"}
  ELSE {"approval"}
       \cup (IF j.stashed THEN {} ELSE {"composition"})
       \cup (IF g.typing /\ ~j.stashed THEN {"typing"}
             ELSE IF g.shown # {} THEN {"draft"} ELSE {"none"})

(* tell_unstash, then the input is let go.  The stash key is written only   *)
(* over an empty-looking box of a pane nobody else wrote to.                *)
Unstashed(j, g) ==
  IF g.shown = {} /\ j.same /\ ~g.closed THEN StashKey(g) ELSE g

BackOff(j, to) ==
  LET g == pty[At(j)]
      pre == Unstashed(j, g)
      rest == (jobs \ {j}) \cup {Finishing(j, to)}
  IN IF j.stashed
     THEN LetGo(At(j), pre, rest) /\ sent' = FlushCounted(pre, sent)
     ELSE jobs' = rest /\ UNCHANGED <<pty, sent>>

StashAnyway(j) == At(j) \in Claude    \* faulty: a stashed draft is not looked for
CanStash(j)    == At(j) \in Claude /\ ~pty[At(j)].stashed

Ready(j) ==
  /\ GuiIdle /\ j.stage = "ready"
  /\ IF TargetChanged(j)
     THEN BackOff(j, "failed")
     ELSE \E hold \in Holds(j) :
       CASE hold = "none" -> Become(j, [j EXCEPT !.stage = "pasting"]) /\ UNCHANGED <<pty, sent>>
         [] hold = "draft" /\ ~j.stashed /\ CanStash(j) ->
              Become(j, [j EXCEPT !.stage = "stashing"]) /\ UNCHANGED <<pty, sent>>
         [] hold \in {"draft", "identity"} /\ j.stashed /\ ~j.late ->
              Become(j, [j EXCEPT !.stage = "rechecking"]) /\ UNCHANGED <<pty, sent>>
         [] OTHER -> BackOff(j, IF j.id \in Rejecting THEN "failed" ELSE "accepted")
  /\ UNCHANGED <<ledger, sched, gui, agent, pasted, turns>>

(* A guarded write: refused when the pane is closed or was written to.      *)
Stash(j) ==
  LET g == pty[At(j)] IN
  /\ gui = "running" /\ j.stage = "stashing"
  /\ IF j.same /\ ~g.closed
     THEN /\ pty' = [pty EXCEPT ![At(j)] = [StashKey(g) EXCEPT !.hold = "held"]]
          /\ Wrote(j, [j EXCEPT !.stage = "rechecking", !.stashed = TRUE, !.late = FALSE])
          /\ UNCHANGED sent
     ELSE /\ LetGo(At(j), g, (jobs \ {j}) \cup {Finishing(j, "accepted")})
          /\ sent' = FlushCounted(g, sent)
  /\ UNCHANGED <<ledger, sched, gui, agent, pasted, turns>>

Paste(j) ==
  LET g == pty[At(j)]
      filled == Pasted(g, j.id) IN
  /\ gui = "running" /\ j.stage = "pasting"
  /\ IF j.same /\ ~g.closed
     THEN /\ pasted' = [pasted EXCEPT ![j.id] = @ + 1]
          /\ \/ /\ pty' = [pty EXCEPT ![At(j)] = [filled EXCEPT !.hold = "held"]]
                /\ Wrote(j, [j EXCEPT !.stage = "reproving", !.written = TRUE, !.late = FALSE])
                /\ UNCHANGED sent
             \/ (* the terminal failed with part of the body written *)
                /\ LetGo(At(j), filled, (jobs \ {j}) \cup {Finishing(j, "uncertain")})
                /\ sent' = FlushCounted(filled, sent)
     ELSE /\ LetGo(At(j), g, (jobs \ {j}) \cup {Finishing(j, "uncertain")})
          /\ sent' = FlushCounted(g, sent)
          /\ UNCHANGED pasted
  /\ UNCHANGED <<ledger, sched, gui, agent, turns>>

-----------------------------------------------------------------------------
(* safe_tell_commit: Enter, wait, prove again, or withhold *)

Blocked(j) == TargetChanged(j) \/ ~j.same \/ j.id \in lapsed

(* Faulty: a withheld Enter is reported as a definite failure.              *)
WithholdAsFailed(j) ==
  /\ LetGo(At(j), pty[At(j)], (jobs \ {j}) \cup {Finishing(j, "failed")})
  /\ sent' = FlushCounted(pty[At(j)], sent)

Withhold(j) ==
  /\ LetGo(At(j), pty[At(j)], (jobs \ {j}) \cup {Finishing(j, "uncertain")})
  /\ sent' = FlushCounted(pty[At(j)], sent)

Commit(j) ==
  LET echoed == j.id \in pty[At(j)].shown IN
  /\ GuiIdle /\ j.stage = "commit"
  /\ \/ Withhold(j)    \* an approval on the screen, or one of the reasons below
     \/ /\ ~Blocked(j) /\ UNCHANGED <<pty, sent>>
        /\ \/ /\ echoed /\ j.proof = "current"
              /\ Become(j, [j EXCEPT !.stage = "entering"])
           \/ /\ ~(echoed /\ j.proof = "current") /\ ~j.late
              /\ Become(j, [j EXCEPT !.stage = IF echoed THEN "reproving" ELSE "waiting"])
  /\ UNCHANGED <<ledger, sched, gui, agent, pasted, turns>>

Enter(j) ==
  LET g == pty[At(j)]
      done == Entered(g)
      rest(to) == (jobs \ {j}) \cup {Finishing(j, to)}
  IN
  /\ gui = "running" /\ j.stage = "entering"
  /\ \/ /\ j.same /\ ~g.closed
        /\ LetGo(At(j), done, rest("submitted"))
        /\ sent' = FlushCounted(done, Counted(g))
        /\ turns' = turns \cup {[id |-> j.id, box |-> g.box, live |-> live[At(j)]]}
     \/ (* refused, or the write failed *)
        /\ LetGo(At(j), g, rest("uncertain"))
        /\ sent' = FlushCounted(g, sent)
        /\ UNCHANGED turns
  /\ UNCHANGED <<ledger, sched, gui, agent, pasted>>

StopGui ==
  /\ GuiMayStop /\ gui = "running" /\ GuiIdle
  /\ gui' = "stopped"
  /\ UNCHANGED <<ledger, sched, jobs, pty, agent, history>>

Worker(j) == BeginProof(j) \/ Dispatch(j) \/ Resume(j) \/ Finish(j)
Gui(j)    == Ready(j) \/ Stash(j) \/ Paste(j) \/ Commit(j) \/ Enter(j)
Person(p) == (\E key \in Keys(p) : Press(p, key)) \/ SetClosed(p)
Time      == \/ \E id \in Ids : Lapse(id)
             \/ \E p \in Panes : HoldExpires(p) \/ Draw(p) \/ TrustEnds(p)
             \/ \E j \in jobs : ProofAges(j) \/ DeadlinePasses(j)

Next == \/ \E id \in Ids : Submit(id)
        \/ Tick \/ Select \/ StopGui \/ Time
        \/ \E j \in jobs : Worker(j) \/ Gui(j)
        \/ \E p \in Panes : Person(p) \/ Replace(p) \/ Rebind(p)

Spec == Init /\ [][Next]_vars

(* Threads run, the GUI loop serves its events and its timer, clocks go on. *)
(* A message that is looked at again and again, a pause apart, outlives its *)
(* queue time and its deadlines.  Nothing is asked of people, agents and    *)
(* their screens.                                                           *)
FairSpec ==
  /\ Spec /\ WF_vars(Tick) /\ WF_vars(Select)
  /\ \A id \in Ids :
       /\ SF_vars(Lapse(id))
       /\ WF_vars(\E j \in jobs : j.id = id /\ Worker(j))
       /\ WF_vars(\E j \in jobs : j.id = id /\ Gui(j))
       /\ SF_vars(\E j \in jobs : j.id = id /\ DeadlinePasses(j))

-----------------------------------------------------------------------------
(* Properties *)

(* The Enter of a delivery submits its message and nothing else: no draft,  *)
(* no key typed meanwhile, no other message.                                *)
CleanTurn == \A t \in turns : t.box = {t.id}

(* ... and submits it to the conversation it is addressed to.               *)
RightConversation == \A t \in turns : t.live

(* The text of a message is part of at most one turn, whoever sends it off. *)
AtMostOnceSent == \A id \in Ids : pasted[id] <= 1 /\ sent[id] <= 1

(* A receipt says what happened: a submitted message was entered, a failed  *)
(* or still queued one has not touched the terminal.                        *)
HonestReceipt ==
  \A id \in Ids :
    /\ receipt[id] = "submitted" => \E t \in turns : t.id = id
    /\ receipt[id] \in {"accepted", "failed"} => pasted[id] = 0

(* Keys are held back only while a delivery that wrote is there to let go.  *)
HoldHasOwner ==
  \A p \in Panes : pty[p].hold # "none" =>
    \E j \in jobs : At(j) = p /\ j.stage # "finishing" /\ (j.stashed \/ j.written)

(* A delivery presses the stash key only where no draft can be lost: the    *)
(* box is empty, or nothing is put away.  It puts a draft away when it      *)
(* comes to paste, and brings it back when it backs off from a box that     *)
(* looks empty; it has seen both on a screen that lags behind.              *)
PressesStash(j) ==
  LET g == pty[At(j)] IN
  /\ gui = "running" /\ j.same /\ ~g.closed
  /\ j.stage = "stashing" \/ (j.stage = "ready" /\ j.stashed /\ g.shown = {})

DraftSurvives ==
  \A j \in jobs : PressesStash(j) => pty[At(j)].box = {} \/ pty[At(j)].stash = {}

(* Every queued message comes to an end, if only by expiry.                 *)
EventuallyFinal ==
  \A id \in Ids : receipt[id] = "accepted" ~> receipt[id] \in Final
=============================================================================
