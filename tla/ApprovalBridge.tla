---------------------------- MODULE ApprovalBridge ----------------------------
(***************************************************************************)
(* A permission question of an agent, answered at the desk or elsewhere:   *)
(* the hook inside the agent (hooks/register.ts), the broker of the app    *)
(* (crates/kasa-students/src/claude_mod.rs), the bridge between the broker *)
(* and the gateway (approval_bridge.rs) and the request on the gateway     *)
(* (ApprovalStore).  Every access to the broker and to the gateway sweeps  *)
(* first, so both are kept swept by the clock.                             *)
(***************************************************************************)
EXTENDS ApprovalStore, Sequences

CONSTANTS Requests,    \* tool calls that ask; a question to the user is none of them
          Pane,        \* the pane of a request
          MayCut,      \* requests whose input may be too long to send whole
          Mirrors,     \* TRUE when a mirror of the panes is open somewhere
          BrokerTtl,   \* PERMISSION_TTL
          MaxMisses,   \* failed polls of the gateway before the follower gives up
          MaxTime,     \* the clock's bound
          MaxFaults    \* lost and slow calls, gateway restarts and app crashes

ASSUME BridgeAssumption ==
  /\ DOMAIN Pane = Requests /\ MayCut \subseteq Requests /\ Mirrors \in BOOLEAN
  /\ BrokerTtl \in Nat \ {0} /\ MaxMisses \in Nat /\ MaxTime \in Nat /\ MaxFaults \in Nat

VARIABLES now, faults,
          engine,      \* "none", "window", or how the window closed
          hook,        \* askRemote() and the long poll it has at the broker
          woken,       \* polls whose Notified has fired
          broker,      \* Ask: "none", "open", a decision, "closed"
          brokerTill,  \* Ask.expires
          cut,         \* requests whose input was cut
          keyed,       \* open requests in whose pane a key was pressed since
          gateway,     \* the requests on the gateway
          job,         \* start(): uploading, following
          misses,      \* follow(): polls failed in a row
          notes,       \* the channel of Note
          live,        \* run(): uploaded requests to withdraw when they close
          cancelling,  \* cancel calls on their way
          said,        \* decisions people made, and where (history)
          abandoned    \* requests the app lost track of by a fault (history)

vars == <<now, faults, engine, hook, woken, broker, brokerTill, cut, keyed, gateway,
          job, misses, notes, live, cancelling, said, abandoned>>

agentVars == <<engine, hook, woken>>
brokerVars == <<broker, brokerTill, cut, keyed>>
bridgeVars == <<job, misses, notes, live, cancelling, abandoned>>

Decisions == {"allow", "deny"}

TypeOK ==
  /\ now \in 0..MaxTime /\ faults \in 0..MaxFaults
  /\ engine \in [Requests -> {"none", "window", "desk"} \cup Decisions]
  /\ hook \in [Requests -> {"idle", "asking", "armed", "looked", "asleep", "done"} \cup Decisions]
  /\ broker \in [Requests -> {"none", "open", "closed"} \cup Decisions]
  /\ brokerTill \in [Requests -> 0..MaxTime + BrokerTtl]
  /\ woken \cup cut \cup keyed \cup live \cup cancelling \cup abandoned \subseteq Requests
  /\ gateway \in [Requests -> [phase : Phases, expires : Nat, closed : Nat]]
  /\ job \in [Requests -> {"none", "creating", "created", "following", "over"} \cup Decisions]
  /\ misses \in [Requests -> 0..MaxMisses]
  /\ notes \in Seq({"up", "done"} \X Requests)
  /\ said \in [Requests -> SUBSET ({"gateway", "mirror"} \X Decisions)]

Init ==
  /\ now = 0 /\ faults = 0
  /\ engine = [r \in Requests |-> "none"] /\ hook = [r \in Requests |-> "idle"]
  /\ broker = [r \in Requests |-> "none"] /\ brokerTill = [r \in Requests |-> 0]
  /\ gateway = [r \in Requests |-> Blank("none")]
  /\ job = [r \in Requests |-> "none"] /\ misses = [r \in Requests |-> 0]
  /\ woken = {} /\ cut = {} /\ keyed = {} /\ notes = <<>> /\ live = {} /\ cancelling = {}
  /\ said = [r \in Requests |-> {}] /\ abandoned = {}

Fault == faults < MaxFaults /\ faults' = faults + 1

(* permissions(): the requests that can still be decided.                   *)
OpenAtBroker == {r \in Requests : broker[r] = "open"}

(* notify_waiters(): every Notified made so far fires.                      *)
WaitingAsleep == {r \in Requests : hook[r] = "asleep"}   \* faulty: Notified made after the look
Waiting == {r \in Requests : hook[r] \in {"armed", "looked", "asleep"}}
NotifyAll == woken' = woken \cup Waiting

-----------------------------------------------------------------------------
(* The agent: its window and its hook open together.                        *)
Ask(r) ==
  /\ engine[r] = "none"
  /\ engine' = [engine EXCEPT ![r] = "window"]
  /\ hook' = [hook EXCEPT ![r] = "asking"]
  /\ UNCHANGED <<now, faults, woken, brokerVars, gateway, bridgeVars, said>>

(* A person answers in the window; the key is seen in the pane.             *)
AnswerAtDesk(r) ==
  /\ engine[r] = "window"
  /\ engine' = [engine EXCEPT ![r] = "desk"]
  /\ keyed' = keyed \cup {q \in OpenAtBroker : Pane[q] = Pane[r]}
  /\ UNCHANGED <<now, faults, hook, woken, broker, brokerTill, cut, gateway, bridgeVars, said>>

(* Any other key in a pane counts as well.                                  *)
StrayKey(r) ==
  /\ r \in OpenAtBroker
  /\ keyed' = keyed \cup {q \in OpenAtBroker : Pane[q] = Pane[r]}
  /\ UNCHANGED <<now, faults, agentVars, broker, brokerTill, cut, gateway, bridgeVars, said>>

(* The hook's answer reaches the engine; an answered window drops it.       *)
HookAnswers(r) ==
  /\ hook[r] \in Decisions
  /\ hook' = [hook EXCEPT ![r] = "done"]
  /\ engine' = [engine EXCEPT ![r] = IF @ = "window" THEN hook[r] ELSE @]
  /\ UNCHANGED <<now, faults, woken, brokerVars, gateway, bridgeVars, said>>

-----------------------------------------------------------------------------
(* The broker.  open_and_wait() opens the request on its first poll, then   *)
(* makes the Notified before it looks.                                      *)
Poll(r) ==
  /\ hook[r] = "asking"
  /\ hook' = [hook EXCEPT ![r] = "armed"]
  /\ woken' = woken \ {r}
  /\ IF broker[r] = "none"
     THEN /\ broker' = [broker EXCEPT ![r] = "open"]
          /\ brokerTill' = [brokerTill EXCEPT ![r] = now + BrokerTtl]
          /\ \E c \in SUBSET ({r} \cap MayCut) : cut' = cut \cup c
     ELSE UNCHANGED <<broker, brokerTill, cut>>
  /\ UNCHANGED <<now, faults, engine, keyed, gateway, bridgeVars, said>>

LookForDecision(r) ==    \* faulty: a closed request is waited for
  /\ hook[r] = "armed"
  /\ hook' = [hook EXCEPT ![r] = IF broker[r] \in Decisions THEN broker[r] ELSE "looked"]
  /\ UNCHANGED <<now, faults, engine, woken, brokerVars, gateway, bridgeVars, said>>

Look(r) ==
  /\ hook[r] = "armed"
  /\ hook' = [hook EXCEPT ![r] = CASE broker[r] \in Decisions -> broker[r]
                                   [] broker[r] = "open" -> "looked"
                                   [] OTHER -> "done"]
  /\ UNCHANGED <<now, faults, engine, woken, brokerVars, gateway, bridgeVars, said>>

Await(r) ==
  /\ hook[r] = "looked"
  /\ hook' = [hook EXCEPT ![r] = "asleep"]
  /\ UNCHANGED <<now, faults, engine, woken, brokerVars, gateway, bridgeVars, said>>

Wake(r) ==
  /\ hook[r] = "asleep" /\ r \in woken
  /\ hook' = [hook EXCEPT ![r] = "armed"]
  /\ woken' = woken \ {r}
  /\ UNCHANGED <<now, faults, engine, brokerVars, gateway, bridgeVars, said>>

(* The hold is over and the hook polls again.                               *)
HoldOver(r) ==
  /\ hook[r] = "asleep"
  /\ hook' = [hook EXCEPT ![r] = "asking"]
  /\ UNCHANGED <<now, faults, engine, woken, brokerVars, gateway, bridgeVars, said>>

DecidedAnyway(r, d) ==    \* faulty: the last decision wins
  broker' = [broker EXCEPT ![r] = d] /\ NotifyAll /\ keyed' = keyed \ {r}

(* decide(): only an open request takes a decision, and only one.           *)
Decided(r, d) ==
  IF broker[r] = "open"
  THEN broker' = [broker EXCEPT ![r] = d] /\ NotifyAll /\ keyed' = keyed \ {r}
  ELSE UNCHANGED <<broker, woken, keyed>>

DecideAtMirror(r, d) ==
  /\ Mirrors /\ broker[r] = "open"
  /\ Decided(r, d)
  /\ said' = [said EXCEPT ![r] = @ \cup {<<"mirror", d>>}]
  /\ UNCHANGED <<now, faults, engine, hook, brokerTill, cut, gateway, bridgeVars>>

(* close_answered() and resolve_request(): the desk has answered.           *)
Close(R) ==
  /\ broker' = [r \in Requests |-> IF r \in R THEN "closed" ELSE broker[r]]
  /\ keyed' = keyed \ R
  /\ NotifyAll

NoticeKey(r) ==
  /\ r \in keyed
  /\ Close({q \in keyed : Pane[q] = Pane[r]})
  /\ UNCHANGED <<now, faults, engine, hook, brokerTill, cut, gateway, bridgeVars, said>>

ToolEnds(r) ==
  /\ engine[r] \in {"desk"} \cup Decisions /\ broker[r] = "open"
  /\ Close({r})
  /\ UNCHANGED <<now, faults, engine, hook, brokerTill, cut, gateway, bridgeVars, said>>

-----------------------------------------------------------------------------
(* The bridge.  start(): each opened request is tried once, whether or not  *)
(* it is still open by then.                                                *)
Start(r) ==
  /\ broker[r] # "none" /\ job[r] = "none"
  /\ job' = [job EXCEPT ![r] = "creating"]
  /\ UNCHANGED <<now, faults, agentVars, brokerVars, gateway, misses, notes, live,
                 cancelling, said, abandoned>>

(* upload(): the gateway opens a request of its own ...                     *)
CreateArrives(r) ==
  /\ job[r] = "creating"
  /\ gateway' = [gateway EXCEPT ![r] = Opened(now)]
  /\ job' = [job EXCEPT ![r] = "created"]
  /\ UNCHANGED <<now, faults, agentVars, brokerVars, misses, notes, live, cancelling,
                 said, abandoned>>

(* ... or refuses it, or cannot be reached: only the window is left.        *)
CreateFails(r) ==
  /\ job[r] = "creating" /\ Fault
  /\ job' = [job EXCEPT ![r] = "over"]
  /\ UNCHANGED <<now, agentVars, brokerVars, gateway, misses, notes, live, cancelling,
                 said, abandoned>>

CreateReturns(r) ==
  /\ job[r] = "created"
  /\ job' = [job EXCEPT ![r] = "following"]
  /\ notes' = Append(notes, <<"up", r>>)
  /\ UNCHANGED <<now, faults, agentVars, brokerVars, gateway, misses, live, cancelling,
                 said, abandoned>>

CreateReplyLost(r) ==
  /\ job[r] = "created" /\ Fault
  /\ job' = [job EXCEPT ![r] = "over"]
  /\ abandoned' = abandoned \cup {r}
  /\ UNCHANGED <<now, agentVars, brokerVars, gateway, misses, notes, live, cancelling, said>>

(* follow(): the long poll returns.  A request still pending is polled      *)
(* again, a closed one without a decision is left to the window.            *)
DecisionInFinal ==    \* faulty: an expired request counts as refused
  [allowed |-> "allow", denied |-> "deny", expired |-> "deny"]

DecisionIn == [allowed |-> "allow", denied |-> "deny"]

FollowOnce(r) ==      \* faulty: one long poll and no more
  /\ job[r] = "following" /\ gateway[r].phase # "forgotten"
  /\ LET phase == gateway[r].phase IN
       /\ job' = [job EXCEPT ![r] =
                   IF phase \in DOMAIN DecisionIn THEN DecisionIn[phase] ELSE "over"]
       /\ notes' = IF phase \in DOMAIN DecisionIn THEN notes ELSE Append(notes, <<"done", r>>)
  /\ misses' = [misses EXCEPT ![r] = 0]
  /\ UNCHANGED <<now, faults, agentVars, brokerVars, gateway, live, cancelling, said,
                 abandoned>>

Follow(r) ==
  /\ job[r] = "following" /\ gateway[r].phase # "forgotten"
  /\ LET phase == gateway[r].phase IN
       /\ job' = [job EXCEPT ![r] = CASE phase = "pending" -> "following"
                                     [] phase \in DOMAIN DecisionIn -> DecisionIn[phase]
                                     [] OTHER -> "over"]
       /\ notes' = IF phase \in {"pending"} \cup DOMAIN DecisionIn
                   THEN notes ELSE Append(notes, <<"done", r>>)
  /\ misses' = [misses EXCEPT ![r] = 0]
  /\ UNCHANGED <<now, faults, agentVars, brokerVars, gateway, live, cancelling, said,
                 abandoned>>

(* A poll that fails, or finds a request the gateway no longer knows.       *)
Miss(r) ==
  /\ job[r] = "following"
  /\ IF gateway[r].phase = "forgotten" THEN UNCHANGED faults ELSE Fault
  /\ IF misses[r] < MaxMisses
     THEN /\ misses' = [misses EXCEPT ![r] = @ + 1]
          /\ UNCHANGED <<job, notes, abandoned>>
     ELSE /\ job' = [job EXCEPT ![r] = "over"]
          /\ notes' = Append(notes, <<"done", r>>)
          /\ abandoned' = abandoned \cup {r}
          /\ UNCHANGED misses
  /\ UNCHANGED <<now, agentVars, brokerVars, gateway, live, cancelling, said>>

(* The decision read goes to the broker, which may have closed since.       *)
Deliver(r) ==
  /\ job[r] \in Decisions
  /\ Decided(r, job[r])
  /\ job' = [job EXCEPT ![r] = "over"]
  /\ notes' = Append(notes, <<"done", r>>)
  /\ UNCHANGED <<now, faults, engine, hook, brokerTill, cut, gateway, misses, live, cancelling,
                 said, abandoned>>

TakeNoteIfOpen ==    \* faulty: a request closed meanwhile is not kept
  /\ notes # <<>>
  /\ LET r == Head(notes)[2] IN
       live' = IF Head(notes)[1] = "up" THEN live \cup ({r} \cap OpenAtBroker) ELSE live \ {r}
  /\ notes' = Tail(notes)
  /\ UNCHANGED <<now, faults, agentVars, brokerVars, gateway, job, misses, cancelling, said,
                 abandoned>>

(* run(): the loop takes a note ...                                         *)
TakeNote ==
  /\ notes # <<>>
  /\ LET r == Head(notes)[2] IN
       live' = IF Head(notes)[1] = "up" THEN live \cup {r} ELSE live \ {r}
  /\ notes' = Tail(notes)
  /\ UNCHANGED <<now, faults, agentVars, brokerVars, gateway, job, misses, cancelling, said,
                 abandoned>>

(* ... and its tick withdraws what is no longer open at the broker.         *)
Gone == live \ OpenAtBroker

BridgeTick ==
  /\ Gone # {}
  /\ live' = live \ Gone
  /\ cancelling' = cancelling \cup Gone
  /\ UNCHANGED <<now, faults, agentVars, brokerVars, gateway, job, misses, notes, said,
                 abandoned>>

CancelArrives(r) ==
  /\ r \in cancelling
  /\ gateway' = [gateway EXCEPT ![r] =
                   IF @.phase = "pending" THEN ClosedAs(@, "cancelled", now) ELSE @]
  /\ cancelling' = cancelling \ {r}
  /\ UNCHANGED <<now, faults, agentVars, brokerVars, job, misses, notes, live, said, abandoned>>

CancelLost(r) ==
  /\ r \in cancelling /\ Fault
  /\ cancelling' = cancelling \ {r}
  /\ abandoned' = abandoned \cup {r}
  /\ UNCHANGED <<now, agentVars, brokerVars, gateway, job, misses, notes, live, said>>

-----------------------------------------------------------------------------
(* A person on another device decides, from the request as the gateway      *)
(* holds it; a request that was cut can only be denied.                     *)
DecideElsewhere(r, d) ==
  /\ gateway[r].phase = "pending"
  /\ d = "allow" => r \notin cut
  /\ gateway' = [gateway EXCEPT ![r] = ClosedAs(@, PhaseOf[d], now)]
  /\ said' = [said EXCEPT ![r] = @ \cup {<<"gateway", d>>}]
  /\ UNCHANGED <<now, faults, agentVars, brokerVars, bridgeVars>>

(* The gateway keeps its requests in memory.                                *)
GatewayRestarts ==
  /\ Fault /\ \E r \in Requests : gateway[r].phase \notin {"none", "forgotten"}
  /\ gateway' = [r \in Requests |->
       IF gateway[r].phase = "none" THEN gateway[r] ELSE Blank("forgotten")]
  /\ UNCHANGED <<now, agentVars, brokerVars, bridgeVars, said>>

(* So does the app.  The polls it held break, and their hooks leave the     *)
(* question to the window.  What it had decided is kept as history.         *)
AppCrashes ==
  /\ Fault /\ \E r \in Requests : broker[r] # "none"
  /\ hook' = [r \in Requests |-> IF hook[r] \in {"asking", "armed", "looked", "asleep"}
                                 THEN "done" ELSE hook[r]]
  /\ broker' = [r \in Requests |-> IF broker[r] = "open" THEN "closed" ELSE broker[r]]
  /\ job' = [r \in Requests |-> IF job[r] = "none" /\ broker[r] = "none"
                                THEN "none" ELSE "over"]
  /\ abandoned' = abandoned \cup {r \in Requests : broker[r] # "none"}
  /\ keyed' = {} /\ woken' = {} /\ notes' = <<>> /\ live' = {} /\ cancelling' = {}
  /\ UNCHANGED <<now, engine, brokerTill, cut, gateway, misses, said>>

(* A unit of the clock is longer than the bridge needs for what it has to   *)
(* do: where it is not, some call was slow.                                 *)
Busy ==
  \/ notes # <<>> \/ Gone # {} \/ cancelling # {}
  \/ \E r \in Requests : \/ job[r] \in {"creating", "created"} \cup Decisions
                         \/ job[r] = "none" /\ broker[r] # "none"
                         \/ job[r] = "following" /\ gateway[r].phase # "pending"

Tick ==
  /\ now < MaxTime
  /\ now' = now + 1
  /\ IF Busy THEN Fault ELSE UNCHANGED faults
  /\ gateway' = [r \in Requests |-> Swept(gateway[r], now')]
  /\ LET late == {r \in OpenAtBroker : now' >= brokerTill[r]} IN
       /\ broker' = [r \in Requests |-> IF r \in late THEN "closed" ELSE broker[r]]
       /\ keyed' = keyed \ late
  /\ UNCHANGED <<agentVars, brokerTill, cut, bridgeVars, said>>

-----------------------------------------------------------------------------
Agent(r) == Poll(r) \/ Look(r) \/ Await(r) \/ Wake(r) \/ HoldOver(r) \/ HookAnswers(r)

Bridge(r) == \/ Start(r) \/ CreateArrives(r) \/ CreateReturns(r) \/ Follow(r) \/ Deliver(r)
             \/ CancelArrives(r)

Loop == TakeNote \/ BridgeTick

Next ==
  \/ Loop \/ GatewayRestarts \/ AppCrashes \/ Tick
  \/ \E r \in Requests :
       \/ Ask(r) \/ AnswerAtDesk(r) \/ StrayKey(r) \/ NoticeKey(r) \/ ToolEnds(r)
       \/ Agent(r) \/ Bridge(r)
       \/ CreateFails(r) \/ CreateReplyLost(r) \/ Miss(r) \/ CancelLost(r)
       \/ \E d \in Decisions : DecideAtMirror(r, d) \/ DecideElsewhere(r, d)

Spec == Init /\ [][Next]_vars

(* The clock runs, the app and its runtime run what is ready, and the agent *)
(* keeps polling.  People owe nothing.                                      *)
FairSpec ==
  /\ Spec /\ WF_vars(Tick) /\ WF_vars(TakeNote) /\ WF_vars(BridgeTick)
  /\ \A r \in Requests :
       /\ WF_vars(Poll(r)) /\ WF_vars(Look(r)) /\ WF_vars(Await(r)) /\ WF_vars(Wake(r))
       /\ WF_vars(HoldOver(r)) /\ WF_vars(HookAnswers(r))
       /\ WF_vars(Start(r)) /\ WF_vars(CreateArrives(r)) /\ WF_vars(CreateReturns(r))
       /\ WF_vars(Follow(r)) /\ WF_vars(Deliver(r)) /\ WF_vars(CancelArrives(r))
       /\ WF_vars(gateway[r].phase = "forgotten" /\ Miss(r))

-----------------------------------------------------------------------------
(* Properties *)

(* The engine acts on a remote answer only if a person gave that answer for *)
(* that request, and a cut request is allowed only by a mirror, which shows *)
(* the pane itself.                                                         *)
RemoteAnswerWasGiven ==
  \A r \in Requests : engine[r] \in Decisions =>
    \/ <<"mirror", engine[r]>> \in said[r]
    \/ <<"gateway", engine[r]>> \in said[r] /\ ~(engine[r] = "allow" /\ r \in cut)

(* A poll never sleeps through a decision or through an answer at the desk  *)
(* that closed its request (only the passing of time wakes nobody).         *)
NoSleeperMissesAnswer ==
  \A r \in Requests : hook[r] = "asleep" /\ broker[r] # "open" =>
    r \in woken \/ (broker[r] = "closed" /\ now >= brokerTill[r])

(* A request answered at the desk does not stay on other screens: while the *)
(* gateway still offers it, its withdrawal is under way, unless a fault cut *)
(* the bridge off it.                                                       *)
WithdrawalUnderWay ==
  \A r \in Requests \ abandoned :
    gateway[r].phase = "pending" /\ broker[r] # "open" =>
      \/ job[r] = "created" \/ r \in live \cup cancelling
      \/ \E i \in 1..Len(notes) : notes[i] = <<"up", r>>

(* The whole of it keeps the promise of one answer.                         *)
Promise == INSTANCE OneAnswer WITH offer <- broker, Requests <- Requests

KeepsOneAnswer == Promise!Spec

(* The hook of a request the broker opened returns, whatever is lost or     *)
(* restarted: the agent is never held up by a poll (the clock's bound must  *)
(* leave the request room to expire).                                       *)
HookReturns ==
  \A r \in Requests : broker[r] # "none" /\ brokerTill[r] <= MaxTime ~> hook[r] = "done"

(* With no fault, a decision made elsewhere on an open request reaches the  *)
(* broker in time, unless the desk or a mirror is first (calls take seconds *)
(* and the gateway lists a closed request for two minutes).                 *)
DecisionArrives ==
  \A r \in Requests :
    gateway[r].phase \in DOMAIN DecisionIn /\ broker[r] = "open" /\ faults = 0
      ~> (broker[r] # "open" /\ now < brokerTill[r]) \/ faults > 0
===============================================================================
