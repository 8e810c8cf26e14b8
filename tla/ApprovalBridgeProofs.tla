------------------------- MODULE ApprovalBridgeProofs -------------------------
(* Proofs about ApprovalBridge for any requests, panes, times and number of *)
(* faults, prompt or not, with mirrors or without.                          *)
EXTENDS ApprovalBridge, TLAPS

GatewayRequest == [phase : Phases, expires : Nat, closed : Nat]

(* What the operators on a gateway request return.                          *)
LEMMA StoreOps ==
  ASSUME NEW t \in Nat, NEW a \in GatewayRequest, NEW phase \in Phases
  PROVE  /\ Opened(t) \in GatewayRequest
         /\ Blank(phase) \in GatewayRequest
         /\ ClosedAs(a, phase, t) \in GatewayRequest
         /\ Swept(a, t) \in GatewayRequest
<1>1. {"pending", "expired", "forgotten"} \subseteq Phases
  BY DEF Phases
<1>2. /\ Opened(t) \in GatewayRequest
      /\ Blank(phase) \in GatewayRequest /\ Blank("forgotten") \in GatewayRequest
      /\ ClosedAs(a, phase, t) \in GatewayRequest /\ ClosedAs(a, "expired", t) \in GatewayRequest
  <2>1. t + Ttl \in Nat
    BY StoreAssumption
  <2>2. Opened(t) \in GatewayRequest
    BY <1>1, <2>1 DEF Opened, GatewayRequest
  <2>3. \A p \in Phases : Blank(p) \in GatewayRequest /\ ClosedAs(a, p, t) \in GatewayRequest
    BY DEF Blank, ClosedAs, GatewayRequest
  <2>. QED BY <1>1, <2>2, <2>3
<1>3. Swept(a, t) \in GatewayRequest
  BY <1>2 DEF Swept, Expire
<1>. QED BY <1>2, <1>3

(* Sweeping decides nothing: a request decided after it was decided before, *)
(* and one that was never made still is not.                                *)
LEMMA SweepDecidesNothing ==
  ASSUME NEW t \in Nat, NEW a \in GatewayRequest
  PROVE  /\ Swept(a, t).phase \in {"allowed", "denied"} => Swept(a, t).phase = a.phase
         /\ a.phase = "none" => Swept(a, t).phase = "none"
<1>1. ClosedAs(a, "expired", t).phase = "expired"
  BY DEF ClosedAs, GatewayRequest
<1>2. Blank("forgotten").phase = "forgotten"
  BY DEF Blank
<1>3. Swept(a, t) \in {a, ClosedAs(a, "expired", t), Blank("forgotten")}
  BY DEF Swept, Expire
<1>4. a.phase = "none" => Swept(a, t) = a
  BY DEF Swept, Expire, Lapsed, Outdated, Closed
<1>. QED BY <1>1, <1>2, <1>3, <1>4

(* Every variable keeps its type. *)
THEOREM TypeCorrect == Spec => []TypeOK
<1>1. Init => TypeOK
  <2>. SUFFICES ASSUME Init PROVE TypeOK
    OBVIOUS
  <2>1. Blank("none") \in [phase : Phases, expires : Nat, closed : Nat]
    BY DEF Blank, Phases
  <2>. QED BY <2>1, BridgeAssumption DEF Init, TypeOK
<1>2. TypeOK /\ [Next]_vars => TypeOK'
  <2>. SUFFICES ASSUME TypeOK, [Next]_vars PROVE TypeOK'
    OBVIOUS
  <2>. USE DEF agentVars, brokerVars, bridgeVars, Decisions
  <2>0. /\ gateway \in [Requests -> GatewayRequest]
        /\ now \in Nat /\ MaxTime \in Nat /\ BrokerTtl \in Nat
        /\ NotifyAll => woken' \subseteq Requests
    <3>1. Waiting \subseteq Requests
      BY DEF Waiting
    <3>2. NotifyAll => woken' \subseteq Requests
      BY <3>1 DEF NotifyAll, TypeOK
    <3>3. now \in Nat
      BY BridgeAssumption DEF TypeOK
    <3>. QED BY <3>2, <3>3, BridgeAssumption DEF TypeOK, GatewayRequest
  <2>1. ASSUME NEW r \in Requests, Agent(r) PROVE TypeOK'
    <3>1. CASE Poll(r)
      <4>1. /\ broker' \in [Requests -> {"none", "open", "closed"} \cup Decisions]
            /\ cut' \subseteq Requests
        <5>1. \/ broker' = [broker EXCEPT ![r] = "open"]
              \/ broker' = broker
          BY <3>1 DEF Poll
        <5>2. cut' \subseteq cut \cup {r}
          BY <3>1 DEF Poll
        <5>. QED BY <5>1, <5>2 DEF TypeOK
      <4>2. now + BrokerTtl \in 0..MaxTime + BrokerTtl
        BY <2>0 DEF TypeOK
      <4>3. brokerTill' \in [Requests -> 0..MaxTime + BrokerTtl]
        <5>1. \/ brokerTill' = [brokerTill EXCEPT ![r] = now + BrokerTtl]
              \/ brokerTill' = brokerTill
          BY <3>1 DEF Poll
        <5>. QED BY <4>2, <5>1 DEF TypeOK
      <4>4. /\ hook' = [hook EXCEPT ![r] = "armed"] /\ woken' = woken \ {r}
            /\ UNCHANGED <<now, faults, engine, keyed, gateway, bridgeVars, said>>
        BY <3>1 DEF Poll
      <4>. QED BY <4>1, <4>3, <4>4 DEF TypeOK
    <3>2. CASE Look(r)
      BY <3>2 DEF Look, TypeOK
    <3>3. CASE Await(r) \/ Wake(r) \/ HoldOver(r)
      <4>1. /\ \E h \in {"asleep", "armed", "asking"} : hook' = [hook EXCEPT ![r] = h]
            /\ woken' \subseteq woken
            /\ UNCHANGED <<now, faults, engine, brokerVars, gateway, bridgeVars, said>>
        BY <3>3 DEF Await, Wake, HoldOver
      <4>. QED BY <4>1 DEF TypeOK
    <3>4. CASE HookAnswers(r)
      BY <3>4 DEF HookAnswers, TypeOK
    <3>. QED BY <2>1, <3>1, <3>2, <3>3, <3>4 DEF Agent
  <2>2. ASSUME NEW r \in Requests,
               Ask(r) \/ AnswerAtDesk(r) \/ StrayKey(r) \/ NoticeKey(r) \/ ToolEnds(r)
        PROVE  TypeOK'
    <3>1. CASE Ask(r)
      BY <3>1 DEF Ask, TypeOK
    <3>2. CASE AnswerAtDesk(r) \/ StrayKey(r)
      <4>1. keyed' \subseteq Requests
        BY <3>2 DEF AnswerAtDesk, StrayKey, OpenAtBroker, TypeOK
      <4>2. CASE AnswerAtDesk(r)
        BY <4>1, <4>2 DEF AnswerAtDesk, TypeOK
      <4>3. CASE StrayKey(r)
        BY <4>1, <4>3 DEF StrayKey, TypeOK
      <4>. QED BY <3>2, <4>2, <4>3
    <3>3. CASE NoticeKey(r) \/ ToolEnds(r)
      <4>1. PICK R \in SUBSET Requests : Close(R)
        <5>1. CASE NoticeKey(r)
          BY <5>1 DEF NoticeKey, TypeOK
        <5>2. CASE ToolEnds(r)
          BY <5>2 DEF ToolEnds
        <5>. QED BY <3>3, <5>1, <5>2
      <4>2. /\ broker' \in [Requests -> {"none", "open", "closed"} \cup Decisions]
            /\ keyed' \subseteq Requests /\ woken' \subseteq Requests
        BY <2>0, <4>1 DEF Close, TypeOK
      <4>. QED BY <3>3, <4>2 DEF NoticeKey, ToolEnds, TypeOK
    <3>. QED BY <2>2, <3>1, <3>2, <3>3
  <2>3. ASSUME NEW r \in Requests, Bridge(r) PROVE TypeOK'
    <3>1. CASE Start(r)
      BY <3>1 DEF Start, TypeOK
    <3>2. CASE CreateArrives(r)
      <4>1. Opened(now) \in GatewayRequest
        BY <2>0, StoreAssumption DEF Opened, GatewayRequest, Phases
      <4>. QED BY <3>2, <4>1 DEF CreateArrives, TypeOK, GatewayRequest
    <3>3. CASE CreateReturns(r)
      <4>1. notes' \in Seq({"up", "done"} \X Requests)
        BY <3>3 DEF CreateReturns, TypeOK
      <4>. QED BY <3>3, <4>1 DEF CreateReturns, TypeOK
    <3>4. CASE Follow(r)
      <4>1. notes' \in Seq({"up", "done"} \X Requests)
        BY <3>4 DEF Follow, TypeOK
      <4>2. job' \in [Requests -> {"none", "creating", "created", "following", "over"} \cup Decisions]
        BY <3>4 DEF Follow, TypeOK, DecisionIn
      <4>3. misses' \in [Requests -> 0..MaxMisses]
        BY <3>4, BridgeAssumption DEF Follow, TypeOK
      <4>. QED BY <3>4, <4>1, <4>2, <4>3 DEF Follow, TypeOK
    <3>5. CASE Deliver(r)
      <4>1. notes' \in Seq({"up", "done"} \X Requests)
        BY <3>5 DEF Deliver, TypeOK
      <4>2. /\ broker' \in [Requests -> {"none", "open", "closed"} \cup Decisions]
            /\ woken' \subseteq Requests /\ keyed' \subseteq Requests
        BY <2>0, <3>5 DEF Deliver, Decided, TypeOK
      <4>3. job' \in [Requests -> {"none", "creating", "created", "following", "over"} \cup Decisions]
        BY <3>5 DEF Deliver, TypeOK
      <4>. QED BY <3>5, <4>1, <4>2, <4>3 DEF Deliver, TypeOK
    <3>6. CASE CancelArrives(r)
      <4>1. gateway' \in [Requests -> GatewayRequest]
        BY <2>0, <3>6, StoreOps DEF CancelArrives, Phases
      <4>. QED BY <3>6, <4>1 DEF CancelArrives, TypeOK, GatewayRequest
    <3>. QED BY <2>3, <3>1, <3>2, <3>3, <3>4, <3>5, <3>6 DEF Bridge
  <2>4. ASSUME NEW r \in Requests,
               CreateFails(r) \/ CreateReplyLost(r) \/ CancelLost(r)
        PROVE  TypeOK'
    <3>1. faults' \in 0..MaxFaults
      <4>1. Fault
        BY <2>4 DEF CreateFails, CreateReplyLost, CancelLost
      <4>. QED BY <4>1, BridgeAssumption DEF Fault, TypeOK
    <3>2. CASE CreateFails(r)
      BY <3>1, <3>2 DEF CreateFails, TypeOK
    <3>3. CASE CreateReplyLost(r)
      BY <3>1, <3>3 DEF CreateReplyLost, TypeOK
    <3>4. CASE CancelLost(r)
      BY <3>1, <3>4 DEF CancelLost, TypeOK
    <3>. QED BY <2>4, <3>2, <3>3, <3>4
  <2>5. ASSUME NEW r \in Requests, Miss(r) PROVE TypeOK'
    <3>1. notes' \in Seq({"up", "done"} \X Requests)
      <4>1. <<"done", r>> \in {"up", "done"} \X Requests
        OBVIOUS
      <4>2. Append(notes, <<"done", r>>) \in Seq({"up", "done"} \X Requests)
        BY <4>1 DEF TypeOK
      <4>3. notes' = notes \/ notes' = Append(notes, <<"done", r>>)
        BY <2>5 DEF Miss
      <4>. QED BY <4>2, <4>3 DEF TypeOK
    <3>2. misses' \in [Requests -> 0..MaxMisses]
      <4>1. CASE misses[r] < MaxMisses
        <5>1. misses[r] + 1 \in 0..MaxMisses
          BY <4>1, BridgeAssumption DEF TypeOK
        <5>. QED BY <2>5, <4>1, <5>1 DEF Miss, TypeOK
      <4>2. CASE ~(misses[r] < MaxMisses)
        BY <2>5, <4>2 DEF Miss, TypeOK
      <4>. QED BY <4>1, <4>2
    <3>3. faults' \in 0..MaxFaults
      <4>1. faults' = faults \/ (faults < MaxFaults /\ faults' = faults + 1)
        BY <2>5 DEF Miss, Fault
      <4>. QED BY <4>1, BridgeAssumption DEF TypeOK
    <3>4. /\ job' \in [Requests -> {"none", "creating", "created", "following", "over"} \cup Decisions]
          /\ abandoned' \subseteq Requests
      BY <2>5 DEF Miss, TypeOK
    <3>. QED BY <2>5, <3>1, <3>2, <3>3, <3>4 DEF Miss, TypeOK
  <2>6. ASSUME NEW r \in Requests, NEW d \in Decisions, DecideAtMirror(r, d) PROVE TypeOK'
    <3>1. /\ broker' \in [Requests -> {"none", "open", "closed"} \cup Decisions]
          /\ woken' \subseteq Requests /\ keyed' \subseteq Requests
      BY <2>0, <2>6 DEF DecideAtMirror, Decided, TypeOK
    <3>2. said' \in [Requests -> SUBSET ({"gateway", "mirror"} \X Decisions)]
      BY <2>6 DEF DecideAtMirror, TypeOK
    <3>. QED BY <2>6, <3>1, <3>2 DEF DecideAtMirror, TypeOK
  <2>7. ASSUME NEW r \in Requests, NEW d \in Decisions, DecideElsewhere(r, d) PROVE TypeOK'
    <3>1. PhaseOf[d] \in Phases
      BY DEF PhaseOf, Phases
    <3>2. gateway' \in [Requests -> GatewayRequest]
      BY <2>0, <2>7, <3>1, StoreOps DEF DecideElsewhere
    <3>3. said' \in [Requests -> SUBSET ({"gateway", "mirror"} \X Decisions)]
      BY <2>7 DEF DecideElsewhere, TypeOK
    <3>. QED BY <2>7, <3>2, <3>3 DEF DecideElsewhere, TypeOK, GatewayRequest
  <2>8. CASE TakeNote
    <3>1. Head(notes) \in {"up", "done"} \X Requests /\ Tail(notes) \in Seq({"up", "done"} \X Requests)
      BY <2>8 DEF TakeNote, TypeOK
    <3>2. Head(notes)[2] \in Requests
      BY <3>1
    <3>3. live' \subseteq Requests
      BY <2>8, <3>2 DEF TakeNote, TypeOK
    <3>. QED BY <2>8, <3>1, <3>3 DEF TakeNote, TypeOK
  <2>9. CASE BridgeTick
    BY <2>9 DEF BridgeTick, Gone, TypeOK
  <2>10. CASE GatewayRestarts
    <3>1. gateway' \in [Requests -> GatewayRequest]
      BY <2>0, <2>10, StoreOps DEF GatewayRestarts, Phases
    <3>. QED BY <2>10, <3>1, BridgeAssumption DEF GatewayRestarts, Fault, TypeOK, GatewayRequest
  <2>11. CASE AppCrashes
    <3>1. notes' \in Seq({"up", "done"} \X Requests)
      BY <2>11 DEF AppCrashes
    <3>. QED BY <2>11, <3>1, BridgeAssumption DEF AppCrashes, Fault, TypeOK
  <2>12. CASE Tick
    <3>1. now' \in 0..MaxTime
      BY <2>0, <2>12 DEF Tick, TypeOK
    <3>2. gateway' \in [Requests -> GatewayRequest]
      BY <2>0, <2>12, <3>1, StoreOps DEF Tick, Phases
    <3>3. /\ broker' \in [Requests -> {"none", "open", "closed"} \cup Decisions]
          /\ keyed' \subseteq Requests
      BY <2>12 DEF Tick, TypeOK
    <3>4. faults' \in 0..MaxFaults
      <4>1. faults' = faults \/ (faults < MaxFaults /\ faults' = faults + 1)
        BY <2>12 DEF Tick, Fault
      <4>. QED BY <4>1, BridgeAssumption DEF TypeOK
    <3>. QED BY <2>12, <3>1, <3>2, <3>3, <3>4 DEF Tick, TypeOK, GatewayRequest
  <2>13. CASE UNCHANGED vars
    BY <2>13 DEF vars, TypeOK
  <2>. QED BY <2>1, <2>2, <2>3, <2>4, <2>5, <2>6, <2>7, <2>8, <2>9, <2>10, <2>11, <2>12,
              <2>13 DEF Next, Loop
<1>. QED BY <1>1, <1>2, PTL DEF Spec

-----------------------------------------------------------------------------
(* How the agent and the broker of one request stand to each other.         *)
Fits(r) ==
  /\ engine[r] = "none" => hook[r] = "idle"
  /\ hook[r] = "idle" => broker[r] = "none"
  /\ hook[r] \in Decisions => broker[r] = hook[r]
  /\ engine[r] \in Decisions => broker[r] = engine[r]
  /\ r \in keyed => broker[r] = "open"

Coherent == \A r \in Requests : Fits(r)

(* The steps of the bridge's loop and of the gateway, away from both.       *)
Away ==
  \/ Loop \/ GatewayRestarts
  \/ \E r \in Requests :
       \/ StrayKey(r) \/ Start(r) \/ CreateArrives(r) \/ CreateFails(r) \/ CreateReturns(r)
       \/ CreateReplyLost(r) \/ Follow(r) \/ Miss(r) \/ CancelArrives(r) \/ CancelLost(r)
       \/ \E d \in Decisions : DecideElsewhere(r, d)

(* Such a step changes no answer, and keys only requests that are open.     *)
LEMMA AwayLeaves ==
  ASSUME Away
  PROVE  /\ UNCHANGED <<engine, hook, broker, cut>>
         /\ keyed' \subseteq keyed \cup OpenAtBroker
  BY DEF Away, StrayKey, Start, CreateArrives, CreateFails, CreateReturns, CreateReplyLost,
         Follow, Miss, CancelArrives, CancelLost, DecideElsewhere, Loop, TakeNote, BridgeTick,
         GatewayRestarts, agentVars, brokerVars

(* Every step is of one of these kinds.                                     *)
LEMMA StepKinds ==
  ASSUME [Next]_vars
  PROVE  \/ Away \/ AppCrashes \/ Tick \/ UNCHANGED vars
         \/ \E r \in Requests :
              \/ Ask(r) \/ AnswerAtDesk(r) \/ NoticeKey(r) \/ ToolEnds(r) \/ Agent(r)
              \/ Deliver(r) \/ \E d \in Decisions : DecideAtMirror(r, d)
  BY DEF Next, Bridge, Away

(* The broker takes the first decision and no other.                        *)
LEMMA DecidedSteps ==
  ASSUME TypeOK, NEW r \in Requests, Deliver(r) \/ \E d \in Decisions : DecideAtMirror(r, d)
  PROVE  /\ UNCHANGED <<engine, hook, cut>>
         /\ \E d \in Decisions :
              /\ job[r] = d \/ <<"mirror", d>> \in said'[r]
              /\ \/ /\ broker[r] = "open" /\ broker' = [broker EXCEPT ![r] = d]
                    /\ keyed' = keyed \ {r}
                 \/ UNCHANGED <<broker, keyed>>
<1>1. CASE Deliver(r)
  BY <1>1 DEF Deliver, Decided
<1>2. ASSUME NEW d \in Decisions, DecideAtMirror(r, d)
      PROVE  <<"mirror", d>> \in said'[r]
  BY <1>2 DEF DecideAtMirror, TypeOK
<1>. QED BY <1>1, <1>2 DEF DecideAtMirror, Decided

(* What the desk answered closes only what is open.                         *)
LEMMA ClosingSteps ==
  ASSUME TypeOK, Coherent, NEW r \in Requests, NoticeKey(r) \/ ToolEnds(r)
  PROVE  /\ UNCHANGED <<engine, hook, cut>>
         /\ \E R \in SUBSET OpenAtBroker :
              /\ broker' = [q \in Requests |-> IF q \in R THEN "closed" ELSE broker[q]]
              /\ keyed' = keyed \ R
<1>1. CASE NoticeKey(r)
  <2>1. {q \in keyed : Pane[q] = Pane[r]} \in SUBSET OpenAtBroker
    BY DEF Coherent, Fits, OpenAtBroker, TypeOK
  <2>. QED BY <1>1, <2>1 DEF NoticeKey, Close
<1>2. CASE ToolEnds(r)
  BY <1>2 DEF ToolEnds, Close, OpenAtBroker
<1>. QED BY <1>1, <1>2

(* No step sets the agent and the broker at odds.                           *)
LEMMA CoherentKept == TypeOK /\ Coherent /\ [Next]_vars => Coherent'
<1>. SUFFICES ASSUME TypeOK, Coherent, [Next]_vars, NEW q \in Requests PROVE Fits(q)'
  BY DEF Coherent
<1>0. Fits(q)
  BY DEF Coherent
<1>. USE <1>0 DEF Decisions, Fits
<1>1. CASE Away
  BY <1>1, AwayLeaves DEF OpenAtBroker
<1>2. CASE AppCrashes
  BY <1>2 DEF AppCrashes, TypeOK
<1>3. CASE Tick
  BY <1>3 DEF Tick, TypeOK, agentVars, OpenAtBroker
<1>4. CASE UNCHANGED vars
  BY <1>4 DEF vars
<1>5. ASSUME NEW r \in Requests, Ask(r) \/ AnswerAtDesk(r) PROVE Fits(q)'
  BY <1>5 DEF Ask, AnswerAtDesk, TypeOK, brokerVars, OpenAtBroker
<1>6. ASSUME NEW r \in Requests, NoticeKey(r) \/ ToolEnds(r) PROVE Fits(q)'
  BY <1>6, ClosingSteps DEF OpenAtBroker
<1>7. ASSUME NEW r \in Requests, Agent(r) PROVE Fits(q)'
  <2>1. CASE Poll(r)
    BY <2>1 DEF Poll, TypeOK
  <2>2. CASE HookAnswers(r)
    BY <2>2 DEF HookAnswers, TypeOK, brokerVars
  <2>3. CASE Look(r)
    BY <2>3 DEF Look, TypeOK, brokerVars
  <2>4. CASE Await(r) \/ Wake(r) \/ HoldOver(r)
    BY <2>4 DEF Await, Wake, HoldOver, TypeOK, brokerVars
  <2>. QED BY <1>7, <2>1, <2>2, <2>3, <2>4 DEF Agent
<1>8. ASSUME NEW r \in Requests, Deliver(r) \/ \E d \in Decisions : DecideAtMirror(r, d)
      PROVE  Fits(q)'
  BY <1>8, DecidedSteps DEF TypeOK
<1>. QED BY <1>1, <1>2, <1>3, <1>4, <1>5, <1>6, <1>7, <1>8, StepKinds

(* The agent and the broker never disagree about a request.                 *)
THEOREM CoherentAlways == Spec => []Coherent
<1>1. Init => Coherent
  BY DEF Init, Coherent, Fits, Decisions
<1>. QED BY <1>1, TypeCorrect, CoherentKept, PTL DEF Spec

(* The engine, the hook, the broker, the bridge and the gateway together    *)
(* implement the promise of one answer: each step is one of OneAnswer's, or *)
(* leaves the window and the offer as they are.                             *)
THEOREM OneAnswerKept == Spec => KeepsOneAnswer
<1>1. Init => Promise!Init
  BY DEF Init, Promise!Init
<1>2. TypeOK /\ Coherent /\ [Next]_vars => [Promise!Next]_<<engine, broker>>
  <2>. SUFFICES ASSUME TypeOK, Coherent, [Next]_vars, ~UNCHANGED <<engine, broker>>
                PROVE  Promise!Next
    OBVIOUS
  <2>1. ~Away /\ ~UNCHANGED vars
    BY AwayLeaves DEF vars
  <2>2. CASE AppCrashes \/ Tick
    <3>. PICK R \in SUBSET OpenAtBroker :
           /\ broker' = [q \in Requests |-> IF q \in R THEN "closed" ELSE broker[q]]
           /\ UNCHANGED engine
      <4>1. CASE AppCrashes
        <5>1. broker' = [q \in Requests |-> IF q \in OpenAtBroker THEN "closed" ELSE broker[q]]
          BY <4>1 DEF AppCrashes, OpenAtBroker
        <5>. QED BY <4>1, <5>1 DEF AppCrashes
      <4>2. CASE Tick
        BY <4>2 DEF Tick, agentVars
      <4>. QED BY <2>2, <4>1, <4>2
    <3>. QED BY DEF Promise!Next, Promise!Withdraw, OpenAtBroker
  <2>3. ASSUME NEW r \in Requests, Ask(r) \/ AnswerAtDesk(r) PROVE Promise!Next
    BY <2>3 DEF Ask, AnswerAtDesk, brokerVars, Promise!Next, Promise!Ask, Promise!AnswerAtDesk
  <2>4. ASSUME NEW r \in Requests, NoticeKey(r) \/ ToolEnds(r) PROVE Promise!Next
    BY <2>4, ClosingSteps DEF Promise!Next, Promise!Withdraw, OpenAtBroker
  <2>5. ASSUME NEW r \in Requests, Agent(r) PROVE Promise!Next
    <3>1. Poll(r) \/ HookAnswers(r)
      BY <2>5 DEF Agent, Look, Await, Wake, HoldOver, brokerVars
    <3>2. CASE Poll(r)
      <4>1. engine[r] # "none" /\ broker[r] = "none"
        BY <3>2 DEF Poll, Coherent, Fits
      <4>. QED BY <3>2, <4>1 DEF Poll, Promise!Next, Promise!Offer
    <3>3. CASE HookAnswers(r)
      <4>1. engine[r] = "window" /\ broker[r] = hook[r] /\ hook[r] \in Decisions
        BY <3>3 DEF HookAnswers, Coherent, Fits, brokerVars, TypeOK
      <4>. QED BY <3>3, <4>1 DEF HookAnswers, brokerVars, Decisions, Promise!Next,
                                 Promise!AnswerRemotely, Promise!Decisions
    <3>. QED BY <3>1, <3>2, <3>3
  <2>6. ASSUME NEW r \in Requests, Deliver(r) \/ \E d \in Decisions : DecideAtMirror(r, d)
        PROVE  Promise!Next
    BY <2>6, DecidedSteps DEF Decisions, Promise!Next, Promise!Decide, Promise!Decisions
  <2>. QED BY <2>1, <2>2, <2>3, <2>4, <2>5, <2>6, StepKinds
<1>. QED BY <1>1, <1>2, TypeCorrect, CoherentAlways, PTL DEF Spec, KeepsOneAnswer, Promise!Spec

-----------------------------------------------------------------------------
(* Where a decision comes from: a person gave it on another device, which   *)
(* had the whole input before it allowed, or gave it at a mirror.           *)
Heard(r, d) == <<"gateway", d>> \in said[r] /\ ~(d = "allow" /\ r \in cut)

Sourced(r) ==
  /\ broker[r] = "none" => job[r] = "none"
  /\ job[r] = "none" => gateway[r].phase = "none"
  /\ \A d \in Decisions : job[r] = d \/ gateway[r].phase = PhaseOf[d] => Heard(r, d)
  /\ \A d \in Decisions : broker[r] = d => Heard(r, d) \/ <<"mirror", d>> \in said[r]

AllSourced == \A r \in Requests : Sourced(r)

(* What was said stays said, and an input is cut before anyone hears of it. *)
LEMMA HeardStays ==
  ASSUME TypeOK, [Next]_vars, NEW q \in Requests
  PROVE  /\ said[q] \subseteq said'[q]
         /\ broker[q] # "none" => (q \in cut' <=> q \in cut)
<1>. USE DEF agentVars, brokerVars
<1>1. CASE Away
  <2>1. said[q] \subseteq said'[q]
    <3>1. ASSUME NEW r \in Requests, NEW d \in Decisions, DecideElsewhere(r, d)
          PROVE  said[q] \subseteq said'[q]
      BY <3>1 DEF DecideElsewhere, TypeOK
    <3>. QED BY <1>1, <3>1 DEF Away, StrayKey, Start, CreateArrives, CreateFails, CreateReturns,
                CreateReplyLost, Follow, Miss, CancelArrives, CancelLost, Loop, TakeNote,
                BridgeTick, GatewayRestarts
  <2>. QED BY <1>1, <2>1, AwayLeaves
<1>2. CASE AppCrashes \/ Tick \/ UNCHANGED vars
  BY <1>2 DEF AppCrashes, Tick, vars
<1>3. ASSUME NEW r \in Requests,
             Ask(r) \/ AnswerAtDesk(r) \/ NoticeKey(r) \/ ToolEnds(r) \/ Deliver(r)
      PROVE  UNCHANGED <<said, cut>>
  BY <1>3 DEF Ask, AnswerAtDesk, NoticeKey, ToolEnds, Deliver
<1>4. ASSUME NEW r \in Requests, Agent(r)
      PROVE  UNCHANGED said /\ (broker[q] # "none" => (q \in cut' <=> q \in cut))
  <2>1. CASE Poll(r)
    BY <2>1 DEF Poll
  <2>. QED BY <1>4, <2>1 DEF Agent, Look, Await, Wake, HoldOver, HookAnswers
<1>5. ASSUME NEW r \in Requests, NEW d \in Decisions, DecideAtMirror(r, d)
      PROVE  said[q] \subseteq said'[q] /\ UNCHANGED cut
  BY <1>5 DEF DecideAtMirror, TypeOK
<1>. QED BY <1>1, <1>2, <1>3, <1>4, <1>5, StepKinds

(* When what a step leaves of a request came from what was there before.    *)
LEMMA SourcedStays ==
  ASSUME TypeOK, [Next]_vars, NEW q \in Requests, Sourced(q),
         /\ job'[q] = job[q] \/ job'[q] \notin {"none"} \cup Decisions
         /\ \/ gateway'[q].phase = gateway[q].phase
            \/ /\ gateway'[q].phase \notin {"none"} \cup {PhaseOf[d] : d \in Decisions}
               /\ job'[q] # "none"
         /\ broker'[q] = broker[q] \/ broker'[q] \notin {"none"} \cup Decisions
         /\ broker[q] = "none" => job'[q] = job[q]
  PROVE  Sourced(q)'
<1>1. ASSUME NEW d \in Decisions, Heard(q, d), broker[q] # "none" PROVE Heard(q, d)'
  BY <1>1, HeardStays DEF Heard
<1>2. broker[q] = "none" => job[q] \notin Decisions
  BY DEF Sourced, Decisions
<1>3. broker[q] = "none" => gateway[q].phase \notin {PhaseOf[d] : d \in Decisions}
  BY DEF Sourced, Decisions, PhaseOf
<1>. QED BY <1>1, <1>2, <1>3, HeardStays DEF Sourced

(* No step makes a decision of its own.                                     *)
LEMMA SourcedKept == TypeOK /\ AllSourced /\ [Next]_vars => AllSourced'
<1>. SUFFICES ASSUME TypeOK, AllSourced, [Next]_vars, NEW q \in Requests PROVE Sourced(q)'
  BY DEF AllSourced
<1>0. Sourced(q)
  BY DEF AllSourced
<1>. USE DEF agentVars, brokerVars, bridgeVars, Decisions
<1>1. CASE TakeNote \/ BridgeTick \/ UNCHANGED vars
  BY <1>0, <1>1, SourcedStays DEF TakeNote, BridgeTick, vars
<1>2. CASE GatewayRestarts
  <2>1. \/ gateway'[q] = gateway[q]
        \/ gateway[q].phase # "none" /\ gateway'[q].phase = "forgotten"
    BY <1>2 DEF GatewayRestarts, Blank
  <2>. QED BY <1>0, <1>2, <2>1, SourcedStays DEF GatewayRestarts, PhaseOf, Sourced
<1>3. CASE AppCrashes
  BY <1>0, <1>3, SourcedStays DEF AppCrashes, Sourced
<1>4. CASE Tick
  <2>1. /\ now' \in Nat /\ gateway[q] \in GatewayRequest
        /\ gateway'[q] = Swept(gateway[q], now')
    BY <1>4, BridgeAssumption DEF Tick, TypeOK, GatewayRequest
  <2>2. /\ gateway'[q].phase \in {"allowed", "denied"} => gateway'[q].phase = gateway[q].phase
        /\ gateway[q].phase = "none" => gateway'[q].phase = "none"
        /\ gateway'[q].phase = "none" => gateway[q].phase = "none"
    <3>1. /\ gateway'[q].phase \in {"allowed", "denied"} => gateway'[q].phase = gateway[q].phase
          /\ gateway[q].phase = "none" => gateway'[q].phase = "none"
      BY <2>1, SweepDecidesNothing
    <3>2. gateway'[q].phase = "none" => gateway[q].phase = "none"
      BY <2>1 DEF Swept, Expire, ClosedAs, Blank, GatewayRequest
    <3>. QED BY <3>1, <3>2
  <2>. QED BY <1>0, <1>4, <2>2, SourcedStays DEF Tick, PhaseOf, Sourced
<1>5. ASSUME NEW r \in Requests,
             Ask(r) \/ AnswerAtDesk(r) \/ StrayKey(r) \/ Agent(r) \/ CancelLost(r)
      PROVE  Sourced(q)'
  <2>1. /\ UNCHANGED <<job, gateway>>
        /\ broker'[q] = broker[q] \/ broker'[q] = "open"
    <3>1. CASE Poll(r)
      BY <3>1 DEF Poll, TypeOK
    <3>. QED BY <1>5, <3>1 DEF Ask, AnswerAtDesk, StrayKey, CancelLost, Agent, Look, Await, Wake,
                               HoldOver, HookAnswers
  <2>. QED BY <1>0, <2>1, SourcedStays
<1>6. ASSUME NEW r \in Requests, NoticeKey(r) \/ ToolEnds(r) PROVE Sourced(q)'
  <2>1. /\ UNCHANGED <<job, gateway>>
        /\ broker'[q] = broker[q] \/ broker'[q] = "closed"
    BY <1>6 DEF NoticeKey, ToolEnds, Close
  <2>. QED BY <1>0, <2>1, SourcedStays
<1>7. ASSUME NEW r \in Requests,
             Start(r) \/ CreateFails(r) \/ CreateReturns(r) \/ CreateReplyLost(r) \/ Miss(r)
      PROVE  Sourced(q)'
  <2>1. /\ UNCHANGED <<broker, gateway>>
        /\ job'[q] = job[q] \/ job'[q] \in {"creating", "following", "over"}
        /\ broker[q] = "none" => job'[q] = job[q]
    BY <1>0, <1>7 DEF Start, CreateFails, CreateReturns, CreateReplyLost, Miss, TypeOK, Sourced
  <2>. QED BY <1>0, <2>1, SourcedStays
<1>8. ASSUME NEW r \in Requests, CreateArrives(r) PROVE Sourced(q)'
  <2>1. /\ UNCHANGED broker
        /\ q # r => job'[q] = job[q] /\ gateway'[q] = gateway[q]
        /\ q = r => job'[q] = "created" /\ gateway'[q].phase = "pending" /\ broker[q] # "none"
    BY <1>0, <1>8 DEF CreateArrives, Opened, TypeOK, Sourced
  <2>. QED BY <1>0, <2>1, SourcedStays DEF PhaseOf
<1>9. ASSUME NEW r \in Requests, CancelArrives(r) PROVE Sourced(q)'
  <2>1. /\ UNCHANGED <<broker, job>>
        /\ \/ gateway'[q] = gateway[q]
           \/ gateway[q].phase = "pending" /\ gateway'[q].phase = "cancelled"
    BY <1>9 DEF CancelArrives, ClosedAs, TypeOK
  <2>. QED BY <1>0, <2>1, SourcedStays DEF PhaseOf, Sourced
<1>10. ASSUME NEW r \in Requests, Follow(r) PROVE Sourced(q)'
  <2>1. /\ UNCHANGED <<broker, gateway, said, cut>>
        /\ q # r => job'[q] = job[q]
    BY <1>10 DEF Follow, TypeOK
  <2>2. CASE q = r /\ gateway[q].phase \in DOMAIN DecisionIn
    <3>1. \E d \in Decisions : gateway[q].phase = PhaseOf[d] /\ job'[q] = d
      BY <1>10, <2>2 DEF Follow, DecisionIn, PhaseOf, TypeOK
    <3>2. job[q] = "following" /\ broker[q] # "none"
      BY <1>0, <1>10, <2>2 DEF Follow, Sourced
    <3>. QED BY <1>0, <2>1, <3>1, <3>2 DEF Sourced, Heard
  <2>3. CASE q = r /\ gateway[q].phase \notin DOMAIN DecisionIn
    <3>1. job'[q] \in {"following", "over"} /\ job[q] = "following"
      BY <1>10, <2>3 DEF Follow, DecisionIn, TypeOK
    <3>. QED BY <1>0, <2>1, <3>1, SourcedStays DEF Sourced
  <2>. QED BY <1>0, <2>1, <2>2, <2>3, SourcedStays
<1>11. ASSUME NEW r \in Requests, Deliver(r) PROVE Sourced(q)'
  <2>1. /\ UNCHANGED <<gateway, said, cut>>
        /\ q # r => job'[q] = job[q]
        /\ job'[r] = "over" /\ job[r] \in Decisions
        /\ broker'[q] = broker[q] \/ (q = r /\ broker'[q] = job[q])
    BY <1>11 DEF Deliver, Decided, TypeOK
  <2>. QED BY <1>0, <2>1 DEF Sourced, Heard
<1>12. ASSUME NEW r \in Requests, NEW d \in Decisions, DecideAtMirror(r, d) PROVE Sourced(q)'
  <2>1. /\ UNCHANGED <<job, gateway, cut>> /\ broker[r] = "open"
        /\ broker'[q] = broker[q] \/ (q = r /\ broker'[q] = d)
        /\ <<"mirror", d>> \in said'[r]
    BY <1>12 DEF DecideAtMirror, Decided, TypeOK
  <2>. QED BY <1>0, <2>1, HeardStays DEF Sourced, Heard
<1>13. ASSUME NEW r \in Requests, NEW d \in Decisions, DecideElsewhere(r, d) PROVE Sourced(q)'
  <2>1. UNCHANGED <<broker, job, cut>> /\ job[r] # "none"
    BY <1>13 DEF DecideElsewhere, AllSourced, Sourced
  <2>2. CASE q # r
    BY <1>0, <1>13, <2>1, <2>2, SourcedStays DEF DecideElsewhere, TypeOK
  <2>3. CASE q = r
    <3>1. gateway'[q].phase = PhaseOf[d] /\ Heard(q, d)'
      BY <1>13, <2>3 DEF DecideElsewhere, ClosedAs, Heard, TypeOK
    <3>. QED BY <1>0, <2>1, <2>3, <3>1, HeardStays DEF Sourced, Heard, PhaseOf
  <2>. QED BY <2>2, <2>3
<1>. QED BY <1>1, <1>2, <1>3, <1>4, <1>5, <1>6, <1>7, <1>8, <1>9, <1>10, <1>11, <1>12, <1>13
         DEF Next, Loop, Bridge

(* The engine acts on a remote answer only if a person gave that answer.    *)
THEOREM OnlyGivenAnswers == Spec => []RemoteAnswerWasGiven
<1>1. Init => AllSourced
  BY DEF Init, AllSourced, Sourced, Blank, PhaseOf, Decisions
<1>2. Spec => []AllSourced
  BY <1>1, TypeCorrect, SourcedKept, PTL DEF Spec
<1>3. Coherent /\ AllSourced => RemoteAnswerWasGiven
  <2>. SUFFICES ASSUME Coherent, AllSourced, NEW r \in Requests, engine[r] \in Decisions
                PROVE  \/ <<"mirror", engine[r]>> \in said[r]
                       \/ <<"gateway", engine[r]>> \in said[r] /\ ~(engine[r] = "allow" /\ r \in cut)
    BY DEF RemoteAnswerWasGiven
  <2>. QED BY DEF Coherent, Fits, AllSourced, Sourced, Heard
<1>. QED BY <1>2, <1>3, CoherentAlways, PTL

-----------------------------------------------------------------------------
(* A poll that has looked, or sleeps already, was woken by whatever closed  *)
(* its request since, unless only time did.                                 *)
Alert(r) ==
  hook[r] \in {"looked", "asleep"} /\ broker[r] # "open" =>
    r \in woken \/ (broker[r] = "closed" /\ now >= brokerTill[r])

AllAlert == \A r \in Requests : Alert(r)

(* No step lets a request close behind the back of its poll.                *)
LEMMA AlertKept == TypeOK /\ AllAlert /\ [Next]_vars => AllAlert'
<1>. SUFFICES ASSUME TypeOK, AllAlert, [Next]_vars, NEW q \in Requests PROVE Alert(q)'
  BY DEF AllAlert
<1>0. Alert(q)
  BY DEF AllAlert
<1>. USE <1>0 DEF Alert
<1>1. CASE Away
  <2>. UNCHANGED <<now, brokerTill, woken>>
    BY <1>1 DEF Away, StrayKey, Start, CreateArrives, CreateFails, CreateReturns, CreateReplyLost,
         Follow, Miss, CancelArrives, CancelLost, DecideElsewhere, Loop, TakeNote, BridgeTick,
         GatewayRestarts, agentVars, brokerVars
  <2>. QED BY <1>1, AwayLeaves
<1>2. CASE AppCrashes
  BY <1>2 DEF AppCrashes, TypeOK
<1>3. CASE Tick
  <2>1. now' >= now
    BY <1>3, BridgeAssumption DEF Tick, TypeOK
  <2>2. brokerTill[q] \in Nat /\ now \in Nat /\ now' \in Nat
    BY <1>3, BridgeAssumption DEF Tick, TypeOK
  <2>. QED BY <1>3, <2>1, <2>2 DEF Tick, TypeOK, agentVars, OpenAtBroker
<1>4. CASE UNCHANGED vars
  BY <1>4 DEF vars
<1>5. ASSUME NEW r \in Requests, Ask(r) \/ AnswerAtDesk(r) PROVE Alert(q)'
  BY <1>5 DEF Ask, AnswerAtDesk, TypeOK, brokerVars
<1>6. ASSUME NEW r \in Requests, NoticeKey(r) \/ ToolEnds(r) PROVE Alert(q)'
  BY <1>6 DEF NoticeKey, ToolEnds, Close, NotifyAll, Waiting
<1>7. ASSUME NEW r \in Requests, Agent(r) PROVE Alert(q)'
  <2>1. CASE Poll(r)
    BY <2>1 DEF Poll, TypeOK
  <2>2. CASE HookAnswers(r)
    BY <2>2 DEF HookAnswers, TypeOK, brokerVars
  <2>3. CASE Look(r)
    BY <2>3 DEF Look, Decisions, TypeOK, brokerVars
  <2>4. CASE Await(r) \/ Wake(r) \/ HoldOver(r)
    BY <2>4 DEF Await, Wake, HoldOver, TypeOK, brokerVars
  <2>. QED BY <1>7, <2>1, <2>2, <2>3, <2>4 DEF Agent
<1>8. ASSUME NEW r \in Requests, Deliver(r) \/ \E d \in Decisions : DecideAtMirror(r, d)
      PROVE  Alert(q)'
  BY <1>8 DEF Deliver, DecideAtMirror, Decided, NotifyAll, Waiting
<1>. QED BY <1>1, <1>2, <1>3, <1>4, <1>5, <1>6, <1>7, <1>8, StepKinds

(* No long poll sleeps through an answer to its request, however many       *)
(* requests share the one wake-up.                                          *)
THEOREM NoMissedWakeup == Spec => []NoSleeperMissesAnswer
<1>1. Init => AllAlert
  BY DEF Init, AllAlert, Alert
<1>2. AllAlert => NoSleeperMissesAnswer
  BY DEF AllAlert, Alert, NoSleeperMissesAnswer
<1>. QED BY <1>1, <1>2, TypeCorrect, AlertKept, PTL DEF Spec

-----------------------------------------------------------------------------
(* Who will withdraw a request that the gateway offers.                     *)
NoteSet == {"up", "done"} \X Requests

Noted(s, x) == \E i \in 1..Len(s) : s[i] = x

(* A note is in the channel from the time it is sent until it is taken.     *)
LEMMA Channel ==
  ASSUME NEW s \in Seq(NoteSet), NEW x \in NoteSet
  PROVE  /\ \A e \in NoteSet : Noted(Append(s, e), x) <=> Noted(s, x) \/ x = e
         /\ s # <<>> => (Noted(s, x) <=> Noted(Tail(s), x) \/ x = Head(s))
<1>1. ASSUME NEW e \in NoteSet PROVE Noted(Append(s, e), x) <=> Noted(s, x) \/ x = e
  <2>1. /\ Len(s) \in Nat /\ Len(Append(s, e)) = Len(s) + 1
        /\ Append(s, e)[Len(s) + 1] = e
        /\ \A i \in 1..Len(s) : Append(s, e)[i] = s[i]
    OBVIOUS
  <2>2. Noted(s, x) \/ x = e => Noted(Append(s, e), x)
    BY <2>1 DEF Noted
  <2>3. Noted(Append(s, e), x) => Noted(s, x) \/ x = e
    BY <2>1 DEF Noted
  <2>. QED BY <2>2, <2>3
<1>2. ASSUME s # <<>> PROVE Noted(s, x) <=> Noted(Tail(s), x) \/ x = Head(s)
  <2>1. /\ Len(s) \in Nat /\ Len(s) >= 1 /\ Len(Tail(s)) = Len(s) - 1 /\ Head(s) = s[1]
        /\ \A i \in 1..(Len(s) - 1) : Tail(s)[i] = s[i + 1]
    BY <1>2
  <2>2. ASSUME NEW i \in 1..Len(s), s[i] = x PROVE Noted(Tail(s), x) \/ x = Head(s)
    <3>1. CASE i = 1
      BY <2>1, <2>2, <3>1
    <3>2. CASE i # 1
      <4>1. i - 1 \in 1..(Len(s) - 1) /\ (i - 1) + 1 = i
        BY <2>1, <2>2, <3>2
      <4>. QED BY <2>1, <2>2, <4>1 DEF Noted
    <3>. QED BY <3>1, <3>2
  <2>3. ASSUME NEW i \in 1..(Len(s) - 1), Tail(s)[i] = x PROVE Noted(s, x)
    <3>1. i + 1 \in 1..Len(s)
      BY <2>1, <2>3
    <3>. QED BY <2>1, <2>3, <3>1 DEF Noted
  <2>. QED BY <2>1, <2>2, <2>3 DEF Noted
<1>. QED BY <1>1, <1>2

(* A request offered by the gateway and not abandoned is being uploaded,    *)
(* announced to the loop, watched by it or withdrawn; only then is a        *)
(* follower through with it that the gateway has closed.                    *)
Watched(r) ==
  /\ gateway[r].phase = "pending" /\ r \notin abandoned =>
       job[r] = "created" \/ r \in live \cup cancelling \/ Noted(notes, <<"up", r>>)
  /\ job[r] \in {"none", "creating"} \cup Decisions => gateway[r].phase # "pending"
  /\ Noted(notes, <<"done", r>>) =>
       job[r] = "over" /\ (gateway[r].phase # "pending" \/ r \in abandoned)

AllWatched == \A r \in Requests : Watched(r)

(* Every step keeps every request watched.                                  *)
LEMMA WatchedKept == TypeOK /\ AllSourced /\ AllWatched /\ [Next]_vars => AllWatched'
<1>. SUFFICES ASSUME TypeOK, AllSourced, AllWatched, [Next]_vars, NEW q \in Requests
              PROVE  Watched(q)'
  BY DEF AllWatched
<1>0. Watched(q) /\ Sourced(q)
  BY DEF AllWatched, AllSourced
<1>n. /\ notes \in Seq(NoteSet) /\ <<"up", q>> \in NoteSet /\ <<"done", q>> \in NoteSet
      /\ \A r \in Requests : <<"up", r>> \in NoteSet /\ <<"done", r>> \in NoteSet
  BY DEF TypeOK, NoteSet
<1>. USE DEF agentVars, brokerVars, bridgeVars, Decisions
<1>1. CASE UNCHANGED <<gateway, job, notes, live, cancelling, abandoned>>
  BY <1>0, <1>1 DEF Watched
<1>2. ASSUME NEW r \in Requests,
             \/ Ask(r) \/ AnswerAtDesk(r) \/ StrayKey(r) \/ NoticeKey(r) \/ ToolEnds(r)
             \/ Agent(r) \/ \E d \in Decisions : DecideAtMirror(r, d)
      PROVE  Watched(q)'
  BY <1>1, <1>2 DEF Ask, AnswerAtDesk, StrayKey, NoticeKey, ToolEnds, DecideAtMirror, Agent, Poll,
                    Look, Await, Wake, HoldOver, HookAnswers
<1>3. CASE GatewayRestarts \/ Tick
  <2>1. gateway'[q].phase = "pending" => gateway[q].phase = "pending"
    <3>1. CASE GatewayRestarts
      BY <3>1 DEF GatewayRestarts, Blank
    <3>2. CASE Tick
      <4>1. gateway'[q] = Swept(gateway[q], now') /\ gateway[q] \in GatewayRequest
        BY <3>2 DEF Tick, TypeOK, GatewayRequest
      <4>. QED BY <4>1 DEF Swept, Expire, ClosedAs, Blank, GatewayRequest
    <3>. QED BY <1>3, <3>1, <3>2
  <2>2. UNCHANGED <<job, notes, live, cancelling, abandoned>>
    BY <1>3 DEF GatewayRestarts, Tick
  <2>. QED BY <1>0, <2>1, <2>2 DEF Watched
<1>4. CASE AppCrashes
  <2>1. /\ notes' = <<>> /\ gateway' = gateway
        /\ job'[q] \in {"none", "over"} /\ (job'[q] = "none" => job[q] = "none")
        /\ q \in abandoned' \/ broker[q] = "none"
    BY <1>4 DEF AppCrashes
  <2>2. broker[q] = "none" \/ job[q] = "none" => gateway[q].phase # "pending"
    BY <1>0 DEF Sourced
  <2>3. \A x : ~Noted(notes', x)
    BY <2>1 DEF Noted
  <2>. QED BY <2>1, <2>2, <2>3 DEF Watched
<1>5. CASE TakeNote
  <2>1. /\ notes # <<>> /\ notes' = Tail(notes)
        /\ UNCHANGED <<gateway, job, cancelling, abandoned>>
    BY <1>5 DEF TakeNote
  <2>2. PICK k \in {"up", "done"}, r \in Requests : Head(notes) = <<k, r>>
    BY <1>n, <2>1 DEF NoteSet
  <2>3. live' = IF k = "up" THEN live \cup {r} ELSE live \ {r}
    <3>1. Head(notes)[1] = k /\ Head(notes)[2] = r
      BY <2>2
    <3>. QED BY <1>5, <3>1 DEF TakeNote
  <2>4. \A x \in NoteSet : Noted(notes, x) <=> Noted(notes', x) \/ x = <<k, r>>
    BY <1>n, <2>1, <2>2, Channel
  <2>5. CASE r = q /\ k = "done"
    <3>1. gateway[q].phase # "pending" \/ q \in abandoned
      BY <1>0, <1>n, <2>4, <2>5 DEF Watched
    <3>. QED BY <1>0, <1>n, <2>1, <2>4, <3>1 DEF Watched
  <2>6. CASE r = q /\ k = "up"
    BY <1>0, <1>n, <2>1, <2>3, <2>4, <2>6 DEF Watched
  <2>7. CASE r # q
    <3>1. q \in live' <=> q \in live
      BY <2>3, <2>7
    <3>2. <<"up", q>> # <<k, r>> /\ <<"done", q>> # <<k, r>>
      BY <2>7
    <3>. QED BY <1>0, <1>n, <2>1, <2>4, <3>1, <3>2 DEF Watched
  <2>. QED BY <2>2, <2>5, <2>6, <2>7
<1>6. CASE BridgeTick
  BY <1>0, <1>6 DEF BridgeTick, Watched
<1>7. ASSUME NEW r \in Requests, Start(r) \/ CreateArrives(r) \/ CreateFails(r)
      PROVE  Watched(q)'
  <2>1. CASE q # r
    <3>1. /\ UNCHANGED <<notes, live, cancelling, abandoned>>
          /\ job'[q] = job[q] /\ gateway'[q] = gateway[q]
      BY <1>7, <2>1 DEF Start, CreateArrives, CreateFails, TypeOK
    <3>. QED BY <1>0, <3>1 DEF Watched
  <2>2. CASE q = r
    <3>1. /\ UNCHANGED <<notes, live, cancelling, abandoned>>
          /\ job[q] \in {"none", "creating"}
          /\ \/ job'[q] \in {"creating", "over"} /\ gateway'[q] = gateway[q]
             \/ job'[q] = "created"
      BY <1>7, <2>2 DEF Start, CreateArrives, CreateFails, TypeOK
    <3>. QED BY <1>0, <3>1 DEF Watched
  <2>. QED BY <2>1, <2>2
<1>8. ASSUME NEW r \in Requests, CreateReturns(r) PROVE Watched(q)'
  <2>1. /\ UNCHANGED <<gateway, live, cancelling, abandoned>>
        /\ notes' = Append(notes, <<"up", r>>) /\ job[r] = "created" /\ job'[r] = "following"
        /\ q # r => job'[q] = job[q]
    BY <1>8 DEF CreateReturns, TypeOK
  <2>2. \A x \in NoteSet : Noted(notes', x) <=> Noted(notes, x) \/ x = <<"up", r>>
    BY <1>n, <2>1, Channel
  <2>3. <<"done", q>> # <<"up", r>>
    OBVIOUS
  <2>. QED BY <1>0, <1>n, <2>1, <2>2, <2>3 DEF Watched
<1>9. ASSUME NEW r \in Requests, CreateReplyLost(r) \/ CancelLost(r) PROVE Watched(q)'
  <2>1. /\ UNCHANGED <<gateway, live, notes>> /\ abandoned' = abandoned \cup {r}
        /\ job'[q] = job[q] \/ (q = r /\ job'[q] = "over")
        /\ q # r => (q \in cancelling' <=> q \in cancelling)
    BY <1>9 DEF CreateReplyLost, CancelLost, TypeOK
  <2>. QED BY <1>0, <2>1 DEF Watched
<1>10. ASSUME NEW r \in Requests, Follow(r) \/ Miss(r) \/ Deliver(r) PROVE Watched(q)'
  <2>1. /\ UNCHANGED <<gateway, live, cancelling>> /\ abandoned \subseteq abandoned'
        /\ job[r] \in {"following"} \cup Decisions
        /\ q # r => job'[q] = job[q]
        /\ \/ /\ notes' = notes
              /\ job'[r] = "following" \/ gateway[r].phase # "pending"
              /\ job'[r] # "created"
           \/ /\ notes' = Append(notes, <<"done", r>>) /\ job'[r] = "over"
              /\ gateway[r].phase # "pending" \/ r \in abandoned'
    <3>1. CASE Follow(r)
      BY <3>1 DEF Follow, DecisionIn, TypeOK
    <3>2. CASE Miss(r)
      BY <3>2 DEF Miss, TypeOK
    <3>3. CASE Deliver(r)
      <4>1. Watched(r)
        BY DEF AllWatched
      <4>. QED BY <3>3, <4>1 DEF Deliver, TypeOK, Watched
    <3>. QED BY <1>10, <3>1, <3>2, <3>3
  <2>2. CASE notes' = notes
    BY <1>0, <2>1, <2>2 DEF Watched
  <2>3. CASE notes' = Append(notes, <<"done", r>>)
    <3>1. \A x \in NoteSet : Noted(notes', x) <=> Noted(notes, x) \/ x = <<"done", r>>
      BY <1>n, <2>3, Channel
    <3>. QED BY <1>0, <1>n, <2>1, <3>1 DEF Watched
  <2>. QED BY <2>1, <2>2, <2>3
<1>11. ASSUME NEW r \in Requests, CancelArrives(r) \/ \E d \in Decisions : DecideElsewhere(r, d)
       PROVE  Watched(q)'
  <2>1. /\ UNCHANGED <<job, live, notes, abandoned>>
        /\ \/ gateway'[q] = gateway[q] /\ (q # r \/ gateway[q].phase # "pending")
           \/ gateway'[q].phase # "pending"
        /\ q # r => (q \in cancelling' <=> q \in cancelling)
    <3>1. \A phase \in {"cancelled", "allowed", "denied"} :
            ClosedAs(gateway[r], phase, now).phase = phase
      BY DEF ClosedAs, TypeOK
    <3>2. CASE CancelArrives(r)
      BY <3>1, <3>2 DEF CancelArrives, TypeOK
    <3>3. ASSUME NEW d \in Decisions, DecideElsewhere(r, d)
          PROVE  /\ (gateway'[q] = gateway[q] /\ q # r) \/ gateway'[q].phase # "pending"
                 /\ UNCHANGED bridgeVars
      <4>1. PhaseOf[d] \in {"allowed", "denied"}
        BY DEF PhaseOf
      <4>2. gateway' = [gateway EXCEPT ![r] = ClosedAs(gateway[r], PhaseOf[d], now)]
        BY <3>3 DEF DecideElsewhere
      <4>. QED BY <3>1, <3>3, <4>1, <4>2 DEF DecideElsewhere, TypeOK
    <3>. QED BY <1>11, <3>2, <3>3
  <2>. QED BY <1>0, <2>1 DEF Watched
<1>. QED BY <1>1, <1>2, <1>3, <1>4, <1>5, <1>6, <1>7, <1>8, <1>9, <1>10, <1>11
         DEF Next, Loop, Bridge, vars

(* A request answered at the desk does not stay on other screens: while the *)
(* gateway offers it, its withdrawal is under way, unless a fault cut the   *)
(* bridge off it.                                                           *)
THEOREM Withdrawn == Spec => []WithdrawalUnderWay
<1>1. Init => AllWatched
  BY DEF Init, AllWatched, Watched, Blank, Noted
<1>2. Init => AllSourced
  BY DEF Init, AllSourced, Sourced, Blank, PhaseOf, Decisions
<1>3. AllWatched => WithdrawalUnderWay
  BY DEF AllWatched, Watched, Noted, WithdrawalUnderWay
<1>. QED BY <1>1, <1>2, <1>3, TypeCorrect, SourcedKept, WatchedKept, PTL DEF Spec
-----------------------------------------------------------------------------
(* The gateway as this module has it, kept swept by the clock, and as       *)
(* ApprovalGateway has it, swept only by its calls, keep the same promise.  *)
Stamped(a) == IF a.phase = "expired" THEN ClosedAs(a, "expired", a.expires) ELSE a

Seen == [r \in Requests |-> Stamped(gateway[r])]

Gateway == INSTANCE OneDecision WITH time <- now, seen <- Seen

(* Why a request stands as it does: it was created once, is closed no later *)
(* than the clock reaches its deadline, and by time no sooner.              *)
Standing(r) ==
  /\ job[r] \in {"none", "creating"} => gateway[r].phase = "none"
  /\ gateway[r].phase = "pending" => now < gateway[r].expires
  /\ gateway[r].phase = "expired" => gateway[r].expires <= gateway[r].closed

AllStanding == \A r \in Requests : Standing(r)

(* What closing, sweeping and stamping return.                              *)
LEMMA StampCases ==
  ASSUME NEW a \in GatewayRequest, NEW t \in Nat
  PROVE  /\ \A phase \in Phases :
              /\ ClosedAs(a, phase, t) \in GatewayRequest
              /\ ClosedAs(a, phase, t) = [phase |-> phase, expires |-> a.expires, closed |-> t]
         /\ Stamped(a) \in GatewayRequest
         /\ Stamped(a) = IF a.phase = "expired"
                         THEN [phase |-> "expired", expires |-> a.expires, closed |-> a.expires]
                         ELSE a
         /\ Swept(a, t) = IF Lapsed(a, t) THEN ClosedAs(a, "expired", t)
                          ELSE IF Outdated(a, t) THEN Blank("forgotten") ELSE a
<1>1. ASSUME NEW phase \in Phases, NEW n \in Nat
      PROVE  /\ ClosedAs(a, phase, n) \in GatewayRequest
             /\ ClosedAs(a, phase, n) = [phase |-> phase, expires |-> a.expires, closed |-> n]
  <2>1. PICK c : c = ClosedAs(a, phase, n)
    OBVIOUS
  <2>2. c \in GatewayRequest /\ c.phase = phase /\ c.closed = n /\ c.expires = a.expires
    BY <2>1 DEF ClosedAs, GatewayRequest
  <2>. QED BY <2>1, <2>2 DEF GatewayRequest
<1>2. "expired" \in Phases /\ a.expires \in Nat
  BY DEF Phases, GatewayRequest
<1>3. /\ Stamped(a) \in GatewayRequest
      /\ Stamped(a) = IF a.phase = "expired"
                      THEN [phase |-> "expired", expires |-> a.expires, closed |-> a.expires]
                      ELSE a
  BY <1>1, <1>2 DEF Stamped
<1>4. ~Outdated(ClosedAs(a, "expired", t), t)
  <2>1. ClosedAs(a, "expired", t).closed = t
    BY <1>1, <1>2
  <2>2. ~(t >= t + KeepClosed)
    BY StoreAssumption
  <2>. QED BY <2>1, <2>2 DEF Outdated
<1>5. Swept(a, t) = IF Lapsed(a, t) THEN ClosedAs(a, "expired", t)
                    ELSE IF Outdated(a, t) THEN Blank("forgotten") ELSE a
  BY <1>4 DEF Swept, Expire
<1>. QED BY <1>1, <1>3, <1>5

(* A request that was closed is in the phase it was closed in.              *)
LEMMA ClosedPhase ==
  ASSUME NEW a \in GatewayRequest, NEW phase \in Phases, NEW t \in Nat
  PROVE  ClosedAs(a, phase, t).phase = phase
<1>1. ClosedAs(a, phase, t) = [phase |-> phase, expires |-> a.expires, closed |-> t]
  BY StampCases
<1>. QED BY <1>1

(* What a step does to the clock and the gateway; a request appears there   *)
(* only where the app has asked for it and not yet been answered.           *)
LEMMA GatewaySteps ==
  ASSUME TypeOK, [Next]_vars
  PROVE  /\ \A q \in Requests :
              job'[q] \in {"none", "creating"} => job[q] \in {"none", "creating"}
         /\ \/ /\ now' = now
               /\ \A q \in Requests :
                    \/ gateway'[q] = gateway[q]
                    \/ /\ job[q] = "creating" /\ job'[q] = "created"
                       /\ gateway'[q] = Opened(now)
                    \/ /\ gateway[q].phase = "pending"
                       /\ \E phase \in {"cancelled", "allowed", "denied"} :
                            gateway'[q] = ClosedAs(gateway[q], phase, now)
            \/ now' = now + 1 /\ gateway' = [r \in Requests |-> Swept(gateway[r], now')]
            \/ /\ now' = now
               /\ gateway' = [r \in Requests |-> IF gateway[r].phase = "none"
                                                 THEN gateway[r] ELSE Blank("forgotten")]
<1>. DEFINE Young(q) == job'[q] \in {"none", "creating"} => job[q] \in {"none", "creating"}
            Calls == /\ now' = now
                     /\ \A q \in Requests :
                          \/ gateway'[q] = gateway[q]
                          \/ /\ job[q] = "creating" /\ job'[q] = "created"
                             /\ gateway'[q] = Opened(now)
                          \/ /\ gateway[q].phase = "pending"
                             /\ \E phase \in {"cancelled", "allowed", "denied"} :
                                  gateway'[q] = ClosedAs(gateway[q], phase, now)
<1>0. job \in [Requests -> {"none", "creating", "created", "following", "over"} \cup Decisions]
      /\ DOMAIN gateway = Requests
  BY DEF TypeOK
<1>. USE DEF agentVars, brokerVars, bridgeVars, Decisions
<1>1. ASSUME NEW r \in Requests, CreateArrives(r) PROVE Calls /\ \A q \in Requests : Young(q)
  BY <1>0, <1>1 DEF CreateArrives
<1>2. ASSUME NEW r \in Requests, CancelArrives(r) PROVE Calls /\ \A q \in Requests : Young(q)
  BY <1>0, <1>2 DEF CancelArrives
<1>3. ASSUME NEW r \in Requests, NEW d \in Decisions, DecideElsewhere(r, d)
      PROVE  Calls /\ \A q \in Requests : Young(q)
  BY <1>0, <1>3 DEF DecideElsewhere, PhaseOf
<1>4. CASE Tick
  BY <1>0, <1>4 DEF Tick
<1>5. CASE GatewayRestarts
  BY <1>0, <1>5 DEF GatewayRestarts
<1>6. ASSUME UNCHANGED <<now, gateway>>,
             \A q \in Requests : job'[q] \in {"none", "creating"} => job[q] \in {"none", "creating"}
      PROVE  Calls /\ \A q \in Requests : Young(q)
  BY <1>6
<1>7. CASE UNCHANGED vars \/ AppCrashes \/ Loop
  BY <1>0, <1>6, <1>7 DEF vars, AppCrashes, Loop, TakeNote, BridgeTick
<1>8. ASSUME NEW r \in Requests,
             \/ Ask(r) \/ AnswerAtDesk(r) \/ StrayKey(r) \/ NoticeKey(r) \/ ToolEnds(r) \/ Agent(r)
             \/ CancelLost(r) \/ \E d \in Decisions : DecideAtMirror(r, d)
      PROVE  UNCHANGED <<now, gateway, job>>
  BY <1>8 DEF Ask, AnswerAtDesk, StrayKey, NoticeKey, ToolEnds, Agent, Poll, Look, Await, Wake,
              HoldOver, HookAnswers, CancelLost, DecideAtMirror
<1>9. ASSUME NEW r \in Requests,
             \/ Start(r) \/ CreateFails(r) \/ CreateReturns(r) \/ CreateReplyLost(r)
             \/ Miss(r) \/ Deliver(r)
      PROVE  Calls /\ \A q \in Requests : Young(q)
  BY <1>0, <1>6, <1>9 DEF Start, CreateFails, CreateReturns, CreateReplyLost, Miss, Deliver
<1>10. ASSUME NEW r \in Requests, Follow(r) PROVE Calls /\ \A q \in Requests : Young(q)
  BY <1>0, <1>6, <1>10 DEF Follow, DecisionIn
<1>. QED BY <1>1, <1>2, <1>3, <1>4, <1>5, <1>6, <1>7, <1>8, <1>9, <1>10 DEF Next, Bridge
(* No step lets a request stand otherwise.                                  *)
LEMMA StandingKept == TypeOK /\ AllStanding /\ [Next]_vars => AllStanding'
<1>. SUFFICES ASSUME TypeOK, AllStanding, [Next]_vars, NEW r \in Requests PROVE Standing(r)'
  BY DEF AllStanding
<1>0. /\ now \in Nat /\ now + 1 \in Nat /\ gateway[r] \in GatewayRequest
      /\ gateway[r].expires \in Nat /\ gateway[r].closed \in Nat
      /\ DOMAIN gateway = Requests
      /\ "expired" \in Phases /\ {"cancelled", "allowed", "denied"} \subseteq Phases
  BY BridgeAssumption DEF TypeOK, GatewayRequest, Phases
<1>1. /\ job'[r] \in {"none", "creating"} => gateway[r].phase = "none"
      /\ gateway[r].phase = "pending" => now < gateway[r].expires
      /\ gateway[r].phase = "expired" => gateway[r].expires <= gateway[r].closed
  BY GatewaySteps DEF AllStanding, Standing
<1>2. Blank("forgotten").phase = "forgotten"
  BY DEF Blank
<1>3. CASE now' = now /\ gateway'[r] \in {gateway[r], Blank("forgotten")}
           /\ (gateway[r].phase = "none" => gateway'[r] = gateway[r])
  BY <1>1, <1>2, <1>3 DEF Standing
<1>4. CASE now' = now /\ job'[r] = "created" /\ gateway'[r] = Opened(now)
  <2>1. PICK b : b = Opened(now)
    OBVIOUS
  <2>2. b.phase = "pending" /\ b.expires = now + Ttl /\ Ttl \in Nat \ {0}
    BY <2>1, StoreAssumption DEF Opened
  <2>3. now < b.expires
    BY <1>0, <2>2
  <2>. QED BY <1>4, <2>1, <2>2, <2>3 DEF Standing
<1>5. ASSUME now' = now, gateway[r].phase = "pending",
             NEW phase \in {"cancelled", "allowed", "denied"},
             gateway'[r] = ClosedAs(gateway[r], phase, now)
      PROVE  Standing(r)'
  <2>1. gateway'[r].phase = phase
    BY <1>0, <1>5, ClosedPhase
  <2>. QED BY <1>1, <1>5, <2>1 DEF Standing
<1>6. CASE now' = now + 1 /\ gateway'[r] = Swept(gateway[r], now + 1)
  <2>1. CASE Lapsed(gateway[r], now + 1)
    <3>1. gateway'[r] = [phase |-> "expired", expires |-> gateway[r].expires, closed |-> now + 1]
      BY <1>0, <1>6, <2>1, StampCases
    <3>2. gateway[r].phase = "pending" /\ gateway[r].expires <= now + 1
      BY <1>0, <2>1 DEF Lapsed
    <3>. QED BY <1>1, <3>1, <3>2 DEF Standing
  <2>2. CASE ~Lapsed(gateway[r], now + 1) /\ Outdated(gateway[r], now + 1)
    <3>1. gateway'[r] = Blank("forgotten") /\ gateway[r].phase # "none"
      BY <1>0, <1>6, <2>2, StampCases DEF Outdated, Closed
    <3>. QED BY <1>1, <1>2, <3>1 DEF Standing
  <2>3. CASE ~Lapsed(gateway[r], now + 1) /\ ~Outdated(gateway[r], now + 1)
    <3>1. gateway'[r] = gateway[r]
      BY <1>0, <1>6, <2>3, StampCases
    <3>2. gateway[r].phase = "pending" => now + 1 < gateway[r].expires
      BY <1>0, <2>3 DEF Lapsed
    <3>. QED BY <1>1, <1>6, <3>1, <3>2 DEF Standing
  <2>. QED BY <2>1, <2>2, <2>3
<1>. QED BY <1>0, <1>3, <1>4, <1>5, <1>6, GatewaySteps

(* What a request shows before a step and after it.                         *)
LEMMA StampMoves ==
  ASSUME NEW a \in GatewayRequest, NEW t \in Nat
  PROVE  /\ a.phase = "none" =>
              Gateway!Opens(Stamped(a), Stamped(Opened(t)), t) /\ Stamped(a) = a
         /\ a.phase = "pending" /\ t < a.expires =>
              \A phase \in {"cancelled", "allowed", "denied"} :
                Gateway!Settles(Stamped(a), Stamped(ClosedAs(a, phase, t)), t)
         /\ (a.phase = "expired" => a.expires <= a.closed)
            => \/ Stamped(Swept(a, t)) = Stamped(a)
               \/ Gateway!RunsOut(Stamped(a), Stamped(Swept(a, t)), t)
               \/ Gateway!Fades(Stamped(a), Stamped(Swept(a, t)), t)
         /\ Stamped(Blank("forgotten")) = Blank("forgotten")
<1>0. /\ a.expires \in Nat /\ a.closed \in Nat /\ "expired" \in Phases
      /\ {"cancelled", "allowed", "denied"} \subseteq Phases
  BY DEF GatewayRequest, Phases
<1>1. ASSUME a.phase = "none"
      PROVE  Gateway!Opens(Stamped(a), Stamped(Opened(t)), t) /\ Stamped(a) = a
  <2>1. Stamped(a) = a
    BY <1>1 DEF Stamped
  <2>2. Opened(t).phase = "pending"
    BY DEF Opened
  <2>3. Stamped(Opened(t)) = Opened(t)
    BY <2>2 DEF Stamped
  <2>. QED BY <1>1, <2>1, <2>3 DEF Gateway!Opens, Gateway!Opened, Opened
<1>2. ASSUME a.phase = "pending", t < a.expires,
             NEW phase \in {"cancelled", "allowed", "denied"}
      PROVE  Gateway!Settles(Stamped(a), Stamped(ClosedAs(a, phase, t)), t)
  <2>1. Stamped(a) = a
    BY <1>2 DEF Stamped
  <2>2. ClosedAs(a, phase, t).phase = phase
    BY <1>0, ClosedPhase
  <2>3. Stamped(ClosedAs(a, phase, t)) = ClosedAs(a, phase, t)
    BY <2>2 DEF Stamped
  <2>4. phase \in Gateway!Closed \ {"expired"}
    BY DEF Gateway!Closed
  <2>5. ClosedAs(a, phase, t) = Gateway!ClosedAs(a, phase, t)
    BY DEF ClosedAs, Gateway!ClosedAs
  <2>. QED BY <1>2, <2>1, <2>3, <2>4, <2>5 DEF Gateway!Settles
<1>3. Stamped(Blank("forgotten")) = Blank("forgotten")
  <2>1. Blank("forgotten").phase = "forgotten"
    BY DEF Blank
  <2>. QED BY <2>1 DEF Stamped
<1>4. ASSUME a.phase = "expired" => a.expires <= a.closed
      PROVE  \/ Stamped(Swept(a, t)) = Stamped(a)
             \/ Gateway!RunsOut(Stamped(a), Stamped(Swept(a, t)), t)
             \/ Gateway!Fades(Stamped(a), Stamped(Swept(a, t)), t)
  <2>1. CASE Lapsed(a, t)
    <3>1. a.phase = "pending" /\ t >= a.expires /\ Stamped(a) = a
      BY <2>1 DEF Lapsed, Stamped
    <3>2. PICK b : b = Swept(a, t)
      OBVIOUS
    <3>3. b = [phase |-> "expired", expires |-> a.expires, closed |-> t] /\ b \in GatewayRequest
      <4>1. b = ClosedAs(a, "expired", t)
        BY <2>1, <3>2, StampCases
      <4>. QED BY <1>0, <4>1, StampCases
    <3>4. Stamped(b) = [phase |-> "expired", expires |-> a.expires, closed |-> a.expires]
      BY <3>3, StampCases
    <3>5. ClosedAs(a, "expired", a.expires)
            = [phase |-> "expired", expires |-> a.expires, closed |-> a.expires]
      BY <1>0, StampCases
    <3>6. Gateway!ClosedAs(a, "expired", a.expires) = ClosedAs(a, "expired", a.expires)
      BY DEF ClosedAs, Gateway!ClosedAs
    <3>. QED BY <3>1, <3>2, <3>4, <3>5, <3>6 DEF Gateway!RunsOut
  <2>2. CASE ~Lapsed(a, t) /\ Outdated(a, t)
    <3>1. Swept(a, t) = Blank("forgotten")
      BY <2>2, StampCases
    <3>2. a.phase \in Closed /\ t >= a.closed + KeepClosed
      BY <2>2 DEF Outdated
    <3>3. PICK b : b = Stamped(a)
      OBVIOUS
    <3>4. b.phase = a.phase /\ b.closed \in Nat /\ b.closed <= a.closed
      <4>1. CASE a.phase = "expired"
        <5>1. b = [phase |-> "expired", expires |-> a.expires, closed |-> a.expires]
          BY <3>3, <4>1, StampCases
        <5>. QED BY <1>0, <1>4, <4>1, <5>1
      <4>2. CASE a.phase # "expired"
        <5>1. b = a
          BY <3>3, <4>2 DEF Stamped
        <5>. QED BY <1>0, <5>1
      <4>. QED BY <4>1, <4>2
    <3>5. t >= b.closed + KeepClosed
      BY <1>0, <3>2, <3>4, StoreAssumption
    <3>. QED BY <1>3, <3>1, <3>2, <3>3, <3>4, <3>5
         DEF Gateway!Fades, Gateway!Closed, Closed, Gateway!Blank, Blank
  <2>3. CASE ~Lapsed(a, t) /\ ~Outdated(a, t)
    BY <2>3, StampCases
  <2>. QED BY <2>1, <2>2, <2>3
<1>. QED BY <1>1, <1>2, <1>3, <1>4

(* The promise OneDecision states is kept here too.  DecidedOnce has proved *)
(* it of the gateway's own module, where a sweep comes with a call: the     *)
(* answers the bridge gets do not depend on when the gateway sweeps.        *)
THEOREM GatewayAsPromised == Spec => Gateway!Spec
<1>1. Init => Gateway!Init /\ AllStanding
  <2>. SUFFICES ASSUME Init PROVE Gateway!Init /\ AllStanding
    OBVIOUS
  <2>1. Blank("none").phase = "none"
    BY DEF Blank
  <2>2. Seen = [r \in Requests |-> Gateway!Blank("none")]
    BY <2>1 DEF Init, Seen, Stamped, Blank, Gateway!Blank
  <2>3. AllStanding
    BY <2>1 DEF Init, AllStanding, Standing
  <2>. QED BY <2>2, <2>3 DEF Init, Gateway!Init
<1>2. TypeOK /\ TypeOK' /\ AllStanding /\ AllStanding' /\ [Next]_vars
        => [Gateway!Next]_<<now, Seen>>
  <2>. SUFFICES ASSUME TypeOK, TypeOK', AllStanding, AllStanding', [Next]_vars
                PROVE  Gateway!Next
    OBVIOUS
  <2>0. /\ now \in Nat /\ now' \in Nat
        /\ \A r \in Requests : gateway[r] \in GatewayRequest /\ gateway'[r] \in GatewayRequest
    BY BridgeAssumption DEF TypeOK, GatewayRequest
  <2>s. \A r \in Requests : Seen[r] = Stamped(gateway[r]) /\ Seen'[r] = Stamped(gateway'[r])
    BY DEF Seen
  <2>1. ASSUME NEW r \in Requests
        PROVE  /\ Seen'[r] \in [phase : Phases, expires : Nat, closed : Nat]
               /\ Seen'[r].phase = "pending" => now' < Seen'[r].expires
    <3>1. PICK b : b = gateway'[r]
      OBVIOUS
    <3>2. b \in GatewayRequest /\ (b.phase = "pending" => now' < b.expires)
      BY <2>0, <3>1 DEF AllStanding, Standing
    <3>3. Stamped(b) \in GatewayRequest
      BY <2>0, <3>2, StampCases
    <3>4. CASE b.phase = "expired"
      <4>1. Stamped(b) = [phase |-> "expired", expires |-> b.expires, closed |-> b.expires]
        BY <2>0, <3>2, <3>4, StampCases
      <4>. QED BY <2>s, <3>1, <3>3, <4>1 DEF GatewayRequest
    <3>5. CASE b.phase # "expired"
      <4>1. Stamped(b) = b
        BY <3>5 DEF Stamped
      <4>. QED BY <2>s, <3>1, <3>2, <3>3, <4>1 DEF GatewayRequest
    <3>. QED BY <3>4, <3>5
  <2>2. Seen' \in [Requests -> [phase : Gateway!Phases, expires : Nat, closed : Nat]]
    BY <2>1 DEF Seen, Gateway!Phases, Phases
  <2>3. CASE /\ now' = now
             /\ \A q \in Requests :
                  \/ gateway'[q] = gateway[q]
                  \/ /\ job[q] = "creating" /\ job'[q] = "created"
                     /\ gateway'[q] = Opened(now)
                  \/ /\ gateway[q].phase = "pending"
                     /\ \E phase \in {"cancelled", "allowed", "denied"} :
                          gateway'[q] = ClosedAs(gateway[q], phase, now)
    <3>1. ASSUME NEW r \in Requests
          PROVE  \/ Seen'[r] = Seen[r]
                 \/ Gateway!Opens(Seen[r], Seen'[r], now)
                 \/ Gateway!Settles(Seen[r], Seen'[r], now)
      <4>1. CASE gateway'[r] = gateway[r]
        BY <2>s, <4>1
      <4>2. CASE job[r] = "creating" /\ gateway'[r] = Opened(now)
        <5>1. gateway[r].phase = "none"
          BY <4>2 DEF AllStanding, Standing
        <5>. QED BY <2>0, <2>s, <4>2, <5>1, StampMoves
      <4>3. ASSUME NEW phase \in {"cancelled", "allowed", "denied"},
                   gateway[r].phase = "pending", gateway'[r] = ClosedAs(gateway[r], phase, now)
            PROVE  Gateway!Settles(Seen[r], Seen'[r], now)
        <5>1. now < gateway[r].expires
          BY <4>3 DEF AllStanding, Standing
        <5>. QED BY <2>0, <2>s, <4>3, <5>1, StampMoves
      <4>. QED BY <2>3, <4>1, <4>2, <4>3
    <3>. QED BY <2>1, <2>2, <2>3, <3>1 DEF Gateway!Next
  <2>4. CASE now' = now + 1 /\ gateway' = [r \in Requests |-> Swept(gateway[r], now')]
    <3>1. ASSUME NEW r \in Requests
          PROVE  \/ Seen'[r] = Seen[r]
                 \/ Gateway!RunsOut(Seen[r], Seen'[r], now')
                 \/ Gateway!Fades(Seen[r], Seen'[r], now')
      <4>1. gateway'[r] = Swept(gateway[r], now')
        BY <2>4
      <4>2. gateway[r].phase = "expired" => gateway[r].expires <= gateway[r].closed
        BY DEF AllStanding, Standing
      <4>. QED BY <2>0, <2>s, <4>1, <4>2, StampMoves
    <3>2. now' > now
      BY <2>0, <2>4
    <3>. QED BY <2>1, <2>2, <3>1, <3>2 DEF Gateway!Next
  <2>5. CASE /\ now' = now
             /\ gateway' = [r \in Requests |-> IF gateway[r].phase = "none"
                                               THEN gateway[r] ELSE Blank("forgotten")]
    <3>1. ASSUME NEW r \in Requests PROVE Seen'[r] = Gateway!Lost(Seen[r])
      <4>1. CASE gateway[r].phase = "none"
        <5>1. gateway'[r] = gateway[r] /\ Stamped(gateway[r]) = gateway[r]
          BY <2>5, <4>1 DEF Stamped
        <5>. QED BY <2>s, <4>1, <5>1 DEF Gateway!Lost
      <4>2. CASE gateway[r].phase # "none"
        <5>1. gateway'[r] = Blank("forgotten") /\ Stamped(Blank("forgotten")) = Blank("forgotten")
          BY <2>0, <2>5, <4>2, StampMoves
        <5>2. Stamped(gateway[r]).phase # "none"
          BY <2>0, <4>2, StampCases
        <5>. QED BY <2>s, <5>1, <5>2 DEF Gateway!Lost, Gateway!Blank, Blank
      <4>. QED BY <4>1, <4>2
    <3>2. Seen' = [r \in Requests |-> Gateway!Lost(Seen[r])]
      BY <3>1 DEF Seen
    <3>. QED BY <2>1, <2>2, <2>5, <3>2 DEF Gateway!Next
  <2>. QED BY <2>3, <2>4, <2>5, GatewaySteps
<1>. QED BY <1>1, <1>2, TypeCorrect, StandingKept, PTL DEF Spec, Gateway!Spec
===============================================================================
