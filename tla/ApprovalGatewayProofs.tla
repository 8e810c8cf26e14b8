------------------------ MODULE ApprovalGatewayProofs ------------------------
(* Proofs about ApprovalGateway for any requests, devices, times to live    *)
(* and number of presses and restarts.                                      *)
EXTENDS ApprovalGateway, TLAPS

Request == [phase : Phases, expires : Nat, closed : Nat]
Poll    == [at : {"idle", "asked", "held", "leaving"}, since : Int, rev : Nat]
View    == [list : [Requests -> Phases], run : Nat]
Pressed == [at : {"none", "register", "decide", "reregister", "redecide"},
            req : Requests \cup {Nobody}, allow : BOOLEAN]
Answers == Outcomes \cup {"nothing"}

(* What the assumptions say of the constants.                               *)
LEMMA Constants ==
  /\ Ttl \in Nat /\ KeepClosed \in Nat /\ KeepClosed > 0 /\ Screens \subseteq Devices
  /\ MaxTime \in Nat /\ MaxPresses \in Nat /\ MaxRestarts \in Nat
BY StoreAssumption, GatewayAssumption

(* The values a request takes.                                              *)
LEMMA RequestValues ==
  ASSUME NEW t \in Nat
  PROVE  /\ \A phase \in Phases : Blank(phase) \in Request
         /\ Opened(t) \in Request /\ Opened(t).phase = "pending"
         /\ \A a \in Request, phase \in Phases :
              /\ ClosedAs(a, phase, t) \in Request
              /\ ClosedAs(a, phase, t).phase = phase /\ ClosedAs(a, phase, t).closed = t
<1>1. \A phase \in Phases : Blank(phase) \in Request
  BY DEF Blank, Request
<1>2. Opened(t) \in Request /\ Opened(t).phase = "pending"
  BY Constants DEF Opened, Request, Phases
<1>3. ASSUME NEW a \in Request, NEW phase \in Phases
      PROVE  /\ ClosedAs(a, phase, t) \in Request
             /\ ClosedAs(a, phase, t).phase = phase /\ ClosedAs(a, phase, t).closed = t
  BY DEF ClosedAs, Request
<1>. QED BY <1>1, <1>2, <1>3

(* What a sweep makes of a request: time closes what is due, drops what was *)
(* closed long ago, and does nothing else.                                  *)
LEMMA SweptValues ==
  ASSUME NEW a \in Request, NEW t \in Nat
  PROVE  /\ Swept(a, t) \in Request
         /\ a.phase \in {"none", "forgotten"} => Swept(a, t) = a
         /\ a.phase = "pending" /\ ~Lapsed(a, t) => Swept(a, t) = a
         /\ Lapsed(a, t) => Swept(a, t).phase = "expired"
         /\ a.phase \in Closed => Swept(a, t).phase \in {a.phase, "forgotten"}
<1>1. {"expired", "forgotten"} \subseteq Phases
  BY DEF Phases
<1>2. CASE Lapsed(a, t)
  <2>1. Expire(a, t) = ClosedAs(a, "expired", t)
    BY <1>2 DEF Expire
  <2>2. Expire(a, t) \in Request /\ Expire(a, t).phase = "expired" /\ Expire(a, t).closed = t
    BY <1>1, <2>1, RequestValues
  <2>3. ~Outdated(Expire(a, t), t)
    BY <2>2, Constants DEF Outdated
  <2>4. Swept(a, t) = Expire(a, t)
    BY <2>3 DEF Swept
  <2>. QED BY <1>2, <2>2, <2>4 DEF Lapsed, Closed
<1>3. CASE ~Lapsed(a, t)
  <2>1. Expire(a, t) = a
    BY <1>3 DEF Expire
  <2>2. Swept(a, t) = IF Outdated(a, t) THEN Blank("forgotten") ELSE a
    BY <2>1 DEF Swept
  <2>3. Blank("forgotten") \in Request /\ Blank("forgotten").phase = "forgotten"
    BY <1>1, RequestValues DEF Blank
  <2>. QED BY <1>3, <2>2, <2>3 DEF Outdated, Closed
<1>. QED BY <1>2, <1>3

(* What a call sees after its sweep.                                        *)
LEMMA SweptAllType ==
  ASSUME TypeOK
  PROVE  /\ now \in Nat
         /\ SweptAll \in [Requests -> Request]
         /\ \A r \in Requests : store[r] \in Request /\ SweptAll[r] = Swept(store[r], now)
         /\ {r \in Requests : Lapsed(store[r], now)} \subseteq Requests
<1>1. now \in Nat /\ \A r \in Requests : store[r] \in Request
  BY Constants DEF TypeOK, Request
<1>. QED BY <1>1, SweptValues DEF SweptAll

(* A call leaves a store of requests.                                       *)
LEMMA StoreType ==
  ASSUME TypeOK, Sweep \/ \E r \in Requests, a \in Request : SweepAndPut(r, a)
  PROVE  store' \in [Requests -> Request] /\ due' \subseteq Requests /\ unbumped' \in Nat
<1>1. One(SweptAll # store) \in Nat
  BY DEF One
<1>2. due \subseteq Requests /\ unbumped \in Nat
  BY DEF TypeOK
<1>3. CASE Sweep
  BY <1>1, <1>2, <1>3, SweptAllType DEF Sweep
<1>4. CASE \E r \in Requests, a \in Request : SweepAndPut(r, a)
  BY <1>1, <1>2, <1>4, SweptAllType DEF SweepAndPut
<1>. QED BY <1>3, <1>4

(* The places of a poll.                                                    *)
LEMMA PollUpdates ==
  ASSUME NEW p \in Poll
  PROVE  /\ \A at \in {"idle", "asked", "held", "leaving"} : [p EXCEPT !.at = at] \in Poll
         /\ \A at \in {"idle", "asked", "held", "leaving"}, n \in Nat :
              [p EXCEPT !.at = at, !.rev = n] \in Poll
         /\ Idle \in Poll
<1>1. \A at \in {"idle", "asked", "held", "leaving"} : [p EXCEPT !.at = at] \in Poll
  BY DEF Poll
<1>2. \A at \in {"idle", "asked", "held", "leaving"}, n \in Nat :
        [p EXCEPT !.at = at, !.rev = n] \in Poll
  BY DEF Poll
<1>3. Fresh \in Int
  BY DEF Fresh
<1>4. Idle \in Poll
  BY <1>3 DEF Poll, Idle
<1>. QED BY <1>1, <1>2, <1>4

(* A call that decides, whatever it finds.                                  *)
LEMMA DecideParts ==
  ASSUME NEW d \in Devices, Decide(d)
  PROVE  /\ press[d].at \in {"decide", "redecide"} /\ d \in approvers
         /\ UNCHANGED <<now, restarts, rev, announced, approvers, screenVars, registered, presses>>
         /\ \/ /\ Takes(press[d].req)
               /\ \E phase \in {"allowed", "denied"} :
                    SweepAndPut(press[d].req, ClosedAs(store[press[d].req], phase, now))
               /\ owed' = owed \cup {press[d].req}
               /\ winner' = [winner EXCEPT ![press[d].req] = d]
               /\ \E o \in {"accepted", "unreachable"} : Tell(d, o)
            \/ /\ ~Takes(press[d].req) /\ Sweep
               /\ \E o \in {"unreachable", "unknown", "closed"} : Tell(d, o)
               /\ UNCHANGED <<owed, winner>>
BY DEF Decide

-----------------------------------------------------------------------------
(* A press on its way is about a request.                                   *)
PressInv == \A d \in Devices : press[d].at # "none" => press[d].req \in Requests

(* An answer to a press is written down as one of the outcomes.             *)
LEMMA TellType ==
  ASSUME TypeOK, PressInv, NEW d \in Devices, press[d].at # "none", NEW o \in Outcomes, Tell(d, o)
  PROVE  /\ told' \in [Devices -> [Requests -> Answers]] /\ press' \in [Devices -> Pressed]
         /\ PressInv'
<1>1. press \in [Devices -> Pressed] /\ told \in [Devices -> [Requests -> Answers]]
  BY DEF TypeOK, Pressed, Answers
<1>2. NoPress \in Pressed /\ NoPress.at = "none"
  BY DEF NoPress, Pressed
<1>. QED BY <1>1, <1>2 DEF Tell, PressInv, Answers

(* Types, with what a press under way knows.                                *)
LEMMA Typed == Spec => [](TypeOK /\ PressInv)
<1>1. Init => TypeOK /\ PressInv
  <2>. SUFFICES ASSUME Init PROVE TypeOK /\ PressInv
    OBVIOUS
  <2>1. Blanks \in [Requests -> Request] /\ Listed(Blanks) \in [Requests -> Phases]
    BY DEF Blanks, Listed, Blank, Request, Phases
  <2>2. Idle \in Poll /\ NoPress \in Pressed /\ NoPress.at = "none"
    BY DEF Idle, Fresh, Poll, NoPress, Pressed
  <2>. QED BY <2>1, <2>2, Constants DEF Init, TypeOK, PressInv, Request, Poll, Pressed
<1>2. TypeOK /\ PressInv /\ [Next]_vars => TypeOK' /\ PressInv'
  <2>. SUFFICES ASSUME TypeOK, PressInv, [Next]_vars PROVE TypeOK' /\ PressInv'
    OBVIOUS
  <2>0. /\ store \in [Requests -> Request] /\ poll \in [Screens -> Poll]
        /\ view \in [Screens -> View] /\ press \in [Devices -> Pressed]
        /\ told \in [Devices -> [Requests -> Answers]]
        /\ now \in 0..MaxTime /\ restarts \in 0..MaxRestarts /\ presses \in 0..MaxPresses
        /\ rev \in Nat /\ unbumped \in Nat
    BY DEF TypeOK, Request, Poll, View, Pressed, Answers
  <2>a. ASSUME store' \in [Requests -> Request], due' \subseteq Requests, owed' \subseteq Requests,
               unbumped' \in Nat,
               UNCHANGED <<now, restarts, rev, announced, approvers, screenVars, decideVars>>
        PROVE  TypeOK' /\ PressInv'
    BY <2>a DEF TypeOK, PressInv, screenVars, decideVars, Request
  <2>b. ASSUME store' \in [Requests -> Request], due' \subseteq Requests, unbumped' \in Nat,
               announced' \in [Requests -> Nat], poll' \in [Screens -> Poll], view' \in [Screens -> View],
               UNCHANGED <<now, restarts, rev, owed, approvers, decideVars>>
        PROVE  TypeOK' /\ PressInv'
    BY <2>b DEF TypeOK, PressInv, decideVars, Request, Poll, View
  <2>c. ASSUME press' \in [Devices -> Pressed], told' \in [Devices -> [Requests -> Answers]], PressInv',
               approvers' \subseteq Devices, registered' \subseteq Devices, presses' \in 0..MaxPresses,
               UNCHANGED <<now, restarts, storeVars, rev, owed, announced, screenVars, winner>>
        PROVE  TypeOK' /\ PressInv'
    BY <2>c DEF TypeOK, storeVars, screenVars, Pressed, Answers
  <2>1. CASE Bump
    BY <2>1 DEF Bump, TypeOK, PressInv, screenVars, decideVars
  <2>2. ASSUME NEW r \in Requests, Create(r) PROVE TypeOK' /\ PressInv'
    <3>1. Opened(now) \in Request
      BY SweptAllType, RequestValues
    <3>2. Sweep \/ SweepAndPut(r, Opened(now))
      BY <2>2 DEF Create
    <3>. QED BY <2>2, <2>a, <3>1, <3>2, StoreType DEF Create, TypeOK
  <2>3. ASSUME NEW r \in Requests, Cancel(r) PROVE TypeOK' /\ PressInv'
    <3>1. ClosedAs(store[r], "cancelled", now) \in Request
      BY SweptAllType, RequestValues DEF Phases
    <3>2. Sweep \/ SweepAndPut(r, ClosedAs(store[r], "cancelled", now))
      BY <2>3 DEF Cancel
    <3>. QED BY <2>3, <2>a, <3>1, <3>2, StoreType DEF Cancel, TypeOK
  <2>4. ASSUME NEW r \in Requests, Announce(r) PROVE TypeOK' /\ PressInv'
    BY <2>4 DEF Announce, TypeOK, PressInv, storeVars, screenVars, decideVars
  <2>5. ASSUME NEW d \in Screens, AskList(d) \/ Rouse(d) \/ PollFails(d) PROVE TypeOK' /\ PressInv'
    <3>1. [poll[d] EXCEPT !.at = "asked"] \in Poll /\ Idle \in Poll
      BY <2>0, PollUpdates
    <3>2. poll' \in {[poll EXCEPT ![d] = [poll[d] EXCEPT !.at = "asked"]], [poll EXCEPT ![d] = Idle]}
      BY <2>5 DEF AskList, Rouse, PollFails
    <3>3. poll' \in [Screens -> Poll]
      BY <2>0, <3>1, <3>2
    <3>. QED BY <2>0, <2>5, <2>b, <3>3 DEF AskList, Rouse, PollFails, storeVars, TypeOK
  <2>6. ASSUME NEW d \in Screens, Hold(d) \/ WaitOver(d) PROVE TypeOK' /\ PressInv'
    <3>1. poll' \in [Screens -> Poll]
      <4>1. \A at \in {"held", "leaving"} : [poll[d] EXCEPT !.at = at, !.rev = rev] \in Poll
        BY <2>0, PollUpdates
      <4>2. \E at \in {"held", "leaving"} :
              poll' = [poll EXCEPT ![d] = [poll[d] EXCEPT !.at = at, !.rev = rev]]
        BY <2>6 DEF Hold, WaitOver
      <4>. QED BY <2>0, <4>1, <4>2
    <3>2. Sweep
      BY <2>6 DEF Hold, WaitOver
    <3>. QED BY <2>0, <2>6, <2>b, <3>1, <3>2, StoreType DEF Hold, WaitOver, TypeOK
  <2>7. ASSUME NEW d \in Screens, List(d) PROVE TypeOK' /\ PressInv'
    <3>. DEFINE queue == due \cup {r \in Requests : Lapsed(store[r], now)}
    <3>1. store' \in [Requests -> Request] /\ unbumped' \in Nat
      BY <2>0, <2>7, SweptAllType DEF List, One
    <3>2. Listed(SweptAll) \in [Requests -> Phases]
      BY SweptAllType DEF Listed, Request
    <3>3. view' \in [Screens -> View]
      BY <2>0, <2>7, <3>2 DEF List, View
    <3>4. poll' \in [Screens -> Poll]
      BY <2>0, <2>7 DEF List, Poll
    <3>5. announced' \in [Requests -> Nat] /\ due' \subseteq Requests
      BY <2>7 DEF List, NotifyExpired, One, TypeOK
    <3>. QED BY <2>7, <2>b, <3>1, <3>3, <3>4, <3>5 DEF List
  <2>8. ASSUME NEW d \in Devices, NEW r \in Requests, NEW allow \in BOOLEAN, Press(d, r, allow)
        PROVE  TypeOK' /\ PressInv'
    <3>1. press' \in [Devices -> Pressed] /\ PressInv'
      BY <2>0, <2>8 DEF Press, Pressed, PressInv
    <3>2. presses' \in 0..MaxPresses
      BY <2>0, <2>8, Constants DEF Press
    <3>. QED BY <2>0, <2>8, <2>c, <3>1, <3>2 DEF Press, TypeOK
  <2>9. ASSUME NEW d \in Devices, Register(d) PROVE TypeOK' /\ PressInv'
    <3>1. press' \in [Devices -> Pressed] /\ PressInv'
      BY <2>0, <2>9 DEF Register, Pressed, PressInv
    <3>. QED BY <2>0, <2>9, <2>c, <3>1 DEF Register, TypeOK
  <2>10. ASSUME NEW d \in Devices, Keyless(d) PROVE TypeOK' /\ PressInv'
    <3>1. CASE press' = [press EXCEPT ![d].at = "reregister"] /\ UNCHANGED told
      <4>1. press' \in [Devices -> Pressed] /\ PressInv'
        BY <2>0, <2>10, <3>1 DEF Keyless, Pressed, PressInv
      <4>. QED BY <2>0, <2>10, <2>c, <3>1, <4>1 DEF Keyless, TypeOK
    <3>2. CASE Tell(d, "keyless")
      <4>1. press[d].at # "none" /\ "keyless" \in Outcomes
        BY <2>10 DEF Keyless, Outcomes
      <4>. QED BY <2>0, <2>10, <2>c, <3>2, <4>1, TellType DEF Keyless, TypeOK
    <3>. QED BY <2>10, <3>1, <3>2 DEF Keyless
  <2>11. ASSUME NEW d \in Devices, Decide(d) PROVE TypeOK' /\ PressInv'
    <3>0. press[d].at # "none" /\ press[d].req \in Requests
      BY <2>11 DEF Decide, PressInv
    <3>1. \E o \in Outcomes : Tell(d, o)
      BY <2>11, DecideParts DEF Outcomes
    <3>2. /\ told' \in [Devices -> [Requests -> Answers]] /\ press' \in [Devices -> Pressed]
          /\ PressInv'
      BY <3>0, <3>1, TellType
    <3>3. Sweep \/ \E a \in Request : SweepAndPut(press[d].req, a)
      <4>1. \A phase \in {"allowed", "denied"} : ClosedAs(store[press[d].req], phase, now) \in Request
        BY <3>0, SweptAllType, RequestValues DEF Phases
      <4>. QED BY <2>11, <4>1, DecideParts
    <3>4. store' \in [Requests -> Request] /\ due' \subseteq Requests /\ unbumped' \in Nat
      BY <3>0, <3>3, StoreType
    <3>5. owed' \subseteq Requests /\ winner' \in [Requests -> Devices \cup {Nobody}]
      BY <2>11, <3>0, DecideParts DEF TypeOK
    <3>6. UNCHANGED <<now, restarts, rev, announced, approvers, screenVars, registered, presses>>
      BY <2>11, DecideParts
    <3>. QED BY <3>2, <3>4, <3>5, <3>6 DEF TypeOK, screenVars, Request, Pressed, Answers
  <2>12. CASE Restart
    <3>1. store' \in [Requests -> Request]
      BY <2>0, <2>12, RequestValues DEF Restart, Phases
    <3>2. poll' \in [Screens -> Poll]
      BY <2>0, <2>12, PollUpdates DEF Restart
    <3>3. restarts' \in 0..MaxRestarts
      BY <2>0, <2>12, Constants DEF Restart
    <3>. QED BY <2>12, <3>1, <3>2, <3>3 DEF Restart, TypeOK, PressInv, decideVars, Request, Poll
  <2>13. CASE Tick
    <3>1. now' \in 0..MaxTime
      BY <2>0, <2>13, Constants DEF Tick
    <3>. QED BY <2>13, <3>1 DEF Tick, TypeOK, PressInv, storeVars, screenVars, decideVars
  <2>14. CASE UNCHANGED vars
    BY <2>14 DEF vars, TypeOK, PressInv
  <2>. QED BY <2>1, <2>2, <2>3, <2>4, <2>5, <2>6, <2>7, <2>8, <2>9, <2>10, <2>11, <2>12, <2>13,
              <2>14 DEF Next
<1>. QED BY <1>1, <1>2, PTL DEF Spec

(* Every variable keeps its type.                                           *)
THEOREM TypeCorrect == Spec => []TypeOK
BY Typed, PTL

-----------------------------------------------------------------------------
(* What the calls do to the store, to the request they are about and to the *)
(* queue of the requests time has closed.                                   *)
Quiet(r)    == store'[r] = SweptAll[r] /\ (r \in due' <=> r \in due \/ Lapsed(store[r], now))

(* A sweep alone leaves every request as it was seen.                       *)
LEMMA SweepParts ==
  ASSUME TypeOK, Sweep
  PROVE  \A r \in Requests : Quiet(r)
BY SweptAllType DEF Sweep, Quiet

(* A change of one request leaves the others as they were seen.             *)
LEMMA PutParts ==
  ASSUME TypeOK, NEW r \in Requests, NEW a \in Request, SweepAndPut(r, a)
  PROVE  /\ \A q \in Requests \ {r} : Quiet(q)
         /\ store'[r] = a /\ (r \in due' <=> r \in due \/ Lapsed(store[r], now))
BY SweptAllType DEF SweepAndPut, Quiet

(* A pending request that a sweep leaves is the same and not due.           *)
LEMMA StillPending ==
  ASSUME TypeOK, NEW r \in Requests, SweptAll[r].phase = "pending"
  PROVE  store[r].phase = "pending" /\ ~Lapsed(store[r], now)
<1>1. store[r] \in Request /\ SweptAll[r] = Swept(store[r], now) /\ now \in Nat
  BY SweptAllType
<1>2. store[r].phase \in {"none", "forgotten", "pending"} \cup Closed
  BY <1>1 DEF Request, Phases, Closed
<1>. QED BY <1>1, <1>2, SweptValues DEF Closed

-----------------------------------------------------------------------------
(* Announcements.  A request is counted once, from the moment it closes: in *)
(* one of the two queues or among those told.                               *)
Count(r) == announced[r] + One(r \in owed) + One(r \in due)

Counted(r) ==
  /\ Count(r) <= 1
  /\ store[r].phase \in Closed => Count(r) = 1
  /\ store[r].phase \in {"none", "pending"} => Count(r) = 0

(* The parts of the count of announcements.                                 *)
LEMMA CountValues ==
  ASSUME TypeOK, NEW r \in Requests
  PROVE  /\ announced[r] \in Nat /\ One(r \in owed) \in {0, 1} /\ One(r \in due) \in {0, 1}
         /\ Count(r) = 0 => r \notin owed /\ r \notin due /\ announced[r] = 0
<1>1. announced[r] \in Nat /\ One(r \in owed) \in {0, 1} /\ One(r \in due) \in {0, 1}
  BY DEF TypeOK, One
<1>. QED BY <1>1 DEF Count, One

(* A sweep keeps the count: what it closes joins the queue.                 *)
LEMMA QuietCounted ==
  ASSUME TypeOK, NEW r \in Requests, Counted(r), Quiet(r), announced' = announced,
         r \in owed' <=> r \in owed
  PROVE  Counted(r)'
<1>1. store[r] \in Request /\ store'[r] = Swept(store[r], now) /\ now \in Nat
  BY SweptAllType DEF Quiet
<1>2. CASE Lapsed(store[r], now)
  <2>1. Count(r) = 0 /\ r \in due'
    BY <1>2 DEF Lapsed, Counted, Quiet
  <2>2. Count(r)' = 1
    BY <2>1, CountValues DEF Count, One
  <2>. QED BY <1>1, <1>2, <2>2, SweptValues DEF Counted
<1>3. CASE ~Lapsed(store[r], now)
  <2>1. Count(r)' = Count(r)
    BY <1>3 DEF Count, One, Quiet
  <2>2. store[r].phase \in {"none", "forgotten", "pending"} \cup Closed
    BY <1>1 DEF Request, Phases, Closed
  <2>. QED BY <1>1, <1>3, <2>1, <2>2, SweptValues DEF Counted, Closed
<1>. QED BY <1>2, <1>3

(* The decision on a pending request, and its withdrawal, owe one.          *)
LEMMA ClosingCounted ==
  ASSUME TypeOK, NEW r \in Requests, \A q \in Requests : Counted(q),
         SweptAll[r].phase = "pending", NEW a \in Request, a.phase \in Closed,
         SweepAndPut(r, a), owed' = owed \cup {r}, announced' = announced,
         NEW q \in Requests
  PROVE  Counted(q)'
<1>1. CASE q = r
  <2>1. Count(r) = 0 /\ ~Lapsed(store[r], now)
    BY StillPending DEF Counted
  <2>2. Count(r)' = 1
    BY <2>1, CountValues, PutParts DEF Count, One
  <2>. QED BY <1>1, <2>2, PutParts DEF Counted, Closed
<1>2. CASE q # r
  BY <1>2, PutParts, QuietCounted
<1>. QED BY <1>1, <1>2

(* The phones are told once of every request that closes, whichever call    *)
(* notices (sweep(), list(), decide(), cancel()).                           *)
THEOREM ToldOnce == Spec => []ClosedIsAnnouncedOnce
<1>. DEFINE Inv == \A r \in Requests : Counted(r)
<1>1. Init => Inv
  BY DEF Init, Counted, Count, One, Blanks, Blank, Closed
<1>2. TypeOK /\ PressInv /\ Inv /\ [Next]_vars => Inv'
  <2>. SUFFICES ASSUME TypeOK, PressInv, Inv, [Next]_vars PROVE Inv'
    OBVIOUS
  <2>u. ASSUME UNCHANGED <<store, due, owed, announced>> PROVE Inv'
    BY <2>u DEF Counted, Count
  <2>s. ASSUME Sweep, UNCHANGED <<owed, announced>> PROVE Inv'
    BY <2>s, SweepParts, QuietCounted
  <2>1. CASE Bump
    BY <2>1, <2>u DEF Bump
  <2>2. ASSUME NEW r \in Requests, Create(r) PROVE Inv'
    <3>1. CASE Sweep
      BY <2>2, <2>s, <3>1 DEF Create
    <3>2. CASE SweepAndPut(r, Opened(now))
      <4>1. Opened(now) \in Request /\ Opened(now).phase = "pending"
        BY SweptAllType, RequestValues
      <4>2. Count(r) = 0 /\ ~Lapsed(store[r], now)
        BY <2>2 DEF Create, Counted, Lapsed
      <4>3. Count(r)' = 0
        BY <2>2, <3>2, <4>1, <4>2, CountValues, PutParts DEF Create, Count, One
      <4>4. Counted(r)'
        BY <3>2, <4>1, <4>3, PutParts DEF Counted, Closed
      <4>5. \A q \in Requests \ {r} : Counted(q)'
        BY <2>2, <3>2, <4>1, PutParts, QuietCounted DEF Create
      <4>. QED BY <4>4, <4>5
    <3>. QED BY <2>2, <3>1, <3>2 DEF Create
  <2>3. ASSUME NEW r \in Requests, Cancel(r) PROVE Inv'
    <3>1. CASE SweptAll[r].phase = "pending"
      <4>1. ClosedAs(store[r], "cancelled", now) \in Request
            /\ ClosedAs(store[r], "cancelled", now).phase = "cancelled"
        BY SweptAllType, RequestValues DEF Phases
      <4>. QED BY <2>3, <3>1, <4>1, ClosingCounted DEF Cancel, Closed
    <3>2. CASE SweptAll[r].phase # "pending"
      BY <2>3, <2>s, <3>2 DEF Cancel
    <3>. QED BY <3>1, <3>2
  <2>4. ASSUME NEW r \in Requests, Announce(r) PROVE Inv'
    <3>1. UNCHANGED <<store, due>> /\ announced \in [Requests -> Nat]
      BY <2>4 DEF Announce, storeVars, TypeOK
    <3>2. Count(r)' = Count(r)
      BY <2>4, <3>1, CountValues DEF Announce, Count, One
    <3>3. \A q \in Requests \ {r} : Count(q)' = Count(q)
      BY <2>4, <3>1 DEF Announce, Count, One
    <3>. QED BY <3>1, <3>2, <3>3 DEF Counted
  <2>5. ASSUME NEW d \in Screens, AskList(d) \/ Rouse(d) \/ PollFails(d) PROVE Inv'
    BY <2>5, <2>u DEF AskList, Rouse, PollFails, storeVars
  <2>6. ASSUME NEW d \in Screens, Hold(d) \/ WaitOver(d) PROVE Inv'
    BY <2>6, <2>s DEF Hold, WaitOver
  <2>7. ASSUME NEW d \in Screens, List(d), NEW r \in Requests PROVE Counted(r)'
    <3>. DEFINE queue == due \cup {q \in Requests : Lapsed(store[q], now)}
    <3>1. /\ store[r] \in Request /\ store'[r] = Swept(store[r], now) /\ now \in Nat
          /\ announced'[r] = announced[r] + One(r \in queue) /\ due' = {} /\ owed' = owed
      BY <2>7, SweptAllType DEF List, NotifyExpired
    <3>2. Count(r)' = announced[r] + One(r \in queue) + One(r \in owed)
      BY <3>1, CountValues DEF Count, One
    <3>3. CASE Lapsed(store[r], now)
      <4>1. Count(r) = 0
        BY <3>3 DEF Lapsed, Counted
      <4>2. Count(r)' = 1
        BY <3>2, <3>3, <4>1, CountValues DEF One
      <4>. QED BY <3>1, <3>3, <4>2, SweptValues DEF Counted
    <3>4. CASE ~Lapsed(store[r], now)
      <4>1. Count(r)' = Count(r)
        BY <3>2, <3>4, CountValues DEF Count, One
      <4>2. store[r].phase \in {"none", "forgotten", "pending"} \cup Closed
        BY <3>1 DEF Request, Phases, Closed
      <4>. QED BY <3>1, <3>4, <4>1, <4>2, SweptValues DEF Counted, Closed
    <3>. QED BY <3>3, <3>4
  <2>8. ASSUME NEW d \in Devices, NEW r \in Requests, NEW allow \in BOOLEAN, Press(d, r, allow)
        PROVE  Inv'
    BY <2>8, <2>u DEF Press, storeVars
  <2>9. ASSUME NEW d \in Devices, Register(d) \/ Keyless(d) PROVE Inv'
    BY <2>9, <2>u DEF Register, Keyless, storeVars
  <2>10. ASSUME NEW d \in Devices, Decide(d) PROVE Inv'
    <3>. DEFINE r == press[d].req
    <3>1. announced' = announced /\ r \in Requests
      BY <2>10, DecideParts DEF PressInv
    <3>2. CASE Takes(r)
      <4>1. PICK phase \in {"allowed", "denied"} : SweepAndPut(r, ClosedAs(store[r], phase, now))
        BY <2>10, <3>2, DecideParts
      <4>2. /\ ClosedAs(store[r], phase, now) \in Request
            /\ ClosedAs(store[r], phase, now).phase \in Closed
        BY <3>1, SweptAllType, RequestValues DEF Phases, Closed
      <4>3. owed' = owed \cup {r}
        BY <2>10, <3>2, DecideParts
      <4>. QED BY <3>1, <3>2, <4>1, <4>2, <4>3, ClosingCounted DEF Takes
    <3>3. CASE ~Takes(r)
      BY <2>10, <2>s, <3>1, <3>3, DecideParts
    <3>. QED BY <3>2, <3>3
  <2>11. CASE Restart
    <3>1. ASSUME NEW r \in Requests PROVE Counted(r)'
      <4>1. announced'[r] = announced[r] /\ due' = {} /\ owed' = {}
        BY <2>11 DEF Restart
      <4>2. Count(r) <= 1 /\ (store[r].phase = "none" => Count(r) = 0)
        BY DEF Counted
      <4>3. Count(r)' = announced[r] /\ announced[r] <= Count(r) /\ announced[r] \in Nat
        BY <4>1, CountValues DEF Count, One
      <4>4. store'[r].phase = "forgotten" \/ (store'[r].phase = "none" /\ store[r].phase = "none")
        BY <2>11 DEF Restart, Blank
      <4>5. Count(r) \in Nat
        BY CountValues DEF Count
      <4>. QED BY <4>2, <4>3, <4>4, <4>5 DEF Counted, Closed
    <3>. QED BY <3>1
  <2>12. CASE Tick
    BY <2>12, <2>u DEF Tick, storeVars
  <2>13. CASE UNCHANGED vars
    BY <2>13, <2>u DEF vars
  <2>. QED BY <2>1, <2>2, <2>3, <2>4, <2>5, <2>6, <2>7, <2>8, <2>9, <2>10, <2>11, <2>12, <2>13
           DEF Next
<1>3. TypeOK /\ Inv => ClosedIsAnnouncedOnce
  BY CountValues DEF ClosedIsAnnouncedOnce, Counted, Count
<1>. QED BY <1>1, <1>2, <1>3, Typed, PTL DEF Spec

-----------------------------------------------------------------------------
(* Decisions.  A request that closed is offered no more.                    *)
Past(r) == store[r].phase \in Closed \cup {"forgotten"}

(* What is over stays over.                                                 *)
LEMMA PastStays ==
  ASSUME TypeOK, PressInv, [Next]_vars, NEW r \in Requests, Past(r)
  PROVE  Past(r)'
<1>0. store[r] \in Request /\ now \in Nat
  BY SweptAllType
<1>q. Quiet(r) => Past(r)'
  BY <1>0, SweptAllType, SweptValues DEF Past, Quiet, Closed
<1>s. Sweep => Past(r)'
  BY <1>q, SweepParts
<1>u. UNCHANGED store => Past(r)'
  BY DEF Past
<1>p. ASSUME NEW q \in Requests, NEW phase \in {"cancelled", "allowed", "denied"},
             SweepAndPut(q, ClosedAs(store[q], phase, now))
      PROVE  Past(r)'
  <2>1. ClosedAs(store[q], phase, now) \in Request /\ ClosedAs(store[q], phase, now).phase = phase
    BY SweptAllType, RequestValues DEF Phases
  <2>. QED BY <1>p, <1>q, <2>1, PutParts DEF Past, Closed
<1>1. ASSUME NEW q \in Requests, Create(q) PROVE Past(r)'
  <2>1. q # r
    BY <1>1 DEF Create, Past, Closed
  <2>2. SweepAndPut(q, Opened(now)) => Past(r)'
    BY <1>q, <2>1, SweptAllType, RequestValues, PutParts
  <2>. QED BY <1>1, <1>s, <2>2 DEF Create
<1>2. ASSUME NEW q \in Requests, Cancel(q) PROVE Past(r)'
  BY <1>2, <1>p, <1>s DEF Cancel
<1>3. ASSUME NEW q \in Requests, Announce(q) PROVE Past(r)'
  BY <1>3, <1>u DEF Announce, storeVars
<1>4. ASSUME NEW d \in Screens, AskList(d) \/ Rouse(d) \/ PollFails(d) PROVE Past(r)'
  BY <1>4, <1>u DEF AskList, Rouse, PollFails, storeVars
<1>5. ASSUME NEW d \in Screens, Hold(d) \/ WaitOver(d) PROVE Past(r)'
  BY <1>5, <1>s DEF Hold, WaitOver
<1>6. ASSUME NEW d \in Screens, List(d) PROVE Past(r)'
  BY <1>0, <1>6, SweptAllType, SweptValues DEF List, Past, Closed
<1>7. ASSUME NEW d \in Devices, NEW q \in Requests, NEW allow \in BOOLEAN, Press(d, q, allow)
      PROVE  Past(r)'
  BY <1>7, <1>u DEF Press, storeVars
<1>8. ASSUME NEW d \in Devices, Register(d) \/ Keyless(d) PROVE Past(r)'
  BY <1>8, <1>u DEF Register, Keyless, storeVars
<1>9. ASSUME NEW d \in Devices, Decide(d) PROVE Past(r)'
  <2>1. press[d].req \in Requests
    BY <1>9, DecideParts DEF PressInv
  <2>. QED BY <1>9, <1>p, <1>s, <2>1, DecideParts
<1>10. CASE Restart
  BY <1>10 DEF Restart, Past, Blank, Closed
<1>11. CASE Bump \/ Tick \/ UNCHANGED vars
  BY <1>11, <1>u DEF Bump, Tick, vars, storeVars
<1>. QED BY <1>1, <1>2, <1>3, <1>4, <1>5, <1>6, <1>7, <1>8, <1>9, <1>10, <1>11 DEF Next

(* What was told is about a request that closed, and names its winner.      *)
WinnerInv ==
  \A d \in Devices, r \in Requests : told[d][r] = "accepted" => winner[r] = d /\ Past(r)

(* Of all the devices that answer a request, one is told it decided, and    *)
(* it did (decide()): a request is taken from pending, to which no request  *)
(* comes back, so an earlier winner is never overwritten.                   *)
THEOREM WonOnce == Spec => []OneWinner
<1>1. Init => WinnerInv
  BY DEF Init, WinnerInv
<1>2. TypeOK /\ PressInv /\ WinnerInv /\ [Next]_vars => WinnerInv'
  <2>. SUFFICES ASSUME TypeOK, PressInv, WinnerInv, [Next]_vars PROVE WinnerInv'
    OBVIOUS
  <2>u. ASSUME UNCHANGED <<told, winner>> PROVE WinnerInv'
    BY <2>u, PastStays DEF WinnerInv
  <2>0. /\ press \in [Devices -> Pressed] /\ told \in [Devices -> [Requests -> Answers]]
        /\ winner \in [Requests -> Devices \cup {Nobody}]
    BY DEF TypeOK, Pressed, Answers
  <2>t. ASSUME NEW d \in Devices, NEW o, o # "accepted", Tell(d, o), winner' = winner
        PROVE  WinnerInv'
    <3>1. \A e \in Devices, r \in Requests : told'[e][r] = "accepted" => told[e][r] = "accepted"
      BY <2>0, <2>t DEF Tell
    <3>. QED BY <2>t, <3>1, PastStays DEF WinnerInv
  <2>1. ASSUME NEW d \in Devices, Decide(d) PROVE WinnerInv'
    <3>1. PICK r \in Requests : r = press[d].req
      BY <2>1, DecideParts DEF PressInv
    <3>2. CASE Takes(r)
      <4>1. ~Past(r)
        BY <3>1, <3>2, StillPending DEF Takes, Past, Closed
      <4>2. Past(r)'
        <5>1. PICK phase \in {"allowed", "denied"} : SweepAndPut(r, ClosedAs(store[r], phase, now))
          BY <2>1, <3>1, <3>2, DecideParts
        <5>2. ClosedAs(store[r], phase, now) \in Request /\ ClosedAs(store[r], phase, now).phase = phase
          BY <3>1, SweptAllType, RequestValues DEF Phases
        <5>. QED BY <3>1, <5>1, <5>2, PutParts DEF Past, Closed
      <4>3. winner' = [winner EXCEPT ![r] = d] /\ \E o \in {"accepted", "unreachable"} : Tell(d, o)
        BY <2>1, <3>1, <3>2, DecideParts
      <4>4. \A e \in Devices : told[e][r] # "accepted"
        BY <3>1, <4>1 DEF WinnerInv
      <4>5. \A e \in Devices : told'[e][r] = "accepted" => e = d
        BY <2>0, <3>1, <4>3, <4>4 DEF Tell
      <4>6. \A e \in Devices, q \in Requests \ {r} : told'[e][q] = told[e][q] /\ winner'[q] = winner[q]
        BY <2>0, <3>1, <4>3 DEF Tell
      <4>7. winner'[r] = d
        BY <2>0, <3>1, <4>3
      <4>. QED BY <4>2, <4>5, <4>6, <4>7, PastStays DEF WinnerInv
    <3>3. CASE ~Takes(r)
      BY <2>1, <2>t, <3>1, <3>3, DecideParts
    <3>. QED BY <3>2, <3>3
  <2>2. ASSUME NEW d \in Devices, Keyless(d) PROVE WinnerInv'
    BY <2>2, <2>t, <2>u DEF Keyless
  <2>3. ASSUME NEW d \in Devices, Register(d) PROVE WinnerInv'
    BY <2>3, <2>u DEF Register
  <2>4. ASSUME NEW d \in Devices, NEW r \in Requests, NEW allow \in BOOLEAN, Press(d, r, allow)
        PROVE  WinnerInv'
    BY <2>4, <2>u DEF Press
  <2>5. ASSUME UNCHANGED decideVars PROVE WinnerInv'
    BY <2>5, <2>u DEF decideVars
  <2>6. ASSUME NEW r \in Requests, Create(r) \/ Cancel(r) \/ Announce(r) PROVE UNCHANGED decideVars
    BY <2>6 DEF Create, Cancel, Announce
  <2>7. ASSUME NEW d \in Screens, AskList(d) \/ Hold(d) \/ Rouse(d) \/ WaitOver(d) \/ List(d) \/ PollFails(d)
        PROVE  UNCHANGED decideVars
    BY <2>7 DEF AskList, Hold, Rouse, WaitOver, List, PollFails
  <2>8. CASE Bump \/ Restart \/ Tick \/ UNCHANGED vars
    BY <2>8, <2>u DEF Bump, Restart, Tick, vars, decideVars
  <2>. QED BY <2>1, <2>2, <2>3, <2>4, <2>5, <2>6, <2>7, <2>8 DEF Next
<1>3. WinnerInv => OneWinner
  BY DEF WinnerInv, OneWinner
<1>. QED BY <1>1, <1>2, <1>3, Typed, PTL DEF Spec

-----------------------------------------------------------------------------
(* Keys.  What is missing at the gateway a restart has lost, and a press    *)
(* that registered again and misses it once more has seen two.              *)
KeyInv ==
  \A d \in Devices :
    /\ d \in registered \ approvers => restarts >= 1
    /\ press[d].at = "decide" /\ d \notin approvers => restarts >= 1
    /\ press[d].at \in {"reregister", "redecide"} => restarts >= 1
    /\ press[d].at = "redecide" /\ d \notin approvers => restarts >= 2
    /\ \A r \in Requests : told[d][r] = "keyless" => restarts >= 2

(* A restart of the gateway, which forgets every key, costs nobody a press  *)
(* (decide() of device_approvals.rs registers once more).                   *)
THEOREM KeysRenewed == Spec => []NotRefusedForKey
<1>1. Init => KeyInv
  BY DEF Init, KeyInv, NoPress
<1>2. TypeOK /\ PressInv /\ KeyInv /\ [Next]_vars => KeyInv'
  <2>. SUFFICES ASSUME TypeOK, PressInv, KeyInv, [Next]_vars PROVE KeyInv'
    OBVIOUS
  <2>0. /\ press \in [Devices -> Pressed] /\ told \in [Devices -> [Requests -> Answers]]
        /\ restarts \in Nat
    BY Constants DEF TypeOK, Pressed, Answers
  <2>u. ASSUME UNCHANGED <<restarts, approvers, registered, press, told>> PROVE KeyInv'
    BY <2>u DEF KeyInv
  <2>1. ASSUME NEW d \in Devices, Decide(d) PROVE KeyInv'
    <3>1. UNCHANGED <<restarts, approvers, registered>>
      BY <2>1, DecideParts
    <3>2. PICK o \in Answers \ {"keyless"} : Tell(d, o)
      BY <2>1, DecideParts DEF Answers, Outcomes
    <3>3. \A e \in Devices, r \in Requests : told'[e][r] = "keyless" => told[e][r] = "keyless"
      BY <2>0, <3>2 DEF Tell
    <3>4. press' = [press EXCEPT ![d] = NoPress] /\ NoPress.at = "none"
      BY <3>2 DEF Tell, NoPress
    <3>. QED BY <2>0, <3>1, <3>3, <3>4 DEF KeyInv
  <2>2. ASSUME NEW d \in Devices, Keyless(d) PROVE KeyInv'
    <3>1. UNCHANGED <<restarts, approvers, registered>> /\ d \notin approvers
      BY <2>2 DEF Keyless
    <3>2. CASE press[d].at = "decide"
      <4>1. press' = [press EXCEPT ![d].at = "reregister"] /\ told' = told /\ restarts >= 1
        BY <2>2, <3>1, <3>2 DEF Keyless, KeyInv
      <4>. QED BY <2>0, <3>1, <4>1 DEF KeyInv, Pressed
    <3>3. CASE press[d].at = "redecide"
      <4>1. Tell(d, "keyless") /\ restarts >= 2
        BY <2>2, <3>1, <3>3 DEF Keyless, KeyInv
      <4>2. press' = [press EXCEPT ![d] = NoPress] /\ NoPress.at = "none"
        BY <4>1 DEF Tell, NoPress
      <4>. QED BY <2>0, <3>1, <4>1, <4>2 DEF KeyInv
    <3>. QED BY <2>2, <3>2, <3>3 DEF Keyless
  <2>3. ASSUME NEW d \in Devices, Register(d) PROVE KeyInv'
    <3>1. /\ restarts' = restarts /\ told' = told /\ press[d].at \in {"register", "reregister"}
          /\ approvers' = approvers \cup {d} /\ registered' = registered \cup {d}
      BY <2>3 DEF Register
    <3>2. press'[d].at \in {"decide", "redecide"} /\ (press'[d].at = "redecide" => press[d].at = "reregister")
      BY <2>0, <2>3 DEF Register, Pressed
    <3>3. \A e \in Devices \ {d} : press'[e] = press[e]
      BY <2>0, <2>3 DEF Register
    <3>4. d \in approvers'
      BY <3>1
    <3>. QED BY <2>0, <3>1, <3>2, <3>3, <3>4 DEF KeyInv
  <2>4. ASSUME NEW d \in Devices, NEW r \in Requests, NEW allow \in BOOLEAN, Press(d, r, allow)
        PROVE  KeyInv'
    <3>1. UNCHANGED <<restarts, approvers, registered, told>>
      BY <2>4 DEF Press
    <3>2. press'[d].at = (IF d \in registered THEN "decide" ELSE "register")
      BY <2>0, <2>4 DEF Press
    <3>3. \A e \in Devices \ {d} : press'[e] = press[e]
      BY <2>0, <2>4 DEF Press
    <3>. QED BY <3>1, <3>2, <3>3 DEF KeyInv
  <2>5. CASE Restart
    <3>1. restarts' = restarts + 1 /\ approvers' = {} /\ UNCHANGED <<registered, press, told>>
      BY <2>5 DEF Restart, decideVars
    <3>. QED BY <2>0, <3>1 DEF KeyInv
  <2>6. ASSUME NEW r \in Requests, Create(r) \/ Cancel(r) \/ Announce(r) PROVE KeyInv'
    BY <2>6, <2>u DEF Create, Cancel, Announce, decideVars
  <2>7. ASSUME NEW d \in Screens,
               AskList(d) \/ Hold(d) \/ Rouse(d) \/ WaitOver(d) \/ List(d) \/ PollFails(d)
        PROVE  KeyInv'
    BY <2>7, <2>u DEF AskList, Hold, Rouse, WaitOver, List, PollFails, decideVars
  <2>8. CASE Bump \/ Tick \/ UNCHANGED vars
    BY <2>8, <2>u DEF Bump, Tick, vars, decideVars
  <2>. QED BY <2>1, <2>2, <2>3, <2>4, <2>5, <2>6, <2>7, <2>8 DEF Next
<1>3. TypeOK /\ KeyInv => NotRefusedForKey
  <2>. SUFFICES ASSUME TypeOK, KeyInv PROVE NotRefusedForKey
    OBVIOUS
  <2>1. restarts \in Nat
    BY Constants DEF TypeOK
  <2>. QED BY <2>1 DEF KeyInv, NotRefusedForKey
<1>. QED BY <1>1, <1>2, <1>3, Typed, PTL DEF Spec

-----------------------------------------------------------------------------
(* What is used of the sum of the revision and the rises that are owed.     *)
LEMMA Sums ==
  /\ \A a, m, n \in Nat : m >= n => a >= a /\ a + m >= a + n
  /\ \A a, m, n \in Nat : m > n => a + m # a + n
  /\ \A a, m, n \in Nat : a + m <= a /\ m >= n => m = n
  /\ \A a, m \in Nat : a + m # -1
OBVIOUS

(* Screens.  Every change of the store is told of by a rise of the revision *)
(* that is made or owed.                                                    *)
Changed == store' = store \/ unbumped' > unbumped

(* A change of what is listed owes a rise of the revision.                  *)
LEMMA ChangeOwesBump ==
  ASSUME TypeOK, Sweep \/ \E r \in Requests, a \in Request : SweepAndPut(r, a)
  PROVE  Changed /\ unbumped' >= unbumped
<1>1. unbumped \in Nat /\ One(SweptAll # store) \in {0, 1}
      /\ (SweptAll # store => One(SweptAll # store) = 1)
  BY DEF TypeOK, One
<1>2. CASE Sweep
  BY <1>1, <1>2 DEF Sweep, Changed
<1>3. CASE \E r \in Requests, a \in Request : SweepAndPut(r, a)
  BY <1>1, <1>3 DEF SweepAndPut, Changed
<1>. QED BY <1>2, <1>3

(* A screen knows no later revision than there is; what it lists was the    *)
(* store, and is, when no revision was made or is owed since.               *)
Follows(d) ==
  /\ view[d].run <= restarts
  /\ poll[d].at \in {"held", "leaving"} => poll[d].rev <= rev
  /\ poll[d].at = "held" => poll[d].since = poll[d].rev
  /\ view[d].run = restarts =>
       /\ poll[d].since <= rev
       /\ poll[d].since = rev + unbumped => view[d].list = Listed(store)

(* A call that leaves a screen alone leaves it right about what it knows.   *)
LEMMA KeepsFollowing ==
  ASSUME TypeOK, NEW d \in Screens, Follows(d), Changed, TypeOK',
         poll'[d] = poll[d], view'[d] = view[d],
         restarts' = restarts, rev' >= rev, rev' + unbumped' >= rev + unbumped,
         rev' = rev \/ store' = store
  PROVE  Follows(d)'
<1>1. /\ poll[d] \in Poll /\ view[d] \in View /\ rev \in Nat /\ unbumped \in Nat
      /\ rev' \in Nat /\ unbumped' \in Nat /\ restarts \in Nat
  BY Constants DEF TypeOK, Poll, View
<1>2. poll[d].since \in Int /\ poll[d].rev \in Nat /\ view[d].run \in Nat
  BY <1>1 DEF Poll, View
<1>3. /\ view'[d].run <= restarts'
      /\ poll'[d].at \in {"held", "leaving"} => poll'[d].rev <= rev'
      /\ poll'[d].at = "held" => poll'[d].since = poll'[d].rev
      /\ view'[d].run = restarts' => poll'[d].since <= rev'
  BY <1>1, <1>2 DEF Follows
<1>4. ASSUME view'[d].run = restarts', poll'[d].since = rev' + unbumped'
      PROVE  view'[d].list = Listed(store')
  <2>1. poll[d].since <= rev /\ view[d].run = restarts
    BY <1>4 DEF Follows
  <2>2. rev' + unbumped' = rev + unbumped
    BY <1>1, <1>2, <1>4, <2>1
  <2>3. CASE store' = store
    BY <1>4, <2>1, <2>2, <2>3 DEF Follows
  <2>4. CASE store' # store
    <3>1. rev' = rev /\ unbumped' > unbumped
      BY <2>4 DEF Changed
    <3>2. rev \in Nat /\ rev' \in Nat /\ unbumped \in Nat /\ unbumped' \in Nat
      BY <1>1
    <3>3. FALSE
      BY <2>2, <3>1, <3>2, Sums
    <3>. QED BY <3>3
  <2>. QED BY <2>3, <2>4
<1>. QED BY <1>3, <1>4 DEF Follows, Listed

(* A screen that is held at the revision there is shows what the gateway    *)
(* has: hold() reads the revision before list() reads the requests, and     *)
(* every change is followed by a bump (the order of the two reads).         *)
THEOREM HeldScreens == Spec => []HeldIsCurrent
<1>. DEFINE Inv == \A d \in Screens : Follows(d)
<1>1. Init => Inv
  <2>1. Idle.at = "idle" /\ Idle.since = -1
    BY DEF Idle, Fresh
  <2>. QED BY <2>1 DEF Init, Follows
<1>2. TypeOK /\ TypeOK' /\ PressInv /\ Inv /\ [Next]_vars => Inv'
  <2>. SUFFICES ASSUME TypeOK, TypeOK', PressInv, Inv, [Next]_vars PROVE Inv'
    OBVIOUS
  <2>0. /\ poll \in [Screens -> Poll] /\ view \in [Screens -> View]
        /\ rev \in Nat /\ unbumped \in Nat /\ unbumped' \in Nat /\ restarts \in Nat
    BY Constants DEF TypeOK, Poll, View
  <2>n. rev \in Nat /\ rev' \in Nat /\ unbumped \in Nat /\ unbumped' \in Nat
    BY DEF TypeOK
  <2>m. ASSUME rev' = rev, unbumped' >= unbumped
        PROVE  rev' >= rev /\ rev' + unbumped' >= rev + unbumped
    BY <2>m, <2>n, Sums
  <2>c. ASSUME UNCHANGED <<restarts, rev, poll, view>>,
               \/ UNCHANGED <<store, unbumped>>
               \/ Sweep \/ \E r \in Requests, a \in Request : SweepAndPut(r, a)
        PROVE  Inv'
    <3>1. Changed /\ unbumped' >= unbumped
      BY <2>0, <2>c, ChangeOwesBump DEF Changed
    <3>2. rev' = rev /\ rev' >= rev /\ rev' + unbumped' >= rev + unbumped
      BY <2>c, <2>m, <3>1
    <3>3. restarts' = restarts /\ poll' = poll /\ view' = view
      BY <2>c
    <3>. QED BY <3>1, <3>2, <3>3, KeepsFollowing
  <2>1. CASE Bump
    <3>1. /\ unbumped > 0 /\ unbumped' = unbumped - 1 /\ rev' = rev + 1
          /\ UNCHANGED <<restarts, store, poll, view>>
      BY <2>1 DEF Bump, screenVars
    <3>. QED BY <2>0, <3>1, KeepsFollowing DEF Changed
  <2>2. ASSUME NEW r \in Requests, Create(r) PROVE Inv'
    <3>1. Opened(now) \in Request
      BY SweptAllType, RequestValues
    <3>. QED BY <2>2, <2>c, <3>1 DEF Create, screenVars
  <2>3. ASSUME NEW r \in Requests, Cancel(r) PROVE Inv'
    <3>1. ClosedAs(store[r], "cancelled", now) \in Request
      BY SweptAllType, RequestValues DEF Phases
    <3>. QED BY <2>3, <2>c, <3>1 DEF Cancel, screenVars
  <2>4. ASSUME NEW d \in Devices, Decide(d) PROVE Inv'
    <3>1. PICK r \in Requests : r = press[d].req
      BY <2>4, DecideParts DEF PressInv
    <3>2. \A phase \in {"allowed", "denied"} : ClosedAs(store[r], phase, now) \in Request
      BY SweptAllType, RequestValues DEF Phases
    <3>3. Sweep \/ \E a \in Request : SweepAndPut(r, a)
      BY <2>4, <3>1, <3>2, DecideParts
    <3>. QED BY <2>4, <2>c, <3>3, DecideParts DEF screenVars
  <2>5. ASSUME NEW d \in Screens, AskList(d) \/ Rouse(d) \/ PollFails(d) \/ Hold(d) \/ WaitOver(d),
               NEW e \in Screens
        PROVE  Follows(e)'
    <3>1. UNCHANGED <<restarts, rev, view>>
      BY <2>5 DEF AskList, Rouse, PollFails, Hold, WaitOver
    <3>2. UNCHANGED <<store, unbumped>> \/ Sweep
      BY <2>5 DEF AskList, Rouse, PollFails, Hold, WaitOver, storeVars
    <3>3. Changed /\ unbumped' >= unbumped
      BY <2>0, <3>2, ChangeOwesBump DEF Changed
    <3>4. CASE e # d
      <4>1. poll'[e] = poll[e]
        BY <2>0, <2>5, <3>4 DEF AskList, Rouse, PollFails, Hold, WaitOver
      <4>2. rev' = rev /\ rev' >= rev /\ rev' + unbumped' >= rev + unbumped
        BY <2>m, <3>1, <3>3
      <4>. QED BY <3>1, <3>3, <4>1, <4>2, KeepsFollowing
    <3>5. CASE e = d
      <4>1. /\ poll[d] \in Poll /\ poll[d].since \in Int /\ poll[d].rev \in Nat
            /\ view[d].run \in Nat
        BY <2>0 DEF Poll, View
      <4>2. /\ poll'[d].since \in {poll[d].since, -1}
            /\ poll'[d].at \in {"held", "leaving"} => poll'[d].rev = rev
            /\ poll'[d].at = "held" => poll'[d].since = rev
        <5>1. CASE AskList(d) \/ Rouse(d)
          <6>1. poll'[d] = [poll[d] EXCEPT !.at = "asked"]
            BY <2>0, <5>1 DEF AskList, Rouse
          <6>. QED BY <4>1, <6>1 DEF Poll
        <5>2. CASE PollFails(d)
          BY <2>0, <5>2 DEF PollFails, Idle, Fresh
        <5>3. CASE Hold(d)
          <6>1. poll'[d] = [poll[d] EXCEPT !.at = IF poll[d].since # rev THEN "leaving" ELSE "held",
                                           !.rev = rev]
            BY <2>0, <5>3 DEF Hold
          <6>. QED BY <4>1, <6>1 DEF Poll
        <5>4. CASE WaitOver(d)
          <6>1. poll'[d] = [poll[d] EXCEPT !.at = "leaving", !.rev = rev]
            BY <2>0, <5>4 DEF WaitOver
          <6>. QED BY <4>1, <6>1 DEF Poll
        <5>. QED BY <2>5, <5>1, <5>2, <5>3, <5>4
      <4>3. ASSUME view[d].run = restarts
            PROVE  /\ poll'[d].since <= rev
                   /\ poll'[d].since = rev + unbumped' => view[d].list = Listed(store')
        <5>1. poll[d].since <= rev /\ (poll[d].since = rev + unbumped => view[d].list = Listed(store))
          BY <4>3 DEF Follows
        <5>2. poll'[d].since <= rev
          BY <2>0, <4>1, <4>2, <5>1
        <5>3. ASSUME poll'[d].since = rev + unbumped' PROVE view[d].list = Listed(store')
          <6>1. poll'[d].since = poll[d].since /\ unbumped' = unbumped
            <7>1. poll'[d].since # -1
              BY <2>n, <5>3, Sums
            <7>2. poll'[d].since = poll[d].since
              BY <4>2, <7>1
            <7>3. rev + unbumped' <= rev
              BY <5>1, <5>3, <7>2
            <7>. QED BY <2>n, <3>3, <7>2, <7>3, Sums
          <6>2. store' = store
            BY <2>0, <3>3, <6>1 DEF Changed
          <6>. QED BY <5>1, <5>3, <6>1, <6>2
        <5>. QED BY <5>2, <5>3
      <4>4. view[d].run <= restarts
        BY DEF Follows
      <4>. QED BY <2>0, <3>1, <3>5, <4>2, <4>3, <4>4 DEF Follows, Listed
    <3>. QED BY <3>4, <3>5
  <2>6. ASSUME NEW d \in Screens, List(d), NEW e \in Screens PROVE Follows(e)'
    <3>1. /\ UNCHANGED <<restarts, rev>> /\ store' = SweptAll /\ poll[d].at = "leaving"
          /\ unbumped' = unbumped + One(SweptAll # store)
      BY <2>6 DEF List
    <3>2. CASE e # d
      <4>1. Changed /\ unbumped' >= unbumped
        BY <2>0, <3>1 DEF Changed, One
      <4>2. poll'[e] = poll[e] /\ view'[e] = view[e]
        BY <2>0, <2>6, <3>2 DEF List
      <4>. QED BY <2>0, <3>1, <4>1, <4>2, KeepsFollowing
    <3>3. CASE e = d
      <4>1. /\ poll'[d].at = "idle" /\ poll'[d].since = poll[d].rev
            /\ view'[d].run = restarts /\ view'[d].list = Listed(store')
        BY <2>0, <2>6 DEF List, Listed
      <4>2. poll[d].rev <= rev
        BY <3>1 DEF Follows
      <4>. QED BY <2>0, <3>1, <3>3, <4>1, <4>2 DEF Follows, Listed
    <3>. QED BY <3>2, <3>3
  <2>7. CASE Restart
    <3>1. /\ restarts' = restarts + 1 /\ view' = view
          /\ \A d \in Screens : poll'[d].at = "idle"
      BY <2>7 DEF Restart, Idle
    <3>2. \A d \in Screens : view[d].run \in Nat /\ view[d].run <= restarts
      BY <2>0 DEF View, Follows
    <3>3. \A d \in Screens : view'[d].run < restarts'
      BY <2>0, <3>1, <3>2
    <3>. QED BY <2>0, <3>1, <3>2, <3>3 DEF Follows
  <2>8. ASSUME NEW r \in Requests, Announce(r) PROVE Inv'
    BY <2>8, <2>c DEF Announce, storeVars, screenVars
  <2>9. ASSUME NEW d \in Devices, Register(d) \/ Keyless(d) PROVE Inv'
    BY <2>9, <2>c DEF Register, Keyless, storeVars, screenVars
  <2>10. ASSUME NEW d \in Devices, NEW r \in Requests, NEW allow \in BOOLEAN, Press(d, r, allow)
         PROVE  Inv'
    BY <2>10, <2>c DEF Press, storeVars, screenVars
  <2>11. CASE Tick \/ UNCHANGED vars
    BY <2>11, <2>c DEF Tick, vars, storeVars, screenVars
  <2>. QED BY <2>1, <2>2, <2>3, <2>4, <2>5, <2>6, <2>7, <2>8, <2>9, <2>10, <2>11 DEF Next
<1>3. TypeOK /\ Inv => HeldIsCurrent
  <2>. SUFFICES ASSUME TypeOK, Inv, NEW d \in Screens,
                       poll[d].at = "held", poll[d].rev = rev, unbumped = 0, view[d].run = restarts
                PROVE  view[d].list = Listed(store)
    BY DEF HeldIsCurrent
  <2>1. rev \in Nat /\ poll[d].since = rev
    BY DEF TypeOK, Follows
  <2>. QED BY <2>1 DEF Follows
<1>. QED BY <1>1, <1>2, <1>3, Typed, PTL DEF Spec

-----------------------------------------------------------------------------
(* The gateway keeps the promise of OneDecision: what a request would show  *)
(* to a call made now, whether or not one has swept the store since.        *)
Ended(a) == ClosedAs(a, "expired", a.expires)

Shown(a, t) == LET b == Swept(a, t) IN IF b.phase = "expired" THEN Ended(b) ELSE b

Seen == [r \in Requests |-> Shown(store[r], now)]

Promise == INSTANCE OneDecision WITH time <- now, seen <- Seen

(* A request that a sweep found over was over at its deadline.              *)
Noticed(a) == a.phase = "expired" => a.expires <= a.closed

(* A request that was closed, field by field.                               *)
LEMMA ClosedForm ==
  ASSUME NEW a \in Request, NEW phase \in Phases, NEW n \in Nat
  PROVE  /\ ClosedAs(a, phase, n) \in Request
         /\ ClosedAs(a, phase, n) = [phase |-> phase, expires |-> a.expires, closed |-> n]
<1>1. PICK c : c = ClosedAs(a, phase, n)
  OBVIOUS
<1>2. c \in Request /\ c.phase = phase /\ c.closed = n
  BY <1>1, RequestValues
<1>3. c.expires = a.expires
  BY <1>1 DEF ClosedAs, Request
<1>. QED BY <1>1, <1>2, <1>3 DEF Request

(* What a request shows, by its phase.                                      *)
LEMMA ShownCases ==
  ASSUME NEW a \in Request, NEW t \in Nat
  PROVE  /\ Ended(a) = [phase |-> "expired", expires |-> a.expires, closed |-> a.expires]
         /\ Ended(a) \in Request
         /\ Shown(a, t) = IF Lapsed(a, t) THEN Ended(a)
                          ELSE IF Outdated(a, t) THEN Blank("forgotten")
                          ELSE IF a.phase = "expired" THEN Ended(a) ELSE a
         /\ Swept(a, t) = IF Lapsed(a, t) THEN ClosedAs(a, "expired", t)
                          ELSE IF Outdated(a, t) THEN Blank("forgotten") ELSE a
         /\ Lapsed(a, t) => ~Outdated(ClosedAs(a, "expired", t), t)
<1>1. \A c \in Request : \A n \in Nat :
        /\ ClosedAs(c, "expired", n) \in Request
        /\ ClosedAs(c, "expired", n)
             = [phase |-> "expired", expires |-> c.expires, closed |-> n]
  BY ClosedForm DEF Phases
<1>2. Ended(a) = [phase |-> "expired", expires |-> a.expires, closed |-> a.expires]
      /\ Ended(a) \in Request /\ a.expires \in Nat
  BY <1>1 DEF Ended, Request
<1>3. \A n \in Nat : Ended(ClosedAs(a, "expired", n)) = Ended(a)
  <2>. SUFFICES ASSUME NEW n \in Nat PROVE Ended(ClosedAs(a, "expired", n)) = Ended(a)
    OBVIOUS
  <2>1. PICK b : b = ClosedAs(a, "expired", n)
    OBVIOUS
  <2>2. b \in Request /\ b.expires = a.expires
    BY <1>1, <2>1
  <2>3. Ended(b) = [phase |-> "expired", expires |-> b.expires, closed |-> b.expires]
    BY <1>1, <1>2, <2>2 DEF Ended
  <2>. QED BY <1>2, <2>1, <2>2, <2>3
<1>4. Blank("forgotten").phase = "forgotten"
  BY DEF Blank
<1>5. CASE Lapsed(a, t)
  <2>1. PICK b : b = ClosedAs(a, "expired", t)
    OBVIOUS
  <2>2. b.phase = "expired" /\ b.closed = t
    BY <1>1, <2>1
  <2>3. ~Outdated(b, t)
    BY <2>2, Constants DEF Outdated
  <2>4. Swept(a, t) = b
    BY <1>5, <2>1, <2>3 DEF Swept, Expire
  <2>. QED BY <1>2, <1>3, <1>5, <2>1, <2>2, <2>3, <2>4 DEF Shown
<1>6. CASE ~Lapsed(a, t)
  <2>1. Swept(a, t) = IF Outdated(a, t) THEN Blank("forgotten") ELSE a
    BY <1>6 DEF Swept, Expire
  <2>. QED BY <1>2, <1>4, <1>6, <2>1 DEF Shown
<1>. QED BY <1>5, <1>6

(* A sweep does not show, and the passing of time shows as the promise says.*)
LEMMA ShownPasses ==
  ASSUME NEW a \in Request, NEW t \in Nat, NEW u \in Nat, u > t, Noticed(a)
  PROVE  /\ Shown(Swept(a, t), t) = Shown(a, t)
         /\ \/ Shown(a, u) = Shown(a, t)
            \/ Promise!RunsOut(Shown(a, t), Shown(a, u), u)
            \/ Promise!Fades(Shown(a, t), Shown(a, u), u)
<1>0. /\ a.phase \in Phases /\ a.expires \in Nat /\ a.closed \in Nat /\ KeepClosed \in Nat
      /\ Swept(a, t) \in Request
  BY SweptValues, Constants DEF Request
<1>e. Ended(a).phase = "expired" /\ Ended(a).closed = a.expires
  BY ShownCases
<1>1. Shown(Swept(a, t), t) = Shown(a, t)
  <2>1. CASE Lapsed(a, t)
    <3>1. PICK b : b = Swept(a, t)
      OBVIOUS
    <3>2. b = ClosedAs(a, "expired", t) /\ ~Outdated(b, t) /\ b \in Request
      BY <1>0, <2>1, <3>1, ShownCases
    <3>3. b.phase = "expired" /\ b.expires = a.expires
      BY <3>2 DEF ClosedAs, Request
    <3>4. Shown(b, t) = Ended(b) /\ Ended(b) = Ended(a) /\ Shown(a, t) = Ended(a)
      BY <2>1, <3>2, <3>3, ShownCases DEF Lapsed
    <3>. QED BY <3>1, <3>4
  <2>2. CASE ~Lapsed(a, t) /\ Outdated(a, t)
    <3>1. Swept(a, t) = Blank("forgotten") /\ Shown(a, t) = Blank("forgotten")
      BY <2>2, ShownCases
    <3>2. Shown(Blank("forgotten"), t) = Blank("forgotten")
      BY <1>0, <3>1, ShownCases DEF Lapsed, Outdated, Closed, Blank
    <3>. QED BY <3>1, <3>2
  <2>3. CASE ~Lapsed(a, t) /\ ~Outdated(a, t)
    BY <2>3, ShownCases
  <2>. QED BY <2>1, <2>2, <2>3
<1>2. CASE Lapsed(a, t)
  <2>1. Lapsed(a, u)
    BY <1>0, <1>2 DEF Lapsed
  <2>. QED BY <1>1, <1>2, <2>1, ShownCases
<1>3. CASE ~Lapsed(a, t) /\ Lapsed(a, u)
  <2>1. Shown(a, t) = a /\ Shown(a, u) = Ended(a)
    BY <1>3, ShownCases DEF Lapsed, Outdated, Closed
  <2>2. Promise!RunsOut(a, Ended(a), u)
    BY <1>3 DEF Promise!RunsOut, Promise!ClosedAs, Lapsed, Ended, ClosedAs
  <2>. QED BY <1>1, <2>1, <2>2
<1>4. CASE ~Lapsed(a, u) /\ ~Lapsed(a, t) /\ Outdated(a, t)
  <2>1. Outdated(a, u)
    BY <1>0, <1>4 DEF Outdated
  <2>. QED BY <1>1, <1>4, <2>1, ShownCases
<1>5. CASE ~Lapsed(a, u) /\ ~Lapsed(a, t) /\ ~Outdated(a, t) /\ Outdated(a, u)
  <2>1. PICK b : b = Shown(a, t)
    OBVIOUS
  <2>2. b = IF a.phase = "expired" THEN Ended(a) ELSE a
    BY <1>5, <2>1, ShownCases
  <2>3. b.phase = a.phase /\ b.closed \in Nat /\ b.closed <= a.closed
    BY <1>0, <1>e, <2>2 DEF Noticed
  <2>4. a.phase \in Closed /\ u >= a.closed + KeepClosed /\ Shown(a, u) = Blank("forgotten")
    BY <1>5, ShownCases DEF Outdated
  <2>5. u >= b.closed + KeepClosed
    BY <1>0, <2>3, <2>4
  <2>. QED BY <1>1, <2>1, <2>3, <2>4, <2>5
       DEF Promise!Fades, Promise!Closed, Closed, Promise!Blank, Blank
<1>6. CASE ~Lapsed(a, u) /\ ~Lapsed(a, t) /\ ~Outdated(a, t) /\ ~Outdated(a, u)
  BY <1>1, <1>6, ShownCases
<1>. QED BY <1>2, <1>3, <1>4, <1>5, <1>6

(* What each step does to the clock and to the store.                       *)
LEMMA StoreSteps ==
  ASSUME TypeOK, PressInv, [Next]_vars
  PROVE  \/ /\ now' = now
            /\ \A r \in Requests :
                 \/ store'[r] \in {store[r], SweptAll[r]}
                 \/ store[r].phase = "none" /\ store'[r] = Opened(now)
                 \/ /\ SweptAll[r].phase = "pending"
                    /\ \E phase \in {"cancelled", "allowed", "denied"} :
                         store'[r] = ClosedAs(store[r], phase, now)
         \/ now' = now + 1 /\ store' = store
         \/ now' = now /\ Restart
<1>. DEFINE Calls == \A r \in Requests :
                       \/ store'[r] \in {store[r], SweptAll[r]}
                       \/ store[r].phase = "none" /\ store'[r] = Opened(now)
                       \/ /\ SweptAll[r].phase = "pending"
                          /\ \E phase \in {"cancelled", "allowed", "denied"} :
                               store'[r] = ClosedAs(store[r], phase, now)
<1>0. now \in Nat /\ \A r \in Requests : store[r] \in Request
  BY SweptAllType
<1>s. Sweep => Calls
  BY SweepParts DEF Quiet
<1>1. ASSUME NEW q \in Requests, Create(q) PROVE Calls
  <2>1. SweepAndPut(q, Opened(now)) => Calls
    BY <1>0, <1>1, RequestValues, PutParts DEF Quiet, Create
  <2>. QED BY <1>1, <1>s, <2>1 DEF Create
<1>p. ASSUME NEW q \in Requests, NEW phase \in {"cancelled", "allowed", "denied"},
             SweptAll[q].phase = "pending", SweepAndPut(q, ClosedAs(store[q], phase, now))
      PROVE  Calls
  <2>1. ClosedAs(store[q], phase, now) \in Request
    BY <1>0, RequestValues DEF Phases
  <2>. QED BY <1>p, <2>1, PutParts DEF Quiet
<1>2. ASSUME NEW q \in Requests, Cancel(q) PROVE Calls
  BY <1>2, <1>p, <1>s DEF Cancel
<1>3. ASSUME NEW d \in Devices, Decide(d) PROVE Calls
  <2>1. press[d].req \in Requests
    BY <1>3, DecideParts DEF PressInv
  <2>. QED BY <1>3, <1>p, <1>s, <2>1 DEF Decide, Takes
<1>4. ASSUME NEW d \in Screens, List(d) PROVE Calls
  BY <1>4 DEF List
<1>5. ASSUME NEW d \in Screens, Hold(d) \/ WaitOver(d) PROVE Calls
  BY <1>5, <1>s DEF Hold, WaitOver
<1>6. CASE Tick \/ Restart
  BY <1>6 DEF Tick, Restart, storeVars
<1>7. CASE Bump \/ UNCHANGED vars
  BY <1>7 DEF Bump, vars, storeVars
<1>8. CASE \/ \E q \in Requests : Announce(q)
           \/ \E d \in Screens : AskList(d) \/ Rouse(d) \/ PollFails(d)
           \/ \E d \in Devices : \/ Register(d) \/ Keyless(d)
                                 \/ \E q \in Requests, allow \in BOOLEAN : Press(d, q, allow)
  <2>1. UNCHANGED <<now, store>>
    BY <1>8 DEF Announce, AskList, Rouse, PollFails, Register, Keyless, Press, storeVars
  <2>. QED BY <2>1
<1>9. ASSUME ~Tick, ~Restart PROVE now' = now
  BY <1>9 DEF Next, Create, Cancel, Announce, AskList, Hold, Rouse, WaitOver, List, PollFails,
              Register, Keyless, Decide, Press, Bump, vars
<1>. QED BY <1>1, <1>2, <1>3, <1>4, <1>5, <1>6, <1>7, <1>8, <1>9 DEF Next

(* Whatever a sweep closed was due.                                         *)
LEMMA AllNoticed == Spec => [](\A r \in Requests : Noticed(store[r]))
<1>1. Init => \A r \in Requests : Noticed(store[r])
  BY DEF Init, Blanks, Blank, Noticed
<1>2. TypeOK /\ PressInv /\ (\A r \in Requests : Noticed(store[r])) /\ [Next]_vars
        => (\A r \in Requests : Noticed(store[r]))'
  <2>. SUFFICES ASSUME TypeOK, PressInv, \A r \in Requests : Noticed(store[r]), [Next]_vars,
                       NEW r \in Requests
                PROVE  Noticed(store'[r])
    OBVIOUS
  <2>0. store[r] \in Request /\ now \in Nat /\ SweptAll[r] = Swept(store[r], now)
    BY SweptAllType
  <2>b. Noticed(Blank("forgotten"))
    BY DEF Noticed, Blank
  <2>1. Noticed(SweptAll[r])
    <3>1. CASE Lapsed(store[r], now)
      <4>1. SweptAll[r] = [phase |-> "expired", expires |-> store[r].expires, closed |-> now]
        BY <2>0, <3>1, ShownCases, ClosedForm DEF Phases
      <4>2. store[r].expires <= now
        BY <2>0, <3>1 DEF Lapsed, Request
      <4>. QED BY <4>1, <4>2 DEF Noticed
    <3>2. CASE ~Lapsed(store[r], now)
      BY <2>0, <2>b, <3>2, ShownCases
    <3>. QED BY <3>1, <3>2
  <2>2. Noticed(Opened(now))
    BY DEF Noticed, Opened
  <2>3. ASSUME NEW phase \in {"cancelled", "allowed", "denied"}
        PROVE  Noticed(ClosedAs(store[r], phase, now))
    <3>1. ClosedAs(store[r], phase, now).phase = phase
      BY <2>0, RequestValues DEF Phases
    <3>. QED BY <3>1 DEF Noticed
  <2>4. CASE Restart
    BY <2>4, <2>b DEF Restart
  <2>. QED BY <2>1, <2>2, <2>3, <2>4, StoreSteps
<1>. QED BY <1>1, <1>2, Typed, PTL DEF Spec

(* A request that a call leaves shows as the call has made it.              *)
LEMMA ShownCalls ==
  ASSUME TypeOK, NEW r \in Requests, Noticed(store[r])
  PROVE  /\ Shown(SweptAll[r], now) = Shown(store[r], now)
         /\ store[r].phase = "none" =>
              Promise!Opens(Shown(store[r], now), Shown(Opened(now), now), now)
         /\ \A phase \in {"cancelled", "allowed", "denied"} : SweptAll[r].phase = "pending" =>
              Promise!Settles(Shown(store[r], now),
                              Shown(ClosedAs(store[r], phase, now), now), now)
<1>0. /\ store[r] \in Request /\ now \in Nat /\ now + 1 \in Nat /\ now + 1 > now
      /\ SweptAll[r] = Swept(store[r], now)
      /\ store[r].expires \in Nat /\ store[r].closed \in Nat
  BY SweptAllType DEF Request
<1>1. Shown(SweptAll[r], now) = Shown(store[r], now)
  BY <1>0, ShownPasses
<1>2. ASSUME store[r].phase = "none"
      PROVE  Promise!Opens(Shown(store[r], now), Shown(Opened(now), now), now)
  <2>1. Shown(store[r], now) = store[r]
    BY <1>0, <1>2, ShownCases DEF Lapsed, Outdated, Closed
  <2>o. PICK b : b = Opened(now)
    OBVIOUS
  <2>t. b.expires = now + Ttl /\ Ttl \in Nat \ {0}
    BY <2>o, StoreAssumption DEF Opened
  <2>l. ~Lapsed(b, now)
    BY <1>0, <2>t DEF Lapsed
  <2>2. Opened(now) \in Request /\ ~Lapsed(Opened(now), now)
    BY <1>0, <2>o, <2>l, RequestValues
  <2>3. Opened(now).phase = "pending"
    BY <1>0, RequestValues
  <2>4. Shown(Opened(now), now) = Opened(now)
    BY <1>0, <2>2, <2>3, ShownCases DEF Outdated, Closed
  <2>. QED BY <1>2, <2>1, <2>4 DEF Promise!Opens, Promise!Opened, Opened
<1>3. ASSUME NEW phase \in {"cancelled", "allowed", "denied"}, SweptAll[r].phase = "pending"
      PROVE  Promise!Settles(Shown(store[r], now),
                             Shown(ClosedAs(store[r], phase, now), now), now)
  <2>1. store[r].phase = "pending" /\ ~Lapsed(store[r], now)
    BY <1>3, StillPending
  <2>2. Shown(store[r], now) = store[r] /\ now < store[r].expires
    BY <1>0, <2>1, ShownCases DEF Lapsed, Outdated, Closed
  <2>3. PICK b : b = ClosedAs(store[r], phase, now)
    OBVIOUS
  <2>p. phase \in Phases
    BY DEF Phases
  <2>4. b \in Request /\ b.phase = phase /\ b.closed = now
    <3>1. /\ ClosedAs(store[r], phase, now) \in Request
          /\ ClosedAs(store[r], phase, now)
               = [phase |-> phase, expires |-> store[r].expires, closed |-> now]
      BY <1>0, <2>p, ClosedForm
    <3>. QED BY <2>3, <3>1
  <2>5. ~Lapsed(b, now) /\ ~Outdated(b, now) /\ b.phase # "expired"
    BY <1>0, <2>4, Constants DEF Lapsed, Outdated
  <2>6. Shown(b, now) = b
    BY <1>0, <2>4, <2>5, ShownCases
  <2>7. phase \in Promise!Closed \ {"expired"}
    BY DEF Promise!Closed
  <2>8. b = Promise!ClosedAs(store[r], phase, now)
    BY <2>3 DEF ClosedAs, Promise!ClosedAs
  <2>. QED BY <2>1, <2>2, <2>3, <2>6, <2>7, <2>8 DEF Promise!Settles
<1>. QED BY <1>1, <1>2, <1>3

(* The gateway keeps the promise of OneDecision, to every device, whichever *)
(* calls sweep and whenever they do (Store::sweep, create, decide, cancel): *)
(* a request is pending to its deadline and no longer, it is settled once   *)
(* and in time, and it can be looked up for KeepClosed after that.          *)
THEOREM DecidedOnce == Spec => Promise!Spec
<1>1. Init => Promise!Init
  <2>. SUFFICES ASSUME Init PROVE Promise!Init
    OBVIOUS
  <2>1. ASSUME NEW r \in Requests PROVE Shown(store[r], now) = Blank("none")
    <3>1. store[r] = Blank("none") /\ Blank("none") \in Request /\ Blank("none").phase = "none"
      BY RequestValues DEF Init, Blanks, Blank, Phases
    <3>2. now \in Nat
      BY DEF Init
    <3>. QED BY <3>1, <3>2, ShownCases DEF Lapsed, Outdated, Closed
  <2>2. Seen = [r \in Requests |-> Promise!Blank("none")]
    BY <2>1 DEF Seen, Blank, Promise!Blank
  <2>. QED BY <2>2 DEF Init, Promise!Init
<1>2. /\ TypeOK /\ TypeOK' /\ PressInv /\ (\A r \in Requests : Noticed(store[r]))
      /\ [Next]_vars
      => [Promise!Next]_<<now, Seen>>
  <2>. SUFFICES ASSUME TypeOK, TypeOK', PressInv, \A r \in Requests : Noticed(store[r]),
                       [Next]_vars
                PROVE  Promise!Next
    OBVIOUS
  <2>0. /\ now \in Nat /\ now' \in Nat
        /\ \A r \in Requests : store[r] \in Request /\ store'[r] \in Request
    BY SweptAllType, Constants DEF TypeOK, Request
  <2>1. ASSUME NEW r \in Requests
        PROVE  /\ Seen'[r] \in [phase : Phases, expires : Nat, closed : Nat]
               /\ Seen'[r].phase = "pending" => now' < Seen'[r].expires
    <3>1. PICK b : b = store'[r]
      OBVIOUS
    <3>2. Seen'[r] = Shown(b, now') /\ b \in Request
      BY <2>0, <3>1 DEF Seen
    <3>3. Blank("forgotten") \in Request /\ Blank("forgotten").phase = "forgotten"
      BY <2>0, RequestValues DEF Blank, Phases
    <3>4. Ended(b) \in Request /\ Ended(b).phase = "expired"
      BY <2>0, <3>2, ShownCases
    <3>5. Shown(b, now') \in Request
      BY <2>0, <3>2, <3>3, <3>4, ShownCases
    <3>6. ASSUME Shown(b, now').phase = "pending" PROVE now' < Shown(b, now').expires
      <4>1. ~Lapsed(b, now') /\ Shown(b, now') = b
        BY <2>0, <3>2, <3>3, <3>4, <3>6, ShownCases
      <4>2. b.expires \in Nat /\ b.phase = "pending"
        BY <3>2, <3>6, <4>1 DEF Request
      <4>. QED BY <2>0, <4>1, <4>2 DEF Lapsed
    <3>. QED BY <3>2, <3>5, <3>6 DEF Request
  <2>2. Seen' \in [Requests -> [phase : Promise!Phases, expires : Nat, closed : Nat]]
    BY <2>1 DEF Seen, Promise!Phases, Phases
  <2>3. CASE /\ now' = now
             /\ \A r \in Requests :
                  \/ store'[r] \in {store[r], SweptAll[r]}
                  \/ store[r].phase = "none" /\ store'[r] = Opened(now)
                  \/ /\ SweptAll[r].phase = "pending"
                     /\ \E phase \in {"cancelled", "allowed", "denied"} :
                          store'[r] = ClosedAs(store[r], phase, now)
    <3>1. ASSUME NEW r \in Requests
          PROVE  \/ Seen'[r] = Seen[r]
                 \/ Promise!Opens(Seen[r], Seen'[r], now)
                 \/ Promise!Settles(Seen[r], Seen'[r], now)
      <4>1. Seen[r] = Shown(store[r], now) /\ Seen'[r] = Shown(store'[r], now)
        BY <2>3 DEF Seen
      <4>2. CASE store'[r] \in {store[r], SweptAll[r]}
        BY <4>1, <4>2, ShownCalls
      <4>3. CASE store[r].phase = "none" /\ store'[r] = Opened(now)
        BY <4>1, <4>3, ShownCalls
      <4>4. ASSUME NEW phase \in {"cancelled", "allowed", "denied"},
                   SweptAll[r].phase = "pending", store'[r] = ClosedAs(store[r], phase, now)
            PROVE  Promise!Settles(Seen[r], Seen'[r], now)
        BY <4>1, <4>4, ShownCalls
      <4>. QED BY <2>3, <4>2, <4>3, <4>4
    <3>. QED BY <2>1, <2>2, <2>3, <3>1 DEF Promise!Next
  <2>4. CASE now' = now + 1 /\ store' = store
    <3>1. ASSUME NEW r \in Requests
          PROVE  \/ Seen'[r] = Seen[r]
                 \/ Promise!RunsOut(Seen[r], Seen'[r], now')
                 \/ Promise!Fades(Seen[r], Seen'[r], now')
      <4>1. Seen[r] = Shown(store[r], now) /\ Seen'[r] = Shown(store[r], now')
        BY <2>4 DEF Seen
      <4>2. now' > now
        BY <2>0, <2>4
      <4>. QED BY <2>0, <4>1, <4>2, ShownPasses
    <3>2. now' > now
      BY <2>0, <2>4
    <3>. QED BY <2>1, <2>2, <3>1, <3>2 DEF Promise!Next
  <2>5. CASE now' = now /\ Restart
    <3>1. ASSUME NEW r \in Requests PROVE Seen'[r] = Promise!Lost(Seen[r])
      <4>1. Seen[r] = Shown(store[r], now) /\ Seen'[r] = Shown(store'[r], now)
        BY <2>5 DEF Seen
      <4>2. Blank("forgotten") \in Request /\ Blank("forgotten").phase = "forgotten"
            /\ Ended(store[r]).phase = "expired"
        BY <2>0, RequestValues, ShownCases DEF Blank, Phases
      <4>3. CASE store[r].phase = "none"
        <5>1. store'[r] = store[r] /\ Shown(store[r], now) = store[r]
          BY <2>0, <2>5, <4>3, ShownCases DEF Restart, Lapsed, Outdated, Closed
        <5>. QED BY <4>1, <4>3, <5>1 DEF Promise!Lost
      <4>4. CASE store[r].phase # "none"
        <5>1. store'[r] = Blank("forgotten")
          BY <2>5, <4>4 DEF Restart
        <5>2. Shown(Blank("forgotten"), now) = Blank("forgotten")
          BY <2>0, <4>2, ShownCases DEF Lapsed, Outdated, Closed
        <5>3. Shown(store[r], now).phase # "none"
          BY <2>0, <4>2, <4>4, ShownCases
        <5>. QED BY <4>1, <5>1, <5>2, <5>3 DEF Promise!Lost, Promise!Blank, Blank
      <4>. QED BY <4>3, <4>4
    <3>2. Seen' = [r \in Requests |-> Promise!Lost(Seen[r])]
      BY <3>1 DEF Seen
    <3>. QED BY <2>1, <2>2, <2>5, <3>2 DEF Promise!Next
  <2>. QED BY <2>3, <2>4, <2>5, StoreSteps
<1>. QED BY <1>1, <1>2, Typed, AllNoticed, PTL DEF Spec, Promise!Spec
=============================================================================
