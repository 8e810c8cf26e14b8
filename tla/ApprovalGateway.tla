--------------------------- MODULE ApprovalGateway ---------------------------
(***************************************************************************)
(* The approval store of the gateway, shared by the calls of all devices   *)
(* of an account (crates/kasa-gateway/src/gateway_approvals.rs): requests  *)
(* are swept only when a call looks, a change and the rise of the revision *)
(* that tells of it are two steps, screens follow by long polls            *)
(* (app/kasaterm/src/remote_approval.rs), and a device decides with a key  *)
(* it registers for one run of the gateway                                 *)
(* (crates/kasa-device/src/device_approvals.rs).                           *)
(***************************************************************************)
EXTENDS ApprovalStore, Integers, FiniteSets

CONSTANTS Requests, Devices,
          Screens,       \* devices that follow the list
          MaxOpen,       \* MAX_OPEN_PER_ACCOUNT
          MaxTime,       \* the clock's bound
          MaxPresses,    \* decisions people send
          MaxRestarts    \* restarts of the gateway

ASSUME GatewayAssumption ==
  /\ Screens \subseteq Devices /\ MaxOpen \in Nat \ {0}
  /\ {MaxTime, MaxPresses, MaxRestarts} \subseteq Nat

VARIABLES now, restarts,
          store,       \* Store.open of the account
          rev,         \* Store.rev
          unbumped,    \* calls that changed the store and have yet to bump
          due,         \* Store.expired: closed by time, the phones not told
          owed,        \* decided or cancelled, the phones not told
          announced,   \* pushes that told the phones a request is closed
          approvers,   \* Store.approvers
          poll,        \* a screen's long poll
          view,        \* a screen's list, as of the run of the gateway it saw
          registered,  \* REGISTERED: devices that think the gateway has their key
          press,       \* a decision on its way
          presses,
          winner,      \* the device whose decision was taken (history)
          told         \* what a device was told of its decision (history)

vars == <<now, restarts, store, rev, unbumped, due, owed, announced, approvers, poll, view,
          registered, press, presses, winner, told>>

storeVars == <<store, unbumped, due>>
screenVars == <<poll, view>>
decideVars == <<registered, press, presses, winner, told>>

Nobody == "nobody"
Fresh == -1                \* since = None: the next poll does not wait

Idle == [at |-> "idle", since |-> Fresh, rev |-> 0]
NoPress == [at |-> "none", req |-> Nobody, allow |-> FALSE]
Outcomes == {"accepted", "closed", "unknown", "keyless", "unreachable"}

TypeOK ==
  /\ now \in 0..MaxTime /\ restarts \in 0..MaxRestarts /\ presses \in 0..MaxPresses
  /\ store \in [Requests -> [phase : Phases, expires : Nat, closed : Nat]]
  /\ rev \in Nat /\ unbumped \in Nat
  /\ due \cup owed \subseteq Requests /\ announced \in [Requests -> Nat]
  /\ approvers \cup registered \subseteq Devices
  /\ poll \in [Screens -> [at : {"idle", "asked", "held", "leaving"}, since : Int, rev : Nat]]
  /\ view \in [Screens -> [list : [Requests -> Phases], run : Nat]]
  /\ press \in [Devices -> [at : {"none", "register", "decide", "reregister", "redecide"},
                            req : Requests \cup {Nobody}, allow : BOOLEAN]]
  /\ winner \in [Requests -> Devices \cup {Nobody}]
  /\ told \in [Devices -> [Requests -> Outcomes \cup {"nothing"}]]

Blanks == [r \in Requests |-> Blank("none")]
Listed(s) == [r \in Requests |-> s[r].phase]

Init ==
  /\ now = 0 /\ restarts = 0 /\ presses = 0
  /\ store = Blanks /\ rev = 0 /\ unbumped = 0
  /\ due = {} /\ owed = {} /\ announced = [r \in Requests |-> 0]
  /\ approvers = {} /\ registered = {}
  /\ poll = [d \in Screens |-> Idle]
  /\ view = [d \in Screens |-> [list |-> Listed(Blanks), run |-> 0]]
  /\ press = [d \in Devices |-> NoPress]
  /\ winner = [r \in Requests |-> Nobody]
  /\ told = [d \in Devices |-> [r \in Requests |-> "nothing"]]

-----------------------------------------------------------------------------
(* sweep(), then what the call does to one request, under the lock; one     *)
(* bump is owed for each of the two that changed something.                 *)
SweptAll == [r \in Requests |-> Swept(store[r], now)]

One(P) == IF P THEN 1 ELSE 0

Sweep ==
  /\ store' = SweptAll
  /\ due' = due \cup {r \in Requests : Lapsed(store[r], now)}
  /\ unbumped' = unbumped + One(SweptAll # store)

SweepAndPut(r, a) ==
  /\ store' = [SweptAll EXCEPT ![r] = a]
  /\ due' = due \cup {q \in Requests : Lapsed(store[q], now)}
  /\ unbumped' = unbumped + One(SweptAll # store) + 1

Bump ==
  /\ unbumped > 0
  /\ unbumped' = unbumped - 1 /\ rev' = rev + 1
  /\ UNCHANGED <<now, restarts, store, due, owed, announced, approvers, screenVars, decideVars>>

(* create(): an account has room for MaxOpen undecided requests.            *)
Pending == {r \in Requests : SweptAll[r].phase = "pending"}

Create(r) ==
  /\ store[r].phase = "none"
  /\ IF Cardinality(Pending) < MaxOpen
     THEN SweepAndPut(r, Opened(now))
     ELSE Sweep /\ SweptAll # store    \* too_many_pending
  /\ UNCHANGED <<now, restarts, rev, owed, announced, approvers, screenVars, decideVars>>

(* cancel(): the device that made the request withdraws it.                 *)
Cancel(r) ==
  /\ store[r].phase \notin {"none", "forgotten"}
  /\ IF SweptAll[r].phase = "pending"
     THEN SweepAndPut(r, ClosedAs(store[r], "cancelled", now)) /\ owed' = owed \cup {r}
     ELSE Sweep /\ SweptAll # store /\ UNCHANGED owed    \* already_closed
  /\ UNCHANGED <<now, restarts, rev, announced, approvers, screenVars, decideVars>>

(* send_push(push_closed()) of a decision or a withdrawal.                  *)
Announce(r) ==
  /\ r \in owed
  /\ owed' = owed \ {r}
  /\ announced' = [announced EXCEPT ![r] = @ + 1]
  /\ UNCHANGED <<now, restarts, storeVars, rev, approvers, screenVars, decideVars>>

-----------------------------------------------------------------------------
(* A screen follows the list.                                               *)
AskOnce(d) ==    \* faulty: a screen that was answered asks no more
  /\ poll[d].at = "idle" /\ poll[d].since = Fresh
  /\ poll' = [poll EXCEPT ![d].at = "asked"]
  /\ UNCHANGED <<now, restarts, storeVars, rev, owed, announced, approvers, view, decideVars>>

AskList(d) ==
  /\ poll[d].at = "idle"
  /\ poll' = [poll EXCEPT ![d].at = "asked"]
  /\ UNCHANGED <<now, restarts, storeVars, rev, owed, announced, approvers, view, decideVars>>

(* hold(): sweep, read the revision, and leave unless it is the one the     *)
(* screen has.  (Here the bump of its own sweep may come after the read,    *)
(* as one of another call may: the model allows more than the code does.)   *)
HoldUnlessFresh(d) ==    \* faulty: the revision the screen has is not compared
  /\ poll[d].at = "asked"
  /\ Sweep
  /\ poll' = [poll EXCEPT ![d].at = IF poll[d].since = Fresh THEN "leaving" ELSE "held",
                          ![d].rev = rev]
  /\ UNCHANGED <<now, restarts, rev, owed, announced, approvers, view, decideVars>>

Hold(d) ==
  /\ poll[d].at = "asked"
  /\ Sweep
  /\ poll' = [poll EXCEPT ![d].at = IF poll[d].since # rev THEN "leaving" ELSE "held",
                          ![d].rev = rev]
  /\ UNCHANGED <<now, restarts, rev, owed, announced, approvers, view, decideVars>>

(* The revision rose, or a request is due: look again.                      *)
Rouse(d) ==
  /\ poll[d].at = "held"
  /\ rev # poll[d].rev \/ \E r \in Requests : Lapsed(store[r], now)
  /\ poll' = [poll EXCEPT ![d].at = "asked"]
  /\ UNCHANGED <<now, restarts, storeVars, rev, owed, announced, approvers, view, decideVars>>

(* The wait is over: leave with the revision of now.                        *)
WaitOver(d) ==
  /\ poll[d].at = "held"
  /\ Sweep
  /\ poll' = [poll EXCEPT ![d].at = "leaving", ![d].rev = rev]
  /\ UNCHANGED <<now, restarts, rev, owed, announced, approvers, view, decideVars>>

(* list(): the requests after the revision was read, the phones told of     *)
(* what time has closed, and the answer to the screen.                      *)
NotifyExpiredAgain(queue) ==    \* faulty: the queue is read and not taken
  /\ announced' = [r \in Requests |-> announced[r] + One(r \in queue)]
  /\ due' = queue

NotifyExpired(queue) ==
  /\ announced' = [r \in Requests |-> announced[r] + One(r \in queue)]
  /\ due' = {}

List(d) ==
  /\ poll[d].at = "leaving"
  /\ store' = SweptAll
  /\ unbumped' = unbumped + One(SweptAll # store)
  /\ NotifyExpired(due \cup {r \in Requests : Lapsed(store[r], now)})
  /\ view' = [view EXCEPT ![d] = [list |-> Listed(SweptAll), run |-> restarts]]
  /\ poll' = [poll EXCEPT ![d] = [at |-> "idle", since |-> poll[d].rev, rev |-> 0]]
  /\ UNCHANGED <<now, restarts, rev, owed, approvers, decideVars>>

(* A poll that fails forgets the revision.                                  *)
PollFails(d) ==
  /\ poll[d].at # "idle"
  /\ poll' = [poll EXCEPT ![d] = Idle]
  /\ UNCHANGED <<now, restarts, storeVars, rev, owed, announced, approvers, view, decideVars>>

-----------------------------------------------------------------------------
(* A person decides on a device: a screen from what it lists, a phone from  *)
(* the push it was sent.  The app registers its key first unless it did.    *)
Press(d, r, allow) ==
  /\ press[d].at = "none" /\ presses < MaxPresses
  /\ IF d \in Screens THEN view[d].list[r] = "pending" ELSE store[r].phase # "none"
  /\ press' = [press EXCEPT ![d] =
       [at |-> IF d \in registered THEN "decide" ELSE "register", req |-> r, allow |-> allow]]
  /\ presses' = presses + 1
  /\ UNCHANGED <<now, restarts, storeVars, rev, owed, announced, approvers, screenVars,
                 registered, winner, told>>

Tell(d, outcome) ==
  /\ told' = [told EXCEPT ![d][press[d].req] = outcome]
  /\ press' = [press EXCEPT ![d] = NoPress]

Register(d) ==
  /\ press[d].at \in {"register", "reregister"}
  /\ approvers' = approvers \cup {d}
  /\ registered' = registered \cup {d}
  /\ press' = [press EXCEPT ![d].at = IF @ = "register" THEN "decide" ELSE "redecide"]
  /\ UNCHANGED <<now, restarts, storeVars, rev, owed, announced, screenVars, presses, winner,
                 told>>

(* The gateway does not know the key: it is registered once more.           *)
KeylessFinal(d) ==    \* faulty: a key the gateway lost is not registered again
  /\ press[d].at \in {"decide", "redecide"} /\ d \notin approvers
  /\ Tell(d, "keyless")
  /\ UNCHANGED <<now, restarts, storeVars, rev, owed, announced, approvers, screenVars,
                 registered, presses, winner>>

Keyless(d) ==
  /\ press[d].at \in {"decide", "redecide"} /\ d \notin approvers
  /\ IF press[d].at = "decide"
     THEN press' = [press EXCEPT ![d].at = "reregister"] /\ UNCHANGED told
     ELSE Tell(d, "keyless")
  /\ UNCHANGED <<now, restarts, storeVars, rev, owed, announced, approvers, screenVars,
                 registered, presses, winner>>

(* decide(): the first decision on a pending request is taken.  Its answer  *)
(* can be lost.                                                             *)
TakesAnyOpen(r) == SweptAll[r].phase \notin {"none", "forgotten", "expired"}    \* faulty
Takes(r) == SweptAll[r].phase = "pending"

Decide(d) ==
  /\ press[d].at \in {"decide", "redecide"} /\ d \in approvers
  /\ LET r == press[d].req IN
       IF Takes(r)
       THEN /\ SweepAndPut(r, ClosedAs(store[r],
                              IF press[d].allow THEN "allowed" ELSE "denied", now))
            /\ owed' = owed \cup {r}
            /\ winner' = [winner EXCEPT ![r] = d]
            /\ Tell(d, "accepted") \/ Tell(d, "unreachable")
       ELSE /\ Sweep
            /\ \E o \in {"unreachable", IF SweptAll[r].phase = "forgotten"
                                        THEN "unknown" ELSE "closed"} : Tell(d, o)
            /\ UNCHANGED <<owed, winner>>
  /\ UNCHANGED <<now, restarts, rev, announced, approvers, screenVars, registered, presses>>

-----------------------------------------------------------------------------
(* The requests, the keys and the revision live in memory.                  *)
Restart ==
  /\ restarts < MaxRestarts /\ restarts' = restarts + 1
  /\ store' = [r \in Requests |->
       IF store[r].phase = "none" THEN store[r] ELSE Blank("forgotten")]
  /\ rev' = 0 /\ unbumped' = 0 /\ due' = {} /\ owed' = {} /\ approvers' = {}
  /\ poll' = [d \in Screens |-> IF poll[d].at = "idle" THEN poll[d] ELSE Idle]
  /\ UNCHANGED <<now, announced, view, decideVars>>

Tick ==
  /\ now < MaxTime /\ now' = now + 1
  /\ UNCHANGED <<restarts, storeVars, rev, owed, announced, approvers, screenVars, decideVars>>

Next ==
  \/ Bump \/ Restart \/ Tick
  \/ \E r \in Requests : Create(r) \/ Cancel(r) \/ Announce(r)
  \/ \E d \in Screens : AskList(d) \/ Hold(d) \/ Rouse(d) \/ WaitOver(d) \/ List(d) \/ PollFails(d)
  \/ \E d \in Devices : \/ Register(d) \/ Keyless(d) \/ Decide(d)
                        \/ \E r \in Requests, allow \in BOOLEAN : Press(d, r, allow)

Spec == Init /\ [][Next]_vars

(* The poller thread of a screen polls for ever, and not every poll fails.  *)
FairSpec ==
  /\ Spec
  /\ \A d \in Screens : /\ WF_vars(AskList(d)) /\ SF_vars(Hold(d)) /\ SF_vars(WaitOver(d))
                        /\ SF_vars(List(d))

-----------------------------------------------------------------------------
(* Properties *)

(* A screen that is held, and has seen the revision there is, shows what    *)
(* the gateway has: no change slips between the revision it was given and   *)
(* the list it was given (within one run of the gateway, and up to what     *)
(* only the passing of time changes).                                       *)
HeldIsCurrent ==
  \A d \in Screens :
    /\ poll[d].at = "held" /\ poll[d].rev = rev /\ unbumped = 0
    /\ view[d].run = restarts /\ SweptAll = store
    => view[d].list = Listed(store)

(* The phones are told once of every request that closes, however it closes *)
(* and whichever call notices.                                              *)
ClosedIsAnnouncedOnce ==
  \A r \in Requests :
    /\ announced[r] + One(r \in owed) + One(r \in due) <= 1
    /\ store[r].phase \in Closed =>
         announced[r] + One(r \in owed) + One(r \in due) = 1
    /\ store[r].phase = "pending" => announced[r] = 0

(* Of all the devices that answer a request, one is told it decided, and    *)
(* it did.                                                                  *)
OneWinner ==
  \A d \in Devices, r \in Requests : told[d][r] = "accepted" => winner[r] = d

(* A restart of the gateway forgets every key and costs nobody a press.     *)
NotRefusedForKey ==
  restarts <= 1 => \A d \in Devices, r \in Requests : told[d][r] # "keyless"

(* A request the gateway no longer offers leaves the screens, even when a   *)
(* restarted gateway happens to be at the revision a screen has seen.       *)
ScreenLetsGo ==
  \A d \in Screens, r \in Requests :
    view[d].list[r] = "pending" /\ store[r].phase # "pending" ~> view[d].list[r] # "pending"
=============================================================================
