---------------------------- MODULE ChainRecovery ----------------------------
(***************************************************************************)
(* The one retry of a request that Claude's provider answered with 401     *)
(* (crates/kasa-device/src/agent_chains/recovery.rs, kasa-students'        *)
(* proxy.rs).  The gateway rotates a chain and the old access token dies   *)
(* at once, while a running Claude still sends it.  The requests of one    *)
(* chain share a round that looks for the newer token; each then verifies  *)
(* the result for itself.  One chain key and one slot of it are modelled.  *)
(***************************************************************************)
EXTENDS Integers, FiniteSets

CONSTANTS Requests,     \* requests of Claude through the proxy
          None,         \* no request, no round, no flight
          MaxTokens,    \* access tokens there will be
          MaxRotations, \* rotations of one chain
          MaxChanges    \* logins, logouts, removals and expiries

ASSUME RecoveryAssumption ==
  /\ None \notin Requests \cup ({"lead", "look"} \X Requests)
  /\ MaxTokens \in Nat \ {0}
  /\ MaxRotations \in Nat /\ MaxChanges \in Nat

VARIABLES changes,
          top,     \* tokens handed out so far; a later one lives longer
          expired, \* tokens up to this one are past their time
          chain,   \* the gateway's chain of the key
          stamp,   \* the login of this device at the gateway
          slot,    \* the slot's store and its line in agent-chains.json
          ledger,  \* State: what the device's last cycles have told
          req,     \* the requests
          lead,    \* the task that a round's first request has started
          look,    \* the task that verifies a result for a request
          result,  \* of the round a request has started
          flight,  \* the entry of the key in flights
          active,  \* the round under way of a flight
          io,      \* who holds a flight's lock for blocking reads
          had      \* tokens a request could have found since it failed (history)

world    == <<top, expired, chain, stamp, slot>>
tasks    == <<lead, look, result, active, io>>
vars     == <<changes, world, ledger, req, tasks, flight, had>>

(* A token is the n-th there is, of the generation its chain was sealed in. *)
Token    == [gen : 1..MaxTokens, n : 1..MaxTokens]
NoToken  == [gen |-> 0, n |-> 0]
Chain    == [ok : BOOLEAN, cur : Token, lineage : SUBSET Token]
NoChain  == [ok |-> FALSE, cur |-> NoToken, lineage |-> {}]
Unmanaged(st) == [stamp |-> st, managed |-> FALSE, seen |-> NoChain]

Pending  == [gen |-> 0, n |-> 1]   \* a round without a result yet
Results  == Token \cup {NoToken, Pending}

(* A blocking read is made for a round or for a request.                    *)
Task     == {"lead", "look"} \X Requests

Asking   == {"listen", "pending", "sleep", "verify", "looking", "recheck"}

TypeOK ==
  /\ changes \in 0..MaxChanges /\ top \in 0..MaxTokens /\ expired \in 0..MaxTokens
  /\ chain \in Chain /\ stamp \in Nat
  /\ slot \in [tok : Token, ref : BOOLEAN, mapped : BOOLEAN]
  /\ ledger \in [stamp : Nat, managed : BOOLEAN, seen : Chain \cup {NoChain}]
  /\ req \in [Requests -> [pc : {"new", "sent", "passed", "retried"} \cup Asking,
                           tok : Token \cup {NoToken}, stamp : Nat, found : Results,
                           flight : Requests \cup {None}, round : Requests \cup {None},
                           woken : BOOLEAN]]
  /\ lead \in [Requests -> [pc : {"none", "begin", "look", "lock", "read", "found", "end", "done"},
                            tok : Token \cup {NoToken}, late : BOOLEAN]]
  /\ look \in [Requests -> {"none", "lock", "read", "done"}]
  /\ result \in [Requests -> Results]
  /\ flight \in Requests \cup {None}
  /\ active \in [Requests -> Requests \cup {None}]
  /\ io \in [Requests -> Task \cup {None}]
  /\ had \in [Requests -> SUBSET Token]

NewReq == [pc |-> "new", tok |-> NoToken, stamp |-> 0, found |-> Pending,
           flight |-> None, round |-> None, woken |-> FALSE]

(* The account is in order: one token in the slot, and all know it.         *)
Init ==
  LET t == [gen |-> 1, n |-> 1] IN
  /\ changes = 0 /\ top = 1 /\ expired = 0 /\ stamp = 1
  /\ chain = [ok |-> TRUE, cur |-> t, lineage |-> {}]
  /\ slot = [tok |-> t, ref |-> FALSE, mapped |-> TRUE]
  /\ ledger = [stamp |-> 1, managed |-> TRUE, seen |-> chain]
  /\ req = [r \in Requests |-> NewReq]
  /\ lead = [r \in Requests |-> [pc |-> "none", tok |-> NoToken, late |-> FALSE]]
  /\ look = [r \in Requests |-> "none"]
  /\ result = [r \in Requests |-> Pending]
  /\ flight = None
  /\ active = [f \in Requests |-> None] /\ io = [f \in Requests |-> None]
  /\ had = [r \in Requests |-> {}]

-----------------------------------------------------------------------------
(* The world.  What the slot would grant a request of this device's login   *)
(* is remembered for every request under way.                               *)
Granted(sl) == {t \in {sl.tok} : ~sl.ref /\ sl.mapped}

Remember ==
  had' = [r \in Requests |->
            IF req[r].pc \in Asking /\ req[r].stamp = stamp' THEN had[r] \cup Granted(slot') ELSE had[r]]

Change == changes < MaxChanges /\ changes' = changes + 1

Rest == UNCHANGED <<req, tasks>>

(* The gateway rotates the chain, or finds it broken.                       *)
Rotate ==
  /\ chain.ok /\ top < MaxTokens /\ Cardinality(chain.lineage) < MaxRotations
  /\ top' = top + 1
  /\ chain' = [chain EXCEPT !.cur.n = top + 1, !.lineage = @ \cup {chain.cur}]
  /\ UNCHANGED <<changes, expired, stamp, slot, ledger, flight, had>> /\ Rest

Break ==
  /\ chain.ok
  /\ chain' = [chain EXCEPT !.ok = FALSE]
  /\ UNCHANGED <<changes, top, expired, stamp, slot, ledger, flight, had>> /\ Rest

(* Someone logs in to the slot anew, and the device hands that login over:  *)
(* a broken chain becomes the new one, a sound one is taken instead.        *)
Login ==
  /\ Change /\ top < MaxTokens
  /\ top' = top + 1
  /\ slot' = [slot EXCEPT !.tok = [gen |-> top + 1, n |-> top + 1], !.ref = TRUE]
  /\ UNCHANGED <<expired, chain, stamp, ledger, flight>> /\ Rest
  /\ Remember

HandOver ==
  /\ slot.ref
  /\ chain' = IF chain.ok THEN chain ELSE [ok |-> TRUE, cur |-> slot.tok, lineage |-> {}]
  /\ slot' = [slot EXCEPT !.tok = chain'.cur, !.ref = FALSE, !.mapped = TRUE]
  /\ UNCHANGED <<changes, top, expired, stamp, ledger, flight>> /\ Rest
  /\ Remember

(* The slot is removed in the settings, or the device's login changes.      *)
Remove ==
  /\ Change /\ slot.mapped
  /\ slot' = [slot EXCEPT !.mapped = FALSE]
  /\ UNCHANGED <<top, expired, chain, stamp, ledger, flight>> /\ Rest
  /\ Remember

Adopt ==
  /\ ~slot.mapped
  /\ slot' = [slot EXCEPT !.mapped = TRUE]
  /\ UNCHANGED <<changes, top, expired, chain, stamp, ledger, flight>> /\ Rest
  /\ Remember

Relogin ==
  /\ Change
  /\ stamp' = stamp + 1
  /\ UNCHANGED <<top, expired, chain, slot, ledger, flight>> /\ Rest
  /\ Remember

Expire ==
  /\ expired < top /\ Change
  /\ expired' = expired + 1
  /\ UNCHANGED <<top, chain, stamp, slot, ledger, flight, had>> /\ Rest

-----------------------------------------------------------------------------
(* The device's cycle (sync_once): the login it runs under, the keys that   *)
(* real slots have, what the gateway lists, and the slot filled with it.    *)
(* An entry of flights that nobody uses goes with its key.                  *)
Holders(f) ==
  {r \in Requests : (req[r].pc \in Asking /\ req[r].flight = f)
                    \/ (lead[r].pc \notin {"none", "done"} /\ req[r].flight = f)
                    \/ (look[r] \in {"lock", "read"} /\ req[r].flight = f)}

(* Faulty: a task that goes on after its request has given up holds nothing.*)
InUseByRound(f) == active[f] # None \/ \E r \in Holders(f) : req[r].pc \in Asking

FlightInUse(f) == active[f] # None \/ Holders(f) # {}

Begin ==
  /\ ledger.stamp # stamp
  /\ ledger' = Unmanaged(stamp)
  /\ flight' = IF flight # None /\ FlightInUse(flight) THEN flight ELSE None
  /\ UNCHANGED <<changes, world, had>> /\ Rest

Manage ==
  /\ ledger.stamp = stamp
  /\ ledger' = [ledger EXCEPT !.managed = slot.mapped]
  /\ flight' = IF flight # None /\ (slot.mapped \/ FlightInUse(flight)) THEN flight ELSE None
  /\ UNCHANGED <<changes, world, had>> /\ Rest

Observe ==
  /\ ledger.stamp = stamp
  /\ ledger' = [ledger EXCEPT !.seen =
                  IF ~chain.ok \/ chain.cur.n <= expired THEN NoChain
                  ELSE [chain EXCEPT !.lineage = {t \in @ : t.n > expired}]]
  /\ UNCHANGED <<changes, world, flight, had>> /\ Rest

(* Ten minutes after a rotation earlier tokens are no longer told of.       *)
LineageOver ==
  /\ ledger.seen.lineage # {}
  /\ ledger' = [ledger EXCEPT !.seen.lineage = {}]
  /\ UNCHANGED <<changes, world, flight, had>> /\ Rest

Fill ==
  /\ ledger.stamp = stamp /\ slot.mapped /\ ~slot.ref
  /\ ledger.seen.ok /\ ledger.seen.cur.n > slot.tok.n
  /\ slot' = [slot EXCEPT !.tok = ledger.seen.cur]
  /\ UNCHANGED <<changes, top, expired, chain, stamp, ledger, flight>> /\ Rest
  /\ Remember

-----------------------------------------------------------------------------
(* check(): may the request be retried, and with which token?               *)
Known(seen, t) == t \in {seen.cur} \cup seen.lineage

(* Faulty: the newest token of the key will do, of whatever chain it is.    *)
StopsNoGeneration(r) ==
  \/ req[r].tok.n <= expired
  \/ ledger.stamp # req[r].stamp \/ ~ledger.managed \/ ~ledger.seen.ok

Stops(r) ==
  \/ req[r].tok.n <= expired
  \/ ledger.stamp # req[r].stamp \/ ~ledger.managed \/ ~ledger.seen.ok
  \/ ledger.seen.cur.gen # req[r].tok.gen \/ ~Known(ledger.seen, req[r].tok)

Ready(r) ==
  /\ ~Stops(r)
  /\ ledger.seen.cur.n > req[r].tok.n /\ ledger.seen.cur.n > expired

(* A request is sent with a token that Claude has; if the token is known it *)
(* has a ticket, and may ask once when the answer is 401.                   *)
Send(r) ==
  /\ req[r].pc = "new"
  /\ ledger.managed /\ ledger.seen.ok
  /\ \E t \in {ledger.seen.cur} \cup ledger.seen.lineage :
       /\ t.n > expired
       /\ req' = [req EXCEPT ![r].pc = "sent", ![r].tok = t, ![r].stamp = ledger.stamp]
  /\ UNCHANGED <<changes, world, ledger, tasks, flight, had>>

(* The 401 is passed on; what the request had learned is forgotten.         *)
Passes(r) ==
  /\ req' = [req EXCEPT ![r].pc = "passed", ![r].found = Pending, ![r].round = None, ![r].woken = FALSE]
  /\ had' = [had EXCEPT ![r] = {}]

Goes(r, pc) == req' = [req EXCEPT ![r].pc = pc] /\ UNCHANGED had

(* recover_shared(): join the round under way or start one.                 *)
Ask(r) ==
  LET f == IF flight = None THEN r ELSE flight IN
  /\ req[r].pc = "sent" /\ (req[r].tok # chain.cur \/ ~chain.ok)
  /\ IF Stops(r)
     THEN Passes(r) /\ UNCHANGED <<lead, active, flight>>
     ELSE /\ flight' = f
          /\ IF active[f] # None
             THEN /\ req' = [req EXCEPT ![r].pc = "listen", ![r].flight = f, ![r].round = active[f]]
                  /\ UNCHANGED <<lead, active>>
             ELSE /\ req' = [req EXCEPT ![r].pc = "listen", ![r].flight = f, ![r].round = r]
                  /\ lead' = [lead EXCEPT ![r].pc = "begin"]
                  /\ active' = [active EXCEPT ![f] = r]
          /\ had' = [had EXCEPT ![r] = IF req[r].stamp = stamp THEN Granted(slot) ELSE {}]
  /\ UNCHANGED <<changes, world, ledger, look, result, io>>

(* Waiting for the round: notified() is made, then the result is read; who  *)
(* finds none yet goes to sleep a moment later.                             *)
ReadResult(r) ==
  LET found == result[req[r].round] IN
  /\ req[r].pc = "listen"
  /\ \/ found = Pending /\ Goes(r, "pending")
     \/ found = NoToken /\ Passes(r)
     \/ /\ found \in Token
        /\ req' = [req EXCEPT ![r].pc = "verify", ![r].found = found, ![r].round = None]
        /\ UNCHANGED had
  /\ UNCHANGED <<changes, world, ledger, tasks, flight>>

FallAsleep(r) ==
  /\ req[r].pc = "pending" /\ Goes(r, "sleep")
  /\ UNCHANGED <<changes, world, ledger, tasks, flight>>

Wake(r) ==
  /\ req[r].pc = "sleep" /\ req[r].woken
  /\ req' = [req EXCEPT ![r].pc = "listen", ![r].woken = FALSE]
  /\ UNCHANGED <<changes, world, ledger, tasks, flight, had>>

(* Faulty: only those who sleep already are woken.                          *)
WokenAsleep(k) == {r \in Requests : req[r].round = k /\ req[r].pc = "sleep"}

Woken(k) == {r \in Requests : req[r].round = k /\ req[r].pc \in {"pending", "sleep"}}

-----------------------------------------------------------------------------
(* shared_current(): the request looks for itself before it goes out again: *)
(* at the ledger, in a task of its own at the slot, at the ledger again.    *)
StillReady(r) == Ready(r) /\ ledger.seen.cur = req[r].found

Verify(r) ==
  /\ req[r].pc = "verify"
  /\ IF StillReady(r)
     THEN Goes(r, "looking") /\ look' = [look EXCEPT ![r] = "lock"]
     ELSE Passes(r) /\ UNCHANGED look
  /\ UNCHANGED <<changes, world, ledger, lead, result, active, io, flight>>

(* The task waits for the flight's lock, and reads nothing when the request *)
(* has given up meanwhile.                                                  *)
LookLocks(r) ==
  LET f == req[r].flight IN
  /\ look[r] = "lock" /\ io[f] = None
  /\ IF req[r].pc = "looking"
     THEN look' = [look EXCEPT ![r] = "read"] /\ io' = [io EXCEPT ![f] = <<"look", r>>]
     ELSE look' = [look EXCEPT ![r] = "done"] /\ UNCHANGED io
  /\ UNCHANGED <<changes, world, ledger, req, lead, result, active, flight, had>>

InScope(r) == stamp = req[r].stamp /\ slot.mapped

GrantCurrent(r) == InScope(r) /\ ~slot.ref /\ slot.tok = req[r].found

LookReads(r) ==
  /\ look[r] = "read"
  /\ look' = [look EXCEPT ![r] = "done"]
  /\ io' = [io EXCEPT ![req[r].flight] = None]
  /\ IF req[r].pc # "looking" THEN UNCHANGED <<req, had>>
     ELSE IF GrantCurrent(r) THEN Goes(r, "recheck") ELSE Passes(r)
  /\ UNCHANGED <<changes, world, ledger, lead, result, active, flight>>

Retry(r) ==
  /\ req[r].pc = "recheck"
  /\ IF StillReady(r) THEN Goes(r, "retried") ELSE Passes(r)
  /\ UNCHANGED <<changes, world, ledger, tasks, flight>>

-----------------------------------------------------------------------------
(* recover_once(): the task of the round that request k has started.  It    *)
(* outlives the request, up to the same eight seconds.                      *)
Lead(k, pc) == lead' = [lead EXCEPT ![k].pc = pc]

LeadBegins(k) ==
  /\ lead[k].pc = "begin"
  /\ Lead(k, IF stamp = req[k].stamp THEN "look" ELSE "end")
  /\ UNCHANGED <<changes, world, ledger, req, look, result, active, io, flight, had>>

(* Looks at the ledger; a sleep of 40 ms between two looks is no step.      *)
LeadLooks(k) ==
  /\ lead[k].pc = "look"
  /\ \/ (lead[k].late \/ Stops(k)) /\ Lead(k, "end")
     \/ ~lead[k].late /\ Ready(k) /\ lead' = [lead EXCEPT ![k].pc = "lock", ![k].tok = ledger.seen.cur]
  /\ UNCHANGED <<changes, world, ledger, req, look, result, active, io, flight, had>>

LeadLocks(k) ==
  /\ lead[k].pc = "lock" /\ io[req[k].flight] = None
  /\ Lead(k, "read")
  /\ io' = [io EXCEPT ![req[k].flight] = <<"lead", k>>]
  /\ UNCHANGED <<changes, world, ledger, req, look, result, active, flight, had>>

(* probe_slots(): the token is there, or the one that failed still is, or   *)
(* something else is.                                                       *)
LeadReads(k) ==
  /\ lead[k].pc = "read"
  /\ lead' = [lead EXCEPT
       ![k].pc = IF ~InScope(k) \/ slot.ref \/ slot.tok \notin {lead[k].tok, req[k].tok} THEN "end"
                 ELSE IF slot.tok = lead[k].tok THEN "found" ELSE "look"]
  /\ io' = [io EXCEPT ![req[k].flight] = None]
  /\ UNCHANGED <<changes, world, ledger, req, look, result, active, flight, had>>

(* FlightLeader::complete(): the result, then the end of the round.         *)
Closes(k, found) ==
  /\ result' = [result EXCEPT ![k] = found]
  /\ lead' = [lead EXCEPT ![k] = [pc |-> "end", tok |-> NoToken, late |-> FALSE]]

LeadFound(k) ==
  /\ lead[k].pc = "found"
  /\ Closes(k, IF ~lead[k].late /\ Ready(k) /\ ledger.seen.cur = lead[k].tok
               THEN lead[k].tok ELSE NoToken)
  /\ UNCHANGED <<changes, world, ledger, req, look, active, io, flight, had>>

LeadGivesUp(k) ==
  /\ lead[k].pc = "end" /\ result[k] = Pending
  /\ Closes(k, NoToken)
  /\ UNCHANGED <<changes, world, ledger, req, look, active, io, flight, had>>

LeadEnds(k) ==
  LET f == req[k].flight IN
  /\ lead[k].pc = "end" /\ result[k] # Pending
  /\ Lead(k, "done")
  /\ active' = [active EXCEPT ![f] = IF @ = k THEN None ELSE @]
  /\ req' = [r \in Requests |-> IF r \in Woken(k) THEN [req[r] EXCEPT !.woken = TRUE] ELSE req[r]]
  /\ UNCHANGED <<changes, world, ledger, look, result, io, flight, had>>

(* Eight seconds are over: the request passes its 401 on, wherever it is;   *)
(* its task sees it at its next look.                                       *)
Leading(r) == lead[r].pc \in {"begin", "look", "lock", "read", "found"}

Late(r) ==
  /\ \/ req[r].pc \in Asking
     \/ Leading(r) /\ ~lead[r].late
  /\ IF req[r].pc \in Asking THEN Passes(r) ELSE UNCHANGED <<req, had>>
  /\ lead' = [lead EXCEPT ![r].late = Leading(r)]
  /\ UNCHANGED <<changes, world, ledger, look, result, active, io, flight>>

Tasks(r) ==
  \/ LeadBegins(r) \/ LeadLooks(r) \/ LeadLocks(r) \/ LeadReads(r)
  \/ LeadFound(r) \/ LeadGivesUp(r) \/ LeadEnds(r)
  \/ LookLocks(r) \/ LookReads(r)

Steps(r) ==
  \/ ReadResult(r) \/ FallAsleep(r) \/ Wake(r) \/ Verify(r) \/ Retry(r)

Cycle == Begin \/ Manage \/ Observe \/ LineageOver \/ Fill

Next ==
  \/ Rotate \/ Break \/ Login \/ HandOver \/ Remove \/ Adopt \/ Relogin \/ Expire
  \/ Cycle
  \/ \E r \in Requests : Send(r) \/ Ask(r) \/ Steps(r) \/ Tasks(r) \/ Late(r)

Spec == Init /\ [][Next]_vars

-----------------------------------------------------------------------------
(* Properties *)

(* A request goes out again with a newer token of the chain it was sent     *)
(* under, never with another login's, and with one its slot had, free of a  *)
(* login of its own and under the same login of the device, after the       *)
(* request had failed: what was found for an earlier request is not enough, *)
(* whatever happens to slot, chain and login while this one waits.          *)
RetryIsOwn ==
  \A r \in Requests : req[r].pc = "retried" =>
    /\ req[r].found.gen = req[r].tok.gen /\ req[r].found.n > req[r].tok.n
    /\ req[r].found \in had[r]

(* The blocking reads of a chain never overlap, though requests give up     *)
(* while theirs are under way and the chain may be removed and come back.   *)
Readers ==
  {t \in Task : \/ t[1] = "lead" /\ lead[t[2]].pc = "read"
                \/ t[1] = "look" /\ look[t[2]] = "read"}

OneLookAtATime == \A s, t \in Readers : s = t

(* Nobody sleeps until the eight seconds are over because a wake-up went   *)
(* by: as long as a request waits for a round, unless it is about to wake,  *)
(* the task of that round still runs and will wake all who wait.            *)
RoundIsHeard ==
  \A r \in Requests :
    req[r].pc \in {"pending", "sleep"} /\ ~req[r].woken
      => lead[req[r].round].pc \notin {"none", "done"}
=============================================================================
