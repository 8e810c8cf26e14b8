------------------------- MODULE ChainRecoveryProofs -------------------------
(* Proofs about ChainRecovery for any requests, tokens and changes.          *)
EXTENDS ChainRecovery, TLAPS

(* The records of a request and of the task of a round.                      *)
Request == [pc : {"new", "sent", "passed", "retried"} \cup Asking,
            tok : Token \cup {NoToken}, stamp : Nat, found : Results,
            flight : Requests \cup {None}, round : Requests \cup {None},
            woken : BOOLEAN]
LeadTask == [pc : {"none", "begin", "look", "lock", "read", "found", "end", "done"},
             tok : Token \cup {NoToken}, late : BOOLEAN]

(* The stand-ins are none of the values they stand in for.                  *)
LEMMA Distinct ==
  /\ NoToken \notin Token /\ Pending \notin Token /\ Pending # NoToken
  /\ None \notin Requests /\ None \notin Task
BY RecoveryAssumption DEF NoToken, Pending, Token, Task

(* The fields of a request and of its task.                                 *)
LEMMA RequestFields ==
  ASSUME TypeOK, NEW r \in Requests
  PROVE  /\ req[r] \in Request /\ lead[r] \in LeadTask
         /\ req[r].tok \in Token \cup {NoToken} /\ req[r].found \in Results /\ req[r].stamp \in Nat
         /\ req[r].flight \in Requests \cup {None} /\ req[r].round \in Requests \cup {None}
         /\ lead[r].tok \in Token \cup {NoToken}
BY DEF TypeOK, Request, LeadTask

(* The changes a step makes to a request keep it one.                       *)
LEMMA RequestUpdates ==
  ASSUME NEW q \in Request
  PROVE  /\ \A pc \in {"new", "sent", "passed", "retried"} \cup Asking : [q EXCEPT !.pc = pc] \in Request
         /\ [q EXCEPT !.pc = "passed", !.found = Pending, !.round = None, !.woken = FALSE] \in Request
         /\ \A t \in Token, n \in Nat : [q EXCEPT !.pc = "sent", !.tok = t, !.stamp = n] \in Request
         /\ \A f, k \in Requests :
              [q EXCEPT !.pc = "listen", !.flight = f, !.round = k] \in Request
         /\ \A t \in Token : [q EXCEPT !.pc = "verify", !.found = t, !.round = None] \in Request
         /\ [q EXCEPT !.pc = "listen", !.woken = FALSE] \in Request
         /\ [q EXCEPT !.woken = TRUE] \in Request
BY ZenonT(60) DEF Request, Asking, Results

(* The changes a step makes to a task keep it one.                          *)
LEMMA TaskUpdates ==
  ASSUME NEW q \in LeadTask
  PROVE  /\ \A pc \in {"none", "begin", "look", "lock", "read", "found", "end", "done"} :
              [q EXCEPT !.pc = pc] \in LeadTask
         /\ \A t \in Token \cup {NoToken} : [q EXCEPT !.pc = "lock", !.tok = t] \in LeadTask
         /\ \A b \in BOOLEAN : [q EXCEPT !.late = b] \in LeadTask
         /\ [pc |-> "end", tok |-> NoToken, late |-> FALSE] \in LeadTask
BY DEF LeadTask

(* What the steps of the world make of a chain and of a slot.               *)
Slot == [tok : Token, ref : BOOLEAN, mapped : BOOLEAN]

(* A new token is a token, and a chain that rotates a chain.                *)
LEMMA ChainUpdates ==
  ASSUME TypeOK, top < MaxTokens
  PROVE  /\ top + 1 \in 0..MaxTokens
         /\ [gen |-> top + 1, n |-> top + 1] \in Token
         /\ \A c \in Chain :
              [c EXCEPT !.cur.n = top + 1, !.lineage = @ \cup {c.cur}] \in Chain
<1>1. top + 1 \in 1..MaxTokens
  BY RecoveryAssumption DEF TypeOK
<1>2. ASSUME NEW c \in Chain
      PROVE  [c EXCEPT !.cur.n = top + 1, !.lineage = @ \cup {c.cur}] \in Chain
  <2>1. c.cur \in Token /\ [c.cur EXCEPT !.n = top + 1] \in Token
    BY <1>1 DEF Chain, Token
  <2>. QED BY <2>1 DEF Chain
<1>3. top + 1 \in 0..MaxTokens
  BY <1>1, RecoveryAssumption
<1>4. [gen |-> top + 1, n |-> top + 1] \in Token
  BY <1>1 DEF Token
<1>. QED BY <1>2, <1>3, <1>4

(* The fields of the device's ledger.                                       *)
LEMMA LedgerFields ==
  ASSUME TypeOK
  PROVE  /\ ledger.stamp \in Nat /\ ledger.managed \in BOOLEAN
         /\ ledger.seen \in Chain \cup {NoChain}
         /\ ledger.seen.ok => ledger.seen \in Chain /\ ledger.seen.cur \in Token
         /\ ledger.seen.lineage \subseteq Token
         /\ ledger = [stamp |-> ledger.stamp, managed |-> ledger.managed, seen |-> ledger.seen]
BY DEF TypeOK, Chain, NoChain

(* Types at first.                                                          *)
LEMMA InitTyped == Init => TypeOK
<1>1. [gen |-> 1, n |-> 1] \in Token
  BY RecoveryAssumption DEF Token
<1>. QED BY <1>1, RecoveryAssumption
         DEF Init, TypeOK, Chain, NewReq, Results

(* Types when logins, slots and chains change outside a request.            *)
LEMMA WorldTyped ==
  ASSUME TypeOK,
         Rotate \/ Break \/ Login \/ HandOver \/ Remove \/ Adopt \/ Relogin \/ Expire
  PROVE  TypeOK'
<1>1. ASSUME Remember, slot' \in Slot
      PROVE  had' \in [Requests -> SUBSET Token]
  BY <1>1 DEF Remember, Granted, Slot, TypeOK
<1>2. ASSUME Change
      PROVE  changes' \in 0..MaxChanges
  BY <1>2, RecoveryAssumption DEF Change, TypeOK
<1>. USE DEF Rest, tasks
<1>3. CASE Rotate
  BY <1>3, ChainUpdates DEF Rotate, TypeOK
<1>4. CASE Break
  BY <1>4 DEF Break, TypeOK, Chain
<1>5. CASE Login
  <2>1. slot' \in Slot
    BY <1>5, ChainUpdates DEF Login, TypeOK, Slot
  <2>. QED BY <1>1, <1>2, <1>5, <2>1, ChainUpdates DEF Login, TypeOK, Slot
<1>6. CASE HandOver
  <2>1. chain' \in Chain
    BY <1>6 DEF HandOver, TypeOK, Chain
  <2>2. slot' \in Slot
    BY <1>6, <2>1 DEF HandOver, TypeOK, Slot, Chain
  <2>. QED BY <1>1, <1>6, <2>1, <2>2 DEF HandOver, TypeOK, Slot
<1>7. CASE Remove \/ Adopt
  <2>1. slot' \in Slot
    BY <1>7 DEF Remove, Adopt, TypeOK, Slot
  <2>. QED BY <1>1, <1>2, <1>7, <2>1 DEF Remove, Adopt, TypeOK, Slot
<1>8. CASE Relogin
  <2>1. slot' \in Slot
    BY <1>8 DEF Relogin, TypeOK, Slot
  <2>. QED BY <1>1, <1>2, <1>8, <2>1 DEF Relogin, TypeOK
<1>9. CASE Expire
  BY <1>2, <1>9, RecoveryAssumption DEF Expire, TypeOK
<1>. QED BY <1>3, <1>4, <1>5, <1>6, <1>7, <1>8, <1>9

(* Types over a cycle of the device.                                        *)
LEMMA CycleTyped ==
  ASSUME TypeOK, Cycle
  PROVE  TypeOK'
<1>. DEFINE L == [stamp : Nat, managed : BOOLEAN, seen : Chain \cup {NoChain}]
<1>0. ledger \in L
  BY DEF TypeOK
<1>. USE DEF Rest, tasks, world
<1>1. CASE Begin
  BY <1>1 DEF Begin, TypeOK, Unmanaged
<1>2. CASE Manage
  <2>1. ledger' \in L
    BY <1>0, <1>2 DEF Manage, TypeOK
  <2>. QED BY <1>2, <2>1 DEF Manage, TypeOK
<1>3. CASE Observe
  <2>1. [chain EXCEPT !.lineage = {t \in @ : t.n > expired}] \in Chain
    BY DEF TypeOK, Chain
  <2>2. ledger' \in L
    BY <1>0, <1>3, <2>1 DEF Observe
  <2>. QED BY <1>3, <2>2 DEF Observe, TypeOK
<1>4. CASE LineageOver
  <2>1. [ledger.seen EXCEPT !.lineage = {}] \in Chain \cup {NoChain}
    <3>1. ledger.seen \in Chain
      BY <1>0, <1>4 DEF LineageOver, NoChain
    <3>. QED BY <3>1 DEF Chain
  <2>2. ledger' \in L
    BY <1>0, <1>4, <2>1 DEF LineageOver
  <2>. QED BY <1>4, <2>2 DEF LineageOver, TypeOK
<1>5. CASE Fill
  <2>1. slot' \in Slot
    BY <1>5, LedgerFields DEF Fill, TypeOK, Slot
  <2>2. had' \in [Requests -> SUBSET Token]
    BY <1>5, <2>1 DEF Fill, Remember, Granted, Slot, TypeOK
  <2>. QED BY <1>5, <2>1, <2>2 DEF Fill, TypeOK, Slot
<1>. QED BY <1>1, <1>2, <1>3, <1>4, <1>5 DEF Cycle

(* The steps of a request and of its tasks leave the world alone.           *)
LEMMA RequestTyped ==
  ASSUME TypeOK, NEW r \in Requests, Send(r) \/ Ask(r) \/ Steps(r) \/ Tasks(r) \/ Late(r)
  PROVE  TypeOK'
<1>. DEFINE Reqs == [Requests -> Request]
            Leads == [Requests -> LeadTask]
<1>0. /\ req \in Reqs /\ lead \in Leads /\ req[r] \in Request /\ lead[r] \in LeadTask
      /\ had \in [Requests -> SUBSET Token] /\ slot.tok \in Token
  BY DEF TypeOK, Request, LeadTask
<1>1. /\ UNCHANGED <<changes, world>>
      /\ ledger' = ledger
  BY DEF Send, Ask, Steps, Tasks, Late, ReadResult, FallAsleep, Wake, Verify, Retry,
         LeadBegins, LeadLooks, LeadLocks, LeadReads, LeadFound, LeadGivesUp, LeadEnds,
         LookLocks, LookReads
<1>2. ASSUME req' \in Reqs, lead' \in Leads, look' \in [Requests -> {"none", "lock", "read", "done"}],
             result' \in [Requests -> Results], flight' \in Requests \cup {None},
             active' \in [Requests -> Requests \cup {None}],
             io' \in [Requests -> Task \cup {None}], had' \in [Requests -> SUBSET Token]
      PROVE  TypeOK'
  BY <1>1, <1>2 DEF TypeOK, world, Request, LeadTask
<1>3. ASSUME Passes(r)
      PROVE  req' \in Reqs /\ had' \in [Requests -> SUBSET Token]
  BY <1>0, <1>3, RequestUpdates DEF Passes
<1>4. ASSUME NEW pc \in {"new", "sent", "passed", "retried"} \cup Asking, Goes(r, pc)
      PROVE  req' \in Reqs /\ had' \in [Requests -> SUBSET Token]
  BY <1>0, <1>4, RequestUpdates DEF Goes
<1>5. ASSUME NEW pc \in {"none", "begin", "look", "lock", "read", "found", "end", "done"}, Lead(r, pc)
      PROVE  lead' \in Leads
  BY <1>0, <1>5, TaskUpdates DEF Lead
<1>. HIDE DEF Reqs, Leads
<1>. USE DEF tasks
<1>6. CASE Send(r)
  <2>1. PICK t \in {ledger.seen.cur} \cup ledger.seen.lineage :
          req' = [req EXCEPT ![r].pc = "sent", ![r].tok = t, ![r].stamp = ledger.stamp]
    BY <1>6 DEF Send
  <2>2. t \in Token /\ ledger.stamp \in Nat
    BY <1>6, <2>1, LedgerFields DEF Send
  <2>3. req' \in Reqs
    BY <1>0, <2>1, <2>2, RequestUpdates DEF Reqs
  <2>. QED BY <1>0, <1>2, <1>6, <2>3 DEF Send, TypeOK
<1>7. CASE Ask(r)
  <2>1. CASE Stops(r)
    BY <1>0, <1>2, <1>3, <1>7, <2>1 DEF Ask, TypeOK
  <2>2. CASE ~Stops(r)
    <3>1. flight' \in Requests
      BY <1>7, <2>2 DEF Ask, TypeOK
    <3>. DEFINE f == flight'
    <3>2. active[f] \in Requests \cup {None} /\ f = IF flight = None THEN r ELSE flight
      BY <1>7, <2>2, <3>1 DEF Ask, TypeOK
    <3>5. had' \in [Requests -> SUBSET Token]
      BY <1>0, <1>7, <2>2 DEF Ask, Granted
    <3>3. CASE active[f] # None
      <4>1. /\ req' = [req EXCEPT ![r].pc = "listen", ![r].flight = f, ![r].round = active[f]]
            /\ UNCHANGED <<lead, active>>
        BY <1>7, <2>2, <3>2, <3>3 DEF Ask
      <4>2. req' \in Reqs
        BY <1>0, <3>1, <3>2, <3>3, <4>1, RequestUpdates DEF Reqs
      <4>. QED BY <1>0, <1>2, <1>7, <3>1, <3>5, <4>1, <4>2 DEF Ask, TypeOK
    <3>4. CASE active[f] = None
      <4>1. /\ req' = [req EXCEPT ![r].pc = "listen", ![r].flight = f, ![r].round = r]
            /\ lead' = [lead EXCEPT ![r].pc = "begin"]
            /\ active' = [active EXCEPT ![f] = r]
        BY <1>7, <2>2, <3>2, <3>4 DEF Ask
      <4>2. req' \in Reqs
        BY <1>0, <3>1, <4>1, RequestUpdates DEF Reqs
      <4>3. lead' \in Leads
        BY <1>0, <4>1, TaskUpdates DEF Leads
      <4>4. active' \in [Requests -> Requests \cup {None}]
        BY <4>1 DEF TypeOK
      <4>. QED BY <1>2, <1>7, <3>1, <3>5, <4>2, <4>3, <4>4 DEF Ask, TypeOK
    <3>. QED BY <3>2, <3>3, <3>4
  <2>. QED BY <2>1, <2>2
<1>8. CASE ReadResult(r)
  <2>1. req' \in Reqs /\ had' \in [Requests -> SUBSET Token]
    <3>1. CASE Goes(r, "pending")
      BY <1>4, <3>1 DEF Asking
    <3>2. CASE Passes(r)
      BY <1>3, <3>2
    <3>3. CASE /\ result[req[r].round] \in Token
               /\ req' = [req EXCEPT ![r].pc = "verify", ![r].found = result[req[r].round],
                                     ![r].round = None]
               /\ UNCHANGED had
      BY <1>0, <3>3, RequestUpdates DEF Reqs
    <3>. QED BY <1>8, <3>1, <3>2, <3>3 DEF ReadResult
  <2>. QED BY <1>0, <1>2, <1>8, <2>1 DEF ReadResult, TypeOK
<1>9. CASE FallAsleep(r)
  <2>1. req' \in Reqs /\ had' \in [Requests -> SUBSET Token]
    BY <1>4, <1>9 DEF FallAsleep, Asking
  <2>. QED BY <1>0, <1>2, <1>9, <2>1 DEF FallAsleep, TypeOK
<1>10. CASE Wake(r)
  <2>1. req' \in Reqs
    BY <1>0, <1>10, RequestUpdates DEF Wake, Reqs
  <2>. QED BY <1>0, <1>2, <1>10, <2>1 DEF Wake, TypeOK
<1>11. CASE Verify(r)
  <2>1. req' \in Reqs /\ had' \in [Requests -> SUBSET Token]
    BY <1>3, <1>4, <1>11 DEF Verify, Asking
  <2>. QED BY <1>0, <1>2, <1>11, <2>1 DEF Verify, TypeOK
<1>12. CASE Retry(r)
  <2>1. req' \in Reqs /\ had' \in [Requests -> SUBSET Token]
    BY <1>3, <1>4, <1>12 DEF Retry
  <2>. QED BY <1>0, <1>2, <1>12, <2>1 DEF Retry, TypeOK
<1>13. CASE LeadBegins(r)
  <2>1. lead' \in Leads
    BY <1>5, <1>13 DEF LeadBegins
  <2>. QED BY <1>0, <1>2, <1>13, <2>1 DEF LeadBegins, TypeOK, Reqs, Request
<1>14. CASE LeadLooks(r)
  <2>1. lead' \in Leads
    <3>1. CASE Lead(r, "end")
      BY <1>5, <3>1
    <3>2. CASE Ready(r) /\ lead' = [lead EXCEPT ![r].pc = "lock", ![r].tok = ledger.seen.cur]
      <4>1. ledger.seen.cur \in Token
        BY <3>2, LedgerFields DEF Ready, Stops
      <4>. QED BY <1>0, <3>2, <4>1, TaskUpdates DEF Leads
    <3>. QED BY <1>14, <3>1, <3>2 DEF LeadLooks
  <2>. QED BY <1>0, <1>2, <1>14, <2>1 DEF LeadLooks, TypeOK
<1>15. CASE LeadLocks(r)
  <2>1. lead' \in Leads
    BY <1>5, <1>15 DEF LeadLocks
  <2>. QED BY <1>0, <1>2, <1>15, <2>1 DEF LeadLocks, TypeOK, Task
<1>16. CASE LeadReads(r)
  <2>1. lead' \in Leads
    BY <1>0, <1>16, TaskUpdates DEF LeadReads, Leads
  <2>. QED BY <1>0, <1>2, <1>16, <2>1 DEF LeadReads, TypeOK
<1>17. CASE LeadFound(r) \/ LeadGivesUp(r)
  <2>1. PICK found \in Token \cup {NoToken} : Closes(r, found)
    BY <1>0, <1>17 DEF LeadFound, LeadGivesUp, LeadTask
  <2>2. lead' \in Leads /\ result' \in [Requests -> Results]
    BY <1>0, <2>1, TaskUpdates DEF Closes, Leads, Results, TypeOK
  <2>. QED BY <1>0, <1>2, <1>17, <2>2 DEF LeadFound, LeadGivesUp, TypeOK
<1>18. CASE LeadEnds(r)
  <2>1. lead' \in Leads
    BY <1>5, <1>18 DEF LeadEnds
  <2>2. req' \in Reqs
    BY <1>0, <1>18, RequestUpdates DEF LeadEnds, Reqs
  <2>. QED BY <1>0, <1>2, <1>18, <2>1, <2>2 DEF LeadEnds, TypeOK
<1>19. CASE LookLocks(r)
  <2>1. PICK pc \in {"read", "done"} : look' = [look EXCEPT ![r] = pc]
    BY <1>19 DEF LookLocks
  <2>2. io' = io \/ io' = [io EXCEPT ![req[r].flight] = <<"look", r>>]
    BY <1>19 DEF LookLocks
  <2>3. <<"look", r>> \in Task
    BY DEF Task
  <2>4. look' \in [Requests -> {"none", "lock", "read", "done"}]
    BY <2>1 DEF TypeOK
  <2>5. io' \in [Requests -> Task \cup {None}]
    BY <2>2, <2>3 DEF TypeOK
  <2>. QED BY <1>0, <1>2, <1>19, <2>4, <2>5 DEF LookLocks, TypeOK
<1>20. CASE LookReads(r)
  <2>1. req' \in Reqs /\ had' \in [Requests -> SUBSET Token]
    BY <1>0, <1>3, <1>4, <1>20 DEF LookReads, Asking
  <2>. QED BY <1>0, <1>2, <1>20, <2>1 DEF LookReads, TypeOK
<1>21. CASE Late(r)
  <2>1. req' \in Reqs /\ had' \in [Requests -> SUBSET Token]
    BY <1>0, <1>3, <1>21 DEF Late
  <2>2. lead' \in Leads
    <3>1. Leading(r) \in BOOLEAN
      BY DEF Leading
    <3>. QED BY <1>0, <1>21, <3>1, TaskUpdates DEF Late, Leads
  <2>. QED BY <1>0, <1>2, <1>21, <2>1, <2>2 DEF Late, TypeOK
<1>. QED BY <1>6, <1>7, <1>8, <1>9, <1>10, <1>11, <1>12, <1>13, <1>14, <1>15, <1>16, <1>17,
            <1>18, <1>19, <1>20, <1>21 DEF Steps, Tasks

(* Every variable keeps its type.                                           *)
THEOREM TypeCorrect == Spec => []TypeOK
<1>1. TypeOK /\ [Next]_vars => TypeOK'
  <2>1. TypeOK /\ UNCHANGED vars => TypeOK'
    BY DEF TypeOK, vars, world, tasks
  <2>. QED BY <2>1, WorldTyped, CycleTyped, RequestTyped DEF Next
<1>. QED BY <1>1, InitTyped, PTL DEF Spec

-----------------------------------------------------------------------------
(* A request that waits or looks, a round under way and a look under way    *)
(* hold their flight, so the entry of the key cannot be replaced meanwhile; *)
(* hence all blocking reads go through one lock.                            *)
Uses(r) == \/ req[r].pc \in Asking
           \/ lead[r].pc \notin {"none", "done"}
           \/ look[r] \in {"lock", "read"}

OneFlight == \A r \in Requests : Uses(r) => flight # None /\ req[r].flight = flight

Locks == \A t \in Readers : io[flight] = t

(* The steps that leave the requests and their tasks alone.                 *)
LEMMA FlightKept ==
  ASSUME TypeOK, OneFlight, Locks,
         \/ Rotate \/ Break \/ Login \/ HandOver \/ Remove \/ Adopt \/ Relogin \/ Expire
         \/ Cycle \/ UNCHANGED vars
  PROVE  OneFlight' /\ Locks'
<1>1. UNCHANGED <<req, lead, look, io>>
  BY DEF Rotate, Break, Login, HandOver, Remove, Adopt, Relogin, Expire, Rest, tasks,
         Cycle, Begin, Manage, Observe, LineageOver, Fill, vars
<1>2. flight' = flight \/ (flight' = None /\ ~FlightInUse(flight))
  BY DEF Rotate, Break, Login, HandOver, Remove, Adopt, Relogin, Expire,
         Cycle, Begin, Manage, Observe, LineageOver, Fill, vars
<1>3. CASE flight' = flight
  BY <1>1, <1>3 DEF OneFlight, Locks, Uses, Readers
<1>4. CASE ~FlightInUse(flight)
  <2>1. \A r \in Requests : ~Uses(r)
    BY <1>4 DEF FlightInUse, Holders, Uses, OneFlight
  <2>2. \A r \in Requests : ~(Uses(r)')
    BY <1>1, <2>1 DEF Uses
  <2>3. Readers' = {}
    BY <1>1, <2>1 DEF Readers, Uses, Task
  <2>. QED BY <2>2, <2>3 DEF OneFlight, Locks
<1>. QED BY <1>2, <1>3, <1>4

(* One flight and its lock, in every state.                                 *)
LEMMA FlightHeld == Spec => [](OneFlight /\ Locks)
<1>1. Init => OneFlight /\ Locks
  BY DEF Init, OneFlight, Locks, Uses, Readers, Task, NewReq, Asking
<1>2. ASSUME TypeOK, OneFlight, Locks, NEW r \in Requests,
             Send(r) \/ Ask(r) \/ Steps(r) \/ Tasks(r) \/ Late(r)
      PROVE  OneFlight' /\ Locks'
  <2>0. /\ req \in [Requests -> Request] /\ lead \in [Requests -> LeadTask]
        /\ look \in [Requests -> {"none", "lock", "read", "done"}]
        /\ io \in [Requests -> Task \cup {None}] /\ flight \in Requests \cup {None}
    BY <1>2 DEF TypeOK, Request, LeadTask
  <2>2. ASSUME Readers' \subseteq Readers, io' = io, flight' = flight
        PROVE  Locks'
    BY <1>2, <2>2 DEF Locks
  (* Steps after which nobody reads or uses a flight who did not before.    *)
  <2>3. ASSUME \/ Send(r) \/ Steps(r) \/ LeadBegins(r) \/ LeadLooks(r)
               \/ LeadFound(r) \/ LeadGivesUp(r) \/ LeadEnds(r) \/ Late(r)
        PROVE  OneFlight' /\ Locks'
    <3>1. flight' = flight /\ io' = io
      BY <2>3
         DEF Send, Steps, LeadBegins, LeadLooks, LeadFound, LeadGivesUp, LeadEnds, Late, tasks,
             ReadResult, FallAsleep, Wake, Verify, Retry
    <3>2. \A q \in Requests \ {r} : req'[q].flight = req[q].flight /\ (Uses(q)' => Uses(q))
      <4>1. CASE LeadEnds(r)
        BY <2>0, <4>1 DEF LeadEnds, Lead, Uses, Request, LeadTask
      <4>2. CASE Send(r) \/ Steps(r) \/ Late(r)
        BY <2>0, <4>2
           DEF Send, Steps, Late, tasks, ReadResult, FallAsleep, Wake, Verify, Retry, Goes, Passes, Uses
      <4>3. CASE LeadBegins(r) \/ LeadLooks(r) \/ LeadFound(r) \/ LeadGivesUp(r)
        BY <2>0, <4>3 DEF LeadBegins, LeadLooks, LeadFound, LeadGivesUp, Lead, Closes, Uses
      <4>. QED BY <2>3, <4>1, <4>2, <4>3
    <3>3. req'[r].flight = req[r].flight /\ (Uses(r)' => Uses(r))
      <4>1. CASE Send(r)
        BY <2>0, <4>1 DEF Send, tasks, Uses, Asking, Request
      <4>2. CASE ReadResult(r) \/ FallAsleep(r) \/ Wake(r) \/ Verify(r) \/ Retry(r)
        BY <2>0, <4>2
           DEF ReadResult, FallAsleep, Wake, Verify, Retry, Goes, Passes, Uses, Asking, Request
      <4>3. CASE Late(r)
        BY <2>0, <4>3 DEF Late, Passes, Leading, Uses, Request
      <4>4. CASE LeadBegins(r) \/ LeadLooks(r) \/ LeadFound(r) \/ LeadGivesUp(r)
        BY <2>0, <4>4 DEF LeadBegins, LeadLooks, LeadFound, LeadGivesUp, Uses
      <4>5. CASE LeadEnds(r)
        BY <2>0, <4>5 DEF LeadEnds, Uses, Request
      <4>. QED BY <2>3, <4>1, <4>2, <4>3, <4>4, <4>5 DEF Steps
    <3>4. /\ \A q \in Requests : lead'[q].pc = "read" => lead[q].pc = "read"
          /\ \A q \in Requests : look'[q] = "read" => look[q] = "read"
      <4>1. CASE Send(r) \/ ReadResult(r) \/ FallAsleep(r) \/ Wake(r) \/ Verify(r) \/ Retry(r)
        BY <2>0, <4>1 DEF Send, tasks, ReadResult, FallAsleep, Wake, Verify, Retry
      <4>2. CASE LeadBegins(r) \/ LeadLooks(r) \/ LeadFound(r) \/ LeadGivesUp(r) \/ LeadEnds(r)
        BY <2>0, <4>2
           DEF LeadBegins, LeadLooks, LeadFound, LeadGivesUp, LeadEnds, Lead, Closes, LeadTask
      <4>3. CASE Late(r)
        BY <2>0, <4>3 DEF Late, LeadTask
      <4>. QED BY <2>3, <4>1, <4>2, <4>3 DEF Steps
    <3>5. Readers' \subseteq Readers
      BY <3>4 DEF Readers, Task
    <3>. QED BY <1>2, <2>2, <3>1, <3>2, <3>3, <3>5 DEF OneFlight
  <2>4. CASE Ask(r)
    <3>1. CASE flight' = flight
      <4>1. Readers' \subseteq Readers /\ io' = io
        BY <2>0, <2>4 DEF Ask, Readers, Task, LeadTask
      <4>2. \A q \in Requests \ {r} : req'[q] = req[q] /\ lead'[q] = lead[q] /\ look'[q] = look[q]
        BY <2>0, <2>4 DEF Ask, Passes
      <4>3. Uses(r)' => flight # None /\ req'[r].flight = flight
        <5>1. CASE Stops(r)
          BY <1>2, <2>0, <2>4, <3>1, <5>1 DEF Ask, Passes, Uses, OneFlight, Asking, Request
        <5>2. CASE ~Stops(r)
          <6>1. flight \in Requests
            BY <2>0, <2>4, <3>1, <5>2 DEF Ask
          <6>. QED BY <2>0, <2>4, <3>1, <5>2, <6>1, Distinct DEF Ask, Request
        <5>. QED BY <5>1, <5>2
      <4>. QED BY <1>2, <2>2, <3>1, <4>1, <4>2, <4>3 DEF OneFlight, Uses
    <3>2. CASE flight' # flight
      <4>1. flight = None /\ flight' = r /\ req'[r].flight = r
        BY <2>0, <2>4, <3>2 DEF Ask, Request
      <4>2. \A q \in Requests : ~Uses(q)
        BY <1>2, <4>1 DEF OneFlight
      <4>3. \A q \in Requests \ {r} : ~(Uses(q)')
        BY <2>0, <2>4, <4>2 DEF Ask, Uses, Passes
      <4>4. Readers' = {}
        BY SMTT(20), <2>0, <2>4, <4>2 DEF Ask, Readers, Task, Uses, LeadTask
      <4>. QED BY <4>1, <4>3, <4>4, Distinct DEF OneFlight, Locks
    <3>. QED BY <3>1, <3>2
  <2>5. CASE LeadLocks(r) \/ LookLocks(r)
    <3>1. OneFlight'
      BY <1>2, <2>0, <2>5 DEF LeadLocks, LookLocks, Lead, OneFlight, Uses, LeadTask
    <3>2. CASE io' = io
      <4>1. CASE LeadLocks(r)
        <5>1. req[r].flight \in Requests /\ io[req[r].flight] = None
          BY <1>2, <2>0, <4>1 DEF LeadLocks, OneFlight, Uses
        <5>2. FALSE
          BY <2>0, <3>2, <4>1, <5>1, Distinct DEF LeadLocks, Task
        <5>. QED BY <5>2
      <4>2. CASE LookLocks(r)
        <5>1. req[r].flight \in Requests /\ io[req[r].flight] = None
          BY <1>2, <2>0, <4>2 DEF LookLocks, OneFlight, Uses
        <5>2. look' = [look EXCEPT ![r] = "done"]
          BY <2>0, <3>2, <4>2, <5>1, Distinct DEF LookLocks, Task
        <5>3. Readers' \subseteq Readers
          BY <2>0, <4>2, <5>2 DEF LookLocks, Readers
        <5>. QED BY <2>2, <3>1, <3>2, <4>2, <5>3 DEF LookLocks
      <4>. QED BY <2>5, <4>1, <4>2
    <3>3. CASE io' # io
      <4>1. io[flight] = None /\ flight \in Requests /\ flight' = flight
        BY <1>2, <2>0, <2>5 DEF LeadLocks, LookLocks, OneFlight, Uses
      <4>2. Readers = {}
        BY <1>2, <4>1, Distinct DEF Locks, Readers
      <4>3. CASE LeadLocks(r)
        <5>1. Readers' \subseteq {<<"lead", r>>}
          BY <2>0, <4>2, <4>3 DEF LeadLocks, Lead, Readers, Task, LeadTask
        <5>2. io'[flight] = <<"lead", r>>
          BY <1>2, <2>0, <4>1, <4>3 DEF LeadLocks, OneFlight, Uses
        <5>. QED BY <3>1, <4>1, <5>1, <5>2 DEF Locks
      <4>4. CASE LookLocks(r)
        <5>1. Readers' \subseteq {<<"look", r>>}
          BY <2>0, <4>2, <4>4 DEF LookLocks, Readers, Task
        <5>2. io'[flight] = <<"look", r>>
          BY <1>2, <2>0, <3>3, <4>1, <4>4 DEF LookLocks, OneFlight, Uses
        <5>. QED BY <3>1, <4>1, <5>1, <5>2 DEF Locks
      <4>. QED BY <2>5, <4>3, <4>4
    <3>. QED BY <3>1, <3>2, <3>3
  <2>6. CASE LeadReads(r) \/ LookReads(r)
    <3>1. OneFlight'
      BY <1>2, <2>0, <2>6
         DEF LeadReads, LookReads, Goes, Passes, OneFlight, Uses, LeadTask, Request, Asking
    <3>2. PICK t \in Readers : t[2] = r /\ Readers' \subseteq Readers \ {t}
      <4>1. CASE LeadReads(r)
        <5>1. <<"lead", r>> \in Readers /\ Readers' \subseteq Readers \ {<<"lead", r>>}
          BY <2>0, <4>1 DEF LeadReads, Readers, Task, LeadTask
        <5>. QED BY <5>1
      <4>2. CASE LookReads(r)
        <5>1. <<"look", r>> \in Readers /\ Readers' \subseteq Readers \ {<<"look", r>>}
          BY <2>0, <4>2 DEF LookReads, Readers, Task
        <5>. QED BY <5>1
      <4>. QED BY <2>6, <4>1, <4>2
    <3>3. \A s \in Readers : s = t
      BY <1>2, <3>2 DEF Locks
    <3>. QED BY <3>1, <3>2, <3>3 DEF Locks
  <2>. QED BY <1>2, <2>3, <2>4, <2>5, <2>6 DEF Tasks
<1>3. TypeOK /\ OneFlight /\ Locks /\ [Next]_vars => OneFlight' /\ Locks'
  BY <1>2, FlightKept DEF Next
<1>. QED BY <1>1, <1>3, TypeCorrect, PTL DEF Spec

(* The blocking reads of one chain never overlap (flight_in_use(), the io   *)
(* lock of Flight).                                                         *)
THEOREM LooksOneByOne == Spec => []OneLookAtATime
<1>1. Locks => OneLookAtATime
  BY DEF Locks, OneLookAtATime
<1>. QED BY <1>1, FlightHeld, PTL

-----------------------------------------------------------------------------
(* The task of a round has been started when a request waits for it, and    *)
(* it ends only after its result is written.                                *)
Waiting == {"listen", "pending", "sleep"}

Heard ==
  /\ \A r \in Requests : req[r].pc \in Waiting =>
       req[r].round \in Requests /\ lead[req[r].round].pc # "none"
  /\ \A f \in Requests : active[f] # None => lead[active[f]].pc # "none"
  /\ \A k \in Requests : lead[k].pc = "done" => result[k] # Pending
  /\ RoundIsHeard

(* Every round that is waited for is heard, in every state.                 *)
LEMMA HeardKept == Spec => []Heard
<1>1. Init => Heard
  BY DEF Init, Heard, RoundIsHeard, NewReq, Waiting
<1>2. ASSUME TypeOK, Heard, NEW r \in Requests,
             Send(r) \/ Ask(r) \/ Steps(r) \/ Tasks(r) \/ Late(r)
      PROVE  Heard'
  <2>0. /\ req \in [Requests -> Request] /\ lead \in [Requests -> LeadTask]
        /\ result \in [Requests -> Results] /\ active \in [Requests -> Requests \cup {None}]
        /\ req' \in [Requests -> Request]
    BY <1>2, RequestTyped DEF TypeOK, Request, LeadTask
  (* Steps that change where one request is and none of the rounds.         *)
  <2>1. ASSUME UNCHANGED <<lead, result, active>>,
               \A q \in Requests \ {r} : req'[q] = req[q],
               req'[r].pc \in Waiting => /\ req'[r].round \in Requests
                                         /\ lead[req'[r].round].pc # "none",
               req'[r].pc \in {"pending", "sleep"} /\ ~req'[r].woken =>
                 lead[req'[r].round].pc # "done"
        PROVE  Heard'
    BY <1>2, <2>0, <2>1 DEF Heard, RoundIsHeard, Waiting
  <2>2. CASE Passes(r) /\ UNCHANGED <<lead, result, active>>
    BY <2>0, <2>1, <2>2 DEF Passes, Waiting, Request
  <2>3. CASE Send(r) \/ Retry(r) \/ Verify(r)
    <3>1. UNCHANGED <<lead, result, active>>
      BY <2>3 DEF Send, Retry, Verify, tasks
    <3>2. CASE Passes(r)
      BY <2>2, <3>1, <3>2
    <3>3. CASE ~Passes(r)
      <4>1. /\ \A q \in Requests \ {r} : req'[q] = req[q]
            /\ req'[r].pc \in {"sent", "retried", "looking"}
        <5>1. CASE Send(r)
          BY <2>0, <5>1 DEF Send, Request
        <5>2. CASE Retry(r)
          BY <2>0, <3>3, <5>2 DEF Retry, Goes, Request
        <5>3. CASE Verify(r)
          BY <2>0, <3>3, <5>3 DEF Verify, Goes, Request
        <5>. QED BY <2>3, <5>1, <5>2, <5>3
      <4>. QED BY <2>1, <3>1, <4>1 DEF Waiting
    <3>. QED BY <3>2, <3>3
  <2>4. CASE FallAsleep(r) \/ Wake(r)
    BY <1>2, <2>0, <2>1, <2>4
       DEF FallAsleep, Wake, tasks, Goes, Waiting, Request, Heard, RoundIsHeard
  <2>5. CASE ReadResult(r)
    <3>1. req[r].round \in Requests /\ lead[req[r].round].pc # "none" /\ req[r].pc = "listen"
      BY <1>2, <2>5 DEF ReadResult, Heard, Waiting
    <3>2. CASE result[req[r].round] = Pending /\ Goes(r, "pending")
      BY <1>2, <2>0, <2>1, <2>5, <3>1, <3>2 DEF ReadResult, tasks, Goes, Waiting, Request, Heard
    <3>3. CASE Passes(r)
      BY <2>2, <2>5, <3>3 DEF ReadResult, tasks
    <3>4. CASE req' = [req EXCEPT ![r].pc = "verify", ![r].found = result[req[r].round],
                                  ![r].round = None]
      BY <2>0, <2>1, <2>5, <3>4 DEF ReadResult, tasks, Waiting, Request
    <3>. QED BY <2>5, <3>2, <3>3, <3>4 DEF ReadResult
  <2>6. CASE Ask(r)
    <3>1. CASE Stops(r)
      BY <2>2, <2>6, <3>1 DEF Ask
    <3>2. CASE ~Stops(r)
      <4>. DEFINE f == IF flight = None THEN r ELSE flight
      <4>1. f \in Requests /\ active[f] \in Requests \cup {None}
        BY <1>2, <2>0 DEF TypeOK
      <4>2. CASE active[f] # None
        <5>1. /\ req' = [req EXCEPT ![r].pc = "listen", ![r].flight = f, ![r].round = active[f]]
              /\ UNCHANGED <<lead, result, active>>
          BY <2>6, <3>2, <4>2 DEF Ask
        <5>2. lead[active[f]].pc # "none" /\ active[f] \in Requests
          BY <1>2, <4>1, <4>2 DEF Heard
        <5>. QED BY <2>0, <2>1, <5>1, <5>2 DEF Waiting, Request
      <4>3. CASE active[f] = None
        <5>1. /\ req' = [req EXCEPT ![r].pc = "listen", ![r].flight = f, ![r].round = r]
              /\ lead' = [lead EXCEPT ![r].pc = "begin"]
              /\ active' = [active EXCEPT ![f] = r] /\ result' = result
          BY <2>6, <3>2, <4>3 DEF Ask
        <5>2. \A k \in Requests : lead'[k].pc = IF k = r THEN "begin" ELSE lead[k].pc
          BY <2>0, <5>1 DEF LeadTask
        <5>3. /\ req'[r].pc = "listen" /\ req'[r].round = r
              /\ \A q \in Requests \ {r} : req'[q] = req[q]
          BY <2>0, <5>1 DEF Request
        <5>4. \A g \in Requests : active'[g] = IF g = f THEN r ELSE active[g]
          BY <2>0, <5>1
        <5>. QED BY <1>2, <2>0, <5>1, <5>2, <5>3, <5>4 DEF Heard, RoundIsHeard, Waiting
      <4>. QED BY <4>2, <4>3
    <3>. QED BY <3>1, <3>2
  (* Steps of the round's task before its end, and of the look's.           *)
  <2>7. ASSUME UNCHANGED <<req, active>>,
               \A k \in Requests : result'[k] = result[k] \/ result'[k] # Pending,
               \A k \in Requests : lead'[k].pc = lead[k].pc \/ lead'[k].pc \notin {"none", "done"}
        PROVE  Heard'
    BY <1>2, <2>0, <2>7 DEF Heard, RoundIsHeard, Waiting
  <2>8. CASE LeadBegins(r) \/ LeadLooks(r) \/ LeadLocks(r) \/ LeadReads(r)
    BY <2>0, <2>7, <2>8 DEF LeadBegins, LeadLooks, LeadLocks, LeadReads, Lead, LeadTask
  <2>9. CASE LeadFound(r) \/ LeadGivesUp(r)
    <3>1. PICK found \in Token \cup {NoToken} : Closes(r, found)
      BY <1>2, <2>0, <2>9 DEF LeadFound, LeadGivesUp, LeadTask
    <3>. QED BY <2>0, <2>7, <2>9, <3>1, Distinct DEF LeadFound, LeadGivesUp, Closes, LeadTask
  <2>10. CASE LeadEnds(r)
    <3>1. \A k \in Requests : lead'[k].pc = IF k = r THEN "done" ELSE lead[k].pc
      BY <2>0, <2>10 DEF LeadEnds, Lead, LeadTask
    <3>2. \A q \in Requests : /\ req'[q].pc = req[q].pc /\ req'[q].round = req[q].round
                              /\ q \in Woken(r) => req'[q].woken
                              /\ q \notin Woken(r) => req'[q] = req[q]
      BY <2>0, <2>10 DEF LeadEnds, Request
    <3>3. result' = result /\ result[r] # Pending
      BY <2>10 DEF LeadEnds
    <3>4. \A f \in Requests : active'[f] = active[f] \/ active'[f] = None
      BY <2>0, <2>10 DEF LeadEnds
    <3>5. RoundIsHeard'
      <4>1. SUFFICES ASSUME NEW q \in Requests, req'[q].pc \in {"pending", "sleep"}, ~req'[q].woken
                     PROVE  lead'[req'[q].round].pc \notin {"none", "done"}
        BY DEF RoundIsHeard
      <4>2. q \notin Woken(r) /\ req'[q] = req[q]
        BY <3>2, <4>1
      <4>3. req[q].round \in Requests /\ lead[req[q].round].pc \notin {"none", "done"}
        BY <1>2, <4>1, <4>2 DEF Heard, RoundIsHeard, Waiting
      <4>. QED BY <3>1, <4>1, <4>2, <4>3 DEF Woken
    <3>6. \A q \in Requests : req[q].pc \in Waiting => lead'[req[q].round].pc # "none"
      BY <1>2, <3>1 DEF Heard
    <3>. QED BY <1>2, <2>0, <3>1, <3>2, <3>3, <3>4, <3>5, <3>6 DEF Heard
  <2>11. CASE LookLocks(r)
    BY <2>7, <2>11 DEF LookLocks
  <2>12. CASE LookReads(r)
    BY <2>0, <2>1, <2>2, <2>7, <2>12 DEF LookReads, Goes, Waiting, Request
  <2>13. CASE Late(r)
    <3>1. \A k \in Requests : lead'[k].pc = lead[k].pc
      BY <2>0, <2>13 DEF Late, LeadTask
    <3>2. \A q \in Requests : req'[q] = req[q] \/ req'[q].pc = "passed"
      BY <2>0, <2>13 DEF Late, Passes, Request
    <3>3. UNCHANGED <<result, active>>
      BY <2>13 DEF Late
    <3>. QED BY <1>2, <2>0, <3>1, <3>2, <3>3 DEF Heard, RoundIsHeard, Waiting
  <2>. QED BY <1>2, <2>3, <2>4, <2>5, <2>6, <2>8, <2>9, <2>10, <2>11, <2>12, <2>13 DEF Steps, Tasks
<1>3. ASSUME Heard, UNCHANGED <<req, lead, active, result>>
      PROVE  Heard'
  BY <1>3 DEF Heard, RoundIsHeard
<1>4. ASSUME \/ Rotate \/ Break \/ Login \/ HandOver \/ Remove \/ Adopt \/ Relogin \/ Expire
             \/ Cycle \/ UNCHANGED vars
      PROVE  UNCHANGED <<req, lead, active, result>>
  BY <1>4 DEF Rotate, Break, Login, HandOver, Remove, Adopt, Relogin, Expire, Rest, tasks,
              Cycle, Begin, Manage, Observe, LineageOver, Fill, vars
<1>5. TypeOK /\ Heard /\ [Next]_vars => Heard'
  BY <1>2, <1>3, <1>4 DEF Next
<1>. QED BY <1>1, <1>5, TypeCorrect, PTL DEF Spec

(* No wake-up of a round goes by a request that waits for it                *)
(* (recover_shared(), FlightLeader::complete()).                            *)
THEOREM NoneSleepsOn == Spec => []RoundIsHeard
<1>1. Heard => RoundIsHeard
  BY DEF Heard
<1>. QED BY <1>1, HeardKept, PTL

-----------------------------------------------------------------------------
(* What the slot grants now is among what the request could have found      *)
(* since it failed, and a result that was looked up is too.                 *)
Own ==
  /\ \A r \in Requests : req[r].pc \in Asking /\ req[r].stamp = stamp => Granted(slot) \subseteq had[r]
  /\ \A r \in Requests : req[r].pc = "recheck" => req[r].found \in had[r]
  /\ RetryIsOwn

(* What a request finds is its own, in every state.                         *)
LEMMA OwnKept == Spec => []Own
<1>1. Init => Own
  BY DEF Init, Own, RetryIsOwn, NewReq, Asking
<1>2. ASSUME TypeOK, Own, Remember, UNCHANGED req
      PROVE  Own'
  <2>1. \A r \in Requests : /\ had[r] \subseteq had'[r]
                            /\ req[r].pc \in Asking /\ req[r].stamp = stamp' => Granted(slot') \subseteq had'[r]
    BY <1>2 DEF Remember, TypeOK
  <2>. QED BY <1>2, <2>1 DEF Own, RetryIsOwn
<1>3. ASSUME Own, UNCHANGED <<req, had, stamp, slot>>
      PROVE  Own'
  BY <1>3 DEF Own, RetryIsOwn, Granted
<1>4. ASSUME \/ Rotate \/ Break \/ Login \/ HandOver \/ Remove \/ Adopt \/ Relogin \/ Expire
             \/ Cycle \/ UNCHANGED vars
      PROVE  UNCHANGED req /\ (Remember \/ UNCHANGED <<had, stamp, slot>>)
  BY <1>4 DEF Rotate, Break, Login, HandOver, Remove, Adopt, Relogin, Expire, Rest, world,
              Cycle, Begin, Manage, Observe, LineageOver, Fill, vars
<1>5. ASSUME TypeOK, Own, NEW r \in Requests,
             Send(r) \/ Ask(r) \/ Steps(r) \/ Tasks(r) \/ Late(r)
      PROVE  Own'
  <2>0. /\ req \in [Requests -> Request] /\ had \in [Requests -> SUBSET Token]
        /\ UNCHANGED <<stamp, slot>>
    BY <1>5 DEF TypeOK, Request, world, Send, Ask, Steps, Tasks, Late,
         ReadResult, FallAsleep, Wake, Verify, Retry, LookLocks, LookReads,
         LeadBegins, LeadLooks, LeadLocks, LeadReads, LeadFound, LeadGivesUp, LeadEnds
  (* A step that keeps what a request has failed with and could have found. *)
  <2>1. ASSUME UNCHANGED had, \A q \in Requests \ {r} : req'[q] = req[q],
               req'[r].stamp = req[r].stamp, req[r].pc \in Asking,
               req'[r].pc \notin {"recheck", "retried"}
        PROVE  Own'
    BY <1>5, <2>0, <2>1 DEF Own, RetryIsOwn, Granted
  <2>2. CASE Passes(r)
    BY <1>5, <2>0, <2>2 DEF Passes, Own, RetryIsOwn, Granted, Asking, Request
  <2>3. CASE Send(r)
    <3>1. req'[r].pc = "sent" /\ \A q \in Requests \ {r} : req'[q] = req[q]
      BY <2>0, <2>3 DEF Send, Request
    <3>2. had' = had
      BY <2>3 DEF Send
    <3>. QED BY <1>5, <2>0, <3>1, <3>2 DEF Own, RetryIsOwn, Asking, Granted
  <2>4. CASE Ask(r) /\ ~Stops(r)
    <3>1. /\ req'[r].pc = "listen" /\ req'[r].stamp = req[r].stamp
          /\ \A q \in Requests \ {r} : req'[q] = req[q]
      BY <2>0, <2>4 DEF Ask, Request
    <3>2. /\ had'[r] = IF req[r].stamp = stamp THEN Granted(slot) ELSE {}
          /\ \A q \in Requests \ {r} : had'[q] = had[q]
      BY <2>0, <2>4 DEF Ask
    <3>. QED BY <1>5, <2>0, <3>1, <3>2 DEF Own, RetryIsOwn, Granted
  <2>5. CASE ReadResult(r) \/ FallAsleep(r) \/ Wake(r)
    <3>1. CASE ~Passes(r)
      <4>1. /\ UNCHANGED had /\ req[r].pc \in Asking
            /\ \A q \in Requests \ {r} : req'[q] = req[q]
        BY <2>0, <2>5, <3>1 DEF ReadResult, FallAsleep, Wake, Goes, Asking
      <4>2. req'[r].stamp = req[r].stamp /\ req'[r].pc \in {"pending", "verify", "sleep", "listen"}
        BY <2>0, <2>5, <3>1 DEF ReadResult, FallAsleep, Wake, Goes, Request
      <4>. QED BY <2>1, <4>1, <4>2
    <3>. QED BY <2>2, <3>1
  <2>6. CASE Verify(r) /\ ~Passes(r)
    BY <2>0, <2>1, <2>6 DEF Verify, Goes, Request, Asking
  <2>7. CASE req[r].pc = "looking" /\ Goes(r, "recheck") /\ GrantCurrent(r)
    <3>2. req[r].found \in Granted(slot) /\ req[r].stamp = stamp
      BY <2>7 DEF GrantCurrent, InScope, Granted
    <3>3. req[r].found \in had[r]
      BY <1>5, <2>7, <3>2 DEF Own, Asking
    <3>4. /\ UNCHANGED had /\ req'[r].pc = "recheck" /\ req'[r].found = req[r].found
          /\ req'[r].stamp = req[r].stamp /\ \A q \in Requests \ {r} : req'[q] = req[q]
      BY <2>0, <2>7 DEF Goes, Request
    <3>. QED BY <1>5, <2>0, <2>7, <3>3, <3>4 DEF Own, RetryIsOwn, Asking, Granted
  <2>8. CASE Retry(r) /\ ~Passes(r)
    <3>1. Ready(r) /\ ledger.seen.cur = req[r].found /\ req[r].pc = "recheck" /\ Goes(r, "retried")
      BY <2>8 DEF Retry, StillReady
    <3>2. /\ req[r].found.gen = req[r].tok.gen /\ req[r].found.n > req[r].tok.n
      BY <3>1 DEF Ready, Stops
    <3>3. req[r].found \in had[r]
      BY <1>5, <3>1 DEF Own
    <3>4. /\ UNCHANGED had /\ req'[r].pc = "retried" /\ req'[r].found = req[r].found
          /\ req'[r].tok = req[r].tok /\ \A q \in Requests \ {r} : req'[q] = req[q]
      BY <2>0, <3>1 DEF Goes, Request
    <3>. QED BY <1>5, <2>0, <3>2, <3>3, <3>4 DEF Own, RetryIsOwn, Asking, Granted
  <2>9. CASE LeadEnds(r)
    <3>1. /\ UNCHANGED had
          /\ \A q \in Requests : /\ req'[q].pc = req[q].pc /\ req'[q].stamp = req[q].stamp
                                 /\ req'[q].found = req[q].found /\ req'[q].tok = req[q].tok
      BY <2>0, <2>9 DEF LeadEnds, Request
    <3>. QED BY <1>5, <2>0, <3>1 DEF Own, RetryIsOwn, Granted
  <2>10. CASE UNCHANGED <<req, had>>
    BY <1>3, <1>5, <2>0, <2>10
  <2>11. CASE LookReads(r) \/ Late(r)
    BY <2>2, <2>7, <2>10, <2>11 DEF LookReads, Late
  <2>12. CASE \/ LeadBegins(r) \/ LeadLooks(r) \/ LeadLocks(r) \/ LeadReads(r)
              \/ LeadFound(r) \/ LeadGivesUp(r) \/ LookLocks(r)
    BY <2>10, <2>12 DEF LeadBegins, LeadLooks, LeadLocks, LeadReads, LeadFound, LeadGivesUp, LookLocks
  <2>13. CASE Ask(r) /\ Stops(r)
    BY <2>2, <2>13 DEF Ask
  <2>. QED BY <1>5, <2>2, <2>3, <2>4, <2>5, <2>6, <2>8, <2>9, <2>11, <2>12, <2>13 DEF Steps, Tasks
<1>6. TypeOK /\ Own /\ [Next]_vars => Own'
  BY <1>2, <1>3, <1>4, <1>5 DEF Next
<1>. QED BY <1>1, <1>6, TypeCorrect, PTL DEF Spec

(* A retried request goes out with a newer token of its own chain that its  *)
(* slot had since the failure (check_at(), shared_current(),                *)
(* grant_current()).                                                        *)
THEOREM RetriesOwn == Spec => []RetryIsOwn
<1>1. Own => RetryIsOwn
  BY DEF Own
<1>. QED BY <1>1, OwnKept, PTL
==============================================================================
