----------------------------- MODULE AgentChains -----------------------------
(***************************************************************************)
(* The Claude logins of a gateway account                                  *)
(* (crates/kasa-device/src/agent_chains.rs, kasa-gateway's                 *)
(* gateway_agent_chains.rs, docs/agent-chains.md).  A refresh token is     *)
(* good for one use.  A device hands the chain of its slot over to the     *)
(* gateway, which alone rotates it from then on, and the devices fill      *)
(* their slots with the access token they read from the gateway.  One      *)
(* chain key is modelled and one slot on each device; two people of a team *)
(* may share the key.                                                      *)
(***************************************************************************)
EXTENDS Integers, FiniteSets

CONSTANTS Slots,        \* a slot of a device: a place where Claude keeps a login
          Named,        \* slots whose remembered account name gives the key
          Chosen,       \* slots a person may pick the account for
          Logins,       \* logins people make, one refresh chain each
          People,       \* provider accounts
          OwnerOf,      \* the person of a login
          Nobody,       \* no proof of an owner
          Known,        \* logins whose spent tokens a device has confirmed before
          Life,         \* what an access token lives
          Ahead,        \* REFRESH_AHEAD_MS
          OfferLeft,    \* OFFER_MIN_LEFT_MS
          SealLeft,     \* the ten minutes of seal()
          ClaudeLeft,   \* Claude rotates a token that has no more left than this
          LineageTtl,   \* LINEAGE_TTL_MS
          Surprises,    \* TRUE when Claude may rotate early
          MaxTime,      \* the clock's bound
          MaxRotations, \* tokens of one login
          MaxFaults     \* lost replies, failed saves and writes, app crashes

ASSUME ChainAssumption ==
  /\ Named \cup Chosen \subseteq Slots /\ Known \subseteq Logins
  /\ Logins \subseteq Nat \ {0} /\ OwnerOf \in [Logins -> People]
  /\ Nobody \notin People /\ Surprises \in BOOLEAN
  /\ {Life, Ahead, OfferLeft, SealLeft, ClaudeLeft, LineageTtl} \subseteq Nat
  /\ {MaxTime, MaxFaults} \subseteq Nat /\ MaxRotations \in Nat \ {0}

VARIABLES now, faults,
          head,    \* the provider: the one token of a login that is good
          store,   \* a slot's credentials: a token pair, or its access half
          book,    \* the gateway's sealed chain
          map,     \* slots registered for the key (agent-chains.json, slots)
          owner,   \* whose token was put in a slot (agent-chains.json, owners)
          sync,    \* where sync_once() of a slot's device is, and what it has read
          strayed  \* logins rotated or replaced unknown to the gateway (history)

vars == <<now, faults, head, store, book, map, owner, sync, strayed>>

(* An access token and its refresh token are one pair, the n-th of a login. *)
Token     == [login : Logins, n : 1..MaxRotations, exp : Nat]
NoToken   == [login |-> 0, n |-> 0, exp |-> 0]
AnyToken  == Token \cup {NoToken}
Good(t)   == t # NoToken /\ head[t.login] = t
Whose(t)  == OwnerOf[t.login]
Store     == [tok : AnyToken, ref : BOOLEAN]
Shell     == [tok |-> NoToken, ref |-> FALSE]

Chain     == [tok : AnyToken, broken : BOOLEAN, who : People, updated : Nat,
              lineage : SUBSET Token]
NoChain   == [tok |-> NoToken, broken |-> TRUE, who |-> Nobody, updated |-> 0, lineage |-> {}]

Owned     == [tok : Token, who : People]
NotOwned  == [tok |-> NoToken, who |-> Nobody]

(* A cycle: the time it began and what it read or learned since.            *)
Idle == [pc |-> "idle", at |-> 0, tok |-> NoToken, own |-> Nobody, reply |-> NotOwned,
         held |-> FALSE, seen |-> NoChain, map |-> FALSE, owner |-> NotOwned,
         newOwner |-> NotOwned]

Cycle == [pc : {"idle", "handover", "list", "fill", "save"}, at : Nat,
          tok : AnyToken, own : People \cup {Nobody}, reply : Owned \cup {NotOwned},
          held : BOOLEAN, seen : Chain \cup {NoChain}, map : BOOLEAN,
          owner : Owned \cup {NotOwned}, newOwner : Owned \cup {NotOwned}]

TypeOK ==
  /\ now \in 0..MaxTime /\ faults \in 0..MaxFaults
  /\ head \in [Logins -> AnyToken]
  /\ store \in [Slots -> Store]
  /\ book \in Chain \cup {NoChain} /\ (~book.broken => book.tok # NoToken)
  /\ map \in [Slots -> BOOLEAN]
  /\ owner \in [Slots -> Owned \cup {NotOwned}]
  /\ sync \in [Slots -> Cycle]
  /\ strayed \subseteq Logins

Init ==
  /\ now = 0 /\ faults = 0
  /\ head = [l \in Logins |-> NoToken]
  /\ store = [s \in Slots |-> Shell]
  /\ book = NoChain
  /\ map = [s \in Slots |-> FALSE] /\ owner = [s \in Slots |-> NotOwned]
  /\ sync = [s \in Slots |-> Idle]
  /\ strayed = {}

Fault == faults < MaxFaults /\ faults' = faults + 1

-----------------------------------------------------------------------------
(* The provider and what happens outside: a person logs in to a slot, picks *)
(* the account for a slot (adopt), Claude rotates the token of its slot.    *)
First(l)   == [login |-> l, n |-> 1, exp |-> now + Life]
Rotated(t) == [login |-> t.login, n |-> t.n + 1, exp |-> now + Life]

Login(s, l) ==
  /\ head[l] = NoToken
  /\ head' = [head EXCEPT ![l] = First(l)]
  /\ store' = [store EXCEPT ![s] = [tok |-> First(l), ref |-> TRUE]]
  /\ UNCHANGED <<now, faults, book, map, owner, sync, strayed>>

Adopt(s) ==
  /\ s \in Chosen /\ ~map[s]
  /\ map' = [map EXCEPT ![s] = TRUE] /\ owner' = [owner EXCEPT ![s] = NotOwned]
  /\ UNCHANGED <<now, faults, head, store, book, sync, strayed>>

(* A spent refresh token is refused, and Claude empties the slot it is in.  *)
ClaudeRotates(s) ==
  LET t == store[s].tok IN
  /\ store[s].ref
  /\ t.exp <= now + ClaudeLeft \/ Surprises
  /\ IF Good(t)
     THEN /\ t.n < MaxRotations
          /\ head' = [head EXCEPT ![t.login] = Rotated(t)]
          /\ store' = [store EXCEPT ![s].tok = Rotated(t)]
     ELSE store' = [store EXCEPT ![s] = Shell] /\ UNCHANGED head
  /\ strayed' = IF t.exp <= now + ClaudeLeft THEN strayed ELSE strayed \cup {t.login}
  /\ UNCHANGED <<now, faults, book, map, owner, sync>>

-----------------------------------------------------------------------------
(* The gateway; its calls hold one lock.  seal() asks the provider whose    *)
(* token it is.  A sound chain of the key is kept and its access token      *)
(* handed out, but not to another person; otherwise the offer is the chain. *)
Sound(c)    == ~c.broken /\ c.tok.exp > now + SealLeft
Accepts(t)  == Good(t) /\ t.exp > now + SealLeft
(* Faulty: the owner of the chain before stays.                             *)
OldOwner(t) == [tok |-> t, broken |-> FALSE, updated |-> now, lineage |-> {},
                who |-> IF book.who = Nobody THEN Whose(t) ELSE book.who]

Sealed(t) == [tok |-> t, broken |-> FALSE, who |-> Whose(t), updated |-> now, lineage |-> {}]
BookWith(t) == IF Sound(book) THEN book ELSE Sealed(t)

Displaces(b) == strayed' = strayed \cup
  {l \in {book.tok.login} : b.tok.login # l /\ l \in Logins /\ OwnerOf[l] # b.who}

(* list(): earlier tokens are told for a while, to those who still hold one.*)
Listed ==
  IF book.broken THEN NoChain
  ELSE [book EXCEPT !.lineage = IF book.updated + LineageTtl < now THEN {}
                                ELSE {u \in @ : u.exp > now}]

(* refresh_due(): a chain that runs out is rotated; one whose refresh token *)
(* is refused is broken and forgets its tokens.                             *)
Due == ~book.broken /\ book.tok.exp < now + Ahead

Refresh ==
  /\ Due
  /\ IF Good(book.tok)
     THEN /\ book.tok.n < MaxRotations
          /\ head' = [head EXCEPT ![book.tok.login] = Rotated(book.tok)]
          /\ book' = [book EXCEPT !.tok = Rotated(book.tok), !.updated = now,
                                  !.lineage = {u \in @ : u.exp > now} \cup {book.tok}]
     ELSE /\ book' = [book EXCEPT !.broken = TRUE, !.tok = NoToken, !.lineage = {},
                                  !.updated = now]
          /\ UNCHANGED head
  /\ UNCHANGED <<now, faults, store, map, owner, sync, strayed>>

(* The rotation is done but its answer, or the save of the book, is lost:   *)
(* the book keeps the spent token.                                          *)
RefreshLost ==
  /\ Due /\ Fault
  /\ Good(book.tok) /\ book.tok.n < MaxRotations
  /\ head' = [head EXCEPT ![book.tok.login] = Rotated(book.tok)]
  /\ strayed' = strayed \cup {book.tok.login}
  /\ UNCHANGED <<now, store, book, map, owner, sync>>

-----------------------------------------------------------------------------
(* A device.  Each wait of a cycle after which the code looks again is a    *)
(* step of its own.  A slot with a refresh token that is good for a while   *)
(* yet is offered; whose it is comes from the profile, which a spent token  *)
(* no longer opens, or from an earlier look at it.                          *)
Offered(s) == store[s].ref /\ store[s].tok.exp > now + OfferLeft

Proofs(t) == {Nobody} \cup {OwnerOf[l] : l \in {x \in Logins : x = t.login /\ (Good(t) \/ x \in Known)}}

Begun(s) == [Idle EXCEPT !.pc = "list", !.at = now, !.map = map[s], !.owner = owner[s]]

(* What the later steps of a cycle do not need is forgotten at once.        *)
Later(s) == [sync[s] EXCEPT !.pc = "list", !.tok = NoToken, !.own = Nobody,
                            !.reply = NotOwned, !.held = FALSE]

Learned(s, o) == IF o = NotOwned THEN Idle
                 ELSE [Idle EXCEPT !.pc = "save", !.map = sync[s].map, !.newOwner = o]

Offer(s) ==
  LET t == store[s].tok IN
  /\ sync[s].pc = "idle" /\ Offered(s)
  /\ IF Accepts(t) THEN book' = BookWith(t) ELSE UNCHANGED book
  /\ Displaces(book')
  /\ \E own \in Proofs(t) :
       sync' = [sync EXCEPT ![s] =
         IF ~Accepts(t) \/ book'.who # Whose(t) THEN Begun(s)
         ELSE [Begun(s) EXCEPT !.pc = "handover", !.tok = t, !.own = own,
                 !.held = Sound(book), !.reply = [tok |-> book'.tok, who |-> book'.who]]]
  /\ UNCHANGED <<now, faults, head, store, map, owner>>

(* The provider or the gateway fails, or the reply is lost.                 *)
OfferFails(s) ==
  LET t == store[s].tok IN
  /\ sync[s].pc = "idle" /\ Offered(s) /\ Fault
  /\ \/ UNCHANGED book
     \/ Accepts(t) /\ book' = BookWith(t)
  /\ Displaces(book')
  /\ sync' = [sync EXCEPT ![s] = Begun(s)]
  /\ UNCHANGED <<now, head, store, map, owner>>

(* Faulty: the slot is not read again.                                      *)
HandOverUnread(s) == sync[s].held => sync[s].own = sync[s].reply.who

(* The slot gives its refresh token up, unless the gateway's chain is not   *)
(* of the same person or Claude has rotated the slot since.                 *)
MayHandOver(s) ==
  /\ sync[s].held => sync[s].own = sync[s].reply.who
  /\ store[s].ref /\ store[s].tok = sync[s].tok

HandOver(s) ==
  /\ sync[s].pc = "handover" /\ MayHandOver(s)
  /\ store' = [store EXCEPT ![s] = [tok |-> sync[s].reply.tok, ref |-> FALSE]]
  /\ sync' = [sync EXCEPT ![s] = [Later(s) EXCEPT !.map = TRUE, !.newOwner = sync[s].reply]]
  /\ UNCHANGED <<now, faults, head, book, map, owner, strayed>>

KeepLogin(s) ==
  /\ sync[s].pc = "handover"
  /\ IF MayHandOver(s) THEN Fault ELSE UNCHANGED faults    \* the write fails
  /\ sync' = [sync EXCEPT ![s] = Later(s)]
  /\ UNCHANGED <<now, head, store, book, map, owner, strayed>>

(* A cycle that fails, or an app that stops, forgets what it has learned.   *)
SyncStops(s) ==
  /\ sync[s].pc # "idle" /\ Fault
  /\ sync' = [sync EXCEPT ![s] = Idle]
  /\ UNCHANGED <<now, head, store, book, map, owner, strayed>>

(* The slot with what the gateway lists.  wants_fill(): no refresh token of *)
(* its own, and an older access token.                                      *)
WantsFill(s, c) ==
  LET t == c.seen.tok IN
  /\ ~store[s].ref
  /\ t.exp > c.at /\ t.exp > store[s].tok.exp /\ t # store[s].tok

KnownOwner(c) == IF c.newOwner # NotOwned THEN c.newOwner ELSE c.owner

(* Faulty: what was put into the slot is not remembered.                    *)
WhoByChain(t, c) == IF t \in {c.seen.tok} \cup c.seen.lineage THEN {c.seen.who} ELSE Proofs(t)

(* current_who(): the record of what was put there, else the chain that the *)
(* token came from, else the profile.                                       *)
CurrentWho(t, c) ==
  IF KnownOwner(c).tok = t THEN {KnownOwner(c).who}
  ELSE IF t \in {c.seen.tok} \cup c.seen.lineage THEN {c.seen.who} ELSE Proofs(t)

Proved(s, c, who) ==
  /\ IF store[s].tok # NoToken THEN who = c.seen.who ELSE c.map
  /\ KnownOwner(c) # NotOwned => KnownOwner(c).who = c.seen.who

(* Without a fill, a slot that holds the chain's token is noted as such.    *)
Noted(s, c) ==
  IF c.map /\ KnownOwner(c) = NotOwned /\ ~c.seen.broken /\ store[s].tok = c.seen.tok
  THEN [tok |-> c.seen.tok, who |-> c.seen.who] ELSE c.newOwner

Pull(s) ==
  LET begun == IF sync[s].pc = "idle" THEN Begun(s) ELSE sync[s]
      c == [begun EXCEPT !.seen = Listed]
      candidate == ~c.seen.broken /\ (c.map \/ s \in Named) /\ WantsFill(s, c)
  IN
  /\ sync[s].pc = "list" \/ (sync[s].pc = "idle" /\ ~Offered(s))
  /\ \/ /\ candidate
        /\ \E who \in CurrentWho(store[s].tok, c) :
             sync' = [sync EXCEPT ![s] =
               IF Proved(s, c, who) THEN [c EXCEPT !.pc = "fill", !.tok = store[s].tok]
               ELSE Learned(s, c.newOwner)]
     \/ /\ ~candidate
        /\ sync' = [sync EXCEPT ![s] = Learned(s, Noted(s, c))]
  /\ UNCHANGED <<now, faults, head, store, book, map, owner, strayed>>

(* Faulty: the slot is not read again.                                      *)
FillUnread(s) == sync[s].pc = "fill"

(* The slot is read again before it is written.                             *)
MayFill(s) == store[s].tok = sync[s].tok /\ WantsFill(s, sync[s])

Fill(s) ==
  /\ sync[s].pc = "fill" /\ MayFill(s)
  /\ LET put == [tok |-> sync[s].seen.tok, who |-> sync[s].seen.who] IN
       /\ store' = [store EXCEPT ![s] = [tok |-> put.tok, ref |-> FALSE]]
       /\ sync' = [sync EXCEPT ![s] = [Learned(s, put) EXCEPT !.map = TRUE]]
  /\ UNCHANGED <<now, faults, head, book, map, owner, strayed>>

LeaveSlot(s) ==
  /\ sync[s].pc = "fill"
  /\ IF MayFill(s) THEN Fault ELSE UNCHANGED faults        \* the write fails
  /\ sync' = [sync EXCEPT ![s] = Learned(s, sync[s].newOwner)]
  /\ UNCHANGED <<now, head, store, book, map, owner, strayed>>

(* still_current(): only what is still in the slot is recorded.             *)
SaveLearned(s) ==
  LET new == sync[s].newOwner
      kept == store[s].tok = new.tok
  IN
  /\ sync[s].pc = "save"
  /\ owner' = IF kept THEN [owner EXCEPT ![s] = new] ELSE owner
  /\ map' = IF kept /\ sync[s].map THEN [map EXCEPT ![s] = TRUE] ELSE map
  /\ sync' = [sync EXCEPT ![s] = Idle]
  /\ UNCHANGED <<now, faults, head, store, book, strayed>>

(* A unit of the clock is longer than a cycle and than the gateway's minute *)
(* between two looks: only a machine that sleeps lets one pass meanwhile.   *)
Busy == Due \/ \E s \in Slots : sync[s].pc # "idle"

Tick ==
  /\ now < MaxTime
  /\ now' = now + 1
  /\ IF Busy THEN Fault ELSE UNCHANGED faults
  /\ UNCHANGED << head, store, book, map, owner, sync, strayed>>

Next ==
  \/ \E s \in Slots :
       \/ \E l \in Logins : Login(s, l)
       \/ Adopt(s) \/ ClaudeRotates(s)
       \/ Offer(s) \/ OfferFails(s) \/ HandOver(s) \/ KeepLogin(s) \/ Pull(s)
       \/ Fill(s) \/ LeaveSlot(s) \/ SaveLearned(s) \/ SyncStops(s)
  \/ Refresh \/ RefreshLost \/ Tick

Spec == Init /\ [][Next]_vars

Device(s) ==
  \/ Offer(s) \/ HandOver(s) \/ KeepLogin(s) \/ Pull(s)
  \/ Fill(s) \/ LeaveSlot(s) \/ SaveLearned(s)

FairSpec == Spec /\ WF_vars(Refresh) /\ \A s \in Slots : WF_vars(Device(s))

-----------------------------------------------------------------------------
(* Properties *)

(* What is recorded of an owner is so: the gateway's chain, what a device   *)
(* noted of the token it put in a slot, and what a cycle under way has      *)
(* learned, name the person whose token it is.                              *)
OwnerIsRight ==
  /\ book.tok # NoToken => book.who = Whose(book.tok)
  /\ \A s \in Slots : \A o \in {owner[s], sync[s].owner, sync[s].newOwner} :
       o # NotOwned => o.who = Whose(o.tok)

(* A cycle never takes one person's login out of a slot for another's,      *)
(* though the key, a team's name, may be shared by both and a login may     *)
(* have come into the slot since the cycle looked.                          *)
SlotKeepsPerson ==
  [][\A s \in Slots :
       (HandOver(s) \/ Fill(s)) /\ store[s].tok # NoToken =>
         Whose(store'[s].tok) = Whose(store[s].tok)]_vars

(* A slot gives its refresh token up only when the gateway then has a chain *)
(* of that person it can rotate: the margins of the offer, of the gateway   *)
(* and of Claude leave no time in which both rotate.  Excepted are persons  *)
(* one of whose logins was rotated or replaced behind the gateway's back;   *)
(* any of them, for it may take the chain's place while a reply is away.    *)
LoginSurvives(s) ==
  store[s].ref /\ ~store'[s].ref =>
    /\ ~book.broken /\ Good(book.tok) /\ book.who = Whose(store[s].tok)

Strayed(who) == \E l \in strayed : OwnerOf[l] = who

HandOverKeepsLogin ==
  [][\A s \in Slots : HandOver(s) => LoginSurvives(s) \/ Strayed(Whose(store[s].tok))]_vars

(* ... in general, a device that offers a login does not lose it.           *)
OfferKeepsLogin == [][\A s \in Slots : HandOver(s) => LoginSurvives(s)]_vars

(* A slot that was filled follows the gateway: it comes to hold the chain's *)
(* token, whatever hints and cycles were missed.                            *)
Follows(s) ==
  /\ ~store[s].ref /\ map[s] /\ owner[s].tok = store[s].tok /\ owner[s] # NotOwned
  /\ ~book.broken /\ book.tok.exp > now /\ book.who = owner[s].who

SlotFollows ==
  \A s \in Slots : []<>(Follows(s) => store[s].tok = book.tok)
=============================================================================
