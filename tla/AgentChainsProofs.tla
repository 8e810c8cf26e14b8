-------------------------- MODULE AgentChainsProofs --------------------------
(* Proofs about AgentChains for any slots, logins, people, times and number *)
(* of faults.                                                                *)
EXTENDS AgentChains, TLAPS

(* What the assumptions say of the constants, and that "none" is no value.  *)
LEMMA Constants ==
  /\ MaxTime \in Nat /\ MaxRotations \in Nat /\ MaxFaults \in Nat /\ Life \in Nat
  /\ 0 \notin Logins /\ Nobody \notin People
  /\ \A l \in Logins : OwnerOf[l] \in People
  /\ NoToken \notin Token /\ NotOwned \notin Owned /\ NoChain \notin Chain
<1>. USE ChainAssumption
<1>1. NoToken \notin Token
  BY DEF NoToken, Token
<1>2. NotOwned \notin Owned
  BY <1>1 DEF NotOwned, Owned
<1>3. NoChain \notin Chain
  BY DEF NoChain, Chain
<1>. QED BY <1>1, <1>2, <1>3

(* The tokens the provider hands out.                                       *)
LEMMA Tokens ==
  ASSUME NEW t \in Token, now \in Nat
  PROVE  /\ t.login \in Logins /\ t.n \in 1..MaxRotations /\ t.exp \in Nat
         /\ Whose(t) \in People
         /\ t.n < MaxRotations => Rotated(t) \in Token /\ Whose(Rotated(t)) = Whose(t)
<1>1. t.login \in Logins /\ t.n \in 1..MaxRotations /\ t.exp \in Nat
  BY DEF Token
<1>2. now + Life \in Nat
  BY Constants
<1>3. t.n < MaxRotations => t.n + 1 \in 1..MaxRotations
  BY <1>1, Constants
<1>. QED BY <1>1, <1>2, <1>3, Constants DEF Token, Rotated, Whose

(* The fields of a cycle.                                                   *)
LEMMA CycleFields ==
  ASSUME NEW c \in Cycle
  PROVE  /\ c.at \in Nat /\ c.tok \in AnyToken /\ c.own \in People \cup {Nobody}
         /\ c.reply \in Owned \cup {NotOwned} /\ c.held \in BOOLEAN
         /\ c.seen \in Chain \cup {NoChain} /\ c.map \in BOOLEAN
         /\ c.owner \in Owned \cup {NotOwned} /\ c.newOwner \in Owned \cup {NotOwned}
         /\ KnownOwner(c) \in Owned \cup {NotOwned}
BY DEF Cycle, KnownOwner

(* The fields of a chain; one that has a token is no stand-in.              *)
LEMMA ChainFields ==
  ASSUME NEW c \in Chain \cup {NoChain}
  PROVE  /\ c.tok \in AnyToken /\ c.broken \in BOOLEAN /\ c.updated \in Nat
         /\ c.lineage \in SUBSET Token
         /\ c \in Chain => c.who \in People
         /\ c.tok \in Token => c \in Chain
<1>1. CASE c \in Chain
  BY <1>1, Constants DEF Chain, NoChain
<1>2. CASE c = NoChain
  <2>1. c.tok = NoToken /\ c.broken \in BOOLEAN /\ c.updated = 0 /\ c.lineage = {}
    BY <1>2 DEF NoChain
  <2>2. c \notin Chain /\ c.tok \notin Token
    BY <1>2, <2>1, Constants
  <2>. QED BY <2>1, <2>2 DEF AnyToken
<1>. QED BY <1>1, <1>2

(* The changes a step makes to a cycle keep it a cycle.                     *)
LEMMA CycleUpdates ==
  ASSUME NEW c \in Cycle, NEW o \in Owned \cup {NotOwned}, NEW t \in AnyToken,
         NEW own \in People \cup {Nobody}, NEW held \in BOOLEAN
  PROVE  /\ [c EXCEPT !.map = TRUE] \in Cycle
         /\ [c EXCEPT !.map = TRUE, !.newOwner = o] \in Cycle
         /\ [c EXCEPT !.pc = "fill", !.tok = t] \in Cycle
         /\ [c EXCEPT !.pc = "handover", !.tok = t, !.own = own, !.held = held, !.reply = o] \in Cycle
BY ZenonT(60) DEF Cycle

(* What the operators that make a cycle return.                             *)
LEMMA CycleOps ==
  ASSUME TypeOK, NEW s \in Slots, NEW o \in Owned \cup {NotOwned}
  PROVE  /\ Idle \in Cycle /\ Begun(s) \in Cycle /\ Later(s) \in Cycle /\ Learned(s, o) \in Cycle
         /\ Later(s).newOwner = sync[s].newOwner
<1>1. Idle \in Cycle
  BY DEF Idle, Cycle, AnyToken
<1>2. sync[s] \in Cycle /\ map[s] \in BOOLEAN /\ owner[s] \in Owned \cup {NotOwned} /\ now \in Nat
  BY Constants DEF TypeOK
<1>3. Begun(s) \in Cycle
  BY <1>1, <1>2 DEF Begun, Cycle
<1>4. Later(s) \in Cycle /\ Later(s).newOwner = sync[s].newOwner
  BY <1>2 DEF Later, Cycle, AnyToken
<1>5. Learned(s, o) \in Cycle
  BY <1>1, <1>2 DEF Learned, Cycle
<1>. QED BY <1>1, <1>3, <1>4, <1>5

(* What a chain may become: an offer is sealed, or the sound chain stays.   *)
LEMMA BookOps ==
  ASSUME TypeOK, NEW t \in AnyToken, Accepts(t)
  PROVE  /\ t \in Token
         /\ Sealed(t) \in Chain /\ ~Sealed(t).broken /\ Sealed(t).tok = t
         /\ BookWith(t) \in Chain /\ ~BookWith(t).broken /\ BookWith(t).tok \in Token
<1>1. t \in Token
  BY DEF Accepts, Good, AnyToken
<1>2. now \in Nat /\ Whose(t) \in People
  BY <1>1, Tokens, Constants DEF TypeOK
<1>3. Sealed(t) \in Chain /\ ~Sealed(t).broken /\ Sealed(t).tok = t
  BY <1>1, <1>2 DEF Sealed, Chain, AnyToken
<1>4. Sound(book) => book \in Chain /\ ~book.broken /\ book.tok \in Token
  BY ChainFields DEF TypeOK, Sound, AnyToken
<1>. QED BY <1>1, <1>3, <1>4 DEF BookWith

(* What list() returns is the chain with fewer earlier tokens, or none.     *)
LEMMA ListedChain ==
  ASSUME TypeOK
  PROVE  /\ Listed \in Chain \cup {NoChain}
         /\ ~Listed.broken => /\ Listed \in Chain /\ Listed.tok = book.tok /\ book.tok \in Token
                             /\ Listed.who = book.who /\ Listed.lineage \subseteq book.lineage
<1>1. CASE book.broken
  BY <1>1 DEF Listed, NoChain
<1>2. CASE ~book.broken
  <2>1. book \in Chain /\ book.tok \in Token
    BY <1>2, ChainFields DEF TypeOK, AnyToken
  <2>. DEFINE L == IF book.updated + LineageTtl < now THEN {} ELSE {u \in book.lineage : u.exp > now}
  <2>2. Listed = [book EXCEPT !.lineage = L] /\ L \subseteq book.lineage
    BY <1>2 DEF Listed
  <2>. HIDE DEF L
  <2>. QED BY <2>1, <2>2, ChainFields DEF Chain
<1>. QED BY <1>1, <1>2

(* Every variable keeps its type.                                           *)
THEOREM TypeCorrect == Spec => []TypeOK
<1>1. Init => TypeOK
  <2>. SUFFICES ASSUME Init PROVE TypeOK
    OBVIOUS
  <2>1. book = NoChain /\ book.broken
    BY DEF Init, NoChain
  <2>2. Idle \in Cycle /\ Shell \in Store
    BY DEF Idle, Cycle, AnyToken, Shell, Store
  <2>. QED BY <2>1, <2>2, Constants DEF Init, TypeOK, AnyToken
<1>2. TypeOK /\ [Next]_vars => TypeOK'
  <2>. SUFFICES ASSUME TypeOK, [Next]_vars PROVE TypeOK'
    OBVIOUS
  <2>0. /\ now \in Nat /\ (Fault => faults' \in 0..MaxFaults)
        /\ \A s \in Slots : store[s] \in Store /\ store[s].tok \in AnyToken /\ sync[s] \in Cycle
        /\ \A s \in Slots, c \in Cycle : [sync EXCEPT ![s] = c] \in [Slots -> Cycle]
        /\ \A s \in Slots, t \in AnyToken, b \in BOOLEAN :
             [store EXCEPT ![s] = [tok |-> t, ref |-> b]] \in [Slots -> Store]
        /\ \A l \in Logins, t \in AnyToken : [head EXCEPT ![l] = t] \in [Logins -> AnyToken]
    <3>1. now \in Nat /\ (Fault => faults' \in 0..MaxFaults)
      BY Constants DEF TypeOK, Fault
    <3>2. \A s \in Slots : store[s] \in Store /\ store[s].tok \in AnyToken /\ sync[s] \in Cycle
      BY DEF TypeOK, Store
    <3>3. \A t \in AnyToken, b \in BOOLEAN : [tok |-> t, ref |-> b] \in Store
      BY DEF Store
    <3>. QED BY <3>1, <3>2, <3>3 DEF TypeOK
  <2>1. ASSUME NEW s \in Slots, NEW l \in Logins, Login(s, l) PROVE TypeOK'
    <3>1. First(l) \in AnyToken
      <4>1. 1 \in 1..MaxRotations
        BY ChainAssumption
      <4>2. now + Life \in Nat
        BY <2>0, Constants
      <4>. QED BY <4>1, <4>2 DEF First, Token, AnyToken
    <3>. QED BY <2>0, <2>1, <3>1 DEF Login, TypeOK
  <2>2. ASSUME NEW s \in Slots, Adopt(s) PROVE TypeOK'
    BY <2>2 DEF Adopt, TypeOK
  <2>3. ASSUME NEW s \in Slots, ClaudeRotates(s) PROVE TypeOK'
    <3>1. CASE Good(store[s].tok)
      <4>1. store[s].tok \in Token
        BY <2>0, <3>1 DEF Good, AnyToken
      <4>2. store[s].tok.login \in Logins /\ Rotated(store[s].tok) \in AnyToken
        BY <2>0, <2>3, <3>1, <4>1, Tokens DEF ClaudeRotates, AnyToken
      <4>3. [store EXCEPT ![s].tok = Rotated(store[s].tok)] \in [Slots -> Store]
        BY <2>0, <4>2 DEF TypeOK, Store
      <4>. QED BY <2>0, <2>3, <3>1, <4>2, <4>3 DEF ClaudeRotates, TypeOK
    <3>2. CASE ~Good(store[s].tok)
      <4>1. strayed' \subseteq Logins
        <5>1. store[s].tok.exp <= now + ClaudeLeft \/ store[s].tok.login \in Logins
          <6>1. CASE store[s].tok \in Token
            BY <2>0, <6>1, Tokens
          <6>2. CASE store[s].tok = NoToken
            BY <2>0, <6>2, ChainAssumption DEF NoToken
          <6>. QED BY <2>0, <6>1, <6>2 DEF AnyToken
        <5>. QED BY <2>3, <5>1 DEF ClaudeRotates, TypeOK
      <4>2. store' = [store EXCEPT ![s] = Shell] /\ Shell \in Store /\ UNCHANGED head
        BY <2>3, <3>2 DEF ClaudeRotates, Shell, Store, AnyToken
      <4>. QED BY <2>0, <2>3, <4>1, <4>2 DEF ClaudeRotates, TypeOK
    <3>. QED BY <3>1, <3>2
  <2>4. ASSUME NEW s \in Slots, Offer(s) PROVE TypeOK'
    <3>. DEFINE t == store[s].tok
    <3>0. t \in AnyToken
      BY <2>0
    <3>1. book' \in Chain \cup {NoChain} /\ (~book'.broken => book'.tok # NoToken)
      BY <2>4, <3>0, BookOps, Constants DEF Offer, TypeOK
    <3>2. strayed' \subseteq Logins
      BY <2>4 DEF Offer, Displaces, TypeOK
    <3>3. sync' \in [Slots -> Cycle]
      <4>1. CASE ~Accepts(t) \/ book'.who # Whose(t)
        BY SMTT(20), <2>0, <2>4, <4>1, CycleOps DEF Offer
      <4>2. CASE ~(~Accepts(t) \/ book'.who # Whose(t))
        <5>1. t \in Token /\ book' \in Chain /\ book'.tok \in Token
          BY <2>4, <3>0, <4>2, BookOps DEF Offer
        <5>2. PICK own \in Proofs(t) : sync' = [sync EXCEPT ![s] =
                [Begun(s) EXCEPT !.pc = "handover", !.tok = t, !.own = own,
                 !.held = Sound(book), !.reply = [tok |-> book'.tok, who |-> book'.who]]]
          BY <2>4, <4>2 DEF Offer
        <5>3. own \in People \cup {Nobody}
          BY <5>2, Constants DEF Proofs
        <5>4. [tok |-> book'.tok, who |-> book'.who] \in Owned
          BY <5>1 DEF Owned, Chain
        <5>5. Sound(book) \in BOOLEAN
          BY DEF Sound
        <5>6. [Begun(s) EXCEPT !.pc = "handover", !.tok = t, !.own = own,
                 !.held = Sound(book), !.reply = [tok |-> book'.tok, who |-> book'.who]] \in Cycle
          BY <3>0, <5>3, <5>4, <5>5, CycleOps, CycleUpdates
        <5>. QED BY <2>0, <5>2, <5>6
      <4>. QED BY <4>1, <4>2
    <3>. QED BY <2>4, <3>1, <3>2, <3>3 DEF Offer, TypeOK
  <2>5. ASSUME NEW s \in Slots, OfferFails(s) PROVE TypeOK'
    <3>1. book' \in Chain \cup {NoChain} /\ (~book'.broken => book'.tok # NoToken)
      BY <2>0, <2>5, BookOps, Constants DEF OfferFails, TypeOK
    <3>2. strayed' \subseteq Logins
      BY <2>5 DEF OfferFails, Displaces, TypeOK
    <3>3. sync' \in [Slots -> Cycle]
      BY <2>0, <2>5, CycleOps DEF OfferFails
    <3>. QED BY <2>0, <2>5, <3>1, <3>2, <3>3 DEF OfferFails, TypeOK
  <2>6. ASSUME NEW s \in Slots, HandOver(s) PROVE TypeOK'
    <3>1. sync[s].reply.tok \in AnyToken /\ sync[s].reply \in Owned \cup {NotOwned}
      <4>1. sync[s].reply \in Owned \cup {NotOwned}
        BY <2>0, CycleFields
      <4>. QED BY <4>1 DEF Owned, NotOwned, AnyToken
    <3>2. [Later(s) EXCEPT !.map = TRUE, !.newOwner = sync[s].reply] \in Cycle
      BY <3>1, CycleOps, CycleUpdates
    <3>. QED BY <2>0, <2>6, <3>1, <3>2 DEF HandOver, TypeOK
  <2>7. ASSUME NEW s \in Slots, KeepLogin(s) \/ SyncStops(s) PROVE TypeOK'
    <3>1. /\ sync' = [sync EXCEPT ![s] = Later(s)] \/ sync' = [sync EXCEPT ![s] = Idle]
          /\ Fault \/ UNCHANGED faults
          /\ UNCHANGED <<now, head, store, book, map, owner, strayed>>
      BY <2>7 DEF KeepLogin, SyncStops
    <3>. QED BY <2>0, <3>1, CycleOps DEF TypeOK
  <2>8. ASSUME NEW s \in Slots, Pull(s) PROVE TypeOK'
    <3>. DEFINE begun == IF sync[s].pc = "idle" THEN Begun(s) ELSE sync[s]
                c == [begun EXCEPT !.seen = Listed]
    <3>1. c \in Cycle
      <4>1. begun \in Cycle
        BY <2>0, CycleOps
      <4>. QED BY <4>1, ListedChain DEF Cycle
    <3>2. [c EXCEPT !.pc = "fill", !.tok = store[s].tok] \in Cycle
      BY <2>0, <3>1 DEF Cycle
    <3>3. c.newOwner \in Owned \cup {NotOwned} /\ Noted(s, c) \in Owned \cup {NotOwned}
      <4>1. c.newOwner \in Owned \cup {NotOwned} /\ c.seen = Listed
        BY <3>1, CycleFields DEF Cycle
      <4>2. ~c.seen.broken => [tok |-> c.seen.tok, who |-> c.seen.who] \in Owned
        BY <4>1, ListedChain DEF Owned, Chain
      <4>. QED BY <4>1, <4>2 DEF Noted
    <3>4. \E d \in Cycle : sync' = [sync EXCEPT ![s] = d]
      <4>. HIDE DEF c
      <4>. QED BY <2>8, <3>2, <3>3, CycleOps DEF Pull, c
    <3>. QED BY <2>0, <2>8, <3>4 DEF Pull, TypeOK
  <2>9. ASSUME NEW s \in Slots, Fill(s) PROVE TypeOK'
    <3>. DEFINE put == [tok |-> sync[s].seen.tok, who |-> sync[s].seen.who]
    <3>1. put \in Owned /\ sync[s].seen.tok \in AnyToken
      <4>1. sync[s].seen \in Chain \cup {NoChain} /\ sync[s].at \in Nat
        BY <2>0, CycleFields
      <4>2. sync[s].seen.tok.exp > sync[s].at
        BY <2>9 DEF Fill, MayFill, WantsFill
      <4>3. sync[s].seen.tok # NoToken
        BY <4>1, <4>2 DEF NoToken
      <4>4. sync[s].seen \in Chain /\ sync[s].seen.tok \in Token
        BY <4>1, <4>3, ChainFields DEF AnyToken
      <4>. QED BY <4>4 DEF Owned, Chain
    <3>2. [Learned(s, put) EXCEPT !.map = TRUE] \in Cycle
      <4>1. Learned(s, put) \in Cycle
        BY <3>1, CycleOps
      <4>. QED BY <3>1, <4>1, CycleUpdates
    <3>. QED BY <2>0, <2>9, <3>1, <3>2 DEF Fill, TypeOK
  <2>10. ASSUME NEW s \in Slots, LeaveSlot(s) PROVE TypeOK'
    <3>1. Learned(s, sync[s].newOwner) \in Cycle
      BY <2>0, CycleFields, CycleOps
    <3>. QED BY <2>0, <2>10, <3>1 DEF LeaveSlot, TypeOK
  <2>11. ASSUME NEW s \in Slots, SaveLearned(s) PROVE TypeOK'
    <3>1. sync[s].newOwner \in Owned \cup {NotOwned} /\ Idle \in Cycle
      BY <2>0, CycleFields, CycleOps
    <3>. QED BY <2>0, <2>11, <3>1 DEF SaveLearned, TypeOK
  <2>12. ASSUME Refresh \/ RefreshLost PROVE TypeOK'
    <3>1. book \in Chain /\ book.tok \in Token /\ book.lineage \in SUBSET Token
      BY <2>12, ChainFields DEF Refresh, RefreshLost, Due, TypeOK, AnyToken
    <3>2. book.tok.login \in Logins
      BY <2>0, <3>1, Tokens
    <3>3. CASE Good(book.tok)
      <4>1. Rotated(book.tok) \in Token
        BY <2>0, <2>12, <3>1, <3>3, Tokens DEF Refresh, RefreshLost
      <4>2. CASE Refresh
        <5>1. book' \in Chain /\ book'.tok = Rotated(book.tok)
          <6>. DEFINE L == {u \in book.lineage : u.exp > now} \cup {book.tok}
          <6>1. book' = [book EXCEPT !.tok = Rotated(book.tok), !.updated = now, !.lineage = L]
            BY <3>3, <4>2 DEF Refresh
          <6>2. L \subseteq Token
            BY <3>1
          <6>. HIDE DEF L
          <6>. QED BY <2>0, <3>1, <4>1, <6>1, <6>2 DEF Chain, AnyToken
        <5>. QED BY <2>0, <3>2, <3>3, <4>1, <4>2, <5>1, Constants DEF Refresh, TypeOK, AnyToken
      <4>3. CASE RefreshLost
        BY <2>0, <3>2, <4>1, <4>3 DEF RefreshLost, TypeOK, AnyToken
      <4>. QED BY <2>12, <4>2, <4>3
    <3>4. CASE ~Good(book.tok)
      <4>1. book' \in Chain /\ book'.broken
        BY ZenonT(60), <2>0, <2>12, <3>1, <3>4 DEF Refresh, RefreshLost, Chain, AnyToken
      <4>. QED BY <2>12, <3>4, <4>1 DEF Refresh, RefreshLost, TypeOK
    <3>. QED BY <3>3, <3>4
  <2>13. ASSUME Tick PROVE TypeOK'
    BY <2>0, <2>13, Constants DEF Tick, TypeOK
  <2>14. ASSUME UNCHANGED vars PROVE TypeOK'
    BY <2>14 DEF vars, TypeOK
  <2>. QED BY <2>1, <2>2, <2>3, <2>4, <2>5, <2>6, <2>7, <2>8, <2>9, <2>10, <2>11, <2>12,
              <2>13, <2>14 DEF Next
<1>. QED BY <1>1, <1>2, PTL DEF Spec

-----------------------------------------------------------------------------
(* Owners.  The inductive invariant: what a chain, a record and a cycle     *)
(* under way say of an owner is so; a cycle about to give a refresh token   *)
(* up has proved its person, and one about to fill has proved that the slot *)
(* and the chain are of one person.                                         *)
RightOwner(o) == o # NotOwned => o.who = Whose(o.tok)
RightChain(c) == /\ c.tok # NoToken => c.who = Whose(c.tok)
                 /\ \A u \in c.lineage : Whose(u) = c.who

RightHandOver(c) ==
  c.pc = "handover" =>
    /\ c.tok \in Token /\ c.reply \in Owned
    /\ c.own \in {Nobody, Whose(c.tok)}
    /\ ~c.held => c.reply.who = Whose(c.tok)

RightFill(c) == c.pc = "fill" /\ c.tok # NoToken => Whose(c.tok) = c.seen.who

RightCycle(c) ==
  /\ RightOwner(c.owner) /\ RightOwner(c.newOwner) /\ RightOwner(c.reply) /\ RightChain(c.seen)
  /\ RightHandOver(c) /\ RightFill(c)

Owners ==
  /\ RightChain(book)
  /\ \A s \in Slots : RightOwner(owner[s]) /\ RightCycle(sync[s])

(* Nothing noted says nothing wrong.                                        *)
LEMMA IdleRight == RightOwner(NotOwned) /\ RightChain(NoChain) /\ RightCycle(Idle)
BY DEF RightOwner, RightChain, RightCycle, RightHandOver, RightFill, NoChain, Idle

(* A cycle that begins, goes on or saves says nothing wrong of an owner.    *)
LEMMA CycleOpsRight ==
  ASSUME TypeOK, Owners, NEW s \in Slots, NEW o \in Owned \cup {NotOwned}, RightOwner(o)
  PROVE  /\ RightCycle(Begun(s)) /\ RightCycle(Later(s)) /\ RightCycle(Learned(s, o))
         /\ Begun(s).seen = NoChain /\ Begun(s).newOwner = NotOwned /\ Begun(s).pc = "list"
<1>. USE IdleRight DEF RightCycle, RightHandOver, RightFill
<1>1. /\ Begun(s).owner = owner[s] /\ Begun(s).newOwner = NotOwned /\ Begun(s).reply = NotOwned
      /\ Begun(s).seen = NoChain /\ Begun(s).pc = "list"
  BY DEF Begun, Idle
<1>2. RightCycle(Begun(s))
  BY <1>1 DEF Owners
<1>3. RightCycle(Later(s))
  <2>1. sync[s] \in Cycle
    BY DEF TypeOK
  <2>2. /\ Later(s).owner = sync[s].owner /\ Later(s).newOwner = sync[s].newOwner
        /\ Later(s).reply = NotOwned /\ Later(s).seen = sync[s].seen /\ Later(s).pc = "list"
    BY <2>1 DEF Later, Cycle
  <2>. QED BY <2>2 DEF Owners
<1>4. RightCycle(Learned(s, o))
  <2>. DEFINE d == [Idle EXCEPT !.pc = "save", !.map = sync[s].map, !.newOwner = o]
  <2>1. d.owner = NotOwned /\ d.newOwner = o /\ d.reply = NotOwned /\ d.seen = NoChain /\ d.pc = "save"
    BY DEF Idle
  <2>2. RightCycle(d)
    BY <2>1
  <2>. QED BY <2>2 DEF Learned
<1>. QED BY <1>1, <1>2, <1>3, <1>4

(* What proves the owner of the token in a slot proves the right one.       *)
LEMMA ProvedIsRight ==
  ASSUME TypeOK, NEW s \in Slots, NEW c \in Cycle, c.seen \in Chain, store[s].tok # NoToken,
         RightOwner(c.owner), RightOwner(c.newOwner), RightChain(c.seen),
         NEW who \in CurrentWho(store[s].tok, c), Proved(s, c, who)
  PROVE  Whose(store[s].tok) = c.seen.who
<1>1. store[s].tok \in Token /\ who = c.seen.who
  BY DEF TypeOK, Store, AnyToken, Proved
<1>2. CASE KnownOwner(c).tok = store[s].tok
  <2>1. KnownOwner(c) # NotOwned /\ RightOwner(KnownOwner(c))
    BY <1>2 DEF KnownOwner, NotOwned
  <2>. QED BY <1>1, <1>2, <2>1 DEF CurrentWho, RightOwner
<1>3. CASE KnownOwner(c).tok # store[s].tok /\ store[s].tok \in {c.seen.tok} \cup c.seen.lineage
  BY <1>1, <1>3 DEF CurrentWho, RightChain
<1>4. CASE KnownOwner(c).tok # store[s].tok /\ store[s].tok \notin {c.seen.tok} \cup c.seen.lineage
  <2>1. who \in Proofs(store[s].tok) /\ who # Nobody
    BY <1>1, <1>4, Constants DEF CurrentWho, Chain
  <2>. QED BY <1>1, <2>1 DEF Proofs, Whose
<1>. QED BY <1>2, <1>3, <1>4

(* The inductive invariant holds in every state.                            *)
LEMMA OwnersHold == Spec => []Owners
<1>1. Init => Owners
  BY IdleRight DEF Init, Owners
<1>2. TypeOK /\ TypeOK' /\ Owners /\ [Next]_vars => Owners'
  <2>. SUFFICES ASSUME TypeOK, TypeOK', Owners, [Next]_vars PROVE Owners'
    OBVIOUS
  <2>0. /\ now \in Nat /\ sync \in [Slots -> Cycle]
        /\ \A s \in Slots : store[s].tok \in AnyToken /\ sync[s] \in Cycle
    BY Constants DEF TypeOK, Store
  <2>1. ASSUME UNCHANGED <<book, owner, sync>> PROVE Owners'
    BY <2>1 DEF Owners, RightChain, RightOwner, RightCycle, RightHandOver, RightFill, Whose
  <2>2. ASSUME NEW s \in Slots, NEW d, RightCycle(d), sync' = [sync EXCEPT ![s] = d],
               UNCHANGED <<book, owner>>
        PROVE  Owners'
    BY <2>0, <2>2 DEF Owners
  <2>3. ASSUME NEW s \in Slots, Adopt(s) PROVE Owners'
    BY <2>3, IdleRight DEF Adopt, Owners, TypeOK
  <2>4. ASSUME NEW s \in Slots, Offer(s) \/ OfferFails(s) PROVE Owners'
    <3>. DEFINE t == store[s].tok
    <3>1. RightChain(book')
      <4>1. CASE book' = book
        BY <4>1 DEF Owners
      <4>2. CASE Accepts(t) /\ book' = BookWith(t)
        <5>1. RightChain(Sealed(t))
          BY DEF RightChain, Sealed
        <5>. QED BY <4>2, <5>1 DEF BookWith, Owners
      <4>. QED BY <2>4, <4>1, <4>2 DEF Offer, OfferFails
    <3>2. PICK d : sync' = [sync EXCEPT ![s] = d] /\ RightCycle(d)
      <4>1. CASE sync' = [sync EXCEPT ![s] = Begun(s)]
        BY <4>1, IdleRight, CycleOpsRight
      <4>2. CASE Offer(s) /\ ~(~Accepts(t) \/ book'.who # Whose(t))
        <5>. DEFINE reply == [tok |-> book'.tok, who |-> book'.who]
        <5>1. t \in Token /\ book' \in Chain /\ book'.tok \in Token /\ book'.who = Whose(t)
          BY <2>0, <4>2, BookOps DEF Offer
        <5>2. PICK own \in Proofs(t) : sync' = [sync EXCEPT ![s] =
                [Begun(s) EXCEPT !.pc = "handover", !.tok = t, !.own = own,
                 !.held = Sound(book), !.reply = reply]]
          BY <4>2 DEF Offer
        <5>3. own \in {Nobody, Whose(t)}
          BY <5>1, <5>2 DEF Proofs, Whose
        <5>4. reply \in Owned /\ RightOwner(reply)
          BY <3>1, <5>1, Constants DEF Owned, Chain, RightOwner, RightChain
        <5>. DEFINE d == [Begun(s) EXCEPT !.pc = "handover", !.tok = t, !.own = own,
                          !.held = Sound(book), !.reply = reply]
        <5>5. /\ d.pc = "handover" /\ d.tok = t /\ d.own = own /\ d.reply = reply
              /\ d.owner = Begun(s).owner /\ d.newOwner = Begun(s).newOwner /\ d.seen = Begun(s).seen
          <6>1. Begun(s) \in Cycle
            BY CycleOps
          <6>. QED BY <6>1 DEF Cycle
        <5>6. RightOwner(d.owner) /\ RightOwner(d.newOwner) /\ RightChain(d.seen)
          BY <5>5, IdleRight, CycleOpsRight DEF RightCycle
        <5>7. RightHandOver(d) /\ RightFill(d)
          <6>1. reply.who = Whose(t)
            BY <5>1
          <6>. HIDE DEF d, reply
          <6>. QED BY <5>1, <5>3, <5>4, <5>5, <6>1 DEF RightHandOver, RightFill
        <5>8. RightCycle(d)
          <6>. HIDE DEF d
          <6>. QED BY <5>4, <5>5, <5>6, <5>7 DEF RightCycle
        <5>. QED BY <5>2, <5>8
      <4>. QED BY <2>4, <4>1, <4>2 DEF Offer, OfferFails
    <3>3. UNCHANGED owner
      BY <2>4 DEF Offer, OfferFails
    <3>. QED BY <2>0, <3>1, <3>2, <3>3 DEF Owners
  <2>5. ASSUME NEW s \in Slots, HandOver(s) PROVE Owners'
    <3>. DEFINE d == [Later(s) EXCEPT !.map = TRUE, !.newOwner = sync[s].reply]
    <3>1. /\ d.owner = Later(s).owner /\ d.newOwner = sync[s].reply /\ d.reply = Later(s).reply
          /\ d.seen = Later(s).seen /\ d.pc = "list"
      <4>1. Later(s) \in Cycle /\ Later(s).pc = "list"
        <5>1. Later(s) \in Cycle
          BY CycleOps
        <5>. QED BY <2>0, <5>1 DEF Later, Cycle
      <4>. QED BY <4>1 DEF Cycle
    <3>2. RightCycle(d)
      <4>1. RightOwner(sync[s].reply) /\ RightCycle(Later(s))
        BY IdleRight, CycleOpsRight DEF Owners, RightCycle
      <4>. HIDE DEF d
      <4>. QED BY <3>1, <4>1 DEF RightCycle, RightHandOver, RightFill
    <3>3. sync' = [sync EXCEPT ![s] = d] /\ UNCHANGED <<book, owner>>
      BY <2>5 DEF HandOver
    <3>. HIDE DEF d
    <3>. QED BY <2>2, <3>2, <3>3
  <2>6. ASSUME NEW s \in Slots, KeepLogin(s) \/ SyncStops(s) \/ LeaveSlot(s) PROVE Owners'
    <3>1. sync[s].newOwner \in Owned \cup {NotOwned} /\ RightOwner(sync[s].newOwner)
      BY <2>0, CycleFields DEF Owners, RightCycle
    <3>. QED BY <2>2, <2>6, <3>1, IdleRight, CycleOpsRight DEF KeepLogin, SyncStops, LeaveSlot
  <2>7. ASSUME NEW s \in Slots, Pull(s) PROVE Owners'
    <3>. DEFINE begun == IF sync[s].pc = "idle" THEN Begun(s) ELSE sync[s]
                c == [begun EXCEPT !.seen = Listed]
    <3>1. /\ c \in Cycle /\ c.seen = Listed
          /\ RightOwner(c.owner) /\ RightOwner(c.newOwner) /\ RightOwner(c.reply)
          /\ RightChain(c.seen) /\ c.pc = "list"
      <4>1. begun \in Cycle /\ RightCycle(begun) /\ begun.pc = "list"
        BY <2>0, <2>7, IdleRight, CycleOps, CycleOpsRight DEF Owners, Pull
      <4>2. RightChain(Listed)
        <5>1. CASE Listed.broken
          <6>1. Listed = NoChain
            <7>1. book.broken \in BOOLEAN /\ (~book.broken => book \in Chain)
              BY ChainFields DEF TypeOK, AnyToken
            <7>. QED BY <5>1, <7>1 DEF Listed, Chain
          <6>. QED BY <6>1, IdleRight
        <5>2. CASE ~Listed.broken
          BY <5>2, ListedChain DEF Owners, RightChain
        <5>. QED BY <5>1, <5>2
      <4>3. /\ c \in Cycle /\ c.seen = Listed /\ c.owner = begun.owner /\ c.newOwner = begun.newOwner
            /\ c.reply = begun.reply /\ c.pc = begun.pc
        <5>. HIDE DEF begun
        <5>. QED BY <4>1, ListedChain DEF Cycle
      <4>. HIDE DEF c
      <4>. QED BY <4>1, <4>2, <4>3 DEF RightCycle
    <3>2. Noted(s, c) \in Owned \cup {NotOwned} /\ RightOwner(Noted(s, c))
      <4>1. c.newOwner \in Owned \cup {NotOwned}
        BY <3>1, CycleFields
      <4>2. ~c.seen.broken =>
              LET o == [tok |-> c.seen.tok, who |-> c.seen.who] IN o \in Owned /\ RightOwner(o)
        <5>. HIDE DEF c
        <5>. QED BY <3>1, ListedChain, Constants DEF Owned, Chain, RightOwner, RightChain
      <4>. HIDE DEF c
      <4>. QED BY <3>1, <4>1, <4>2 DEF Noted
    <3>3. ASSUME ~c.seen.broken, NEW who \in CurrentWho(store[s].tok, c), Proved(s, c, who)
          PROVE  RightCycle([c EXCEPT !.pc = "fill", !.tok = store[s].tok])
      <4>. DEFINE d == [c EXCEPT !.pc = "fill", !.tok = store[s].tok]
      <4>1. store[s].tok # NoToken => Whose(store[s].tok) = c.seen.who
        <5>. HIDE DEF c
        <5>. QED BY <3>1, <3>3, ListedChain, ProvedIsRight
      <4>2. /\ d.pc = "fill" /\ d.tok = store[s].tok /\ d.seen = c.seen /\ d.owner = c.owner
            /\ d.newOwner = c.newOwner /\ d.reply = c.reply
        <5>. HIDE DEF c
        <5>. QED BY <3>1 DEF Cycle
      <4>. HIDE DEF d, c
      <4>. QED BY <3>1, <4>1, <4>2 DEF RightCycle, RightHandOver, RightFill
    <3>4. PICK d : sync' = [sync EXCEPT ![s] = d] /\ RightCycle(d)
      <4>1. c.newOwner \in Owned \cup {NotOwned}
        BY <3>1, CycleFields
      <4>. HIDE DEF c
      <4>. QED BY <2>7, <3>1, <3>2, <3>3, <4>1, CycleOpsRight DEF Pull, c
    <3>5. UNCHANGED <<book, owner>>
      BY <2>7 DEF Pull
    <3>. QED BY <2>2, <3>4, <3>5
  <2>8. ASSUME NEW s \in Slots, Fill(s) PROVE Owners'
    <3>. DEFINE put == [tok |-> sync[s].seen.tok, who |-> sync[s].seen.who]
                d == [Learned(s, put) EXCEPT !.map = TRUE]
    <3>1. put \in Owned /\ RightOwner(put)
      <4>1. sync[s].seen \in Chain \cup {NoChain} /\ sync[s].at \in Nat
        BY <2>0, CycleFields
      <4>2. sync[s].seen.tok # NoToken
        BY <2>8, <4>1 DEF Fill, MayFill, WantsFill, NoToken
      <4>3. sync[s].seen \in Chain /\ sync[s].seen.tok \in Token /\ RightChain(sync[s].seen)
        BY <4>1, <4>2, ChainFields DEF AnyToken, Owners, RightCycle
      <4>. QED BY <4>2, <4>3 DEF Owned, Chain, RightOwner, RightChain
    <3>2. RightCycle(d)
      <4>1. Learned(s, put) \in Cycle /\ RightCycle(Learned(s, put))
        BY <3>1, CycleOps, CycleOpsRight
      <4>2. /\ d.pc = Learned(s, put).pc /\ d.tok = Learned(s, put).tok /\ d.own = Learned(s, put).own
            /\ d.reply = Learned(s, put).reply /\ d.held = Learned(s, put).held
            /\ d.seen = Learned(s, put).seen /\ d.owner = Learned(s, put).owner
            /\ d.newOwner = Learned(s, put).newOwner
        BY <4>1 DEF Cycle
      <4>. HIDE DEF d
      <4>. QED BY <4>1, <4>2 DEF RightCycle, RightHandOver, RightFill
    <3>3. sync' = [sync EXCEPT ![s] = d] /\ UNCHANGED <<book, owner>>
      BY <2>8 DEF Fill
    <3>. HIDE DEF d
    <3>. QED BY <2>2, <3>2, <3>3
  <2>9. ASSUME NEW s \in Slots, SaveLearned(s) PROVE Owners'
    <3>1. RightOwner(sync[s].newOwner)
      BY DEF Owners, RightCycle
    <3>2. \A r \in Slots : RightOwner(owner'[r]) /\ RightCycle(sync'[r])
      BY <2>0, <2>9, <3>1, IdleRight DEF SaveLearned, TypeOK, Owners
    <3>. QED BY <2>9, <3>2 DEF SaveLearned, Owners
  <2>10. ASSUME Refresh PROVE Owners'
    <3>1. book \in Chain /\ book.tok \in Token
      BY <2>10, ChainFields DEF Refresh, Due, TypeOK, AnyToken
    <3>2. RightChain(book')
      <4>1. CASE Good(book.tok)
        <5>. DEFINE L == {u \in book.lineage : u.exp > now} \cup {book.tok}
        <5>1. book' = [book EXCEPT !.tok = Rotated(book.tok), !.updated = now, !.lineage = L]
          BY <2>10, <4>1 DEF Refresh
        <5>2. Whose(Rotated(book.tok)) = Whose(book.tok) /\ Whose(book.tok) = book.who
          BY <3>1, Constants DEF Whose, Rotated, Owners, RightChain
        <5>3. \A u \in L : Whose(u) = book.who
          BY <5>2 DEF Owners, RightChain
        <5>. HIDE DEF L
        <5>. QED BY <3>1, <5>1, <5>2, <5>3 DEF Chain, RightChain
      <4>2. CASE ~Good(book.tok)
        BY <2>10, <3>1, <4>2 DEF Refresh, Chain, RightChain
      <4>. QED BY <4>1, <4>2
    <3>. QED BY <2>10, <3>2 DEF Refresh, Owners
  <2>11. ASSUME \/ \E s \in Slots : (\E l \in Logins : Login(s, l)) \/ ClaudeRotates(s)
                \/ RefreshLost \/ Tick \/ UNCHANGED vars
         PROVE  Owners'
    <3>1. UNCHANGED <<book, owner, sync>>
      BY <2>11 DEF Login, ClaudeRotates, RefreshLost, Tick, vars
    <3>. QED BY <2>1, <3>1
  <2>. QED BY <2>3, <2>4, <2>5, <2>6, <2>7, <2>8, <2>9, <2>10, <2>11 DEF Next
<1>. QED BY <1>1, <1>2, TypeCorrect, PTL DEF Spec

(* What is recorded of an owner is so, whoever shares the key and whatever  *)
(* calls fail or cycles stop (current_who(), still_current(), seal()).      *)
THEOREM OwnersRight == Spec => []OwnerIsRight
<1>1. Owners => OwnerIsRight
  BY DEF Owners, OwnerIsRight, RightChain, RightOwner, RightCycle
<1>. QED BY <1>1, OwnersHold, PTL

(* A cycle never puts the token of one person where a login of another is.  *)
THEOREM PersonKept == Spec => SlotKeepsPerson
<1>1. ASSUME TypeOK, Owners, NEW s \in Slots, HandOver(s) \/ Fill(s), store[s].tok # NoToken
      PROVE  Whose(store'[s].tok) = Whose(store[s].tok)
  <2>0. store \in [Slots -> Store] /\ sync[s] \in Cycle /\ RightCycle(sync[s])
    BY <1>1 DEF TypeOK, Owners
  <2>1. CASE HandOver(s)
    <3>1. /\ store'[s].tok = sync[s].reply.tok /\ store[s].tok = sync[s].tok
          /\ sync[s].pc = "handover" /\ (sync[s].held => sync[s].own = sync[s].reply.who)
      BY <2>0, <2>1 DEF HandOver, MayHandOver
    <3>2. sync[s].reply \in Owned /\ sync[s].reply.who = Whose(sync[s].reply.tok)
      BY <2>0, <3>1, Constants DEF RightCycle, RightHandOver, RightOwner
    <3>3. sync[s].reply.who = Whose(sync[s].tok)
      <4>1. sync[s].reply.who # Nobody
        BY <3>2, Constants DEF Owned
      <4>. QED BY <2>0, <3>1, <4>1 DEF RightCycle, RightHandOver
    <3>. QED BY <3>1, <3>2, <3>3
  <2>2. CASE Fill(s)
    <3>1. /\ store'[s].tok = sync[s].seen.tok /\ store[s].tok = sync[s].tok /\ sync[s].pc = "fill"
          /\ sync[s].seen.tok.exp > sync[s].at
      BY <2>0, <2>2 DEF Fill, MayFill, WantsFill
    <3>2. sync[s].seen.tok # NoToken
      BY <2>0, <3>1, CycleFields DEF NoToken
    <3>. QED BY <1>1, <2>0, <3>1, <3>2 DEF RightCycle, RightFill, RightChain
  <2>. QED BY <1>1, <2>1, <2>2
<1>2. TypeOK /\ Owners =>
        [\A s \in Slots : (HandOver(s) \/ Fill(s)) /\ store[s].tok # NoToken =>
           Whose(store'[s].tok) = Whose(store[s].tok)]_vars
  BY <1>1
<1>. QED BY <1>2, TypeCorrect, OwnersHold, PTL DEF SlotKeepsPerson
-----------------------------------------------------------------------------
(* The gateway's chain.  Who holds a refresh token: a login is in at most   *)
(* one slot, and no one holds a token that was not handed out.              *)
Issued ==
  /\ \A l \in Logins : head[l] # NoToken => head[l].login = l
  /\ ~book.broken => /\ head[book.tok.login] # NoToken
                     /\ book.tok.n <= head[book.tok.login].n
  /\ \A s \in Slots : store[s].ref =>
       /\ store[s].tok # NoToken /\ head[store[s].tok.login] # NoToken
       /\ store[s].tok.n <= head[store[s].tok.login].n

OneSlot == \A s, q \in Slots :
  store[s].ref /\ store[q].ref /\ store[s].tok.login = store[q].tok.login => s = q

(* Unless it was rotated behind the gateway's back, the token of the chain  *)
(* the gateway keeps is the one that is good.                               *)
ChainIsGood == ~book.broken => book.tok.login \in strayed \/ Good(book.tok)

(* How long a slot that still holds the refresh token of the gateway's      *)
(* chain leaves it alone: the margin of the offer while it is being handed  *)
(* over, and less what every fault may cost once a fault has left it there. *)
Spare(c, t) ==
  IF c.pc = "handover" /\ c.tok = t
  THEN /\ t.exp + faults >= now + OfferLeft + (IF c.held THEN 2 ELSE 1)
       /\ c.held => faults >= 1
  ELSE /\ faults >= 1
       /\ t.exp + faults >= now + OfferLeft + 2 \/ t.exp + faults >= now + Ahead

Margin == \A s \in Slots :
  store[s].ref /\ ~book.broken /\ store[s].tok = book.tok /\ book.tok.login \notin strayed
    => Spare(sync[s], store[s].tok)

(* What the gateway answered to an offer still holds at the handover.       *)
Replied == \A s \in Slots :
  sync[s].pc = "handover" =>
    Strayed(sync[s].reply.who) \/ (~book.broken /\ book.who = sync[s].reply.who)

(* The margins of the offer and of the gateway cover Claude's own by more   *)
(* than the units of the clock that faults may let pass.                    *)
Margins == OfferLeft >= ClaudeLeft + MaxFaults /\ Ahead > ClaudeLeft + MaxFaults

Held == Issued /\ OneSlot /\ ChainIsGood /\ Margin

(* Tokens of one login are told apart by their number.                      *)
LEMMA Heads ==
  ASSUME TypeOK, Issued
  PROVE  /\ \A l \in Logins : head[l] \in AnyToken
         /\ \A s \in Slots : store[s].tok \in AnyToken /\ store[s].ref \in BOOLEAN
         /\ \A s \in Slots : store[s].ref => store[s].tok \in Token /\ store[s].tok.login \in Logins
         /\ ~book.broken => book \in Chain /\ book.tok \in Token /\ book.tok.login \in Logins
         /\ now \in Nat /\ faults \in Nat /\ faults <= MaxFaults
<1>1. \A s \in Slots : store[s].tok \in AnyToken /\ store[s].ref \in BOOLEAN
  BY DEF TypeOK, Store
<1>2. \A s \in Slots : store[s].ref => store[s].tok \in Token
  BY <1>1 DEF Issued, AnyToken
<1>3. ~book.broken => book \in Chain /\ book.tok \in Token
  BY ChainFields DEF TypeOK, AnyToken
<1>4. \A t \in Token : t.login \in Logins
  BY DEF Token
<1>. QED BY <1>1, <1>2, <1>3, <1>4, Constants DEF TypeOK

(* Claude does not rotate of its own a token the gateway relies on.         *)
LEMMA NotYet ==
  ASSUME TypeOK, Held, Margins, NEW s \in Slots,
         store[s].ref, ~book.broken, store[s].tok = book.tok, book.tok.login \notin strayed
  PROVE  store[s].tok.exp > now + ClaudeLeft
<1>1. Spare(sync[s], store[s].tok)
  BY DEF Held, Margin
<1>2. /\ now \in Nat /\ faults \in Nat /\ faults <= MaxFaults /\ store[s].tok.exp \in Nat
      /\ ClaudeLeft \in Nat /\ OfferLeft \in Nat /\ Ahead \in Nat /\ MaxFaults \in Nat
  BY Heads, Tokens, ChainAssumption DEF Held
<1>3. \/ store[s].tok.exp + faults >= now + OfferLeft + 1
      \/ store[s].tok.exp + faults >= now + OfferLeft + 2
      \/ store[s].tok.exp + faults >= now + Ahead
  BY <1>1, <1>2 DEF Spare
<1>. QED BY <1>2, <1>3 DEF Margins

(* What is spared stays so when no more time passes than faults account for,*)
(* and when a cycle leaves the handover by a fault or for another's chain.  *)
LEMMA SpareLasts ==
  ASSUME TypeOK, TypeOK', NEW c, NEW d, NEW t \in Token, Spare(c, t),
         \/ now' = now /\ faults' >= faults
         \/ now' = now + 1 /\ faults' = faults + 1,
         \/ d = c
         \/ /\ d.pc # "handover" /\ now' = now
            /\ c.pc = "handover" /\ c.tok = t => c.held \/ faults' > faults
  PROVE  Spare(d, t)'
<1>1. PICK e, n, m, f, g :
        e = t.exp /\ n = now /\ m = now' /\ f = faults /\ g = faults'
  OBVIOUS
<1>2. e \in Nat /\ n \in Nat /\ m \in Nat /\ f \in Nat /\ g \in Nat /\ OfferLeft \in Nat /\ Ahead \in Nat
  BY <1>1, ChainAssumption, Constants DEF TypeOK, Token
<1>3. (m = n /\ g >= f) \/ (m = n + 1 /\ g = f + 1)
  BY <1>1
<1>. DEFINE H == c.pc = "handover" /\ c.tok = t
<1>4. IF H THEN e + f >= n + OfferLeft + (IF c.held THEN 2 ELSE 1) /\ (c.held => f >= 1)
      ELSE f >= 1 /\ (e + f >= n + OfferLeft + 2 \/ e + f >= n + Ahead)
  BY <1>1 DEF Spare
<1>5. CASE H /\ d = c
  <2>1. e + g >= m + OfferLeft + (IF c.held THEN 2 ELSE 1) /\ (c.held => g >= 1)
    BY <1>2, <1>3, <1>4, <1>5
  <2>. QED BY <1>1, <1>5, <2>1 DEF Spare
<1>6. CASE ~H /\ d = c
  <2>1. g >= 1 /\ (e + g >= m + OfferLeft + 2 \/ e + g >= m + Ahead)
    BY <1>2, <1>3, <1>4, <1>6
  <2>. QED BY <1>1, <1>6, <2>1 DEF Spare
<1>7. CASE d.pc # "handover" /\ m = n /\ (H => c.held \/ g > f)
  <2>1. CASE H
    <3>1. e + g >= m + OfferLeft + 2 /\ g >= 1
      BY <1>2, <1>3, <1>4, <1>7, <2>1
    <3>. QED BY <1>1, <1>7, <3>1 DEF Spare
  <2>2. CASE ~H
    <3>1. g >= 1 /\ (e + g >= m + OfferLeft + 2 \/ e + g >= m + Ahead)
      BY <1>2, <1>3, <1>4, <1>7, <2>2
    <3>. QED BY <1>1, <1>7, <3>1 DEF Spare
  <2>. QED BY <2>1, <2>2
<1>. QED BY <1>1, <1>5, <1>6, <1>7

(* Nothing but the cycle of one slot moves.                                 *)
LEMMA CycleKeeps ==
  ASSUME TypeOK, TypeOK', Held, NEW s \in Slots,
         UNCHANGED <<now, head, store, book, strayed>>, faults' >= faults,
         \A q \in Slots \ {s} : sync'[q] = sync[q],
         sync'[s].pc # "handover",
         sync[s].pc = "handover" /\ store[s].ref /\ store[s].tok = sync[s].tok
           => sync[s].held \/ faults' > faults
  PROVE  Held'
<1>1. Issued' /\ OneSlot' /\ ChainIsGood'
  BY DEF Held, Issued, OneSlot, ChainIsGood, Good
<1>2. ASSUME NEW q \in Slots, store[q].ref, ~book.broken, store[q].tok = book.tok,
             book.tok.login \notin strayed
      PROVE  Spare(sync[q], store[q].tok)'
  <2>1. PICK c, d, t : c = sync[q] /\ d = sync'[q] /\ t = store[q].tok
    OBVIOUS
  <2>2. Spare(c, t) /\ t \in Token
    BY <1>2, <2>1, Heads DEF Held, Margin
  <2>3. \/ d = c
        \/ /\ d.pc # "handover" /\ now' = now
           /\ c.pc = "handover" /\ c.tok = t => c.held \/ faults' > faults
    BY <1>2, <2>1
  <2>5. Spare(d, t)'
    BY <2>2, <2>3, SpareLasts
  <2>. QED BY <2>1, <2>5
<1>3. Margin'
  BY <1>2 DEF Margin
<1>. QED BY <1>1, <1>3 DEF Held

(* A login is made: its token is new to every slot and to the gateway.      *)
LEMMA LoginKeeps ==
  ASSUME TypeOK, TypeOK', Held, NEW s \in Slots, NEW l \in Logins, Login(s, l)
  PROVE  Held'
<1>1. /\ head[l] = NoToken /\ head'[l] = First(l) /\ \A k \in Logins \ {l} : head'[k] = head[k]
      /\ store'[s] = [tok |-> First(l), ref |-> TRUE]
      /\ \A q \in Slots \ {s} : store'[q] = store[q]
      /\ UNCHANGED <<now, faults, book, sync, strayed>>
  BY DEF Login, TypeOK
<1>2. First(l).login = l /\ First(l).n = 1 /\ First(l) # NoToken
  BY Constants DEF First, NoToken
<1>3. ~book.broken => book.tok.login \in Logins \ {l}
  BY <1>1, Heads DEF Held, Issued
<1>4. \A q \in Slots : store[q].ref => store[q].tok.login \in Logins \ {l}
  BY <1>1, Heads DEF Held, Issued
<1>5. Issued'
  <2>1. \A k \in Logins : head'[k] # NoToken => head'[k].login = k
    BY <1>1, <1>2 DEF Held, Issued
  <2>2. ~book'.broken => /\ head'[book'.tok.login] # NoToken
                         /\ book'.tok.n <= head'[book'.tok.login].n
    BY <1>1, <1>3 DEF Held, Issued
  <2>3. ASSUME NEW q \in Slots, store'[q].ref
        PROVE  /\ store'[q].tok # NoToken /\ head'[store'[q].tok.login] # NoToken
               /\ store'[q].tok.n <= head'[store'[q].tok.login].n
    BY <1>1, <1>2, <1>4, <2>3 DEF Held, Issued
  <2>. QED BY <2>1, <2>2, <2>3 DEF Issued
<1>6. OneSlot'
  BY <1>1, <1>2, <1>4 DEF Held, OneSlot
<1>7. ChainIsGood'
  BY <1>1, <1>3 DEF Held, ChainIsGood, Good
<1>8. Margin'
  <2>. SUFFICES ASSUME NEW q \in Slots, store'[q].ref, ~book.broken, store'[q].tok = book.tok,
                       book.tok.login \notin strayed
                PROVE  Spare(sync[q], store[q].tok)'
    BY <1>1 DEF Margin
  <2>1. q # s
    BY <1>1, <1>2, <1>3
  <2>2. Spare(sync[q], store[q].tok)
    BY <1>1, <2>1 DEF Held, Margin
  <2>. QED BY <1>1, <2>1, <2>2 DEF Spare
<1>. QED BY <1>5, <1>6, <1>7, <1>8 DEF Held

(* A slot that gives its refresh token up no longer counts.                 *)
LEMMA LetGoKeeps ==
  ASSUME TypeOK, TypeOK', Held, NEW s \in Slots, HandOver(s) \/ Fill(s)
  PROVE  Held'
<1>1. /\ ~store'[s].ref /\ \A q \in Slots \ {s} : store'[q] = store[q] /\ sync'[q] = sync[q]
      /\ UNCHANGED <<now, faults, head, book, strayed>>
  BY DEF HandOver, Fill, TypeOK
<1>2. Issued' /\ OneSlot' /\ ChainIsGood'
  BY <1>1 DEF Held, Issued, OneSlot, ChainIsGood, Good
<1>3. Margin'
  <2>. SUFFICES ASSUME NEW q \in Slots, store'[q].ref, ~book.broken, store'[q].tok = book.tok,
                       book.tok.login \notin strayed
                PROVE  Spare(sync[q], store[q].tok)'
    BY <1>1 DEF Margin
  <2>1. q # s
    BY <1>1
  <2>2. Spare(sync[q], store[q].tok)
    BY <1>1, <2>1 DEF Held, Margin
  <2>. QED BY <1>1, <2>1, <2>2 DEF Spare
<1>. QED BY <1>2, <1>3 DEF Held

(* Claude rotates: the token of the chain only against the rules, and       *)
(* another's token is not the gateway's.                                    *)
LEMMA ClaudeKeeps ==
  ASSUME TypeOK, TypeOK', Held, Margins, NEW s \in Slots, ClaudeRotates(s)
  PROVE  Held'
<1>. DEFINE t == store[s].tok
<1>0. /\ store[s].ref /\ t \in Token /\ t.login \in Logins /\ t # NoToken
      /\ strayed \subseteq strayed'
      /\ \A q \in Slots \ {s} : store'[q] = store[q]
      /\ UNCHANGED <<now, faults, book, sync>>
  BY Heads, Constants DEF ClaudeRotates, TypeOK, Held
<1>1. ASSUME NEW q \in Slots \ {s}, store'[q].ref, ~book'.broken, store'[q].tok = book'.tok,
             book'.tok.login \notin strayed'
      PROVE  Spare(sync[q], store[q].tok)'
  <2>1. Spare(sync[q], store[q].tok)
    BY <1>0, <1>1 DEF Held, Margin
  <2>. QED BY <1>0, <1>1, <2>1 DEF Spare
<1>2. CASE Good(t)
  <2>. DEFINE r == Rotated(t)
  <2>1. /\ head[t.login] = t /\ head'[t.login] = r /\ t.n < MaxRotations
        /\ \A l \in Logins \ {t.login} : head'[l] = head[l]
        /\ store'[s].tok = r /\ store'[s].ref
    BY <1>0, <1>2 DEF ClaudeRotates, Good, TypeOK, Store
  <2>2. r.login = t.login /\ r.n = t.n + 1 /\ r # NoToken /\ t.n \in Nat
    BY <1>0, Constants DEF Rotated, NoToken, Token
  <2>. HIDE DEF r, t
  <2>3. Issued'
    <3>1. \A l \in Logins : head'[l] # NoToken => head'[l].login = l
      BY <2>1, <2>2 DEF Held, Issued
    <3>2. ~book'.broken => /\ head'[book'.tok.login] # NoToken
                           /\ book'.tok.n <= head'[book'.tok.login].n
      <4>. SUFFICES ASSUME ~book.broken
                    PROVE  head'[book.tok.login] # NoToken /\ book.tok.n <= head'[book.tok.login].n
        BY <1>0
      <4>1. book.tok.login \in Logins /\ book.tok.n \in Nat /\ book.tok.n <= head[book.tok.login].n
            /\ head[book.tok.login] # NoToken
        BY Heads, Tokens DEF Held, Issued
      <4>. QED BY <2>1, <2>2, <4>1
    <3>3. ASSUME NEW q \in Slots, store'[q].ref
          PROVE  /\ store'[q].tok # NoToken /\ head'[store'[q].tok.login] # NoToken
                 /\ store'[q].tok.n <= head'[store'[q].tok.login].n
      <4>1. CASE q = s
        BY <2>1, <2>2, <4>1
      <4>2. CASE q # s
        <5>1. store'[q] = store[q] /\ store[q].tok \in Token /\ store[q].tok.login \in Logins
              /\ store[q].tok.n \in Nat /\ store[q].tok.n <= head[store[q].tok.login].n
              /\ store[q].tok # NoToken /\ head[store[q].tok.login] # NoToken
          BY <1>0, <3>3, <4>2, Heads, Tokens DEF Held, Issued
        <5>. QED BY <2>1, <2>2, <5>1
      <4>. QED BY <4>1, <4>2
    <3>. QED BY <3>1, <3>2, <3>3 DEF Issued
  <2>4. OneSlot'
    BY <1>0, <2>1, <2>2 DEF Held, OneSlot, t
  <2>5. ChainIsGood'
    <3>. SUFFICES ASSUME ~book.broken, book.tok.login \notin strayed'
                  PROVE  Good(book.tok)'
      BY <1>0 DEF ChainIsGood
    <3>1. book.tok.login \notin strayed /\ Good(book.tok) /\ book.tok.login \in Logins
      BY <1>0, Heads DEF Held, ChainIsGood
    <3>2. CASE book.tok.login = t.login
      <4>1. book.tok = t
        BY <2>1, <3>1, <3>2 DEF Good
      <4>2. t.exp > now + ClaudeLeft
        BY <1>0, <3>1, <4>1, NotYet DEF t
      <4>3. t.login \in strayed'
        <5>1. t.exp \in Nat /\ now \in Nat /\ ClaudeLeft \in Nat
          BY <1>0, Heads, Tokens, ChainAssumption DEF Held
        <5>2. ~(t.exp <= now + ClaudeLeft)
          BY <4>2, <5>1
        <5>. QED BY <5>2 DEF ClaudeRotates, t
      <4>. QED BY <4>1, <4>3
    <3>3. CASE book.tok.login # t.login
      BY <1>0, <2>1, <3>1, <3>3 DEF Good
    <3>. QED BY <3>2, <3>3
  <2>6. ASSUME ~book'.broken, store'[s].tok = book'.tok, book'.tok.login \notin strayed'
        PROVE  FALSE
    <3>1. book.tok.n \in Nat /\ book.tok.n <= head[book.tok.login].n
      BY <1>0, <2>6, Heads, Tokens DEF Held, Issued
    <3>. QED BY <1>0, <2>1, <2>2, <2>6, <3>1
  <2>. QED BY <1>1, <2>3, <2>4, <2>5, <2>6 DEF Held, Margin
<1>3. CASE ~Good(t)
  <2>1. ~store'[s].ref /\ head' = head
    BY <1>0, <1>3 DEF ClaudeRotates, Shell, TypeOK
  <2>. HIDE DEF t
  <2>2. Issued' /\ OneSlot' /\ ChainIsGood'
    BY <1>0, <2>1 DEF Held, Issued, OneSlot, ChainIsGood, Good
  <2>3. Margin'
    BY <1>1, <2>1 DEF Margin
  <2>. QED BY <2>2, <2>3 DEF Held
<1>. QED BY <1>2, <1>3

(* An offer may make the slot's chain the gateway's: the slot then spares   *)
(* it for the margin of the offer.                                          *)
LEMMA OfferKeeps ==
  ASSUME TypeOK, TypeOK', Owners, Held, NEW s \in Slots, Offer(s) \/ OfferFails(s)
  PROVE  Held'
<1>. DEFINE t == store[s].tok
<1>0. /\ store[s].ref /\ t \in Token /\ t.exp > now + OfferLeft /\ sync[s].pc = "idle"
      /\ strayed \subseteq strayed' /\ UNCHANGED <<now, head, store>>
      /\ faults' >= faults /\ (OfferFails(s) => faults' = faults + 1)
      /\ \A q \in Slots \ {s} : sync'[q] = sync[q]
  <2>1. /\ store[s].ref /\ t.exp > now + OfferLeft /\ sync[s].pc = "idle"
        /\ strayed \subseteq strayed' /\ UNCHANGED <<now, head, store>>
        /\ \A q \in Slots \ {s} : sync'[q] = sync[q]
    BY DEF Offer, OfferFails, Offered, Displaces, TypeOK
  <2>2. faults \in Nat
    BY Heads DEF Held
  <2>3. faults' >= faults /\ (OfferFails(s) => faults' = faults + 1)
    <3>1. Offer(s) => faults' = faults
      BY DEF Offer
    <3>2. OfferFails(s) => faults' = faults + 1
      BY DEF OfferFails, Fault
    <3>. QED BY <2>2, <3>1, <3>2
  <2>. QED BY <2>1, <2>3, Heads DEF Held
<1>1. book' = book \/ (book' = Sealed(t) /\ Good(t))
  BY DEF Offer, OfferFails, BookWith, Accepts
<1>2. Issued'
  <2>1. CASE book' = book
    BY <1>0, <2>1 DEF Held, Issued
  <2>2. CASE book' = Sealed(t)
    BY <1>0, <2>2 DEF Held, Issued, Sealed
  <2>. QED BY <1>1, <2>1, <2>2
<1>3. OneSlot'
  BY <1>0 DEF Held, OneSlot
<1>4. ChainIsGood'
  BY <1>0, <1>1 DEF Held, ChainIsGood, Good, Sealed
<1>5. ASSUME NEW q \in Slots, store[q].ref, ~book'.broken, store[q].tok = book'.tok,
             book'.tok.login \notin strayed'
      PROVE  Spare(sync[q], store[q].tok)'
  <2>0. PICK c, d, u : c = sync[q] /\ d = sync'[q] /\ u = store[q].tok
    OBVIOUS
  <2>1. u \in Token /\ u.exp \in Nat /\ now \in Nat /\ faults \in Nat /\ OfferLeft \in Nat
    BY <1>5, <2>0, Heads, Tokens, ChainAssumption DEF Held
  <2>2. book' = book => Spare(c, u)
    BY <1>0, <1>5, <2>0 DEF Held, Margin
  <2>4. CASE q # s
    <3>1. book' = book
      <4>1. book' # Sealed(t)
        BY <1>0, <1>5, <2>4 DEF Held, OneSlot, Sealed
      <4>. QED BY <1>1, <4>1
    <3>2. Spare(d, u)'
      BY <1>0, <2>0, <2>1, <2>2, <2>4, <3>1, SpareLasts
    <3>. QED BY <1>0, <2>0, <3>2
  <2>5. CASE q = s /\ sync'[s] = Begun(s) /\ book' = book
    <3>1. d.pc # "handover" /\ c.pc = "idle"
      BY <1>0, <2>0, <2>5 DEF Begun, Idle
    <3>2. Spare(d, u)'
      BY <1>0, <2>1, <2>2, <2>5, <3>1, SpareLasts
    <3>. QED BY <1>0, <2>0, <3>2
  <2>6. CASE q = s /\ OfferFails(s)
    <3>1. d.pc # "handover"
      BY <1>0, <2>0, <2>6 DEF OfferFails, TypeOK, Begun, Idle
    <3>2. faults' = faults + 1 /\ now' = now /\ u.exp > now + OfferLeft
      BY <1>0, <2>0, <2>6
    <3>3. PICK e, n, f, g : e = u.exp /\ n = now /\ f = faults /\ g = faults'
      OBVIOUS
    <3>4. e + g >= n + OfferLeft + 2 /\ g >= 1
      BY <2>1, <3>2, <3>3
    <3>5. Spare(d, u)'
      BY <3>1, <3>2, <3>3, <3>4 DEF Spare
    <3>. QED BY <1>0, <2>0, <3>5
  <2>7. CASE q = s /\ Offer(s) /\ Accepts(t) /\ book'.who = Whose(t)
    <3>1. PICK own : sync' = [sync EXCEPT ![s] =
              [Begun(s) EXCEPT !.pc = "handover", !.tok = t, !.own = own,
                !.held = Sound(book), !.reply = [tok |-> book'.tok, who |-> book'.who]]]
      BY <2>7 DEF Offer
    <3>2. d.pc = "handover" /\ d.tok = u /\ d.held = Sound(book)
      <4>1. Begun(s) \in Cycle
        BY CycleOps
      <4>2. d = [Begun(s) EXCEPT !.pc = "handover", !.tok = t, !.own = own,
                  !.held = Sound(book), !.reply = [tok |-> book'.tok, who |-> book'.who]]
        BY <2>0, <2>7, <3>1 DEF TypeOK
      <4>. QED BY <2>0, <2>7, <4>1, <4>2 DEF Cycle
    <3>3. faults' = faults /\ now' = now
      BY <1>0, <2>7 DEF Offer
    <3>4. u.exp > now + OfferLeft
      BY <1>0, <2>0, <2>7
    <3>5. Sound(book) => faults >= 1
      <4>1. Sound(book) => book' = book
        BY <2>7 DEF Offer, BookWith
      <4>2. c.pc = "idle"
        BY <1>0, <2>0, <2>7
      <4>. QED BY <2>2, <4>1, <4>2 DEF Spare
    <3>6. PICK e, n, f : e = u.exp /\ n = now /\ f = faults
      OBVIOUS
    <3>7. e + f >= n + OfferLeft + (IF d.held THEN 2 ELSE 1) /\ (d.held => f >= 1)
      BY <2>1, <3>2, <3>4, <3>5, <3>6
    <3>8. Spare(d, u)'
      BY <3>2, <3>3, <3>6, <3>7 DEF Spare
    <3>. QED BY <1>0, <2>0, <3>8
  <2>8. CASE Offer(s) /\ ~(Accepts(t) /\ book'.who = Whose(t))
    <3>1. sync' = [sync EXCEPT ![s] = Begun(s)]
      BY <2>8 DEF Offer
    <3>2. book' = book
      <4>1. IF Accepts(t) THEN book' = BookWith(t) ELSE book' = book
        BY <2>8 DEF Offer
      <4>2. Sealed(t).who = Whose(t)
        BY DEF Sealed
      <4>. HIDE DEF t
      <4>. QED BY <2>8, <4>1, <4>2 DEF BookWith
    <3>. QED BY <2>4, <2>5, <3>1, <3>2 DEF TypeOK
  <2>. QED BY <2>4, <2>6, <2>7, <2>8
<1>6. Margin'
  BY <1>0, <1>5 DEF Margin
<1>. QED BY <1>2, <1>3, <1>4, <1>6 DEF Held

(* The gateway rotates; it loses the chain only with the answer.            *)
LEMMA RefreshKeeps ==
  ASSUME TypeOK, TypeOK', Held, Refresh \/ RefreshLost
  PROVE  Held'
<1>. DEFINE t == book.tok
            r == Rotated(t)
<1>0. /\ ~book.broken /\ book \in Chain /\ t \in Token /\ t.login \in Logins /\ t.n \in Nat
      /\ strayed \subseteq strayed' /\ UNCHANGED <<now, store, sync>>
  BY Heads, Tokens DEF Refresh, RefreshLost, Due, Held
<1>1. r.login = t.login /\ r.n = t.n + 1 /\ r # NoToken
  BY <1>0, Constants DEF Rotated, NoToken
<1>2. OneSlot'
  BY <1>0 DEF Held, OneSlot
<1>3. ASSUME Good(t), head' = [head EXCEPT ![t.login] = r],
             book'.tok = t \/ book'.tok = r
      PROVE  Issued'
  <2>. HIDE DEF t, r
  <2>1. /\ head[t.login] = t /\ head'[t.login] = r
        /\ \A l \in Logins \ {t.login} : head'[l] = head[l]
    BY <1>0, <1>3 DEF Good, TypeOK
  <2>2. \A l \in Logins : head'[l] # NoToken => head'[l].login = l
    BY <1>1, <2>1 DEF Held, Issued
  <2>3. head'[book'.tok.login] # NoToken /\ book'.tok.n <= head'[book'.tok.login].n
    BY <1>0, <1>1, <1>3, <2>1
  <2>4. ASSUME NEW q \in Slots, store'[q].ref
        PROVE  /\ store'[q].tok # NoToken /\ head'[store'[q].tok.login] # NoToken
               /\ store'[q].tok.n <= head'[store'[q].tok.login].n
    <3>1. store'[q] = store[q] /\ store[q].tok \in Token /\ store[q].tok.login \in Logins
          /\ store[q].tok.n \in Nat /\ store[q].tok.n <= head[store[q].tok.login].n
          /\ store[q].tok # NoToken /\ head[store[q].tok.login] # NoToken
      BY <1>0, <2>4, Heads, Tokens DEF Held, Issued
    <3>. QED BY <1>0, <1>1, <2>1, <3>1
  <2>. QED BY <2>2, <2>3, <2>4 DEF Issued
<1>4. CASE Refresh /\ Good(t)
  <2>1. /\ head' = [head EXCEPT ![t.login] = r] /\ book'.tok = r /\ book'.broken = book.broken
        /\ head'[t.login] = r
    BY <1>0, <1>4 DEF Refresh, Chain, TypeOK
  <2>2. Good(book.tok)'
    BY <1>0, <1>1, <2>1 DEF Good
  <2>3. Issued'
    BY <1>3, <1>4, <2>1
  <2>4. ASSUME NEW q \in Slots, store[q].ref, store[q].tok = r PROVE FALSE
    <3>1. store[q].tok.n <= head[store[q].tok.login].n /\ head[t.login] = t
      BY <1>4, <2>4 DEF Held, Issued, Good
    <3>. HIDE DEF t, r
    <3>. QED BY <1>0, <1>1, <2>4, <3>1
  <2>. QED BY <1>0, <1>2, <2>1, <2>2, <2>3, <2>4 DEF Held, ChainIsGood, Margin
<1>5. CASE Refresh /\ ~Good(t)
  <2>1. book'.broken /\ head' = head
    BY <1>0, <1>5 DEF Refresh, Chain
  <2>. QED BY <1>0, <1>2, <2>1 DEF Held, Issued, ChainIsGood, Margin
<1>6. CASE RefreshLost
  <2>1. head' = [head EXCEPT ![t.login] = r] /\ Good(t) /\ book' = book /\ t.login \in strayed'
    BY <1>6 DEF RefreshLost
  <2>2. Issued'
    BY <1>3, <2>1
  <2>. QED BY <1>2, <2>1, <2>2 DEF Held, ChainIsGood, Margin
<1>. QED BY <1>4, <1>5, <1>6

(* Time passes freely only when no cycle is under way and the chain is good *)
(* for as long as the gateway looks ahead; else it takes a fault.           *)
LEMMA TickKeeps ==
  ASSUME TypeOK, TypeOK', Held, Tick
  PROVE  Held'
<1>0. now' = now + 1 /\ UNCHANGED <<head, store, book, sync, strayed>>
  BY DEF Tick
<1>1. Issued' /\ OneSlot' /\ ChainIsGood'
  BY <1>0 DEF Held, Issued, OneSlot, ChainIsGood, Good
<1>2. ASSUME NEW q \in Slots, store[q].ref, ~book.broken, store[q].tok = book.tok,
             book.tok.login \notin strayed
      PROVE  Spare(sync[q], store[q].tok)'
  <2>0. PICK c, u : c = sync[q] /\ u = store[q].tok
    OBVIOUS
  <2>1. Spare(c, u) /\ u \in Token
    BY <1>2, <2>0, Heads DEF Held, Margin
  <2>2. CASE Busy
    <3>1. now' = now + 1 /\ faults' = faults + 1
      BY <2>2 DEF Tick, Fault
    <3>2. Spare(c, u)'
      BY <2>1, <3>1, SpareLasts
    <3>. QED BY <1>0, <2>0, <3>2
  <2>3. CASE ~Busy
    <3>1. c.pc = "idle" /\ ~(u.exp < now + Ahead) /\ faults' = faults
      BY <1>2, <2>0, <2>3 DEF Busy, Due, Tick
    <3>2. faults >= 1
      BY <2>1, <3>1 DEF Spare
    <3>3. u.exp \in Nat /\ now \in Nat /\ faults \in Nat /\ Ahead \in Nat
      BY <2>1, Heads, Tokens, ChainAssumption DEF Held
    <3>4. PICK e, n, f : e = u.exp /\ n = now /\ f = faults
      OBVIOUS
    <3>5. f >= 1 /\ e + f >= (n + 1) + Ahead
      BY <3>1, <3>2, <3>3, <3>4
    <3>6. Spare(c, u)'
      BY <1>0, <3>1, <3>4, <3>5 DEF Spare
    <3>. QED BY <1>0, <2>0, <3>6
  <2>. QED BY <2>2, <2>3
<1>3. Margin'
  BY <1>0, <1>2 DEF Margin
<1>. QED BY <1>1, <1>3 DEF Held

(* A cycle that looks at the list, fills, saves or stops hands nothing over.*)
LEMMA Moves ==
  ASSUME TypeOK, NEW s \in Slots,
         Pull(s) \/ Fill(s) \/ LeaveSlot(s) \/ SaveLearned(s) \/ SyncStops(s)
  PROVE  \E d : d.pc # "handover" /\ sync' = [sync EXCEPT ![s] = d]
<1>1. Idle.pc # "handover" /\ \A o : Learned(s, o).pc # "handover"
  BY DEF Learned, Idle
<1>2. CASE Pull(s)
  <2>. DEFINE begun == IF sync[s].pc = "idle" THEN Begun(s) ELSE sync[s]
              c == [begun EXCEPT !.seen = Listed]
  <2>1. c \in Cycle
    <3>1. begun \in Cycle
      BY CycleOps DEF TypeOK, NotOwned
    <3>. QED BY <3>1, ListedChain DEF Cycle
  <2>2. [c EXCEPT !.pc = "fill", !.tok = store[s].tok].pc = "fill"
    BY <2>1 DEF Cycle
  <2>. HIDE DEF c
  <2>. QED BY <1>1, <1>2, <2>2 DEF Pull, c
<1>3. CASE Fill(s)
  <2>. DEFINE put == [tok |-> sync[s].seen.tok, who |-> sync[s].seen.who]
  <2>1. sync' = [sync EXCEPT ![s] = [Learned(s, put) EXCEPT !.map = TRUE]]
    BY <1>3 DEF Fill
  <2>2. [Learned(s, put) EXCEPT !.map = TRUE].pc = Learned(s, put).pc
    BY DEF Learned, Idle
  <2>. QED BY <1>1, <2>1, <2>2
<1>. QED BY <1>1, <1>2, <1>3 DEF LeaveSlot, SaveLearned, SyncStops

(* Every step keeps the chain good and the margins.                         *)
LEMMA HeldKept ==
  ASSUME TypeOK, TypeOK', Owners, Held, Margins, [Next]_vars
  PROVE  Held'
<1>0. faults \in Nat /\ faults' \in Nat
  BY Constants DEF TypeOK
<1>1. ASSUME NEW s \in Slots, KeepLogin(s) PROVE Held'
  <2>1. /\ UNCHANGED <<now, head, store, book, strayed>> /\ sync' = [sync EXCEPT ![s] = Later(s)]
        /\ IF MayHandOver(s) THEN faults' = faults + 1 ELSE faults' = faults
    BY <1>1 DEF KeepLogin, Fault
  <2>2. sync'[s] = Later(s) /\ \A q \in Slots \ {s} : sync'[q] = sync[q]
    BY <2>1 DEF TypeOK
  <2>3. Later(s).pc = "list"
    BY DEF Later, TypeOK, Cycle
  <2>4. faults' >= faults /\ (MayHandOver(s) => faults' > faults)
    BY <1>0, <2>1
  <2>5. store[s].ref /\ store[s].tok = sync[s].tok => sync[s].held \/ MayHandOver(s)
    BY DEF MayHandOver
  <2>. QED BY <2>1, <2>2, <2>3, <2>4, <2>5, CycleKeeps
<1>2. ASSUME NEW s \in Slots, SyncStops(s) PROVE Held'
  <2>1. /\ UNCHANGED <<now, head, store, book, strayed>> /\ sync' = [sync EXCEPT ![s] = Idle]
        /\ faults' = faults + 1
    BY <1>2 DEF SyncStops, Fault
  <2>2. sync'[s] = Idle /\ Idle.pc # "handover" /\ \A q \in Slots \ {s} : sync'[q] = sync[q]
    BY <2>1 DEF TypeOK, Idle
  <2>3. faults' >= faults /\ faults' > faults
    BY <1>0, <2>1
  <2>. QED BY <2>1, <2>2, <2>3, CycleKeeps
<1>3. ASSUME NEW s \in Slots, Pull(s) \/ LeaveSlot(s) \/ SaveLearned(s) PROVE Held'
  <2>1. /\ UNCHANGED <<now, head, store, book, strayed>> /\ sync[s].pc # "handover"
        /\ faults' = faults \/ faults' = faults + 1
    BY <1>3 DEF Pull, LeaveSlot, SaveLearned, Fault
  <2>3. sync'[s].pc # "handover" /\ \A q \in Slots \ {s} : sync'[q] = sync[q]
    <3>1. \E d : d.pc # "handover" /\ sync' = [sync EXCEPT ![s] = d]
      BY <1>3, Moves
    <3>. QED BY <3>1 DEF TypeOK
  <2>4. faults' >= faults
    BY <1>0, <2>1
  <2>. QED BY <2>1, <2>3, <2>4, CycleKeeps
<1>4. ASSUME \/ \E s \in Slots : Adopt(s)
             \/ UNCHANGED vars
      PROVE  Held'
  <2>1. UNCHANGED <<now, faults, head, store, book, sync, strayed>>
    BY <1>4 DEF Adopt, vars
  <2>. QED BY <2>1 DEF Held, Issued, OneSlot, ChainIsGood, Margin, Good, Spare
<1>. QED BY <1>1, <1>2, <1>3, <1>4, LoginKeeps, LetGoKeeps, ClaudeKeeps, OfferKeeps,
            RefreshKeeps, TickKeeps DEF Next

(* In the beginning nobody holds anything.                                  *)
LEMMA HeldAtFirst == Init => Held
BY DEF Init, Held, Issued, OneSlot, ChainIsGood, Margin, NoChain, Shell

(* The gateway and Claude never rotate one login against each other: unless *)
(* the login was rotated or replaced unknown to the gateway, the refresh    *)
(* token of the chain it keeps is the good one.  It rests on the margins:   *)
(* OFFER_MIN_LEFT_MS and REFRESH_AHEAD_MS exceed what Claude leaves itself  *)
(* by more units of the clock than faults let pass during a cycle.          *)
THEOREM ChainStaysGood == ASSUME Margins PROVE Spec => []ChainIsGood
<1>1. TypeOK /\ TypeOK' /\ Owners /\ Held /\ [Next]_vars => Held'
  BY HeldKept
<1>2. Held => ChainIsGood
  BY DEF Held
<1>. QED BY <1>1, <1>2, HeldAtFirst, TypeCorrect, OwnersHold, PTL DEF Spec

(* What the gateway answered holds until the handover: it replaces a chain  *)
(* of another person only as a displaced one, and forgets only a strayed one.*)
LEMMA RepliedKept ==
  ASSUME TypeOK, TypeOK', Owners, Held, Replied, [Next]_vars
  PROVE  Replied'
<1>1. strayed \subseteq strayed'
  BY DEF Next, vars, Login, Adopt, ClaudeRotates, Offer, OfferFails, HandOver, KeepLogin, Pull,
         Fill, LeaveSlot, SaveLearned, SyncStops, Refresh, RefreshLost, Tick, Displaces
<1>2. \A who : Strayed(who) => Strayed(who)'
  BY <1>1 DEF Strayed
<1>3. ~book.broken => book.tok.login \in Logins /\ OwnerOf[book.tok.login] = book.who
  BY Heads, Constants DEF Held, Owners, RightChain, Whose, AnyToken
<1>4. ASSUME NEW w, Strayed(w) \/ (~book.broken /\ book.who = w),
             book' = book \/ \E s \in Slots : Offer(s) \/ OfferFails(s)
      PROVE  Strayed(w)' \/ (~book'.broken /\ book'.who = w)
  <2>2. CASE Strayed(w) \/ book' = book
    BY <1>2, <1>4, <2>2
  <2>3. ASSUME NEW s \in Slots, Offer(s) \/ OfferFails(s), book' # book, ~book.broken, book.who = w
        PROVE  Strayed(w)' \/ (~book'.broken /\ book'.who = w)
    <3>1. book' = Sealed(store[s].tok) /\ Displaces(book')
      BY <2>3 DEF Offer, OfferFails, BookWith
    <3>2. ~book'.broken /\ book'.who = Whose(store[s].tok) /\ book'.tok = store[s].tok
      BY <3>1 DEF Sealed
    <3>3. CASE book'.who # w
      <4>1. book'.tok.login # book.tok.login /\ OwnerOf[book.tok.login] # book'.who
        BY <1>3, <2>3, <3>2, <3>3 DEF Whose
      <4>2. book.tok.login \in strayed'
        BY <1>3, <2>3, <3>1, <4>1 DEF Displaces
      <4>. QED BY <1>3, <2>3, <4>2 DEF Strayed
    <3>. QED BY <3>2, <3>3
  <2>. QED BY <1>4, <2>2, <2>3
<1>5. ASSUME NEW s \in Slots, Offer(s) \/ OfferFails(s), sync'[s].pc = "handover"
      PROVE  ~book'.broken /\ book'.who = sync'[s].reply.who
  <2>. DEFINE t == store[s].tok
  <2>1. Begun(s) \in Cycle /\ Begun(s).pc = "list"
    <3>1. Begun(s) \in Cycle
      BY CycleOps DEF NotOwned
    <3>. QED BY <3>1 DEF Begun, Idle
  <2>2. Offer(s) /\ ~(~Accepts(t) \/ book'.who # Whose(t))
    <3>1. sync' # [sync EXCEPT ![s] = Begun(s)]
      BY <1>5, <2>1 DEF TypeOK
    <3>. QED BY <1>5, <3>1 DEF Offer, OfferFails
  <2>3. PICK own \in Proofs(t) : sync' = [sync EXCEPT ![s] =
          [Begun(s) EXCEPT !.pc = "handover", !.tok = t, !.own = own,
           !.held = Sound(book), !.reply = [tok |-> book'.tok, who |-> book'.who]]]
    BY <2>2 DEF Offer
  <2>4. sync'[s].reply = [tok |-> book'.tok, who |-> book'.who]
    <3>1. sync'[s] = [Begun(s) EXCEPT !.pc = "handover", !.tok = t, !.own = own,
           !.held = Sound(book), !.reply = [tok |-> book'.tok, who |-> book'.who]]
      BY <2>3 DEF TypeOK
    <3>. QED BY <2>1, <3>1 DEF Cycle
  <2>5. ~book'.broken
    <3>1. book' = BookWith(t) /\ Accepts(t) /\ t \in AnyToken
      BY <2>2, Heads DEF Offer, Held
    <3>. QED BY <3>1, BookOps
  <2>. QED BY <2>4, <2>5
<1>6. CASE \E s \in Slots : Offer(s) \/ OfferFails(s)
  <2>1. PICK s \in Slots : Offer(s) \/ OfferFails(s)
    BY <1>6
  <2>2. \A q \in Slots \ {s} : sync'[q] = sync[q]
    BY <2>1 DEF Offer, OfferFails, TypeOK
  <2>3. ASSUME NEW q \in Slots, sync'[q].pc = "handover"
        PROVE  Strayed(sync[q].reply.who)' \/ (~book.broken /\ book.who = sync[q].reply.who)'
    <3>1. CASE q = s
      BY <1>5, <2>1, <2>3, <3>1
    <3>2. CASE q # s
      <4>1. sync'[q] = sync[q]
        BY <2>2, <3>2
      <4>2. PICK w : w = sync[q].reply.who
        OBVIOUS
      <4>3. Strayed(w)' \/ (~book'.broken /\ book'.who = w)
        BY <1>4, <2>1, <2>3, <4>1, <4>2 DEF Replied
      <4>. QED BY <4>1, <4>2, <4>3
    <3>. QED BY <3>1, <3>2
  <2>. QED BY <2>3 DEF Replied
<1>7. CASE Refresh
  <2>1. UNCHANGED sync /\ ~book.broken /\ book \in Chain
    BY <1>7, Heads DEF Refresh, Due, Held
  <2>2. CASE Good(book.tok)
    <3>1. book'.broken = book.broken /\ book'.who = book.who
      BY <1>7, <2>1, <2>2 DEF Refresh, Chain
    <3>. QED BY <1>2, <2>1, <3>1 DEF Replied
  <2>3. CASE ~Good(book.tok)
    <3>1. Strayed(book.who)
      BY <1>3, <2>1, <2>3 DEF Held, ChainIsGood, Strayed
    <3>. QED BY <1>2, <2>1, <3>1 DEF Replied
  <2>. QED BY <2>2, <2>3
<1>8. CASE \/ \E s \in Slots :
             \/ \E l \in Logins : Login(s, l)
             \/ Adopt(s) \/ ClaudeRotates(s) \/ HandOver(s) \/ KeepLogin(s) \/ Pull(s)
             \/ Fill(s) \/ LeaveSlot(s) \/ SaveLearned(s) \/ SyncStops(s)
           \/ RefreshLost \/ Tick \/ UNCHANGED vars
  <2>1. book' = book
    BY <1>8 DEF Login, Adopt, ClaudeRotates, HandOver, KeepLogin, Pull, Fill, LeaveSlot,
                SaveLearned, SyncStops, RefreshLost, Tick, vars
  <2>2. ASSUME NEW q \in Slots, sync'[q].pc = "handover" PROVE sync'[q] = sync[q]
    <3>1. ASSUME NEW s \in Slots, NEW d, d.pc # "handover", sync' = [sync EXCEPT ![s] = d]
          PROVE  sync'[q] = sync[q]
      BY <2>2, <3>1 DEF TypeOK
    <3>2. ASSUME NEW s \in Slots, HandOver(s) \/ KeepLogin(s)
          PROVE  \E d : d.pc # "handover" /\ sync' = [sync EXCEPT ![s] = d]
      <4>1. Later(s) \in Cycle /\ Later(s).pc = "list"
        <5>1. Later(s) \in Cycle /\ sync[s] \in Cycle
          BY CycleOps DEF NotOwned, TypeOK
        <5>. QED BY <5>1 DEF Later, Cycle
      <4>2. [Later(s) EXCEPT !.map = TRUE, !.newOwner = sync[s].reply].pc = "list"
        BY <4>1 DEF Cycle
      <4>. QED BY <3>2, <4>1, <4>2 DEF HandOver, KeepLogin
    <3>3. ASSUME NEW s \in Slots,
                 Pull(s) \/ Fill(s) \/ LeaveSlot(s) \/ SaveLearned(s) \/ SyncStops(s)
          PROVE  \E d : d.pc # "handover" /\ sync' = [sync EXCEPT ![s] = d]
      BY <3>3, Moves
    <3>. QED BY <1>8, <3>1, <3>2, <3>3 DEF Login, Adopt, ClaudeRotates, RefreshLost, Tick, vars
  <2>3. ASSUME NEW q \in Slots, sync'[q].pc = "handover"
        PROVE  Strayed(sync[q].reply.who)' \/ (~book.broken /\ book.who = sync[q].reply.who)'
    <3>1. PICK w : w = sync[q].reply.who
      OBVIOUS
    <3>2. Strayed(w)' \/ (~book'.broken /\ book'.who = w)
      BY <1>4, <2>1, <2>2, <2>3, <3>1 DEF Replied
    <3>. QED BY <2>2, <2>3, <3>1, <3>2
  <2>. QED BY <2>3 DEF Replied
<1>. QED BY <1>6, <1>7, <1>8 DEF Next

(* A slot gives its refresh token up only when the gateway then has a chain *)
(* of that person it can rotate, unless a login of that person was rotated  *)
(* or replaced unknown to the gateway: under the margins, for any devices,  *)
(* logins, people and times (sync_once(), seal()).                          *)
THEOREM HandedOverSafely == ASSUME Margins PROVE Spec => HandOverKeepsLogin
<1>1. TypeOK /\ TypeOK' /\ Owners /\ Held /\ [Next]_vars => Held'
  BY HeldKept
<1>2. Init => Replied
  BY DEF Init, Replied, Idle
<1>3. TypeOK /\ TypeOK' /\ Owners /\ Held /\ Replied /\ [Next]_vars => Replied'
  BY RepliedKept
<1>4. ASSUME TypeOK, Owners, Held, Replied, NEW s \in Slots, HandOver(s)
      PROVE  LoginSurvives(s) \/ Strayed(Whose(store[s].tok))
  <2>1. /\ store[s].tok = sync[s].tok /\ sync[s].pc = "handover" /\ RightCycle(sync[s])
        /\ sync[s].held => sync[s].own = sync[s].reply.who
    BY <1>4 DEF HandOver, MayHandOver, Owners
  <2>2. sync[s].reply.who = Whose(store[s].tok)
    <3>1. sync[s].reply \in Owned /\ sync[s].reply.who # Nobody
      BY <2>1, Constants DEF RightCycle, RightHandOver, Owned
    <3>. QED BY <2>1, <3>1 DEF RightCycle, RightHandOver
  <2>3. Strayed(Whose(store[s].tok)) \/ (~book.broken /\ book.who = Whose(store[s].tok))
    BY <1>4, <2>1, <2>2 DEF Replied
  <2>4. ASSUME ~book.broken, book.who = Whose(store[s].tok), book.tok.login \in strayed
        PROVE  Strayed(Whose(store[s].tok))
    <3>1. OwnerOf[book.tok.login] = book.who
      BY <1>4, <2>4, Heads, Constants DEF Held, Owners, RightChain, Whose
    <3>. QED BY <2>4, <3>1 DEF Strayed
  <2>. QED BY <1>4, <2>3, <2>4 DEF Held, ChainIsGood, LoginSurvives
<1>5. TypeOK /\ Owners /\ Held /\ Replied =>
        [\A s \in Slots : HandOver(s) => LoginSurvives(s) \/ Strayed(Whose(store[s].tok))]_vars
  BY <1>4
<1>. QED BY <1>1, <1>2, <1>3, <1>5, HeldAtFirst, TypeCorrect, OwnersHold, PTL
         DEF Spec, HandOverKeepsLogin
=============================================================================
