--------------------------- MODULE LidAwayProofs ---------------------------
(* Proofs about LidAway for any times that LidAssumption allows.             *)
EXTENDS LidAway, TLAPS

Phase == [at : {"idle", "armed", "away", "disarming", "sleeping"},
          quiet : Ages(Quiet), age : 0 .. Cap]
Call == [at : {"rest", "block", "beat", "unblock", "sleep", "clear"},
         why : {"none", "arm", "disarm", "sleep", "boot", "quit"}]

(* The limits are positive.                                                 *)
LEMMA Times == /\ Quiet \in Nat /\ Quiet > 0 /\ Cap \in Nat /\ Cap > 0
               /\ Stale \in Nat /\ Stale > 0 /\ Retry \in Nat /\ Retry > 0
BY LidAssumption

(* The values at rest.                                                      *)
LEMMA Values == Idle \in Phase /\ Rest \in Call /\ Never \in Ages(Stale)
<1>1. Never \in Ages(Quiet) /\ 0 \in 0 .. Cap /\ Never \in Ages(Stale)
  BY Times DEF Ages
<1>. QED BY <1>1 DEF Phase, Call, Idle, Rest

(* A timer that grows stays in its range, does not start by itself, and two *)
(* timers that grow keep their order.                                       *)
LEMMA OlderStays ==
  ASSUME NEW max \in Nat, NEW age \in Ages(max)
  PROVE  /\ Older(age, max) \in Ages(max)
         /\ age \in 0 .. max => Older(age, max) \in 0 .. max
         /\ (Older(age, max) = Never) = (age = Never)
BY DEF Older, Ages, Never

(* A timer that is behind stays behind.                                     *)
LEMMA OlderKeepsOrder ==
  ASSUME NEW max \in Nat, NEW a \in Ages(max), NEW b \in 0 .. max, a <= b
  PROVE  Older(a, max) <= Older(b, max)
BY DEF Older, Ages, Never

(* What the policy returns: a phase that fits what is to be done, and an    *)
(* idle phase only from an idle one.                                        *)
LEMMA StepPhase ==
  ASSUME NEW p \in Phase, NEW allowed \in BOOLEAN, NEW busy \in BOOLEAN,
         p.at = "idle" => p = Idle
  PROVE  LET s == Step(p, allowed, busy) IN
         /\ s.phase \in Phase /\ s.act \in {"none", "arm", "disarm", "sleep"}
         /\ s.phase.at = "idle" => s.phase = Idle /\ p.at = "idle" /\ s.act = "none"
         /\ s.act = "arm" => p.at = "idle" /\ s.phase = Armed(Never)
         /\ s.act = "disarm" => s.phase = Disarming
         /\ s.act = "sleep" => s.phase = Sleeping
<1>. DEFINE s == Step(p, allowed, busy)
            q == QuietSince(p.quiet, busy)
<1>1. /\ p.quiet \in Ages(Quiet) /\ p.age \in 0 .. Cap /\ 0 \in 0 .. Cap
      /\ Never \in Ages(Quiet) /\ q \in Ages(Quiet)
  BY Times DEF Phase, QuietSince, Ages, Never
<1>2. /\ Idle \in Phase /\ Armed(q) \in Phase /\ Armed(Never) \in Phase /\ Away(q, 0) \in Phase
      /\ Away(q, p.age) \in Phase /\ Disarming \in Phase /\ Sleeping \in Phase
  BY <1>1 DEF Phase, Idle, Armed, Away, Disarming, Sleeping
<1>3. /\ Armed(q).at = "armed" /\ Armed(Never).at = "armed" /\ Away(q, 0).at = "away"
      /\ Away(q, p.age).at = "away" /\ Disarming.at = "disarming" /\ Sleeping.at = "sleeping"
      /\ Idle.at = "idle"
  BY DEF Idle, Armed, Away, Disarming, Sleeping
<1>4. CASE p.at = "idle"
  <2>1. s = StepIdle(allowed, busy)
    BY <1>4 DEF Step
  <2>. QED BY <1>2, <1>3, <1>4, <2>1 DEF StepIdle, To
<1>5. CASE p.at = "armed"
  <2>1. s = StepArmed(p, allowed, busy)
    BY <1>5 DEF Step
  <2>2. \/ s = To(Away(q, 0)) \/ s = Sleep \/ s = Disarm \/ s = To(Armed(q))
    BY <2>1 DEF StepArmed
  <2>. QED BY <1>2, <1>3, <2>2 DEF To, Sleep, Disarm
<1>6. CASE p.at = "away"
  <2>1. s = StepAway(p, allowed, busy)
    BY <1>6 DEF Step
  <2>2. \/ s = To(Armed(q)) \/ s = Sleep \/ s = To(Away(q, p.age))
    BY <2>1 DEF StepAway
  <2>. QED BY <1>2, <1>3, <2>2 DEF To, Sleep
<1>7. CASE p.at = "disarming"
  <2>1. s = StepDisarming(p)
    BY <1>7 DEF Step
  <2>. QED BY <1>2, <1>3, <1>7, <2>1 DEF StepDisarming, To, Sleep, Disarm
<1>8. CASE p.at = "sleeping"
  <2>1. s = StepSleeping(p)
    BY <1>8 DEF Step
  <2>. QED BY <1>2, <1>3, <1>8, <2>1 DEF StepSleeping, To, Sleep, Disarm
<1>. QED BY <1>4, <1>5, <1>6, <1>7, <1>8 DEF Phase

-----------------------------------------------------------------------------
(* The type invariant, and that an idle phase carries no instant.           *)
Typed == TypeOK /\ (phase.at = "idle" => phase = Idle)

(* Types at first.                                                          *)
LEMMA InitTyped == Init => Typed
<1>1. 0 \in 0 .. Quiet
  BY Times
<1>. QED BY <1>1, Values DEF Init, Typed, TypeOK, Phase, Call

(* Types when the app dies.                                                 *)
LEMMA DeadTyped ==
  ASSUME Typed, Dead,
         lid' \in {"open", "docked", "closed"}, asleep' \in BOOLEAN, blocked' \in BOOLEAN,
         beat' \in Ages(Stale), watchdog' \in {"rest", "stat", "release", "remove", "sleep"},
         calm' \in 0 .. Quiet
  PROVE  Typed'
BY Values DEF Typed, TypeOK, Dead, Phase, Call

(* Types over a tick of the event loop.                                     *)
LEMMA TickTyped == Typed /\ Tick => Typed'
<1>. SUFFICES ASSUME Typed, Tick PROVE Typed'
  OBVIOUS
<1>1. PICK allowed \in BOOLEAN, busy \in BOOLEAN :
        LET s == Step(phase, allowed, busy) IN
        /\ phase' = s.phase
        /\ call' = IF s.act = "none" THEN Rest
                   ELSE [at |-> IF s.act = "arm" THEN "block" ELSE "unblock", why |-> s.act]
        /\ Kept \/ (s.act = "none" /\ s.phase.at \in KeepsAwake /\ Written)
        /\ calm' = IF ~allowed THEN Quiet ELSE IF busy THEN 0 ELSE calm
  BY DEF Tick
<1>2. phase \in Phase /\ (phase.at = "idle" => phase = Idle)
  BY DEF Typed, TypeOK, Phase
<1>3. phase' \in Phase /\ (phase'.at = "idle" => phase' = Idle)
  BY <1>1, <1>2, StepPhase
<1>4. Step(phase, allowed, busy).act \in {"none", "arm", "disarm", "sleep"}
  BY <1>2, StepPhase
<1>5. call' \in Call
  BY <1>1, <1>4 DEF Call, Rest
<1>6. /\ beat' \in Ages(Stale) /\ calm' \in 0 .. Quiet
      /\ gap' \in {"closed", "open", "lost"}
  BY <1>1, Times DEF Typed, TypeOK, Ages, Kept, Written
<1>7. UNCHANGED <<machineVars, blocked, watchdog, up, booted>>
  BY DEF Tick
<1>. QED BY <1>3, <1>5, <1>6, <1>7 DEF Typed, TypeOK, Phase, Call, machineVars

(* Types when time passes.                                                  *)
LEMMA PassTyped == Typed /\ Pass => Typed'
<1>. SUFFICES ASSUME Typed, Pass PROVE Typed'
  OBVIOUS
<1>1. beat' \in Ages(Stale)
  BY OlderStays, Times DEF Pass, Typed, TypeOK
<1>2. CASE asleep
  BY <1>1, <1>2 DEF Pass, Typed, TypeOK, machineVars
<1>3. CASE ~asleep
  <2>1. calm' \in 0 .. Quiet
    <3>1. calm \in Ages(Quiet)
      BY DEF Typed, TypeOK, Ages
    <3>. QED BY <1>3, <3>1, OlderStays, Times DEF Pass, Typed, TypeOK
  <2>2. /\ Older(phase.quiet, Quiet) \in Ages(Quiet)
        /\ (Older(phase.quiet, Quiet) = Never) = (phase.quiet = Never)
    BY OlderStays, Times DEF Typed, TypeOK
  <2>3. Older(phase.age, Cap) \in 0 .. Cap
    <3>1. phase.age \in 0 .. Cap /\ phase.age \in Ages(Cap)
      BY DEF Typed, TypeOK, Ages
    <3>. QED BY <3>1, OlderStays, Times
  <2>4. phase' = [phase EXCEPT !.quiet = Older(@, Quiet),
                               !.age = IF phase.at \in {"idle", "armed"} THEN @ ELSE Older(@, Cap)]
    BY <1>3 DEF Pass
  <2>5. phase' \in Phase
    BY <2>2, <2>3, <2>4 DEF Typed, TypeOK, Phase
  <2>6. phase'.at = "idle" => phase' = Idle
    <3>. SUFFICES ASSUME phase'.at = "idle" PROVE phase' = Idle
      OBVIOUS
    <3>1. phase \in Phase /\ phase.at = "idle" /\ phase = Idle
      BY <2>4 DEF Typed, TypeOK, Phase
    <3>2. phase.quiet = Never /\ Older(phase.quiet, Quiet) = Never
      BY <2>2, <3>1 DEF Idle
    <3>3. phase' = [phase EXCEPT !.quiet = Never, !.age = phase.age]
      BY <2>4, <3>1, <3>2
    <3>. QED BY <3>1, <3>2, <3>3 DEF Phase, Idle
  <2>. QED BY <1>1, <2>1, <2>5, <2>6 DEF Pass, Typed, TypeOK, Phase, machineVars
<1>. QED BY <1>2, <1>3 DEF Typed, TypeOK

(* Types over the calls of the event loop.                                  *)
LEMMA CallTyped ==
  Typed /\ (Boot \/ Block \/ BlockFails \/ WriteHeartbeat \/ Release) => Typed'
<1>. SUFFICES ASSUME Typed PROVE Boot \/ Block \/ BlockFails \/ WriteHeartbeat \/ Release => Typed'
  OBVIOUS
<1>. USE DEF machineVars
<1>0. /\ call \in Call /\ Rest \in Call /\ Idle \in Phase /\ phase \in Phase
      /\ 0 \in Ages(Stale) /\ Never \in Ages(Stale)
      /\ \A at \in {"beat", "sleep", "clear"} : [call EXCEPT !.at = at] \in Call
      /\ [at |-> "unblock", why |-> "boot"] \in Call
  BY Times DEF Typed, TypeOK, Call, Phase, Rest, Idle, Ages, Never
<1>1. Boot => Typed'
  BY <1>0 DEF Boot, Typed, TypeOK, Call
<1>2. Block => Typed'
  BY <1>0 DEF Block, Typed, TypeOK, Call
<1>3. BlockFails => Typed'
  BY <1>0 DEF BlockFails, Typed, TypeOK, Call, Phase
<1>4. WriteHeartbeat => Typed'
  BY <1>0 DEF WriteHeartbeat, Written, Kept, Typed, TypeOK, Call
<1>5. Unblock => Typed'
  BY <1>0 DEF Unblock, Typed, TypeOK, Call
<1>6. UnblockFails => Typed'
  <2>1. CASE UnblockFails /\ call.why = "quit"
    BY <2>1, DeadTyped DEF UnblockFails, Typed, TypeOK
  <2>2. CASE UnblockFails /\ call.why # "quit"
    BY <1>0, <2>2 DEF UnblockFails, Typed, TypeOK, Call
  <2>. QED BY <2>1, <2>2
<1>7. Slept \/ SleepAccepted \/ SleepFails => Typed'
  BY <1>0 DEF Slept, SleepAccepted, SleepFails, Typed, TypeOK, Call
<1>8. ClearHeartbeat => Typed'
  <2>1. CASE ClearHeartbeat /\ call.why = "quit"
    BY <1>0, <2>1, DeadTyped DEF ClearHeartbeat, Typed, TypeOK
  <2>2. CASE ClearHeartbeat /\ call.why # "quit"
    <3>1. phase' \in {Idle, phase} /\ call' = Rest /\ UNCHANGED <<up, booted>>
      BY <2>2 DEF ClearHeartbeat, Released
    <3>. QED BY <1>0, <2>2, <3>1 DEF ClearHeartbeat, Typed, TypeOK, Call, Phase
  <2>. QED BY <2>1, <2>2
<1>. QED BY <1>1, <1>2, <1>3, <1>4, <1>5, <1>6, <1>7, <1>8 DEF Release

(* The part of TypeOK that is the app's, over a step of others.             *)
AppTyped ==
  /\ up \in BOOLEAN /\ booted \in BOOLEAN
  /\ phase \in [at : {"idle", "armed", "away", "disarming", "sleeping"},
                quiet : Ages(Quiet), age : 0 .. Cap]
  /\ call \in [at : {"rest", "block", "beat", "unblock", "sleep", "clear"},
               why : {"none", "arm", "disarm", "sleep", "boot", "quit"}]
  /\ calm \in 0 .. Quiet

LEMMA AppStays == TypeOK /\ UNCHANGED appVars => AppTyped'
<1>1. TypeOK => AppTyped
  BY Zenon DEF TypeOK, AppTyped
<1>2. AppTyped /\ UNCHANGED appVars => AppTyped'
  BY DEF AppTyped, appVars
<1>. QED BY <1>1, <1>2

(* Types over every step.                                                   *)
LEMMA NextTyped == Typed /\ [Next]_vars => Typed'
<1>. SUFFICES ASSUME Typed, [Next]_vars PROVE Typed'
  OBVIOUS
<1>. USE DEF machineVars, appVars
<1>1. CASE App
  BY <1>1, TickTyped, CallTyped DEF App
<1>2. CASE Watchdog
  <2>1. Never \in Ages(Stale)
    BY DEF Ages
  <2>2. UNCHANGED <<lid, appVars>>
    BY <1>2, Zenon DEF Watchdog, WatchdogLooks, WatchdogReads, WatchdogReleases, WatchdogFails,
      WatchdogRemoves, WatchdogSleeps
  <2>3. asleep' \in BOOLEAN /\ blocked' \in BOOLEAN
    <3>1. asleep' \in {asleep, FALSE, ~blocked} /\ blocked' \in {blocked, FALSE}
      BY <1>2, Zenon DEF Watchdog, WatchdogLooks, WatchdogReads, WatchdogReleases, WatchdogFails,
        WatchdogRemoves, WatchdogSleeps
    <3>. QED BY <3>1, Zenon DEF Typed, TypeOK
  <2>4. watchdog' \in {"rest", "stat", "release", "remove", "sleep"}
    BY <1>2, Zenon DEF Watchdog, WatchdogLooks, WatchdogReads, WatchdogReleases, WatchdogFails,
      WatchdogRemoves, WatchdogSleeps
  <2>5. beat' \in {beat, Never} /\ gap' \in {gap, "closed", "open", "lost"}
    BY <1>2, Zenon DEF Watchdog, WatchdogLooks, WatchdogReads, WatchdogReleases, WatchdogFails,
      WatchdogRemoves, WatchdogSleeps, Kept
  <2>6. beat' \in Ages(Stale) /\ gap' \in {"closed", "open", "lost"}
    BY <2>1, <2>5 DEF Typed, TypeOK
  <2>7. TypeOK'
    <3>1. lid' \in {"open", "docked", "closed"}
      BY <2>2 DEF Typed, TypeOK
    <3>2. AppTyped'
      BY <2>2, AppStays DEF Typed
    <3>. QED BY <2>3, <2>4, <2>6, <3>1, <3>2, Zenon DEF TypeOK, AppTyped
  <2>. QED BY <2>2, <2>7 DEF Typed
<1>3. CASE Start
  BY <1>3 DEF Start, Typed, TypeOK
<1>4. CASE Shutdown
  <2>1. CASE phase = Idle
    BY <1>4, <2>1, DeadTyped DEF Shutdown, Typed, TypeOK
  <2>2. CASE phase # Idle
    BY <1>4, <2>2 DEF Shutdown, Typed, TypeOK
  <2>. QED BY <2>1, <2>2
<1>5. CASE Crash \/ Reboot
  BY <1>5, DeadTyped DEF Crash, Reboot, Typed, TypeOK
<1>6. CASE MoveLid \/ NodsOff \/ Wakes
  <2>1. lid' \in {"open", "docked", "closed"} /\ asleep' \in BOOLEAN
    <3>1. CASE MoveLid
      BY <3>1 DEF MoveLid, Typed, TypeOK
    <3>2. CASE NodsOff
      BY <3>2 DEF NodsOff, Typed, TypeOK
    <3>3. CASE Wakes
      BY <3>3 DEF Wakes, Typed, TypeOK
    <3>. QED BY <1>6, <3>1, <3>2, <3>3
  <2>2. UNCHANGED <<blocked, beat, watchdog, appVars, gap>>
    BY <1>6 DEF MoveLid, NodsOff, Wakes
  <2>3. /\ blocked' \in BOOLEAN /\ beat' \in Ages(Stale) /\ gap' \in {"closed", "open", "lost"}
        /\ watchdog' \in {"rest", "stat", "release", "remove", "sleep"}
    BY <2>2 DEF Typed, TypeOK
  <2>4. AppTyped'
    BY <2>2, AppStays DEF Typed
  <2>5. TypeOK'
    BY <2>1, <2>3, <2>4, Zenon DEF TypeOK, AppTyped
  <2>. QED BY <2>2, <2>5 DEF Typed
<1>7. CASE Pass
  BY <1>7, PassTyped
<1>8. CASE UNCHANGED vars
  BY <1>8 DEF vars, Typed, TypeOK
<1>. QED BY <1>1, <1>2, <1>3, <1>4, <1>5, <1>6, <1>7, <1>8 DEF Next

(* Types, with the order of the ages.                                       *)
LEMMA TypedAlways == Spec => []Typed
BY InitTyped, NextTyped, PTL DEF Spec

(* The variables keep their types: every age stays within its bound.        *)
THEOREM TypeCorrect == Spec => []TypeOK
<1>1. Typed => TypeOK
  BY DEF Typed
<1>. QED BY <1>1, TypedAlways, PTL
-----------------------------------------------------------------------------
(* A call belongs to the phase that made it; once the block is lifted in a  *)
(* release, it stays lifted until the release ends.                         *)
CallFits ==
  /\ ~up => phase = Idle /\ call = Rest
  /\ call.at \in {"block", "beat"} => phase.at = "armed"
  /\ call.at \in {"sleep", "clear"} => ~blocked

(* A block without a heartbeat is one that never got its own; until it is   *)
(* lost, its app lives and keeps the machine awake, or is about to lift it. *)
Held ==
  /\ blocked /\ beat = Never => gap # "closed"
  /\ gap = "open" => /\ up /\ phase.at # "idle"
                     /\ call.at \notin {"block", "sleep", "clear"}

WatchInv == CallFits /\ Held

(* Every step keeps the watch over a block.                                 *)
LEMMA WatchStep ==
  ASSUME Typed, WatchInv, [Next]_vars
  PROVE  WatchInv'
<1>. USE DEF machineVars, appVars, AppAt, WatchdogAt
<1>0. /\ CallFits /\ Held /\ call \in Call /\ phase \in Phase /\ Idle.at = "idle" /\ Rest.at = "rest"
      /\ (phase.at = "idle" => phase = Idle) /\ gap \in {"closed", "open", "lost"}
  BY DEF WatchInv, Typed, TypeOK, Phase, Call, Idle, Rest
<1>1. ASSUME Dead, blocked' /\ beat' = Never => blocked /\ beat = Never PROVE WatchInv'
  BY <1>0, <1>1 DEF WatchInv, CallFits, Held, Dead
<1>2. CASE Boot
  BY <1>0, <1>2 DEF Boot, WatchInv, CallFits, Held
<1>3. CASE Tick
  <2>1. PICK allowed \in BOOLEAN, busy \in BOOLEAN :
          LET s == Step(phase, allowed, busy) IN
          /\ phase' = s.phase
          /\ call' = IF s.act = "none" THEN Rest
                     ELSE [at |-> IF s.act = "arm" THEN "block" ELSE "unblock", why |-> s.act]
          /\ Kept \/ (s.act = "none" /\ s.phase.at \in KeepsAwake /\ Written)
    BY <1>3 DEF Tick
  <2>2. LET s == Step(phase, allowed, busy) IN
        /\ s.phase.at = "idle" => phase.at = "idle"
        /\ s.act = "arm" => phase.at = "idle" /\ s.phase = Armed(Never)
    BY <1>0, StepPhase
  <2>3. call'.at \in {"rest", "block", "unblock"}
    BY <1>0, <2>1
  <2>4. call'.at = "block" => Step(phase, allowed, busy).act = "arm"
    BY <1>0, <2>1
  <2>5. CallFits'
    BY <1>3, <2>1, <2>2, <2>3, <2>4 DEF Tick, CallFits, Armed
  <2>6. /\ beat' = Never => beat = Never /\ gap' = gap
        /\ gap' = "open" => gap = "open"
    BY <2>1 DEF Kept, Written, Never
  <2>7. Held'
    BY <1>0, <1>3, <2>1, <2>2, <2>3, <2>4, <2>6 DEF Held, Tick
  <2>. QED BY <2>5, <2>7 DEF WatchInv
<1>4. CASE Block
  <2>1. up /\ phase.at = "armed" /\ call'.at = "beat"
    BY <1>0, <1>4 DEF Block, CallFits, Call
  <2>. QED BY <1>0, <1>4, <2>1 DEF Block, WatchInv, CallFits, Held
<1>5. CASE BlockFails
  BY <1>0, <1>5 DEF BlockFails, WatchInv, CallFits, Held
<1>6. CASE WriteHeartbeat
  BY <1>0, <1>6 DEF WriteHeartbeat, Written, Kept, Never, WatchInv, CallFits, Held
<1>7. CASE Unblock
  BY <1>0, <1>7 DEF Unblock, WatchInv, CallFits, Held
<1>8. CASE UnblockFails
  <2>1. CASE call.why = "quit"
    BY <1>1, <1>8, <2>1 DEF UnblockFails
  <2>2. CASE call.why # "quit"
    BY <1>0, <1>8, <2>2 DEF UnblockFails, WatchInv, CallFits, Held
  <2>. QED BY <2>1, <2>2
<1>9. CASE Slept \/ SleepAccepted \/ SleepFails
  <2>1. call.at = "sleep" /\ call'.at \in {"clear", "rest"} /\ up
    BY <1>0, <1>9 DEF Slept, SleepAccepted, SleepFails, Call
  <2>2. UNCHANGED <<blocked, beat, up, phase, gap>>
    BY <1>9 DEF Slept, SleepAccepted, SleepFails
  <2>3. ~blocked /\ gap # "open"
    BY <1>0, <2>1 DEF CallFits, Held
  <2>. QED BY <2>1, <2>2, <2>3 DEF WatchInv, CallFits, Held
<1>10. CASE ClearHeartbeat
  <2>1. ~blocked /\ ~blocked' /\ gap # "open" /\ up
    BY <1>0, <1>10 DEF ClearHeartbeat, CallFits, Held
  <2>2. Dead \/ (call' = Rest /\ up' = up /\ gap' = gap)
    BY <1>10 DEF ClearHeartbeat
  <2>3. CASE Dead
    BY <1>1, <2>1, <2>3
  <2>4. CASE call' = Rest /\ up' = up /\ gap' = gap
    BY <1>0, <2>1, <2>4 DEF WatchInv, CallFits, Held
  <2>. QED BY <2>2, <2>3, <2>4
<1>11. CASE Start
  BY <1>0, <1>11 DEF Start, WatchInv, CallFits, Held
<1>12. CASE Shutdown
  <2>1. CASE phase = Idle
    BY <1>1, <1>12, <2>1 DEF Shutdown
  <2>2. CASE phase # Idle
    BY <1>0, <1>12, <2>2 DEF Shutdown, WatchInv, CallFits, Held
  <2>. QED BY <2>1, <2>2
<1>13. CASE Crash \/ Reboot
  BY <1>1, <1>13 DEF Crash, Reboot
<1>14. CASE Watchdog
  <2>1. CASE WatchdogReleases
    BY <1>0, <2>1 DEF WatchdogReleases, WatchInv, CallFits, Held
  <2>2. CASE WatchdogLooks \/ WatchdogReads \/ WatchdogFails
    BY <1>0, <2>2 DEF WatchdogLooks, WatchdogReads, WatchdogFails, WatchInv, CallFits, Held
  <2>3. CASE WatchdogRemoves
    <3>1. UNCHANGED <<blocked, up, phase, call>>
      BY <2>3 DEF WatchdogRemoves
    <3>2. CASE gap' = gap
      <4>1. blocked' /\ beat' = Never => gap' # "closed"
        BY <1>0, <2>3, <3>1, <3>2 DEF WatchdogRemoves, Kept, Held, TookBlock
      <4>. QED BY <1>0, <3>1, <3>2, <4>1 DEF WatchInv, CallFits, Held
    <3>3. CASE blocked /\ gap' = IF TookBlock THEN "open" ELSE "lost"
      <4>1. TookBlock => up /\ phase.at # "idle" /\ call.at \notin {"block", "sleep", "clear"}
        BY <1>0, <3>3 DEF TookBlock, CallFits
      <4>. QED BY <1>0, <3>1, <3>3, <4>1 DEF WatchInv, CallFits, Held
    <3>. QED BY <2>3, <3>2, <3>3 DEF WatchdogRemoves, Kept
  <2>4. CASE WatchdogSleeps
    <3>1. UNCHANGED <<blocked, beat, up, phase, call, gap>>
      BY <2>4, Zenon DEF WatchdogSleeps
    <3>. QED BY <1>0, <3>1 DEF WatchInv, CallFits, Held
  <2>. QED BY <1>14, <2>1, <2>2, <2>3, <2>4 DEF Watchdog
<1>15. CASE MoveLid \/ NodsOff \/ Wakes \/ UNCHANGED vars
  BY <1>0, <1>15 DEF MoveLid, NodsOff, Wakes, vars, WatchInv, CallFits, Held
<1>16. CASE Pass
  <2>1. phase'.at = phase.at /\ (phase = Idle => phase' = Idle)
    BY <1>0, <1>16, PassTyped DEF Pass, Phase, Typed
  <2>2. (beat' = Never) = (beat = Never)
    BY <1>16, OlderStays, Times DEF Pass, Typed, TypeOK
  <2>. QED BY <1>0, <1>16, <2>1, <2>2 DEF Pass, WatchInv, CallFits, Held
<1>. QED BY <1>2, <1>3, <1>4, <1>5, <1>6, <1>7, <1>8, <1>9, <1>10, <1>11, <1>12, <1>13, <1>14,
            <1>15, <1>16 DEF Next, App, Release

(* Wherever the app or the machine dies, whatever call fails and whenever   *)
(* the watchdog comes in between, a block has its app or a heartbeat, but   *)
(* for a block whose app died before it got one (release(),                 *)
(* tick_lid_away(), watchdog_script()).                                     *)
THEOREM Watched == Spec => []BlockIsWatched
<1>1. Init => WatchInv
  BY DEF Init, WatchInv, CallFits, Held, Rest
<1>2. Typed /\ WatchInv /\ [Next]_vars => WatchInv'
  BY WatchStep
<1>3. Typed /\ WatchInv => BlockIsWatched
  BY DEF Typed, TypeOK, WatchInv, Held, Forsaken, BlockIsWatched, Idle
<1>. QED BY <1>1, <1>2, <1>3, TypedAlways, PTL DEF Spec

-----------------------------------------------------------------------------
(* The pause the policy counts is never longer than the pause there was.    *)
PauseIsReal == phase.at \in KeepsAwake => phase.quiet <= calm

(* The policy counts no more quiet than there was.                          *)
LEMMA StepPause ==
  ASSUME NEW p \in Phase, NEW allowed \in BOOLEAN, NEW busy \in BOOLEAN,
         NEW c \in 0 .. Quiet, p.at \in KeepsAwake => p.quiet <= c
  PROVE  LET s == Step(p, allowed, busy)
             d == IF ~allowed THEN Quiet ELSE IF busy THEN 0 ELSE c
         IN  /\ s.phase.at \in KeepsAwake => s.phase.quiet <= d
             /\ p.at \in KeepsAwake /\ s.phase.at \notin KeepsAwake
                  => d = Quiet \/ (p.at = "away" /\ p.age = Cap)
<1>. DEFINE s == Step(p, allowed, busy)
            d == IF ~allowed THEN Quiet ELSE IF busy THEN 0 ELSE c
            q == QuietSince(p.quiet, busy)
<1>1. p.quiet \in Ages(Quiet) /\ p.age \in 0 .. Cap /\ d \in 0 .. Quiet
  BY Times DEF Phase
<1>2. p.at \in KeepsAwake => q <= d /\ (Rested(q) => d = Quiet)
  <2>1. CASE busy
    BY <1>1, <2>1, Times DEF QuietSince, Rested, Never
  <2>2. CASE ~busy /\ p.quiet = Never
    BY <1>1, <2>2, Times DEF QuietSince, Rested, Never
  <2>3. CASE ~busy /\ p.quiet # Never
    BY <1>1, <2>3, Times DEF QuietSince, Rested, Never, Ages
  <2>. QED BY <2>1, <2>2, <2>3
<1>3. CASE p.at = "armed"
  <2>1. s = StepArmed(p, allowed, busy)
    BY <1>3 DEF Step
  <2>. QED BY <1>2, <1>3, <2>1 DEF StepArmed, To, Away, Armed, Sleep, Disarm, Sleeping, Disarming,
         KeepsAwake
<1>4. CASE p.at = "away"
  <2>1. s = StepAway(p, allowed, busy)
    BY <1>4 DEF Step
  <2>2. p.age >= Cap => p.age = Cap
    BY <1>1, Times
  <2>. QED BY <1>2, <1>4, <2>1, <2>2 DEF StepAway, To, Away, Armed, Sleep, Sleeping, KeepsAwake
<1>5. CASE p.at = "idle"
  <2>1. s = StepIdle(allowed, busy)
    BY <1>5 DEF Step
  <2>. QED BY <1>1, <1>5, <2>1, Times DEF StepIdle, To, Idle, Armed, KeepsAwake, Never
<1>6. CASE p.at \in {"disarming", "sleeping"}
  <2>1. s \in {Sleep, Disarm, To(p)}
    BY <1>6 DEF Step, StepDisarming, StepSleeping
  <2>. QED BY <1>6, <2>1 DEF To, Sleep, Disarm, Sleeping, Disarming, KeepsAwake
<1>. QED BY <1>3, <1>4, <1>5, <1>6 DEF Phase

(* Every step keeps the pause real, and lets go only after a whole one.     *)
LEMMA PauseStep ==
  ASSUME Typed, PauseIsReal, [Next]_vars
  PROVE  /\ PauseIsReal'
         /\ phase.at \in KeepsAwake /\ phase'.at \in {"disarming", "sleeping"}
              => calm' = Quiet \/ (phase.at = "away" /\ phase.age = Cap)
<1>. USE DEF machineVars, appVars
<1>0. phase \in Phase /\ calm \in 0 .. Quiet /\ Idle.at = "idle"
  BY DEF Typed, TypeOK, Phase, Idle
<1>1. CASE Tick
  <2>1. PICK allowed \in BOOLEAN, busy \in BOOLEAN :
          /\ phase' = Step(phase, allowed, busy).phase
          /\ calm' = IF ~allowed THEN Quiet ELSE IF busy THEN 0 ELSE calm
    BY <1>1 DEF Tick
  <2>2. LET s == Step(phase, allowed, busy)
        IN  /\ s.phase.at \in KeepsAwake => s.phase.quiet <= calm'
            /\ phase.at \in KeepsAwake /\ s.phase.at \notin KeepsAwake
                 => calm' = Quiet \/ (phase.at = "away" /\ phase.age = Cap)
    BY <1>0, <2>1, StepPause DEF PauseIsReal
  <2>. QED BY <2>1, <2>2 DEF PauseIsReal, KeepsAwake
<1>2. CASE Pass
  <2>1. CASE asleep
    BY <1>2, <2>1 DEF Pass, PauseIsReal, KeepsAwake
  <2>2. CASE ~asleep
    <3>1. /\ phase' = [phase EXCEPT !.quiet = Older(@, Quiet),
                         !.age = IF phase.at \in {"idle", "armed"} THEN @ ELSE Older(@, Cap)]
          /\ calm' = Older(calm, Quiet)
      BY <1>2, <2>2 DEF Pass
    <3>2. phase'.at = phase.at /\ phase'.quiet = Older(phase.quiet, Quiet)
      BY <1>0, <3>1 DEF Phase
    <3>3. phase.quiet <= calm => phase'.quiet <= calm'
      BY <1>0, <3>1, <3>2, OlderKeepsOrder, Times DEF Phase
    <3>. QED BY <3>2, <3>3 DEF PauseIsReal, KeepsAwake
  <2>. QED BY <2>1, <2>2
<1>3. CASE phase' = Idle
  BY <1>0, <1>3 DEF PauseIsReal, KeepsAwake
<1>4. CASE UNCHANGED <<phase, calm>>
  BY <1>4 DEF PauseIsReal, KeepsAwake
<1>5. [Next]_vars => Tick \/ Pass \/ phase' = Idle \/ UNCHANGED <<phase, calm>>
  BY DEF Next, App, Release, Boot, Block, BlockFails, WriteHeartbeat, Unblock, UnblockFails, Slept,
    SleepAccepted, SleepFails, ClearHeartbeat, Released, Dead, Watchdog, WatchdogLooks,
    WatchdogReads, WatchdogReleases, WatchdogFails, WatchdogRemoves, WatchdogSleeps, Start, Shutdown, Crash,
    Reboot, MoveLid, NodsOff, Wakes, vars
<1>. QED BY <1>1, <1>2, <1>3, <1>4, <1>5

(* Work is not cut short, however the lid moves (step()).                   *)
THEOREM WorkFinishes == Spec => NotCutShort
<1>1. Init => PauseIsReal
  BY DEF Init, PauseIsReal, Idle, KeepsAwake
<1>2. Typed /\ PauseIsReal /\ [Next]_vars =>
        /\ PauseIsReal'
        /\ [phase.at \in KeepsAwake /\ phase'.at \in {"disarming", "sleeping"}
              => calm' = Quiet \/ (phase.at = "away" /\ phase.age = Cap)]_vars
  BY PauseStep
<1>. QED BY <1>1, <1>2, TypedAlways, PTL DEF Spec, NotCutShort
=============================================================================
