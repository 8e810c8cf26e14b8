------------------------------ MODULE LidAway ------------------------------
(***************************************************************************)
(* A laptop whose lid is closed while students work                        *)
(* (app/kasaterm/src/lid_away.rs, app/kasaterm/src/lid_away/policy.rs,     *)
(* crates/kasa-socket/src/lid_away.rs).  The app blocks the sleep of the   *)
(* machine with a setting that outlives the app and the machine's restart, *)
(* and renews a heartbeat file meanwhile; a watchdog outside the app lifts *)
(* the block when the heartbeat is old.  The calls of the app are made on  *)
(* its event loop, one after another; the watchdog, the lid and the clock  *)
(* go on between them.                                                     *)
(***************************************************************************)
EXTENDS Integers

CONSTANTS Quiet,      \* QUIET_GRACE
          Cap,        \* Config.cap
          Retry,      \* RELEASE_RETRY
          Stale       \* HEARTBEAT_STALE_SECS

ASSUME LidAssumption ==
  /\ {Quiet, Cap, Retry, Stale} \subseteq Nat \ {0} /\ Retry <= Cap

VARIABLES lid,        \* open, docked (closed beside a display in use) or closed
          asleep,     \* the machine sleeps
          blocked,    \* pmset disablesleep
          beat,       \* the age of the heartbeat file
          watchdog,   \* where the watchdog's script is
          up, booted, \* the app runs; State.booted
          phase,      \* State.phase, with the ages of its instants
          call,       \* what the event loop of the app is about to do, and why
          calm,       \* the time since a tick saw work it may stay awake for (history)
          gap         \* open while an app's block has not got its heartbeat, lost
                      \* when that app died before it got one (history)

vars == <<lid, asleep, blocked, beat, watchdog, up, booted, phase, call, calm, gap>>

Never == -1
Ages(max) == {Never} \cup 0 .. max

-----------------------------------------------------------------------------
(* The policy: the phase after a tick, and what is to be done.              *)

Idle       == [at |-> "idle", quiet |-> Never, age |-> 0]
Armed(q)   == [at |-> "armed", quiet |-> q, age |-> 0]
Away(q, t) == [at |-> "away", quiet |-> q, age |-> t]
Disarming  == [at |-> "disarming", quiet |-> Never, age |-> 0]
Sleeping   == [at |-> "sleeping", quiet |-> Never, age |-> 0]

KeepsAwake == {"armed", "away"}
Departed   == lid = "closed"

To(p)  == [phase |-> p, act |-> "none"]
Disarm == [phase |-> Disarming, act |-> "disarm"]
Sleep  == [phase |-> Sleeping, act |-> "sleep"]

QuietKept(since, busy) == IF since = Never THEN 0 ELSE since    \* faulty: work does not restart the grace
QuietSince(since, busy) == IF busy THEN Never ELSE IF since = Never THEN 0 ELSE since
Rested(quiet) == quiet >= Quiet

StepIdle(allowed, busy) ==
  IF allowed /\ busy /\ ~Departed THEN [phase |-> Armed(Never), act |-> "arm"] ELSE To(Idle)

StepArmed(p, allowed, busy) ==
  LET q == QuietSince(p.quiet, busy) IN
  IF Departed THEN IF allowed THEN To(Away(q, 0)) ELSE Sleep
  ELSE IF ~allowed \/ Rested(q) THEN Disarm ELSE To(Armed(q))

StepAwayLong(p, allowed, busy) ==    \* faulty: the cap counts from the last tick
  LET q == QuietSince(p.quiet, busy) IN
  IF ~Departed THEN To(Armed(q))
  ELSE IF ~allowed \/ p.age >= Cap \/ Rested(q) THEN Sleep ELSE To(Away(q, 0))

StepAway(p, allowed, busy) ==
  LET q == QuietSince(p.quiet, busy) IN
  IF ~Departed THEN To(Armed(q))
  ELSE IF ~allowed \/ p.age >= Cap \/ Rested(q) THEN Sleep ELSE To(Away(q, p.age))

StepDisarming(p) == IF Departed THEN Sleep ELSE IF p.age >= Retry THEN Disarm ELSE To(p)
StepSleeping(p)  == IF ~Departed THEN Disarm ELSE IF p.age >= Retry THEN Sleep ELSE To(p)

Step(p, allowed, busy) ==
  CASE p.at = "idle"      -> StepIdle(allowed, busy)
    [] p.at = "armed"     -> StepArmed(p, allowed, busy)
    [] p.at = "away"      -> StepAway(p, allowed, busy)
    [] p.at = "disarming" -> StepDisarming(p)
    [] p.at = "sleeping"  -> StepSleeping(p)

ReleasedAll(p) == Idle    \* faulty: a request to sleep counts as sleep
Released(p) == IF p.at = "disarming" THEN Idle ELSE p

-----------------------------------------------------------------------------
Rest == [at |-> "rest", why |-> "none"]

TypeOK ==
  /\ lid \in {"open", "docked", "closed"} /\ asleep \in BOOLEAN /\ blocked \in BOOLEAN
  /\ beat \in Ages(Stale) /\ watchdog \in {"rest", "stat", "release", "remove", "sleep"}
  /\ up \in BOOLEAN /\ booted \in BOOLEAN
  /\ phase \in [at : {"idle", "armed", "away", "disarming", "sleeping"},
                quiet : Ages(Quiet), age : 0 .. Cap]
  /\ call \in [at : {"rest", "block", "beat", "unblock", "sleep", "clear"},
               why : {"none", "arm", "disarm", "sleep", "boot", "quit"}]
  /\ calm \in 0 .. Quiet /\ gap \in {"closed", "open", "lost"}

Init ==
  /\ lid = "open" /\ asleep = FALSE /\ blocked = FALSE /\ beat = Never /\ watchdog = "rest"
  /\ up = FALSE /\ booted = FALSE /\ phase = Idle /\ call = Rest /\ calm = 0
  /\ gap = "closed"

machineVars == <<lid, asleep>>
appVars == <<up, booted, phase, call, calm>>

(* Writing or removing the heartbeat may fail; the app and the script go on *)
(* as if it had not.                                                        *)
Written == beat' = 0 /\ gap' = "closed"
Kept    == UNCHANGED <<beat, gap>>

(* The app and the watchdog run only while the machine is awake.            *)
AppAt(place) == up /\ ~asleep /\ call.at = place

-----------------------------------------------------------------------------
(* tick_lid_away().                                                         *)

(* The first tick: the run before may have died with sleep blocked.         *)
Boot ==
  /\ AppAt("rest") /\ ~booted
  /\ booted' = TRUE
  /\ call' = IF beat # Never THEN [at |-> "unblock", why |-> "boot"] ELSE Rest
  /\ UNCHANGED <<machineVars, blocked, beat, watchdog, up, phase, calm, gap>>

(* Any later one.  allowed: switched on, permitted by sudo, power and heat  *)
(* are fine; busy: a student works here.  A phase that keeps awake renews   *)
(* the heartbeat (every 5 s, less than the unit of time here).              *)
Tick ==
  /\ AppAt("rest") /\ booted
  /\ \E allowed, busy \in BOOLEAN :
       LET s == Step(phase, allowed, busy) IN
       /\ phase' = s.phase
       /\ call' = IF s.act = "none" THEN Rest
                  ELSE [at |-> IF s.act = "arm" THEN "block" ELSE "unblock", why |-> s.act]
       /\ Kept \/ (s.act = "none" /\ s.phase.at \in KeepsAwake /\ Written)
       /\ calm' = IF ~allowed THEN Quiet ELSE IF busy THEN 0 ELSE calm
  /\ UNCHANGED <<machineVars, blocked, watchdog, up, booted>>

Block ==
  /\ AppAt("block")
  /\ blocked' = TRUE /\ gap' = "open" /\ call' = [call EXCEPT !.at = "beat"]
  /\ UNCHANGED <<machineVars, beat, watchdog, up, booted, phase, calm>>

BlockFails ==
  /\ AppAt("block")
  /\ phase' = Idle /\ call' = Rest
  /\ UNCHANGED <<machineVars, blocked, beat, watchdog, up, booted, calm, gap>>

WriteHeartbeat ==
  /\ AppAt("beat")
  /\ Written \/ Kept
  /\ call' = Rest
  /\ UNCHANGED <<machineVars, blocked, watchdog, up, booted, phase, calm>>

-----------------------------------------------------------------------------
(* release(): lift the block, ask for sleep, remove the heartbeat.  A       *)
(* failure ends it where it is, and leaves the phase and the heartbeat.     *)

Dead ==
  /\ up' = FALSE /\ booted' = FALSE /\ phase' = Idle /\ call' = Rest
  /\ gap' = IF gap = "open" THEN "lost" ELSE gap

Unblock ==
  /\ AppAt("unblock")
  /\ blocked' = FALSE /\ gap' = "closed"
  /\ call' = [call EXCEPT !.at = IF call.why = "sleep" THEN "sleep" ELSE "clear"]
  /\ UNCHANGED <<machineVars, beat, watchdog, up, booted, phase, calm>>

UnblockFailsCleared ==    \* faulty: the heartbeat goes whether the block went or not
  /\ AppAt("unblock")
  /\ beat' = Never
  /\ IF call.why = "quit" THEN Dead
     ELSE call' = Rest /\ UNCHANGED <<up, booted, phase, gap>>
  /\ UNCHANGED <<machineVars, blocked, watchdog, calm>>

UnblockFails ==
  /\ AppAt("unblock")
  /\ IF call.why = "quit" THEN Dead
     ELSE call' = Rest /\ UNCHANGED <<up, booted, phase, gap>>
  /\ UNCHANGED <<machineVars, blocked, beat, watchdog, calm>>

(* pmset sleepnow: the machine sleeps, or took the request and stays awake. *)
Slept ==
  /\ AppAt("sleep") /\ ~blocked
  /\ asleep' = TRUE /\ call' = [call EXCEPT !.at = "clear"]
  /\ UNCHANGED <<lid, blocked, beat, watchdog, up, booted, phase, calm, gap>>

SleepAccepted ==
  /\ AppAt("sleep")
  /\ call' = [call EXCEPT !.at = "clear"]
  /\ UNCHANGED <<machineVars, blocked, beat, watchdog, up, booted, phase, calm, gap>>

SleepFails ==
  /\ AppAt("sleep")
  /\ call' = Rest
  /\ UNCHANGED <<machineVars, blocked, beat, watchdog, up, booted, phase, calm, gap>>

ClearHeartbeat ==
  /\ AppAt("clear")
  /\ beat' \in {Never, beat}
  /\ CASE call.why = "quit" -> Dead
       [] call.why = "boot" -> call' = Rest /\ UNCHANGED <<up, booted, phase, gap>>
       [] OTHER -> call' = Rest /\ phase' = Released(phase) /\ UNCHANGED <<up, booted, gap>>
  /\ UNCHANGED <<machineVars, blocked, watchdog, calm>>

-----------------------------------------------------------------------------
(* The app starts, ends (shutdown()) and dies.                              *)

Start ==
  /\ ~up /\ ~asleep
  /\ up' = TRUE
  /\ UNCHANGED <<machineVars, blocked, beat, watchdog, booted, phase, call, calm, gap>>

Shutdown ==
  /\ AppAt("rest")
  /\ IF phase = Idle THEN Dead
     ELSE call' = [at |-> "unblock", why |-> "quit"] /\ UNCHANGED <<up, booted, phase, gap>>
  /\ UNCHANGED <<machineVars, blocked, beat, watchdog, calm>>

Crash ==
  /\ up /\ ~asleep
  /\ Dead
  /\ UNCHANGED <<machineVars, blocked, beat, watchdog, calm>>

(* The setting and the file outlive the machine's restart.                  *)
Reboot ==
  /\ Dead /\ watchdog' = "rest" /\ asleep' = FALSE
  /\ UNCHANGED <<lid, blocked, beat, calm>>

-----------------------------------------------------------------------------
(* watchdog_script(), which launchd starts every half minute.               *)

WatchdogAt(place) == watchdog = place /\ ~asleep

(* The block is that of the app that runs.                                  *)
TookBlock == phase # Idle /\ call.at # "block"

WatchdogLooks ==
  /\ WatchdogAt("rest") /\ beat # Never
  /\ watchdog' = "stat"
  /\ UNCHANGED <<machineVars, blocked, beat, appVars, gap>>

(* A file that went after the look has no age, which counts as old.         *)
WatchdogReads ==
  /\ WatchdogAt("stat")
  /\ watchdog' = IF beat = Never \/ beat >= Stale THEN "release" ELSE "rest"
  /\ UNCHANGED <<machineVars, blocked, beat, appVars, gap>>

WatchdogReleases ==
  /\ WatchdogAt("release")
  /\ blocked' = FALSE /\ gap' = "closed" /\ watchdog' = "remove"
  /\ UNCHANGED <<machineVars, beat, appVars>>

WatchdogFails ==
  /\ WatchdogAt("release")
  /\ watchdog' = "rest"
  /\ UNCHANGED <<machineVars, blocked, beat, appVars, gap>>

(* A block there is now was set after the one the script lifted.            *)
WatchdogRemoves ==
  /\ WatchdogAt("remove")
  /\ \/ /\ beat' = Never
        /\ gap' = IF ~blocked THEN gap ELSE IF TookBlock THEN "open" ELSE "lost"
     \/ Kept
  /\ watchdog' = IF lid = "open" THEN "rest" ELSE "sleep"
  /\ UNCHANGED <<machineVars, blocked, appVars>>

WatchdogSleeps ==
  /\ WatchdogAt("sleep")
  /\ watchdog' = "rest"
  /\ asleep' \in {FALSE, ~blocked}
  /\ UNCHANGED <<lid, blocked, beat, appVars, gap>>

-----------------------------------------------------------------------------
(* The machine, as the code uses it.                                        *)

(* Closing the lid puts an unblocked machine to sleep.  A lid closed        *)
(* already does not when the block goes: the code asks for it.              *)
MoveLid ==
  /\ lid' \in {"open", "docked", "closed"} \ {lid}
  /\ asleep' = (lid' = "closed" /\ ~blocked)
  /\ UNCHANGED <<blocked, beat, watchdog, appVars, gap>>

NodsOff ==
  /\ ~asleep /\ ~blocked
  /\ asleep' = TRUE
  /\ UNCHANGED <<lid, blocked, beat, watchdog, appVars, gap>>

Wakes ==
  /\ asleep /\ asleep' = FALSE
  /\ UNCHANGED <<lid, blocked, beat, watchdog, appVars, gap>>

(* Time.  The instants of the app stand still while the machine sleeps, the *)
(* age of a file does not.                                                  *)
Older(age, max) == IF age = Never \/ age >= max THEN age ELSE age + 1

Pass ==
  /\ beat' = Older(beat, Stale)
  /\ IF asleep THEN UNCHANGED <<phase, calm>>
     ELSE /\ phase' = [phase EXCEPT !.quiet = Older(@, Quiet),
                                    !.age = IF phase.at \in {"idle", "armed"} THEN @ ELSE Older(@, Cap)]
          /\ calm' = Older(calm, Quiet)
  /\ UNCHANGED <<machineVars, blocked, watchdog, up, booted, call, gap>>

-----------------------------------------------------------------------------
Release == Unblock \/ UnblockFails \/ Slept \/ SleepAccepted \/ SleepFails \/ ClearHeartbeat

App == Boot \/ Tick \/ Block \/ BlockFails \/ WriteHeartbeat \/ Release

Watchdog == \/ WatchdogLooks \/ WatchdogReads \/ WatchdogReleases \/ WatchdogFails
            \/ WatchdogRemoves \/ WatchdogSleeps

Next == \/ App \/ Watchdog \/ Start \/ Shutdown \/ Crash \/ Reboot
        \/ MoveLid \/ NodsOff \/ Wakes \/ Pass

Spec == Init /\ [][Next]_vars

(* The event loop ticks and ends its calls, launchd starts the watchdog,    *)
(* and a call that is made again and again works at last (the script is not *)
(* killed by a restart at its first line each time).                        *)
FairSpec ==
  /\ Spec /\ WF_vars(Pass) /\ WF_vars(App) /\ WF_vars(Watchdog)
  /\ SF_vars(Unblock) /\ SF_vars(Slept)
  /\ SF_vars(WatchdogReads) /\ SF_vars(WatchdogReleases)

-----------------------------------------------------------------------------
(* Properties *)

(* Nobody is left who knows of the block: its app died before a heartbeat   *)
(* was written (or written again, when the watchdog removed a newer one     *)
(* than it had looked at).                                                  *)
Forsaken == gap = "lost" /\ beat = Never

(* Whatever ends the app, at whatever instruction, and whatever call fails, *)
(* somebody will lift the block: an app that lives and has not finished     *)
(* with it, or the watchdog, who sees a heartbeat.  A heartbeat that was    *)
(* written goes only after its block; the exception is a block whose app    *)
(* died before there was one.                                               *)
BlockIsWatched ==
  blocked => beat # Never \/ (up /\ (phase # Idle \/ call # Rest)) \/ Forsaken

(* Work is not cut short: a machine that is kept awake is let go only when  *)
(* the pause has lasted, the cap is reached, or staying awake is not        *)
(* allowed, however often the lid moved meanwhile.                          *)
NotCutShort ==
  [][phase.at \in KeepsAwake /\ phase'.at \in {"disarming", "sleeping"}
       => calm' = Quiet \/ (phase.at = "away" /\ phase.age = Cap)]_vars

(* No block lasts on a closed machine, nor after its app is gone, however   *)
(* the app ends and whatever fails meanwhile, but for a forsaken one.       *)
BlockIsReleased ==
  /\ blocked /\ lid = "closed" ~> ~blocked \/ lid # "closed" \/ Forsaken
  /\ blocked /\ ~up ~> ~blocked \/ up \/ Forsaken

(* A machine that was closed at work is put to sleep, and again when it     *)
(* wakes with its lid closed.                                               *)
KeepsItAsleep ==
  (up /\ phase.at \in {"away", "sleeping"} /\ lid = "closed" /\ ~asleep)
    ~> (asleep \/ lid # "closed" \/ ~up)
=============================================================================
