----------------------------- MODULE AppRestart -----------------------------
(***************************************************************************)
(* The remote restart of the app (crates/kasa-socket/src/app_restart.rs,   *)
(* app/kasaterm/src/app_restart.rs, docs/app-restart.md).  A run on the    *)
(* controlling machine takes the machines of an approved plan one by one.  *)
(* The app of a machine judges the request by its own facts, records the   *)
(* job, spawns a helper and exits; the helper waits for that exit, starts  *)
(* the app again, and the new app marks its arrival.  App, helper and new  *)
(* app append lines to one file of events, which every reader folds.       *)
(***************************************************************************)
EXTENDS Integers, Sequences, FiniteSets

CONSTANTS Plans,        \* plans, each with an approval of its own
          Machines,
          Targets,      \* the machines of a plan, in the order of the run
          Controller,   \* the machine the runs are started on
          Calls,        \* requests that can be at a target at a time
          MaxPids,      \* bound: processes of the app on a machine
          MaxMisses,    \* RunPolicy.max_status_errors
          MaxMishaps    \* bound: what persons and accidents do

TargetsOf(p) == {Targets[p][i] : i \in 1 .. Len(Targets[p])}
Jobs == {j \in Plans \X Machines : j[2] \in TargetsOf(j[1])}

ASSUME RestartAssumption ==
  /\ Targets \in [Plans -> Seq(Machines)] /\ Controller \in Machines
  /\ \A p \in Plans : /\ Targets[p] # <<>>
                      /\ \A i, k \in 1 .. Len(Targets[p]) : i < k =>
                           Targets[p][i] \notin {Targets[p][k], Controller}
  /\ MaxPids \in Nat /\ MaxMisses \in Nat /\ MaxMishaps \in Nat

VARIABLES app,      \* the app of each machine, and the bundle it runs from
          job,      \* the files of each job, and its helper
          call,     \* the requests under judgement at their targets
          run,      \* the run of each plan
          mishaps   \* how much went wrong, or was done by persons, so far

vars == <<app, job, call, run, mishaps>>

-----------------------------------------------------------------------------
(* The states of a job and the fold of its events.  An event out of order   *)
(* stays in the file and does not move the state, so folding the lines read *)
(* so far and then one more is folding them all: state is that fold.        *)

Forward  == <<"accepted", "helper_started", "exited", "relaunching", "launched", "booted",
              "verified">>
Terminal == {"verified", "failed", "cancelled"}
States   == {Forward[i] : i \in DOMAIN Forward} \cup Terminal

Before(s, next) ==
  \E i, k \in DOMAIN Forward : i < k /\ Forward[i] = s /\ Forward[k] = next

Allows(s, next) ==
  /\ s \notin Terminal
  /\ \/ next = "failed"
     \/ next = "cancelled" /\ s = "accepted"
     \/ Before(s, next)

Fold(s, next) == IF Allows(s, next) THEN next ELSE s

Appended(j, word) == [job EXCEPT ![j].state = Fold(@, word)]

Helpers == {"none", "spawned", "waiting", "alone", "looking", "done"}

Process == [pid: Nat, last: Nat, build: Nat, pending: BOOLEAN, booting: BOOLEAN,
            opening: BOOLEAN, leaving: SUBSET Plans]
Job     == [record: {"none", "torn", "made"}, state: States, old: Nat, young: BOOLEAN,
            helper: Helpers, spawned: Nat]
Facts   == Nat \X Nat
Idle    == [at |-> "idle"]
Call    == [at: {"asked", "judged", "writing", "made"}, job: Jobs, own: BOOLEAN]
Run     == [at: {"new", "check", "start", "starting", "waiting", "booted", "done"}, k: Nat,
            out: Seq({"none", "verified", "handed", "failed", "skipped"}),
            named: [Machines -> Facts], sent: SUBSET Machines, misses: Nat]

TypeOK ==
  /\ app \in [Machines -> Process]
  /\ job \in [Jobs -> Job]
  /\ call \in [Calls -> Call \cup {Idle}]
  /\ run \in [Plans -> Run]
  /\ \A p \in Plans : /\ run[p].k \in 1 .. Len(Targets[p])
                      /\ Len(run[p].out) = Len(Targets[p])
  /\ mishaps \in Nat

Init ==
  /\ app = [m \in Machines |-> [pid |-> 1, last |-> 1, build |-> 1, pending |-> FALSE,
                                booting |-> TRUE, opening |-> FALSE, leaving |-> {}]]
  /\ job = [j \in Jobs |-> [record |-> "none", state |-> "accepted", old |-> 0,
                            young |-> TRUE, helper |-> "none", spawned |-> 0]]
  /\ call = [c \in Calls |-> Idle]
  /\ run = [p \in Plans |-> [at |-> "new", k |-> 1,
                             out |-> [i \in 1 .. Len(Targets[p]) |-> "none"],
                             named |-> [m \in Machines |-> <<0, 0>>], sent |-> {},
                             misses |-> 0]]
  /\ mishaps = 0

Mishap == mishaps < MaxMishaps /\ mishaps' = mishaps + 1

-----------------------------------------------------------------------------
(* What an app knows of itself: its pid and bundle (target_hash), and what  *)
(* speaks against a restart.  A busy agent or an unsaved editor is a choice.*)

FactsOf(m) == <<app[m].pid, app[m].build>>
Active(m)  == {p \in Plans : /\ <<p, m>> \in Jobs /\ job[<<p, m>>].record = "made"
                             /\ job[<<p, m>>].state \notin Terminal /\ job[<<p, m>>].young}
Clear(m)   == ~app[m].pending /\ Active(m) = {}
Up(m)      == app[m].pid # 0

(* The controlling CLI asks everything through its own machine's app. *)
Reached(m) == Up(Controller) /\ Up(m)

-----------------------------------------------------------------------------
(* The run *)

Target(p) == Targets[p][run[p].k]

(* Faulty: a failure is noted and the next machine taken up. *)
StoppedAndOn(r, n) ==
  [r EXCEPT !.at = IF r.k < n THEN "check" ELSE "done",
            !.k = IF r.k < n THEN r.k + 1 ELSE r.k, !.out[r.k] = "failed"]

(* A failure leaves the machines that come later untouched. *)
StoppedRun(r, n) ==
  [r EXCEPT !.at = "done",
            !.out = [i \in 1 .. n |-> IF i = r.k THEN "failed"
                                      ELSE IF i > r.k THEN "skipped" ELSE r.out[i]]]

PassedRun(r, n, word) ==
  [r EXCEPT !.at = IF r.k < n THEN "check" ELSE "done",
            !.k = IF r.k < n THEN r.k + 1 ELSE r.k,
            !.out[r.k] = word, !.misses = 0]

Stop(p)       == run' = [run EXCEPT ![p] = StoppedRun(@, Len(Targets[p]))]
Pass(p, word) == run' = [run EXCEPT ![p] = PassedRun(@, Len(Targets[p]), word)]

(* The plan is built anew and the approval consumed for exactly this plan.  *)
Consume(p) ==
  /\ run[p].at = "new"
  /\ \A m \in TargetsOf(p) : Reached(m) /\ Clear(m)
  /\ run' = [run EXCEPT ![p].at = "check", ![p].named = [m \in Machines |-> FactsOf(m)]]
  /\ UNCHANGED <<app, job, call, mishaps>>

Check(p) ==
  /\ run[p].at = "check"
  /\ LET m == Target(p)
     IN \/ /\ Reached(m) /\ Clear(m) /\ FactsOf(m) = run[p].named[m]
           /\ run' = [run EXCEPT ![p].at = "start"]
        \/ ~(Reached(m) /\ Clear(m) /\ FactsOf(m) = run[p].named[m]) /\ Stop(p)
  /\ UNCHANGED <<app, job, call, mishaps>>

Request(p, m, own) == [at |-> "asked", job |-> <<p, m>>, own |-> own]

Start(p, c) ==
  /\ run[p].at = "start" /\ call[c] = Idle
  /\ IF Reached(Target(p))
     THEN /\ run' = [run EXCEPT ![p].at = "starting", ![p].sent = @ \cup {Target(p)}]
          /\ call' = [call EXCEPT ![c] = Request(p, Target(p), TRUE)]
     ELSE Stop(p) /\ UNCHANGED call
  /\ UNCHANGED <<app, job, mishaps>>

(* A request that was sent may come again. *)
Resend(j, c) ==
  /\ Mishap
  /\ j[2] \in run[j[1]].sent /\ Up(j[2]) /\ call[c] = Idle
  /\ call' = [call EXCEPT ![c] = Request(j[1], j[2], FALSE)]
  /\ UNCHANGED <<app, job, run>>

(* No answer: the target's app is gone with the call, or the reply is lost  *)
(* while the call goes on.                                                  *)
ReplyLost(p) ==
  /\ run[p].at = "starting"
  /\ \/ /\ \A c \in Calls : call[c] # Idle => ~(call[c].own /\ call[c].job = <<p, Target(p)>>)
        /\ UNCHANGED mishaps
     \/ Mishap
  /\ Stop(p)
  /\ UNCHANGED <<app, job, call>>

Poll(p) ==
  /\ run[p].at = "waiting" /\ Reached(Target(p))
  /\ LET s == job[<<p, Target(p)>>].state
     IN IF s \in {"booted", "verified"} THEN run' = [run EXCEPT ![p].at = "booted"]
        ELSE IF s \in {"failed", "cancelled"} THEN Stop(p)
        ELSE run' = [run EXCEPT ![p].misses = 0]
  /\ UNCHANGED <<app, job, call, mishaps>>

PollMisses(p) ==
  /\ run[p].at = "waiting" /\ ~Reached(Target(p))
  /\ IF run[p].misses < MaxMisses
     THEN run' = [run EXCEPT ![p].misses = @ + 1]
     ELSE Stop(p)
  /\ UNCHANGED <<app, job, call, mishaps>>

BootTimeout(p) ==
  /\ run[p].at = "waiting"
  /\ Stop(p)
  /\ UNCHANGED <<app, job, call, mishaps>>

Verify(p) ==
  /\ run[p].at = "booted"
  /\ LET m == Target(p)
     IN IF /\ Reached(m)
           /\ app[m].pid # run[p].named[m][1] /\ app[m].build = run[p].named[m][2]
        THEN Pass(p, "verified")
        ELSE Stop(p)
  /\ UNCHANGED <<app, job, call, mishaps>>

-----------------------------------------------------------------------------
(* The target: facts from the GUI, the approval from its server, the record,*)
(* the helper, and the request to exit.  Threads end with their process.    *)

Answered(c, ok) ==
  LET p == call[c].job[1]
  IN /\ call' = [call EXCEPT ![c] = Idle]
     /\ IF call[c].own /\ run[p].at = "starting"
        THEN IF ~ok THEN Stop(p)
             ELSE IF Target(p) = Controller THEN Pass(p, "handed")
             ELSE run' = [run EXCEPT ![p].at = "waiting"]
        ELSE UNCHANGED run

Judge(c) ==
  /\ call[c].at = "asked"
  /\ LET p == call[c].job[1]
         m == call[c].job[2]
     IN \/ /\ Clear(m) /\ FactsOf(m) = run[p].named[m]
           /\ call' = [call EXCEPT ![c].at = "judged"]
           /\ UNCHANGED run
        \/ Answered(c, FALSE)
  /\ UNCHANGED <<app, job, mishaps>>

CreateAnyway(c) ==    \* faulty: an existing record is written again
  /\ call[c].at = "judged"
  /\ job' = [job EXCEPT ![call[c].job].record = "torn",
                        ![call[c].job].old = run[call[c].job[1]].named[call[c].job[2]][1]]
  /\ call' = [call EXCEPT ![c].at = "writing"]
  /\ UNCHANGED <<app, run, mishaps>>

(* create_new makes the file; its text and the first event come after. *)
CreateRecord(c) ==
  /\ call[c].at = "judged"
  /\ LET j == call[c].job
     IN CASE job[j].record = "none" ->
               /\ job' = [job EXCEPT ![j].record = "torn", ![j].old = run[j[1]].named[j[2]][1]]
               /\ call' = [call EXCEPT ![c].at = "writing"]
               /\ UNCHANGED run
          [] job[j].record = "torn" -> Answered(c, FALSE) /\ UNCHANGED job
          [] job[j].record = "made" -> Answered(c, TRUE) /\ UNCHANGED job
  /\ UNCHANGED <<app, mishaps>>

WriteRecord(c) ==
  /\ call[c].at = "writing"
  /\ job' = [job EXCEPT ![call[c].job].record = "made"]
  /\ call' = [call EXCEPT ![c].at = "made"]
  /\ UNCHANGED <<app, run, mishaps>>

Spawn(c) ==
  /\ call[c].at = "made"
  /\ LET j == call[c].job
     IN \/ /\ job' = [job EXCEPT ![j].helper = "spawned", ![j].spawned = @ + 1]
           /\ app' = [app EXCEPT ![j[2]].leaving = @ \cup {j[1]}]
           /\ Answered(c, TRUE) /\ UNCHANGED mishaps
        \/ Mishap /\ Answered(c, FALSE) /\ UNCHANGED <<app, job>>

(* The process of m ends: its threads, its queue of events and its calls.   *)
Ended(a) == [a EXCEPT !.pid = 0, !.booting = FALSE, !.leaving = {}]

Installed(a) == IF a.pending THEN [a EXCEPT !.build = @ + 1, !.pending = FALSE] ELSE a

CallsLeft(m) ==
  [c \in Calls |-> IF call[c] # Idle /\ call[c].job[2] = m THEN Idle ELSE call[c]]

(* RestartExit: an install that would make it an upgrade stops the exit.    *)
HandleExit(m, p) ==
  /\ p \in app[m].leaving
  /\ IF app[m].pending
     THEN /\ app' = [app EXCEPT ![m].leaving = @ \ {p}]
          /\ job' = Appended(<<p, m>>, "failed")
          /\ UNCHANGED call
     ELSE /\ app' = [app EXCEPT ![m] = Ended(@)]
          /\ call' = CallsLeft(m)
          /\ UNCHANGED job
  /\ UNCHANGED <<run, mishaps>>

(* Faulty: the app that is to exit may take itself for the new one. *)
ArrivedAny(m, p) ==
  job[<<p, m>>].state \in {"helper_started", "exited", "relaunching", "launched"}

(* A new app, once it answers HTTP, marks the arrival of a job that waits   *)
(* for it.                                                                  *)
Arrived(m, p) ==
  /\ job[<<p, m>>].state \in {"helper_started", "exited", "relaunching", "launched"}
  /\ app[m].pid # job[<<p, m>>].old

MarkBooted(m) ==
  /\ Up(m) /\ app[m].booting
  /\ app' = [app EXCEPT ![m].booting = FALSE]
  /\ IF Active(m) = {} THEN UNCHANGED job
     ELSE \E p \in Active(m) :
            job' = IF Arrived(m, p) THEN Appended(<<p, m>>, "booted") ELSE job
  /\ UNCHANGED <<call, run, mishaps>>

(* An hour after its creation a job keeps nobody from a restart any more;   *)
(* the helper is long done by then.                                         *)
HourPasses(j) ==
  /\ job[j].record = "made" /\ job[j].young
  /\ job[j].helper \in {"none", "done"} /\ Mishap
  /\ \A c \in Calls : call[c] # Idle => call[c].job # j
  /\ job' = [job EXCEPT ![j].young = FALSE]
  /\ UNCHANGED <<app, call, run>>

-----------------------------------------------------------------------------
(* The helper *)

Helper(j, from, to, word) ==
  /\ job[j].helper = from
  /\ job' = [job EXCEPT ![j].state = Fold(@, word), ![j].helper = to]
  /\ UNCHANGED <<call, run>>

HelperStarts(j) ==
  Helper(j, "spawned", "waiting", "helper_started") /\ UNCHANGED <<app, mishaps>>

AppGone(j) ==
  /\ app[j[2]].pid # job[j].old
  /\ Helper(j, "waiting", "alone", "exited") /\ UNCHANGED <<app, mishaps>>

ExitTimeout(j) ==
  /\ app[j[2]].pid = job[j].old
  /\ Helper(j, "waiting", "done", "failed") /\ UNCHANGED <<app, mishaps>>

OtherRuns(j) ==
  /\ Up(j[2])
  /\ Helper(j, "alone", "done", "failed") /\ UNCHANGED <<app, mishaps>>

(* To open an app that runs brings it to the front. *)
Launch(j) ==
  /\ ~Up(j[2])
  /\ Helper(j, "alone", "looking", "relaunching")
  /\ app' = [app EXCEPT ![j[2]].opening = TRUE]
  /\ UNCHANGED mishaps

LaunchFails(j) ==
  /\ ~Up(j[2]) /\ Mishap
  /\ Helper(j, "alone", "done", "failed") /\ UNCHANGED app

SeesApp(j) ==
  /\ Up(j[2]) /\ app[j[2]].pid # job[j].old
  /\ Helper(j, "looking", "done", "launched") /\ UNCHANGED <<app, mishaps>>

LookTimeoutSilent(j) ==    \* faulty: the script ends without a word
  /\ ~Up(j[2]) /\ job[j].helper = "looking"
  /\ job' = [job EXCEPT ![j].helper = "done"]
  /\ UNCHANGED <<app, call, run, mishaps>>

LookTimeout(j) ==
  /\ ~Up(j[2])
  /\ Helper(j, "looking", "done", "failed") /\ UNCHANGED <<app, mishaps>>

-----------------------------------------------------------------------------
(* The system and persons *)

AppStarts(m) ==
  /\ app[m].opening /\ app[m].last < MaxPids
  /\ app' = [app EXCEPT ![m].opening = FALSE,
                        ![m].pid = IF Up(m) THEN @ ELSE app[m].last + 1,
                        ![m].last = IF Up(m) THEN @ ELSE @ + 1,
                        ![m].booting = IF Up(m) THEN @ ELSE TRUE]
  /\ UNCHANGED <<job, call, run, mishaps>>

Open(m) ==
  /\ ~Up(m) /\ ~app[m].opening /\ Mishap
  /\ app' = [app EXCEPT ![m].opening = TRUE]
  /\ UNCHANGED <<job, call, run>>

(* A quit installs the build that waits for it; a crash does not. *)
Quit(m) ==
  /\ Up(m) /\ Mishap
  /\ \E a \in {app[m], Installed(app[m])} : app' = [app EXCEPT ![m] = Ended(a)]
  /\ call' = CallsLeft(m)
  /\ UNCHANGED <<job, run>>

NewBuild(m) ==
  /\ ~app[m].pending /\ Mishap
  /\ app' = [app EXCEPT ![m].pending = TRUE]
  /\ UNCHANGED <<job, call, run>>

Next ==
  \/ \E p \in Plans : \/ Consume(p) \/ Check(p) \/ ReplyLost(p) \/ Poll(p) \/ PollMisses(p)
                      \/ BootTimeout(p) \/ Verify(p)
                      \/ \E c \in Calls : Start(p, c)
                      \/ \E m \in Machines : HandleExit(m, p)
  \/ \E c \in Calls : Judge(c) \/ CreateRecord(c) \/ WriteRecord(c) \/ Spawn(c)
  \/ \E j \in Jobs : \/ HourPasses(j) \/ HelperStarts(j) \/ AppGone(j) \/ ExitTimeout(j)
                     \/ OtherRuns(j) \/ Launch(j) \/ LaunchFails(j) \/ SeesApp(j)
                     \/ LookTimeout(j) \/ \E c \in Calls : Resend(j, c)
  \/ \E m \in Machines : MarkBooted(m) \/ AppStarts(m) \/ Open(m) \/ Quit(m) \/ NewBuild(m)

Spec == Init /\ [][Next]_vars

-----------------------------------------------------------------------------
(* Properties *)

(* However often a request comes, and whatever dies in between, a job gets  *)
(* one helper: an approval restarts a machine once.                         *)
OneHelper == \A j \in Jobs : job[j].spawned <= 1

(* A machine is touched only when every machine before it in the plan was   *)
(* seen to run again: a failure anywhere leaves the later ones, and at the  *)
(* end the controlling machine itself, as they are.                         *)
OneByOne ==
  \A p \in Plans : \A i, k \in 1 .. Len(Targets[p]) :
    i < k /\ job[<<p, Targets[p][k]>>].record # "none" => run[p].out[i] = "verified"

(* An arrival is that of a new process: the app that was to exit is gone.   *)
ArrivalIsNew ==
  \A j \in Jobs : job[j].state \in {"launched", "booted"} =>
    app[j[2]].last > job[j].old /\ app[j[2]].pid # job[j].old

(* A helper that ended has said how, whatever the new app wrote meanwhile:  *)
(* a job is not left in the middle by a helper that is gone.                *)
VerdictIsWritten ==
  \A j \in Jobs : job[j].helper = "done" => job[j].state \in {"launched", "booted"} \cup Terminal
=============================================================================
