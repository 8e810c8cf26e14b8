-------------------------- MODULE AppRestartProofs --------------------------
(* Proofs about AppRestart for any plans, machines, calls and bounds.        *)
EXTENDS AppRestart, SequenceTheorems, TLAPS

Words   == {"none", "verified", "handed", "failed", "skipped"}
RunAt   == {"new", "check", "start", "starting", "waiting", "booted", "done"}

(* A run of a plan with n machines, its outcomes written as a function.      *)
RunOf(n) ==
  {r \in [at: RunAt, k: Nat, out: [1 .. n -> Words], named: [Machines -> Facts],
          sent: SUBSET Machines, misses: Nat] : r.k \in 1 .. n}

(* The sequences of length n are the functions on 1..n.                      *)
LEMMA SeqAsFunction ==
  ASSUME NEW S, NEW n \in Nat, NEW f
  PROVE  f \in Seq(S) /\ Len(f) = n <=> f \in [1 .. n -> S]
<1>1. ASSUME f \in Seq(S), Len(f) = n
      PROVE  f \in [1 .. n -> S]
  BY <1>1, LenProperties
<1>2. ASSUME f \in [1 .. n -> S]
      PROVE  f \in Seq(S) /\ Len(f) = n
  <2>1. f \in Seq(S)
    BY <1>2, SeqDef
  <2>2. DOMAIN f = 1 .. n /\ DOMAIN f = 1 .. Len(f) /\ Len(f) \in Nat
    BY <1>2, <2>1, LenProperties
  <2>. QED BY <2>1, <2>2
<1>. QED BY <1>1, <1>2

(* A plan has a first machine, and its machines have jobs.                  *)
LEMMA PlanFields ==
  ASSUME NEW p \in Plans
  PROVE  /\ Len(Targets[p]) \in Nat \ {0}
         /\ \A i \in 1 .. Len(Targets[p]) : /\ Targets[p][i] \in Machines \cap TargetsOf(p)
                                            /\ <<p, Targets[p][i]>> \in Jobs
<1>1. Targets[p] \in Seq(Machines) /\ Targets[p] # <<>>
  BY RestartAssumption
<1>2. Len(Targets[p]) \in Nat \ {0} /\ \A i \in 1 .. Len(Targets[p]) : Targets[p][i] \in Machines
  BY <1>1, EmptySeq, ElementOfSeq, LenProperties
<1>. QED BY <1>2 DEF TargetsOf, Jobs

(* A job is of a plan and of a machine of that plan.                        *)
LEMMA JobParts ==
  ASSUME NEW j \in Jobs
  PROVE  /\ j[1] \in Plans /\ j[2] \in Machines /\ j = <<j[1], j[2]>>
         /\ j[2] \in TargetsOf(j[1])
BY DEF Jobs

(* The type of the runs, with the length of each.                            *)
LEMMA RunTyped ==
  ASSUME TypeOK, NEW p \in Plans
  PROVE  run[p] \in RunOf(Len(Targets[p]))
<1>1. run[p].out \in [1 .. Len(Targets[p]) -> Words]
  BY SeqAsFunction, PlanFields DEF TypeOK, Run, Words
<1>. QED BY <1>1 DEF TypeOK, Run, RunOf, RunAt

(* ... and back, as TypeOK writes it.                                       *)
LEMMA RunsTyped ==
  ASSUME NEW p \in Plans, NEW r \in RunOf(Len(Targets[p]))
  PROVE  r \in Run /\ r.k \in 1 .. Len(Targets[p]) /\ Len(r.out) = Len(Targets[p])
<1>. DEFINE n == Len(Targets[p])
<1>0. n \in Nat /\ r.out \in [1 .. n -> Words]
  BY PlanFields DEF RunOf
<1>1. r.out \in Seq(Words) /\ Len(r.out) = n
  BY <1>0, SeqAsFunction
<1>. QED BY <1>1 DEF Run, RunOf, RunAt, Words

(* What the steps of a run make of its record.                               *)
LEMMA RunUpdates ==
  ASSUME NEW n \in Nat, NEW r \in RunOf(n)
  PROVE  /\ StoppedRun(r, n) \in RunOf(n)
         /\ \A w \in Words : PassedRun(r, n, w) \in RunOf(n)
         /\ \A a \in RunAt : [r EXCEPT !.at = a] \in RunOf(n)
         /\ \A f \in [Machines -> Facts] : [r EXCEPT !.at = "check", !.named = f] \in RunOf(n)
         /\ \A m \in Machines : [r EXCEPT !.at = "starting", !.sent = @ \cup {m}] \in RunOf(n)
         /\ \A i \in Nat : [r EXCEPT !.misses = i] \in RunOf(n)
<1>1. r.k \in 1 .. n /\ r.out \in [1 .. n -> Words]
  BY DEF RunOf
<1>2. StoppedRun(r, n) \in RunOf(n)
  BY <1>1 DEF RunOf, StoppedRun, RunAt, Words
<1>3. ASSUME NEW w \in Words
      PROVE  PassedRun(r, n, w) \in RunOf(n)
  <2>1. [r.out EXCEPT ![r.k] = w] \in [1 .. n -> Words]
    BY <1>1, <1>3
  <2>2. r.k < n => r.k + 1 \in 1 .. n
    BY <1>1
  <2>3. PassedRun(r, n, w) = [r EXCEPT !.at = IF r.k < n THEN "check" ELSE "done",
                                       !.k = IF r.k < n THEN r.k + 1 ELSE r.k,
                                       !.out = [r.out EXCEPT ![r.k] = w], !.misses = 0]
    BY DEF PassedRun, RunOf
  <2>. DEFINE a == IF r.k < n THEN "check" ELSE "done"
              k == IF r.k < n THEN r.k + 1 ELSE r.k
              o == [r.out EXCEPT ![r.k] = w]
              F == [at: RunAt, k: Nat, out: [1 .. n -> Words], named: [Machines -> Facts],
                    sent: SUBSET Machines, misses: Nat]
  <2>4. r \in F
    BY DEF RunOf
  <2>5. a \in RunAt /\ k \in 1 .. n /\ k \in Nat /\ o \in [1 .. n -> Words]
    BY <1>1, <2>1, <2>2 DEF RunAt
  <2>. HIDE DEF a, k, o
  <2>6. [r EXCEPT !.at = a, !.k = k, !.out = o, !.misses = 0] \in F
    BY <2>4, <2>5
  <2>7. [r EXCEPT !.at = a, !.k = k, !.out = o, !.misses = 0].k = k
    BY <2>4
  <2>8. [r EXCEPT !.at = a, !.k = k, !.out = o, !.misses = 0] \in RunOf(n)
    BY <2>5, <2>6, <2>7 DEF RunOf
  <2>. QED BY <2>3, <2>8 DEF a, k, o
<1>4. \A m \in Machines : [r EXCEPT !.at = "starting", !.sent = @ \cup {m}] \in RunOf(n)
  BY DEF RunOf, RunAt
<1>. QED BY <1>2, <1>3, <1>4 DEF RunOf, RunAt

(* The fold of a job's events.                                               *)
LEMMA FoldFacts ==
  ASSUME NEW s \in States, NEW w \in States
  PROVE  /\ Fold(s, w) \in {s, w}
         /\ Fold(s, "failed") \in Terminal
         /\ Fold(s, "launched") \in {"launched", "booted"} \cup Terminal
         /\ s \in {"launched", "booted"} \cup Terminal =>
              Fold(s, "booted") \in {"launched", "booted"} \cup Terminal
         /\ \A i \in DOMAIN Forward : Forward[i] \in States
<1>1. /\ Forward[1] = "accepted" /\ Forward[2] = "helper_started" /\ Forward[3] = "exited"
      /\ Forward[4] = "relaunching" /\ Forward[5] = "launched" /\ Forward[6] = "booted"
      /\ Forward[7] = "verified" /\ DOMAIN Forward = 1 .. 7
  BY DEF Forward
<1>2. States = {"accepted", "helper_started", "exited", "relaunching", "launched", "booted",
                "verified", "failed", "cancelled"}
  BY <1>1 DEF States, Terminal
<1>3. \A i \in DOMAIN Forward : Forward[i] \in States
  BY DEF States
<1>4. Fold(s, w) \in {s, w} /\ Fold(s, "failed") \in Terminal
  BY DEF Fold, Allows, Terminal
<1>5. s \in {"accepted", "helper_started", "exited", "relaunching"} => Before(s, "launched")
  BY <1>1 DEF Before
<1>6. Fold(s, "launched") \in {"launched", "booted"} \cup Terminal
  BY <1>2, <1>5 DEF Fold, Allows, Terminal
<1>7. s \in {"launched", "booted"} \cup Terminal =>
        Fold(s, "booted") \in {"launched", "booted"} \cup Terminal
  BY DEF Fold
<1>. QED BY <1>3, <1>4, <1>6, <1>7

(* The events that are written.                                             *)
LEMMA EventWords ==
  {"helper_started", "exited", "relaunching", "launched", "booted", "failed"} \subseteq States
<1>1. /\ Forward[2] = "helper_started" /\ Forward[3] = "exited" /\ Forward[4] = "relaunching"
      /\ Forward[5] = "launched" /\ Forward[6] = "booted" /\ DOMAIN Forward = 1 .. 7
  BY DEF Forward
<1>. QED BY <1>1 DEF States, Terminal

-----------------------------------------------------------------------------
(* Types *)

RunsOk(f) ==
  /\ f \in [Plans -> Run]
  /\ \A p \in Plans : f[p].k \in 1 .. Len(Targets[p]) /\ Len(f[p].out) = Len(Targets[p])

(* The run of one plan moves on, with a record of its type.                  *)
Moves(p) == \E r \in RunOf(Len(Targets[p])) : run' = [run EXCEPT ![p] = r]

(* A run that moves keeps the types of all runs.                            *)
LEMMA MoveTyped ==
  ASSUME TypeOK, NEW p \in Plans, Moves(p)
  PROVE  RunsOk(run')
<1>1. PICK r \in RunOf(Len(Targets[p])) : run' = [run EXCEPT ![p] = r]
  BY DEF Moves
<1>2. r \in Run /\ r.k \in 1 .. Len(Targets[p]) /\ Len(r.out) = Len(Targets[p])
  BY RunsTyped
<1>. QED BY <1>1, <1>2 DEF RunsOk, TypeOK

(* How a run ends, passes a machine or waits are moves of it.               *)
LEMMA EndsMove ==
  ASSUME TypeOK, NEW p \in Plans
  PROVE  /\ Stop(p) => Moves(p)
         /\ \A w \in Words : Pass(p, w) => Moves(p)
         /\ \A a \in RunAt : run' = [run EXCEPT ![p].at = a] => Moves(p)
         /\ run' = [run EXCEPT ![p].misses = 0] => Moves(p)
         /\ run' = [run EXCEPT ![p].misses = @ + 1] => Moves(p)
<1>. DEFINE n == Len(Targets[p])
<1>1. run[p] \in RunOf(n) /\ n \in Nat /\ run[p].misses \in Nat
  BY RunTyped, PlanFields DEF RunOf
<1>2. Stop(p) => Moves(p)
  BY <1>1, RunUpdates DEF Stop, Moves
<1>3. \A w \in Words : Pass(p, w) => Moves(p)
  BY <1>1, RunUpdates DEF Pass, Moves
<1>4. \A a \in RunAt : run' = [run EXCEPT ![p].at = a] => Moves(p)
  BY <1>1, RunUpdates DEF Moves
<1>5. run' = [run EXCEPT ![p].misses = 0] => Moves(p)
  BY <1>1, RunUpdates DEF Moves
<1>6. run' = [run EXCEPT ![p].misses = @ + 1] => Moves(p)
  <2>1. run[p].misses + 1 \in Nat
    BY <1>1
  <2>. QED BY <1>1, <2>1, RunUpdates DEF Moves
<1>. QED BY <1>2, <1>3, <1>4, <1>5, <1>6

(* The facts of the machines, as an approval names them.                    *)
LEMMA FactsTyped ==
  ASSUME TypeOK
  PROVE  [m \in Machines |-> FactsOf(m)] \in [Machines -> Facts]
BY DEF TypeOK, FactsOf, Facts, Process

(* The steps of a run change that run alone.                                 *)
RunSteps(p) ==
  Consume(p) \/ Check(p) \/ ReplyLost(p) \/ Poll(p) \/ PollMisses(p) \/ BootTimeout(p) \/ Verify(p)

(* The steps of a run move it and leave apps, jobs and calls alone.         *)
LEMMA RunStepsMove ==
  ASSUME TypeOK, NEW p \in Plans, RunSteps(p)
  PROVE  Moves(p) /\ UNCHANGED <<app, job, call>> /\ mishaps' \in Nat
<1>0. mishaps \in Nat /\ RunAt = RunAt
  BY DEF TypeOK
<1>1. CASE Consume(p)
  <2>1. run[p] \in RunOf(Len(Targets[p])) /\ Len(Targets[p]) \in Nat
    BY RunTyped, PlanFields
  <2>2. Moves(p)
    BY <1>1, <2>1, FactsTyped, RunUpdates DEF Consume, Moves
  <2>. QED BY <1>0, <1>1, <2>2 DEF Consume
<1>2. CASE Check(p)
  BY <1>0, <1>2, EndsMove DEF Check, RunAt
<1>3. CASE ReplyLost(p)
  BY <1>0, <1>3, EndsMove DEF ReplyLost, Mishap
<1>4. CASE Poll(p)
  BY <1>0, <1>4, EndsMove DEF Poll, RunAt
<1>5. CASE PollMisses(p)
  BY <1>0, <1>5, EndsMove DEF PollMisses
<1>6. CASE BootTimeout(p)
  BY <1>0, <1>6, EndsMove DEF BootTimeout
<1>7. CASE Verify(p)
  BY <1>0, <1>7, EndsMove DEF Verify, Words
<1>. QED BY <1>1, <1>2, <1>3, <1>4, <1>5, <1>6, <1>7 DEF RunSteps

(* An answer frees the call and may move the run it belongs to.              *)
LEMMA AnswerMoves ==
  ASSUME TypeOK, NEW c \in Calls, call[c] # Idle, NEW ok \in BOOLEAN, Answered(c, ok)
  PROVE  /\ call' = [call EXCEPT ![c] = Idle]
         /\ call[c].job \in Jobs /\ call[c].job[1] \in Plans
         /\ Moves(call[c].job[1]) \/ UNCHANGED run
<1>1. call[c] \in Call
  BY DEF TypeOK
<1>2. call[c].job \in Jobs /\ call[c].job[1] \in Plans
  BY <1>1, JobParts DEF Call
<1>. QED BY <1>2, EndsMove DEF Answered, Words, RunAt

(* A call that is under way has a job.                                      *)
LEMMA BusyCall ==
  ASSUME TypeOK, NEW c \in Calls,
         call[c].at \in {"asked", "judged", "writing", "made"} \/ call[c] # Idle
  PROVE  /\ call[c] # Idle /\ call[c] \in Call
         /\ call[c].job \in Jobs /\ call[c].job[1] \in Plans /\ call[c].job[2] \in Machines
<1>1. call[c] \in Call /\ call[c] # Idle
  BY DEF TypeOK, Idle
<1>. QED BY <1>1, JobParts DEF Call

(* What the steps make of the files of a job.                               *)
LEMMA JobUpdates ==
  ASSUME NEW q \in Job
  PROVE  /\ \A r \in {"none", "torn", "made"} : [q EXCEPT !.record = r] \in Job
         /\ \A n \in Nat : [q EXCEPT !.record = "torn", !.old = n] \in Job
         /\ [q EXCEPT !.helper = "spawned", !.spawned = @ + 1] \in Job
         /\ [q EXCEPT !.young = FALSE] \in Job
         /\ \A w \in States : [q EXCEPT !.state = Fold(@, w)] \in Job
         /\ \A w \in States, h \in Helpers : [q EXCEPT !.state = Fold(@, w), !.helper = h] \in Job
<1>1. q.state \in States /\ q.spawned + 1 \in Nat
  BY DEF Job
<1>2. \A w \in States : Fold(q.state, w) \in States
  BY <1>1, FoldFacts
<1>. QED BY <1>1, <1>2 DEF Job, Helpers

(* What the steps make of an app.                                           *)
LEMMA ProcessUpdates ==
  ASSUME NEW a \in Process
  PROVE  /\ Ended(a) \in Process /\ Installed(a) \in Process /\ Ended(Installed(a)) \in Process
         /\ \A p \in Plans : [a EXCEPT !.leaving = @ \ {p}] \in Process
         /\ \A p \in Plans : [a EXCEPT !.leaving = @ \cup {p}] \in Process
         /\ [a EXCEPT !.booting = FALSE] \in Process /\ [a EXCEPT !.opening = TRUE] \in Process
         /\ [a EXCEPT !.pending = TRUE] \in Process
         /\ \A i, n \in Nat, b \in BOOLEAN :
              [a EXCEPT !.opening = FALSE, !.pid = i, !.last = n, !.booting = b] \in Process
<1>1. /\ a.pid \in Nat /\ a.last \in Nat /\ a.build \in Nat /\ a.pending \in BOOLEAN
      /\ a.booting \in BOOLEAN /\ a.opening \in BOOLEAN /\ a.leaving \in SUBSET Plans
  BY DEF Process
<1>2. a.build + 1 \in Nat
  BY <1>1
<1>3. [a EXCEPT !.build = @ + 1, !.pending = FALSE] \in Process
  BY <1>2 DEF Process
<1>4. Installed(a) \in Process
  BY <1>3 DEF Installed
<1>5. \A b \in Process : Ended(b) \in Process
  BY DEF Process, Ended
<1>6. \A p \in Plans : [a EXCEPT !.leaving = @ \ {p}] \in Process
  BY <1>1 DEF Process
<1>7. \A p \in Plans : [a EXCEPT !.leaving = @ \cup {p}] \in Process
  BY <1>1 DEF Process
<1>8. /\ [a EXCEPT !.booting = FALSE] \in Process /\ [a EXCEPT !.opening = TRUE] \in Process
      /\ [a EXCEPT !.pending = TRUE] \in Process
  BY DEF Process
<1>9. \A i, n \in Nat, b \in BOOLEAN :
        [a EXCEPT !.opening = FALSE, !.pid = i, !.last = n, !.booting = b] \in Process
  BY DEF Process
<1>. QED BY <1>4, <1>5, <1>6, <1>7, <1>8, <1>9

(* What a judged call may do, with its answer left open.                     *)
TargetSteps(c) == Judge(c) \/ CreateRecord(c) \/ WriteRecord(c) \/ Spawn(c)

HelperSteps(j) ==
  \/ HelperStarts(j) \/ AppGone(j) \/ ExitTimeout(j) \/ OtherRuns(j)
  \/ Launch(j) \/ LaunchFails(j) \/ SeesApp(j) \/ LookTimeout(j)

Outside(m) == MarkBooted(m) \/ AppStarts(m) \/ Open(m) \/ Quit(m) \/ NewBuild(m)

(* The first state is well formed.                                          *)
LEMMA InitTyped == Init => TypeOK
<1>. SUFFICES ASSUME Init PROVE TypeOK
  OBVIOUS
<1>1. app \in [Machines -> Process]
  BY DEF Init, Process
<1>2. Forward[1] = "accepted" /\ 1 \in DOMAIN Forward
  BY DEF Forward
<1>3. job \in [Jobs -> Job]
  BY <1>2 DEF Init, Job, States, Helpers
<1>4. ASSUME NEW p \in Plans
      PROVE  run[p] \in RunOf(Len(Targets[p]))
  <2>1. Len(Targets[p]) \in Nat \ {0}
    BY PlanFields
  <2>2. 1 \in 1 .. Len(Targets[p])
    BY <2>1
  <2>. QED BY <2>1, <2>2 DEF Init, RunOf, RunAt, Words, Facts
<1>5. \A p \in Plans : /\ run[p] \in Run /\ run[p].k \in 1 .. Len(Targets[p])
                       /\ Len(run[p].out) = Len(Targets[p])
  BY <1>4, RunsTyped
<1>6. run \in [Plans -> Run]
  BY <1>5 DEF Init
<1>. QED BY <1>1, <1>3, <1>5, <1>6 DEF Init, TypeOK

(* Steps of a call at its target keep the types.                            *)
LEMMA TargetTyped ==
  ASSUME TypeOK, NEW c \in Calls, TargetSteps(c)
  PROVE  TypeOK'
<1>1. call[c].at \in {"asked", "judged", "writing", "made"}
  BY DEF TargetSteps, Judge, CreateRecord, WriteRecord, Spawn
<1>. DEFINE j == call[c].job
<1>2. call[c] # Idle /\ call[c] \in Call /\ j \in Jobs /\ j[1] \in Plans /\ j[2] \in Machines
  BY <1>1, BusyCall
<1>3. ASSUME NEW ok \in BOOLEAN, Answered(c, ok)
      PROVE  call' \in [Calls -> Call \cup {Idle}] /\ RunsOk(run')
  <2>1. call' = [call EXCEPT ![c] = Idle] /\ (Moves(j[1]) \/ UNCHANGED run)
    BY <1>2, <1>3, AnswerMoves
  <2>2. RunsOk(run')
    BY <1>2, <2>1, MoveTyped DEF TypeOK, RunsOk
  <2>. QED BY <2>1, <2>2 DEF TypeOK
<1>4. CASE Judge(c)
  <2>1. [call[c] EXCEPT !.at = "judged"] \in Call
    BY <1>2 DEF Call
  <2>. QED BY <1>3, <1>4, <2>1 DEF Judge, TypeOK, RunsOk
<1>5. CASE CreateRecord(c)
  <2>1. job[j] \in Job /\ run[j[1]].named[j[2]][1] \in Nat
    BY <1>2 DEF TypeOK, Run, Facts
  <2>2. [job[j] EXCEPT !.record = "torn", !.old = run[j[1]].named[j[2]][1]] \in Job
    BY <2>1, JobUpdates
  <2>3. [call[c] EXCEPT !.at = "writing"] \in Call
    BY <1>2 DEF Call
  <2>4. job[j].record \in {"none", "torn", "made"}
    BY <2>1 DEF Job
  <2>. QED BY <1>2, <1>3, <1>5, <2>2, <2>3, <2>4 DEF CreateRecord, TypeOK, RunsOk
<1>6. CASE WriteRecord(c)
  <2>1. [job[j] EXCEPT !.record = "made"] \in Job
    BY <1>2, JobUpdates DEF TypeOK
  <2>2. [call[c] EXCEPT !.at = "made"] \in Call
    BY <1>2 DEF Call
  <2>. QED BY <1>2, <1>6, <2>1, <2>2 DEF WriteRecord, TypeOK
<1>7. CASE Spawn(c)
  <2>1. [job[j] EXCEPT !.helper = "spawned", !.spawned = @ + 1] \in Job
    BY <1>2, JobUpdates DEF TypeOK
  <2>2. [app[j[2]] EXCEPT !.leaving = @ \cup {j[1]}] \in Process
    BY <1>2, ProcessUpdates DEF TypeOK
  <2>0. \/ /\ job' = [job EXCEPT ![j] = [job[j] EXCEPT !.helper = "spawned", !.spawned = job[j].spawned + 1]]
           /\ app' = [app EXCEPT ![j[2]] = [app[j[2]] EXCEPT !.leaving = app[j[2]].leaving \cup {j[1]}]]
           /\ Answered(c, TRUE) /\ UNCHANGED mishaps
        \/ Mishap /\ Answered(c, FALSE) /\ UNCHANGED <<app, job>>
    BY <1>7 DEF Spawn
  <2>. HIDE DEF j
  <2>3. call' \in [Calls -> Call \cup {Idle}] /\ RunsOk(run')
    BY <1>3, <2>0
  <2>5. mishaps' \in Nat
    <3>1. mishaps \in Nat
      BY DEF TypeOK
    <3>2. Mishap \/ UNCHANGED mishaps
      BY <2>0
    <3>. QED BY <3>1, <3>2 DEF Mishap
  <2>4. job' \in [Jobs -> Job] /\ app' \in [Machines -> Process]
    BY <1>2, <2>0, <2>1, <2>2 DEF TypeOK
  <2>. QED BY <2>3, <2>4, <2>5 DEF TypeOK, RunsOk
<1>. QED BY <1>4, <1>5, <1>6, <1>7 DEF TargetSteps

(* Steps of a helper keep the types.                                        *)
LEMMA HelperTyped ==
  ASSUME TypeOK, NEW j \in Jobs, HelperSteps(j)
  PROVE  TypeOK'
<1>1. j[2] \in Machines /\ job[j] \in Job
  BY JobParts DEF TypeOK
<1>2. ASSUME NEW w \in States, NEW h \in Helpers, NEW f, Helper(j, f, h, w)
      PROVE  job' \in [Jobs -> Job] /\ UNCHANGED <<call, run>>
  BY <1>1, <1>2, JobUpdates DEF Helper, TypeOK
<1>3. {"waiting", "alone", "looking", "done"} \subseteq Helpers
  BY DEF Helpers
<1>4. job' \in [Jobs -> Job] /\ UNCHANGED <<call, run>>
  BY <1>2, <1>3, EventWords DEF HelperSteps, HelperStarts, AppGone, ExitTimeout, OtherRuns,
     Launch, LaunchFails, SeesApp, LookTimeout
<1>5. [app[j[2]] EXCEPT !.opening = TRUE] \in Process
  BY <1>1, ProcessUpdates DEF TypeOK
<1>6. app' \in [Machines -> Process] /\ mishaps' \in Nat
  BY <1>1, <1>5 DEF TypeOK, Mishap, HelperSteps, HelperStarts, AppGone, ExitTimeout, OtherRuns,
     Launch, LaunchFails, SeesApp, LookTimeout
<1>. QED BY <1>4, <1>6 DEF TypeOK

(* Steps of an app, the system and persons keep the types.                  *)
LEMMA OutsideTyped ==
  ASSUME TypeOK, NEW m \in Machines, Outside(m)
  PROVE  TypeOK'
<1>1. app[m] \in Process /\ app[m].last \in Nat /\ app[m].pid \in Nat
      /\ app[m].booting \in BOOLEAN
  BY DEF TypeOK, Process
<1>2. call' \in [Calls -> Call \cup {Idle}] /\ UNCHANGED run /\ mishaps' \in Nat
  <2>1. call' \in [Calls -> Call \cup {Idle}]
    BY DEF TypeOK, Outside, MarkBooted, AppStarts, Open, Quit, NewBuild, CallsLeft
  <2>2. UNCHANGED run /\ (Mishap \/ UNCHANGED mishaps)
    BY DEF Outside, MarkBooted, AppStarts, Open, Quit, NewBuild
  <2>. QED BY <2>1, <2>2 DEF TypeOK, Mishap
<1>3. job' \in [Jobs -> Job]
  <2>1. ASSUME MarkBooted(m), NEW p \in Active(m), job' = Appended(<<p, m>>, "booted")
        PROVE  job' \in [Jobs -> Job]
    <3>1. <<p, m>> \in Jobs /\ job[<<p, m>>] \in Job
      BY <2>1 DEF Active, TypeOK
    <3>. QED BY <2>1, <3>1, JobUpdates, EventWords DEF TypeOK, Appended
  <2>. QED BY <2>1 DEF TypeOK, Outside, MarkBooted, AppStarts, Open, Quit, NewBuild
<1>4. app' \in [Machines -> Process]
  <2>1. CASE AppStarts(m)
    <3>. DEFINE i == IF Up(m) THEN app[m].pid ELSE app[m].last + 1
                n == IF Up(m) THEN app[m].last ELSE app[m].last + 1
                b == IF Up(m) THEN app[m].booting ELSE TRUE
    <3>1. i \in Nat /\ n \in Nat
      BY <1>1
    <3>4. b \in BOOLEAN
      BY <1>1, Zenon
    <3>2. app' = [app EXCEPT ![m] = [@ EXCEPT !.opening = FALSE, !.pid = i, !.last = n, !.booting = b]]
      BY <2>1 DEF AppStarts, TypeOK
    <3>3. [app[m] EXCEPT !.opening = FALSE, !.pid = i, !.last = n, !.booting = b] \in Process
      BY <1>1, <3>1, <3>4, ProcessUpdates
    <3>. HIDE DEF i, n, b
    <3>. QED BY <3>2, <3>3 DEF TypeOK
  <2>2. CASE Quit(m)
    BY <1>1, <2>2, ProcessUpdates DEF Quit, TypeOK
  <2>3. CASE MarkBooted(m) \/ Open(m) \/ NewBuild(m)
    BY <1>1, <2>3, ProcessUpdates DEF MarkBooted, Open, NewBuild, TypeOK
  <2>. QED BY <2>1, <2>2, <2>3 DEF Outside
<1>. QED BY <1>2, <1>3, <1>4 DEF TypeOK

(* The exit of an app, or its refusal, keeps the types.                     *)
LEMMA ExitTyped ==
  ASSUME TypeOK, NEW m \in Machines, NEW p \in Plans, HandleExit(m, p)
  PROVE  TypeOK'
<1>1. app[m] \in Process /\ "failed" \in States
  BY DEF TypeOK, States, Terminal
<1>2. Appended(<<p, m>>, "failed") \in [Jobs -> Job]
  <2>1. CASE <<p, m>> \in Jobs
    <3>1. [job[<<p, m>>] EXCEPT !.state = Fold(@, "failed")] \in Job
      BY <1>1, <2>1, JobUpdates DEF TypeOK
    <3>. QED BY <2>1, <3>1 DEF TypeOK, Appended
  <2>2. CASE <<p, m>> \notin Jobs
    BY <2>2 DEF TypeOK, Appended
  <2>. QED BY <2>1, <2>2
<1>3. app' \in [Machines -> Process]
  <2>1. [app[m] EXCEPT !.leaving = @ \ {p}] \in Process /\ Ended(app[m]) \in Process
    BY <1>1, ProcessUpdates
  <2>. QED BY <2>1 DEF HandleExit, TypeOK
<1>. QED BY <1>2, <1>3 DEF HandleExit, TypeOK, CallsLeft

(* A request that is sent, or comes again, keeps the types.                 *)
LEMMA OthersTyped ==
  ASSUME TypeOK, NEW c \in Calls,
         (\E p \in Plans : Start(p, c)) \/ (\E j \in Jobs : Resend(j, c))
  PROVE  TypeOK'
<1>1. CASE \E p \in Plans : Start(p, c)
  <2>1. PICK p \in Plans : Start(p, c)
    BY <1>1
  <2>. DEFINE m == Target(p)
  <2>2. run[p] \in RunOf(Len(Targets[p])) /\ Len(Targets[p]) \in Nat
    BY RunTyped, PlanFields
  <2>3. m \in Machines /\ <<p, m>> \in Jobs
    BY <2>2, PlanFields DEF Target, RunOf
  <2>4. Request(p, m, TRUE) \in Call
    BY <2>3 DEF Request, Call
  <2>5. Moves(p)
    <3>1. CASE run' = [run EXCEPT ![p] = [run[p] EXCEPT !.at = "starting", !.sent = run[p].sent \cup {m}]]
      <4>1. [run[p] EXCEPT !.at = "starting", !.sent = @ \cup {m}] \in RunOf(Len(Targets[p]))
        BY <2>2, <2>3, RunUpdates
      <4>. QED BY <3>1, <4>1 DEF Moves
    <3>. QED BY <2>1, <3>1, EndsMove DEF Start
  <2>6. RunsOk(run')
    BY <2>5, MoveTyped
  <2>. QED BY <2>1, <2>4, <2>6 DEF Start, TypeOK, RunsOk
<1>2. CASE \E j \in Jobs : Resend(j, c)
  <2>1. PICK j \in Jobs : Resend(j, c)
    BY <1>2
  <2>2. Request(j[1], j[2], FALSE) \in Call
    BY JobParts DEF Request, Call
  <2>3. call' \in [Calls -> Call \cup {Idle}]
    BY <2>1, <2>2 DEF Resend, TypeOK
  <2>4. mishaps' \in Nat
    BY <2>1 DEF Resend, Mishap, TypeOK
  <2>. QED BY <2>1, <2>3, <2>4 DEF Resend, TypeOK
<1>. QED BY <1>1, <1>2

(* The steps of Next, sorted by who takes them.                              *)
LEMMA NextSorted ==
  Next <=> \/ \E p \in Plans : RunSteps(p) \/ \E c \in Calls : Start(p, c)
           \/ \E m \in Machines : Outside(m) \/ \E p \in Plans : HandleExit(m, p)
           \/ \E c \in Calls : TargetSteps(c)
           \/ \E j \in Jobs : HelperSteps(j) \/ HourPasses(j) \/ \E c \in Calls : Resend(j, c)
BY DEF Next, RunSteps, Outside, TargetSteps, HelperSteps

(* Every variable keeps its type.                                            *)
THEOREM TypeCorrect == Spec => []TypeOK
<1>1. ASSUME TypeOK, NEW p \in Plans, RunSteps(p)
      PROVE  TypeOK'
  BY <1>1, RunStepsMove, MoveTyped DEF TypeOK, RunsOk
<1>2. ASSUME TypeOK, NEW j \in Jobs, HourPasses(j)
      PROVE  TypeOK'
  <2>1. [job[j] EXCEPT !.young = FALSE] \in Job
    BY <1>2, JobUpdates DEF TypeOK
  <2>. QED BY <1>2, <2>1 DEF HourPasses, Mishap, TypeOK
<1>3. TypeOK /\ [Next]_vars => TypeOK'
  <2>1. TypeOK /\ UNCHANGED vars => TypeOK'
    BY DEF TypeOK, vars
  <2>. QED BY <1>1, <1>2, <2>1, TargetTyped, HelperTyped, OutsideTyped, ExitTyped, OthersTyped,
              NextSorted
<1>. QED BY <1>3, InitTyped, PTL DEF Spec

-----------------------------------------------------------------------------
(* What the steps do to the calls and to the jobs, told once.                *)

(* A call goes on only from the step before, and another is left as it is    *)
(* or ends.                                                                  *)
LEMMA CallsOnly ==
  ASSUME TypeOK, Next, NEW d \in Calls
  PROVE  \/ call'[d] = Idle
         \/ call'[d] = call[d]
         \/ TargetSteps(d) /\ call'[d].job = call[d].job /\ call[d] # Idle
         \/ /\ call[d] = Idle /\ call'[d].at = "asked"
            /\ \/ \E p \in Plans : Start(p, d) /\ call'[d].job = <<p, Target(p)>> /\ Reached(Target(p))
               \/ \E j \in Jobs : Resend(j, d) /\ call'[d].job = j
<1>0. call \in [Calls -> Call \cup {Idle}]
  BY DEF TypeOK
<1>1. ASSUME NEW p \in Plans, RunSteps(p)
      PROVE  call' = call
  BY <1>1, RunStepsMove
<1>2. ASSUME NEW p \in Plans, NEW c \in Calls, Start(p, c), call'[d] # call[d]
      PROVE  /\ c = d /\ call[d] = Idle /\ call'[d].at = "asked" /\ call'[d].job = <<p, Target(p)>>
             /\ Reached(Target(p))
  BY <1>0, <1>2 DEF Start, Request
<1>3. ASSUME NEW j \in Jobs, NEW c \in Calls, Resend(j, c), call'[d] # call[d]
      PROVE  c = d /\ call[d] = Idle /\ call'[d].at = "asked" /\ call'[d].job = j
  BY <1>0, <1>3, JobParts DEF Resend, Request
<1>4. ASSUME NEW c \in Calls, TargetSteps(c), call'[d] # call[d], call'[d] # Idle
      PROVE  c = d /\ call'[d].job = call[d].job /\ call[d] # Idle
  <2>1. call[c] # Idle /\ call[c] \in Call
    BY <1>4, BusyCall DEF TargetSteps, Judge, CreateRecord, WriteRecord, Spawn
  <2>2. Answered(c, TRUE) \/ Answered(c, FALSE) => call' = [call EXCEPT ![c] = Idle]
    BY DEF Answered
  <2>3. \/ call' = [call EXCEPT ![c] = Idle]
        \/ \E a \in {"judged", "writing", "made"} : call' = [call EXCEPT ![c].at = a]
    <3>1. job[call[c].job] \in Job
      BY <2>1, BusyCall DEF TypeOK
    <3>2. job[call[c].job].record \in {"none", "torn", "made"}
      BY <3>1 DEF Job
    <3>. QED BY <1>4, <2>2, <3>2 DEF TargetSteps, Judge, CreateRecord, WriteRecord, Spawn
  <2>. QED BY <1>0, <1>4, <2>1, <2>3 DEF Call
<1>5. ASSUME NEW m \in Machines, Outside(m) \/ (\E p \in Plans : HandleExit(m, p))
      PROVE  call'[d] \in {call[d], Idle}
  BY <1>5 DEF Outside, HandleExit, MarkBooted, AppStarts, Open, Quit, NewBuild, CallsLeft
<1>6. ASSUME NEW j \in Jobs, HelperSteps(j) \/ HourPasses(j)
      PROVE  call' = call
  BY <1>6 DEF HelperSteps, HourPasses, Helper, HelperStarts, AppGone, ExitTimeout, OtherRuns,
     Launch, LaunchFails, SeesApp, LookTimeout
<1>. QED BY <1>1, <1>2, <1>3, <1>4, <1>5, <1>6, NextSorted

(* A job changes by a call that creates, writes or spawns it, by an event or *)
(* by its helper.                                                            *)
JobWrites(j) ==
  LET was == job[j]
      is  == job'[j]
  IN \/ is = was
     \/ /\ \E c \in Calls : CreateRecord(c) /\ call[c].job = j /\ call'[c].at = "writing"
        /\ was.record = "none"
        /\ is = [was EXCEPT !.record = "torn", !.old = run[j[1]].named[j[2]][1]]
     \/ /\ \E c \in Calls : WriteRecord(c) /\ call[c].job = j
        /\ is = [was EXCEPT !.record = "made"]
     \/ /\ \E c \in Calls : Spawn(c) /\ call[c].job = j /\ call'[c] = Idle
        /\ is = [was EXCEPT !.helper = "spawned", !.spawned = was.spawned + 1]
     \/ is = [was EXCEPT !.young = FALSE]
     \/ is = [was EXCEPT !.state = Fold(was.state, "failed")]
     \/ /\ is = [was EXCEPT !.state = Fold(was.state, "booted")]
        /\ was.record = "made" /\ app[j[2]].pid # was.old /\ Up(j[2]) /\ app'[j[2]].pid = app[j[2]].pid
        /\ app'[j[2]].last = app[j[2]].last
     \/ HelperSteps(j) /\ \E w \in States, h \in Helpers :
          is = [was EXCEPT !.state = Fold(was.state, w), !.helper = h]

(* Nothing else changes a job.                                              *)
LEMMA JobsOnly ==
  ASSUME TypeOK, Next, NEW j \in Jobs
  PROVE  JobWrites(j)
<1>0. job \in [Jobs -> Job] /\ call \in [Calls -> Call \cup {Idle}] /\ job[j] \in Job
      /\ app \in [Machines -> Process]
  BY DEF TypeOK
<1>1. ASSUME job'[j] = job[j]
      PROVE  JobWrites(j)
  BY <1>1 DEF JobWrites
<1>2. ASSUME NEW p \in Plans, RunSteps(p)
      PROVE  JobWrites(j)
  BY <1>1, <1>2, RunStepsMove
<1>3. ASSUME NEW c \in Calls, (\E p \in Plans : Start(p, c)) \/ (\E k \in Jobs : Resend(k, c))
      PROVE  JobWrites(j)
  BY <1>1, <1>3 DEF Start, Resend
<1>4. ASSUME NEW c \in Calls, TargetSteps(c), job'[j] # job[j]
      PROVE  JobWrites(j)
  <2>1. call[c] # Idle /\ call[c] \in Call /\ call[c].job \in Jobs
    BY <1>4, BusyCall DEF TargetSteps, Judge, CreateRecord, WriteRecord, Spawn
  <2>2. CASE CreateRecord(c)
    <3>1. job[call[c].job].record = "none" /\ call[c].job = j
      BY <1>0, <1>4, <2>1, <2>2 DEF CreateRecord, Job
    <3>2. job'[j] = [job[j] EXCEPT !.record = "torn", !.old = run[j[1]].named[j[2]][1]]
      BY <1>0, <2>2, <3>1 DEF CreateRecord
    <3>3. call'[c].at = "writing"
      BY <1>0, <2>1, <2>2, <3>1 DEF CreateRecord, Call
    <3>. QED BY <2>2, <3>1, <3>2, <3>3 DEF JobWrites
  <2>3. CASE WriteRecord(c)
    <3>1. call[c].job = j /\ job'[j] = [job[j] EXCEPT !.record = "made"]
      BY <1>0, <1>4, <2>1, <2>3 DEF WriteRecord
    <3>. QED BY <2>3, <3>1 DEF JobWrites
  <2>4. CASE Spawn(c)
    <3>1. call[c].job = j
      BY <1>0, <1>4, <2>1, <2>4 DEF Spawn
    <3>2. job'[j] = [job[j] EXCEPT !.helper = "spawned", !.spawned = job[j].spawned + 1]
      BY <1>0, <1>4, <2>4, <3>1 DEF Spawn
    <3>3. call'[c] = Idle
      BY <1>0, <2>4 DEF Spawn, Answered
    <3>. QED BY <2>4, <3>1, <3>2, <3>3 DEF JobWrites
  <2>. QED BY <1>4, <2>2, <2>3, <2>4 DEF TargetSteps, Judge
<1>5. ASSUME NEW k \in Jobs, HourPasses(k), job'[j] # job[j]
      PROVE  JobWrites(j)
  <2>1. job'[j] = [job[j] EXCEPT !.young = FALSE]
    BY <1>0, <1>5 DEF HourPasses
  <2>. QED BY <2>1 DEF JobWrites
<1>6. ASSUME NEW m \in Machines, NEW p \in Plans, HandleExit(m, p), job'[j] # job[j]
      PROVE  JobWrites(j)
  <2>1. job'[j] = [job[j] EXCEPT !.state = Fold(job[j].state, "failed")]
    BY <1>0, <1>6 DEF HandleExit, Appended
  <2>. QED BY <2>1 DEF JobWrites
<1>7. ASSUME NEW m \in Machines, Outside(m), job'[j] # job[j]
      PROVE  JobWrites(j)
  <2>1. MarkBooted(m) /\ Active(m) # {}
    BY <1>7 DEF Outside, MarkBooted, AppStarts, Open, Quit, NewBuild
  <2>2. PICK p \in Active(m) : job' = IF Arrived(m, p) THEN Appended(<<p, m>>, "booted") ELSE job
    BY <2>1 DEF MarkBooted
  <2>3. Arrived(m, p) /\ job' = Appended(<<p, m>>, "booted")
    BY <1>7, <2>2
  <2>4. j = <<p, m>> /\ job'[j] = [job[j] EXCEPT !.state = Fold(job[j].state, "booted")]
    BY <1>0, <1>7, <2>3 DEF Appended
  <2>5. job[j].record = "made" /\ app[m].pid # job[j].old /\ j[2] = m
    BY <2>2, <2>3, <2>4 DEF Active, Arrived
  <2>6. Up(m) /\ app'[m].pid = app[m].pid /\ app'[m].last = app[m].last
    BY <1>0, <2>1 DEF MarkBooted
  <2>. QED BY <2>4, <2>5, <2>6 DEF JobWrites
<1>8. ASSUME NEW k \in Jobs, HelperSteps(k), job'[j] # job[j]
      PROVE  JobWrites(j)
  <2>1. \E w \in States, h \in Helpers :
          job' = [job EXCEPT ![k].state = Fold(@, w), ![k].helper = h]
    BY <1>8, EventWords DEF HelperSteps, Helper, HelperStarts, AppGone, ExitTimeout, OtherRuns,
       Launch, LaunchFails, SeesApp, LookTimeout, Helpers
  <2>2. PICK w \in States, h \in Helpers :
          job' = [job EXCEPT ![k].state = Fold(@, w), ![k].helper = h]
    BY <2>1
  <2>3. k = j
    BY <1>0, <1>8, <2>2
  <2>4. job'[j] = [job[j] EXCEPT !.state = Fold(job[j].state, w), !.helper = h]
    BY <1>0, <2>2, <2>3
  <2>. QED BY <1>8, <2>3, <2>4 DEF JobWrites
<1>. QED BY <1>1, <1>2, <1>3, <1>4, <1>5, <1>6, <1>7, <1>8, NextSorted

(* What a step of a call at its target does to that call and to its job.     *)
LEMMA TargetEffects ==
  ASSUME TypeOK, NEW c \in Calls, TargetSteps(c)
  PROVE  /\ \A d \in Calls \ {c} : call'[d] = call[d]
         /\ Judge(c) => call'[c].at \in {"idle", "judged"}
         /\ CreateRecord(c) => \/ call'[c].at = "idle"
                               \/ /\ call'[c].at = "writing" /\ job[call[c].job].record = "none"
                                  /\ job'[call[c].job].record = "torn"
         /\ WriteRecord(c) => /\ call[c].at = "writing" /\ call'[c].at = "made"
                              /\ job'[call[c].job] = [job[call[c].job] EXCEPT !.record = "made"]
         /\ Spawn(c) => call[c].at = "made" /\ call'[c].at = "idle"
<1>0. /\ call \in [Calls -> Call \cup {Idle}] /\ job \in [Jobs -> Job]
      /\ call[c] \in Call /\ call[c].job \in Jobs /\ job[call[c].job] \in Job
  BY BusyCall DEF TargetSteps, Judge, CreateRecord, WriteRecord, Spawn, TypeOK
<1>1. Answered(c, TRUE) \/ Answered(c, FALSE) =>
        call'[c].at = "idle" /\ \A d \in Calls \ {c} : call'[d] = call[d]
  BY <1>0 DEF Answered, Idle
<1>2. \A a \in {"judged", "writing", "made"} : call' = [call EXCEPT ![c].at = a] =>
        call'[c].at = a /\ \A d \in Calls \ {c} : call'[d] = call[d]
  BY <1>0 DEF Call
<1>3. Judge(c) => call'[c].at \in {"idle", "judged"} /\ \A d \in Calls \ {c} : call'[d] = call[d]
  BY <1>1, <1>2 DEF Judge
<1>4. CreateRecord(c) =>
        /\ \A d \in Calls \ {c} : call'[d] = call[d]
        /\ \/ call'[c].at = "idle"
           \/ /\ call'[c].at = "writing" /\ job[call[c].job].record = "none"
              /\ job'[call[c].job].record = "torn"
  <2>1. job[call[c].job].record \in {"none", "torn", "made"}
    BY <1>0 DEF Job
  <2>2. ASSUME CreateRecord(c), job[call[c].job].record = "none"
        PROVE  /\ call' = [call EXCEPT ![c].at = "writing"] /\ job'[call[c].job].record = "torn"
    BY <1>0, <2>2 DEF CreateRecord, Job
  <2>3. CreateRecord(c) /\ job[call[c].job].record # "none" =>
          Answered(c, TRUE) \/ Answered(c, FALSE)
    BY <2>1 DEF CreateRecord
  <2>. QED BY <1>1, <1>2, <2>2, <2>3
<1>5. WriteRecord(c) => /\ call[c].at = "writing" /\ call'[c].at = "made"
                        /\ \A d \in Calls \ {c} : call'[d] = call[d]
                        /\ job'[call[c].job] = [job[call[c].job] EXCEPT !.record = "made"]
  BY <1>0, <1>2 DEF WriteRecord
<1>6. Spawn(c) => /\ call[c].at = "made" /\ call'[c].at = "idle"
                  /\ \A d \in Calls \ {c} : call'[d] = call[d]
  BY <1>1 DEF Spawn
<1>. QED BY <1>3, <1>4, <1>5, <1>6 DEF TargetSteps

-----------------------------------------------------------------------------
(* One helper.  A record is created once, by a call that alone holds it      *)
(* until the helper is spawned.                                              *)

Made == {"writing", "made"}

OneMaker ==
  /\ \A j \in Jobs : /\ job[j].spawned <= 1
                     /\ job[j].record # "made" => job[j].spawned = 0 /\ job[j].helper = "none"
  /\ \A c \in Calls : /\ call[c].at = "writing" => job[call[c].job].record = "torn"
                      /\ call[c].at = "made" => /\ job[call[c].job].record = "made"
                                                /\ job[call[c].job].spawned = 0
  /\ \A c, d \in Calls : c # d /\ call[c].at \in Made /\ call[d].at \in Made =>
       call[c].job # call[d].job

(* A helper that takes a step was spawned and has not ended.                *)
LEMMA HelperBusy ==
  ASSUME NEW j \in Jobs, HelperSteps(j)
  PROVE  job[j].helper \in {"spawned", "waiting", "alone", "looking"}
BY DEF HelperSteps, Helper, HelperStarts, AppGone, ExitTimeout, OtherRuns, Launch, LaunchFails,
       SeesApp, LookTimeout

(* Every step keeps it.                                                     *)
LEMMA OneMakerKept ==
  ASSUME TypeOK, OneMaker, [Next]_vars
  PROVE  OneMaker'
<1>0. CASE UNCHANGED vars
  BY <1>0 DEF OneMaker, vars
<1>1. CASE Next
  <2>1. ASSUME NEW j \in Jobs
        PROVE  /\ job'[j].spawned <= 1
               /\ job'[j].record # "made" => job'[j].spawned = 0 /\ job'[j].helper = "none"
    <3>1. JobWrites(j) /\ job[j] \in Job
      BY <1>1, JobsOnly DEF TypeOK
    <3>2. \A c \in Calls : Spawn(c) /\ call[c].job = j => job[j].record = "made" /\ job[j].spawned = 0
      BY DEF Spawn, OneMaker
    <3>3. HelperSteps(j) => job[j].record = "made"
      BY HelperBusy DEF OneMaker
    <3>4. /\ job[j].spawned <= 1 /\ job[j].spawned \in Nat
          /\ job[j].record # "made" => job[j].spawned = 0 /\ job[j].helper = "none"
      BY <3>1 DEF OneMaker, Job
    <3>5. CASE \E c \in Calls : Spawn(c) /\ call[c].job = j
      <4>1. job[j].record = "made" /\ job[j].spawned = 0
        BY <3>2, <3>5
      <4>2. job'[j].record = "made"
        BY <3>1, <4>1 DEF JobWrites, Job
      <4>3. job'[j].spawned \in {job[j].spawned, job[j].spawned + 1}
        BY <3>1 DEF JobWrites, Job
      <4>. QED BY <4>1, <4>2, <4>3
    <3>6. CASE ~\E c \in Calls : Spawn(c) /\ call[c].job = j
      BY <3>1, <3>3, <3>4, <3>6 DEF JobWrites, Job
    <3>. QED BY <3>5, <3>6
  <2>2. ASSUME NEW d \in Calls, call'[d].at \in Made
        PROVE  \/ call'[d] = call[d] /\ call[d] \in Call
               \/ CreateRecord(d) /\ call'[d].at = "writing" /\ call'[d].job = call[d].job
               \/ WriteRecord(d) /\ call'[d].at = "made" /\ call'[d].job = call[d].job
    <3>1. call'[d].at \notin {"idle", "asked", "judged"}
      BY <2>2 DEF Made
    <3>2. Idle.at = "idle" /\ (call'[d] = call[d] => call[d] \in Call)
      BY <3>1 DEF Idle, TypeOK
    <3>. QED BY <1>1, <3>1, <3>2, CallsOnly, TargetEffects DEF TargetSteps
  <2>3. ASSUME NEW d \in Calls, call'[d].at \in Made, call'[d] = call[d], call[d] \in Call
        PROVE  /\ call[d].at = "writing" => job'[call[d].job].record = "torn"
               /\ call[d].at = "made" => /\ job'[call[d].job].record = "made"
                                         /\ job'[call[d].job].spawned = 0
    <3>. DEFINE j == call[d].job
    <3>1. j \in Jobs /\ JobWrites(j) /\ job[j] \in Job
      BY <1>1, <2>3, JobsOnly DEF Call, TypeOK
    <3>2. ASSUME NEW c \in Calls, call[c].job = j, WriteRecord(c) \/ Spawn(c)
          PROVE  FALSE
      <4>1. call[c].at \in Made /\ call'[c].at # call[c].at
        BY <3>2, TargetEffects DEF TargetSteps, Made
      <4>. QED BY <2>3, <3>2, <4>1 DEF OneMaker
    <3>3. ASSUME NEW c \in Calls, call[c].job = j, job[j].record = "none"
          PROVE  FALSE
      BY <2>3, <3>3 DEF OneMaker, Made
    <3>. QED BY <2>3, <3>1, <3>2, <3>3 DEF JobWrites, OneMaker, Job
  <2>4. ASSUME NEW d \in Calls
        PROVE  /\ call'[d].at = "writing" => job'[call'[d].job].record = "torn"
               /\ call'[d].at = "made" => /\ job'[call'[d].job].record = "made"
                                          /\ job'[call'[d].job].spawned = 0
    <3>1. CASE CreateRecord(d)
      BY <3>1, <2>2, <2>3, TargetEffects DEF TargetSteps, Made
    <3>2. CASE WriteRecord(d)
      <4>1. call[d] \in Call /\ call[d].job \in Jobs /\ job[call[d].job] \in Job
        BY <3>2, BusyCall DEF WriteRecord, TypeOK
      <4>2. /\ call[d].at = "writing" /\ call'[d].at = "made"
            /\ job'[call[d].job] = [job[call[d].job] EXCEPT !.record = "made"]
        BY <3>2, TargetEffects DEF TargetSteps
      <4>3. call'[d].job = call[d].job
        BY <2>2, <3>2, <4>2 DEF Made
      <4>. QED BY <4>1, <4>2, <4>3 DEF OneMaker, Job
    <3>3. CASE ~CreateRecord(d) /\ ~WriteRecord(d)
      BY <2>2, <2>3, <3>3 DEF Made
    <3>. QED BY <3>1, <3>2, <3>3
  <2>5. ASSUME NEW c \in Calls, NEW d \in Calls, c # d,
               call'[c].at \in Made, call'[d].at \in Made, call'[c].job = call'[d].job
        PROVE  FALSE
    <3>1. ASSUME NEW x \in Calls, NEW y \in Calls, x # y, call'[x].at \in Made, call'[y].at \in Made,
                 call'[x].job = call'[y].job, CreateRecord(x) \/ WriteRecord(x)
          PROVE  FALSE
      <4>1. call'[y] = call[y] /\ call'[x].job = call[x].job
        BY <2>2, <3>1, TargetEffects DEF TargetSteps
      <4>2. CASE WriteRecord(x)
        <5>1. call[x].at \in Made /\ call[y].at \in Made /\ call[x].job = call[y].job
          BY <3>1, <4>1, <4>2, TargetEffects DEF TargetSteps, Made
        <5>. QED BY <3>1, <5>1 DEF OneMaker
      <4>3. CASE CreateRecord(x)
        <5>1. job[call[x].job].record = "none" /\ call[y].at \in Made /\ call[x].job = call[y].job
          BY <3>1, <4>1, <4>3, TargetEffects DEF TargetSteps, Made
        <5>. QED BY <5>1 DEF OneMaker, Made
      <4>. QED BY <3>1, <4>2, <4>3
    <3>2. CASE call'[c] = call[c] /\ call'[d] = call[d]
      BY <2>5, <3>2 DEF OneMaker
    <3>. QED BY <2>2, <2>5, <3>1, <3>2
  <2>. QED BY <2>1, <2>4, <2>5 DEF OneMaker
<1>. QED BY <1>0, <1>1

(* However often a request comes and whatever dies in between, a job gets   *)
(* one helper (create_job(), accept_restart()): only the call that created  *)
(* the record goes on to the helper.                                        *)
THEOREM HelperOnce == Spec => []OneHelper
<1>1. Init => OneMaker
  BY DEF Init, OneMaker, Idle, Made
<1>2. OneMaker => OneHelper
  BY DEF OneMaker, OneHelper
<1>. QED BY <1>1, <1>2, OneMakerKept, TypeCorrect, PTL DEF Spec

-----------------------------------------------------------------------------
(* Verdicts *)

(* Every way a helper ends writes the verdict of that way.                   *)
LEMMA HelperEnds ==
  ASSUME TypeOK, NEW j \in Jobs, HelperSteps(j), job'[j].helper = "done"
  PROVE  job'[j].state \in {"launched", "booted"} \cup Terminal
<1>1. job[j] \in Job /\ job \in [Jobs -> Job] /\ job[j].state \in States
  BY DEF TypeOK, Job
<1>2. \E w \in {"failed", "launched"} : job'[j].state = Fold(job[j].state, w)
  BY <1>1 DEF HelperSteps, Helper, HelperStarts, AppGone, ExitTimeout, OtherRuns, Launch,
     LaunchFails, SeesApp, LookTimeout, Job
<1>. QED BY <1>1, <1>2, FoldFacts, EventWords

(* Every step keeps the verdict of a helper that ended.                     *)
LEMMA VerdictKept ==
  ASSUME TypeOK, VerdictIsWritten, [Next]_vars
  PROVE  VerdictIsWritten'
<1>0. CASE UNCHANGED vars
  BY <1>0 DEF VerdictIsWritten, vars
<1>1. CASE Next
  <2>1. ASSUME NEW j \in Jobs, job'[j].helper = "done"
        PROVE  job'[j].state \in {"launched", "booted"} \cup Terminal
    <3>1. JobWrites(j) /\ job[j] \in Job /\ job[j].state \in States
      BY <1>1, JobsOnly DEF TypeOK, Job
    <3>2. CASE HelperSteps(j)
      BY <2>1, <3>2, HelperEnds
    <3>3. CASE ~HelperSteps(j)
      <4>1. job[j].helper = "done"
        BY <2>1, <3>1, <3>3 DEF JobWrites, Job
      <4>2. job'[j].state \in {job[j].state, Fold(job[j].state, "failed"), Fold(job[j].state, "booted")}
        BY <3>1, <3>3 DEF JobWrites, Job
      <4>. QED BY <3>1, <4>1, <4>2, FoldFacts, EventWords DEF VerdictIsWritten
    <3>. QED BY <3>2, <3>3
  <2>. QED BY <2>1 DEF VerdictIsWritten
<1>. QED BY <1>0, <1>1

(* A helper that ended has said how, whatever the new app wrote meanwhile   *)
(* (helper_script(), JobState::allows()).                                   *)
THEOREM Verdicts == Spec => []VerdictIsWritten
<1>1. Init => VerdictIsWritten
  BY DEF Init, VerdictIsWritten
<1>. QED BY <1>1, VerdictKept, TypeCorrect, PTL DEF Spec

-----------------------------------------------------------------------------
(* The order of the machines *)

(* What a run has sent reaches no further than the machine it is at, and     *)
(* every machine before that one was verified.                               *)
RunInOrder(r, p) ==
  /\ \A i \in 1 .. Len(Targets[p]) : i < r.k => r.out[i] = "verified"
  /\ \A m \in r.sent : \E i \in 1 .. r.k : m = Targets[p][i]

Ordered ==
  /\ \A p \in Plans : RunInOrder(run[p], p)
  /\ \A c \in Calls : call[c] # Idle => call[c].job[2] \in run[call[c].job[1]].sent
  /\ \A j \in Jobs : job[j].record # "none" => j[2] \in run[j[1]].sent

(* The ways a run goes on keep its order.                                   *)
LEMMA RunEnds ==
  ASSUME NEW p \in Plans, NEW r \in RunOf(Len(Targets[p])), RunInOrder(r, p)
  PROVE  /\ RunInOrder(StoppedRun(r, Len(Targets[p])), p)
         /\ StoppedRun(r, Len(Targets[p])).sent = r.sent
         /\ RunInOrder(PassedRun(r, Len(Targets[p]), "verified"), p)
         /\ Targets[p][r.k] = Controller => RunInOrder(PassedRun(r, Len(Targets[p]), "handed"), p)
         /\ \A w \in Words : PassedRun(r, Len(Targets[p]), w).sent = r.sent
         /\ \A a \in RunAt : RunInOrder([r EXCEPT !.at = a], p)
         /\ RunInOrder([r EXCEPT !.misses = 0], p) /\ RunInOrder([r EXCEPT !.misses = r.misses + 1], p)
<1>. DEFINE n == Len(Targets[p])
<1>1. n \in Nat \ {0} /\ r.k \in 1 .. n /\ r.out \in [1 .. n -> Words] /\ r.sent \subseteq Machines
  BY PlanFields DEF RunOf
<1>2. Targets[p][r.k] = Controller => r.k = n
  <2>1. \A i, k \in 1 .. n : i < k => Targets[p][i] # Controller
    BY RestartAssumption
  <2>2. n \in 1 .. n
    BY <1>1
  <2>. QED BY <1>1, <2>1, <2>2
<1>3. RunInOrder(StoppedRun(r, n), p) /\ StoppedRun(r, n).sent = r.sent
  <2>1. /\ StoppedRun(r, n).k = r.k /\ StoppedRun(r, n).sent = r.sent
        /\ \A i \in 1 .. n : i < r.k => StoppedRun(r, n).out[i] = r.out[i]
    BY <1>1 DEF StoppedRun, RunOf
  <2>. QED BY <2>1, <1>1 DEF RunInOrder
<1>4. ASSUME NEW w \in Words
      PROVE  /\ PassedRun(r, n, w).sent = r.sent
             /\ PassedRun(r, n, w).k = IF r.k < n THEN r.k + 1 ELSE r.k
             /\ PassedRun(r, n, w).out = [r.out EXCEPT ![r.k] = w]
  BY <1>1, <1>4 DEF PassedRun, RunOf
<1>5. "verified" \in Words /\ "handed" \in Words
  BY DEF Words
<1>6. \A m \in r.sent : \E i \in 1 .. r.k : m = Targets[p][i]
  BY DEF RunInOrder
<1>. HIDE DEF n
<1>7. RunInOrder(PassedRun(r, n, "verified"), p)
  <2>. DEFINE q == PassedRun(r, n, "verified")
  <2>1. q.sent = r.sent /\ q.k = (IF r.k < n THEN r.k + 1 ELSE r.k) /\ q.out = [r.out EXCEPT ![r.k] = "verified"]
    BY <1>4, <1>5
  <2>. HIDE DEF q
  <2>2. q.k \in r.k .. r.k + 1
    BY <1>1, <2>1
  <2>3. \A i \in 1 .. n : i < q.k => q.out[i] = "verified"
    <3>1. \A i \in 1 .. n : i < r.k => r.out[i] = "verified"
      BY DEF RunInOrder, n
    <3>. QED BY <1>1, <2>1, <2>2, <3>1
  <2>4. \A i \in 1 .. r.k : i \in 1 .. q.k
    BY <1>1, <2>2
  <2>5. RunInOrder(q, p)
    BY <1>6, <2>1, <2>3, <2>4 DEF RunInOrder, n
  <2>. QED BY <2>5 DEF q
<1>8. Targets[p][r.k] = Controller => RunInOrder(PassedRun(r, n, "handed"), p)
  <2>. DEFINE q == PassedRun(r, n, "handed")
  <2>0. q.sent = r.sent /\ q.k = (IF r.k < n THEN r.k + 1 ELSE r.k) /\ q.out = [r.out EXCEPT ![r.k] = "handed"]
    BY <1>4, <1>5
  <2>. HIDE DEF q
  <2>1. ASSUME Targets[p][r.k] = Controller
        PROVE  q.k = r.k /\ \A i \in 1 .. n : i < r.k => q.out[i] = r.out[i]
    BY <1>1, <1>2, <2>0, <2>1
  <2>2. ASSUME Targets[p][r.k] = Controller
        PROVE  RunInOrder(q, p)
    BY <1>6, <2>0, <2>1, <2>2 DEF RunInOrder, n
  <2>. QED BY <2>2 DEF q
<1>9. /\ \A a \in RunAt : RunInOrder([r EXCEPT !.at = a], p)
      /\ RunInOrder([r EXCEPT !.misses = 0], p) /\ RunInOrder([r EXCEPT !.misses = r.misses + 1], p)
  BY DEF RunInOrder, RunOf
<1>. QED BY <1>3, <1>4, <1>7, <1>8, <1>9 DEF n

(* What a step makes of a run.                                               *)
RunWrites(p) ==
  LET r == run[p]
      n == Len(Targets[p])
  IN \/ run'[p] = r
     \/ Consume(p) /\ run'[p] = [r EXCEPT !.at = "check", !.named = [m \in Machines |-> FactsOf(m)]]
     \/ /\ r.at # "new"
        /\ \/ run'[p] = StoppedRun(r, n)
           \/ run'[p] = PassedRun(r, n, "verified")
           \/ Target(p) = Controller /\ run'[p] = PassedRun(r, n, "handed")
           \/ \E a \in RunAt \ {"new"} : run'[p] = [r EXCEPT !.at = a]
           \/ run'[p] = [r EXCEPT !.misses = 0]
           \/ run'[p] = [r EXCEPT !.misses = r.misses + 1]
           \/ run'[p] = [r EXCEPT !.at = "starting", !.sent = r.sent \cup {Target(p)}]

(* Nothing else changes a run.                                              *)
LEMMA RunsOnly ==
  ASSUME TypeOK, Next, NEW p \in Plans
  PROVE  RunWrites(p)
<1>0. run \in [Plans -> Run]
  BY DEF TypeOK
<1>1. run'[p] = run[p] => RunWrites(p)
  BY DEF RunWrites
<1>2. ASSUME NEW q \in Plans, RunSteps(q), run'[p] # run[p]
      PROVE  RunWrites(p)
  <2>1. p = q
    BY <1>0, <1>2 DEF RunSteps, Consume, Check, ReplyLost, Poll, PollMisses, BootTimeout, Verify, Stop, Pass
  <2>2. CASE Consume(p)
    BY <1>0, <2>2 DEF Consume, RunWrites
  <2>3. CASE Check(p) \/ ReplyLost(p) \/ BootTimeout(p)
    BY <1>0, <2>3 DEF Check, ReplyLost, BootTimeout, RunWrites, RunAt, Stop
  <2>4. CASE Poll(p) \/ PollMisses(p)
    BY <1>0, <2>4 DEF Poll, PollMisses, RunWrites, RunAt, Stop
  <2>5. CASE Verify(p)
    BY <1>0, <2>5 DEF Verify, RunWrites, Stop, Pass
  <2>. QED BY <1>2, <2>1, <2>2, <2>3, <2>4, <2>5 DEF RunSteps
<1>3. ASSUME NEW q \in Plans, NEW c \in Calls, Start(q, c), run'[p] # run[p]
      PROVE  RunWrites(p)
  <2>1. p = q
    BY <1>0, <1>3 DEF Start, Stop
  <2>. QED BY <1>0, <1>3, <2>1 DEF Start, Stop, RunWrites
<1>4. ASSUME NEW c \in Calls, TargetSteps(c), run'[p] # run[p]
      PROVE  RunWrites(p)
  <2>1. Answered(c, TRUE) \/ Answered(c, FALSE)
    <3>1. job[call[c].job].record \in {"none", "torn", "made"}
      BY <1>4, BusyCall DEF TargetSteps, Judge, CreateRecord, WriteRecord, Spawn, TypeOK, Job
    <3>. QED BY <1>4, <3>1 DEF TargetSteps, Judge, CreateRecord, WriteRecord, Spawn
  <2>2. p = call[c].job[1] /\ run[p].at = "starting"
    BY <1>0, <1>4, <2>1 DEF Answered, Stop, Pass
  <2>3. Stop(p) \/ (Target(p) = Controller /\ Pass(p, "handed")) \/ run' = [run EXCEPT ![p].at = "waiting"]
    BY <1>4, <2>1, <2>2 DEF Answered
  <2>4. "waiting" \in RunAt \ {"new"}
    BY DEF RunAt
  <2>. QED BY <1>0, <2>2, <2>3, <2>4 DEF Stop, Pass, RunWrites
<1>5. ASSUME NEW j \in Jobs, HelperSteps(j) \/ HourPasses(j) \/ \E c \in Calls : Resend(j, c)
      PROVE  run' = run
  BY <1>5 DEF HelperSteps, HourPasses, Resend, Helper, HelperStarts, AppGone, ExitTimeout, OtherRuns,
     Launch, LaunchFails, SeesApp, LookTimeout
<1>6. ASSUME NEW m \in Machines, Outside(m) \/ \E q \in Plans : HandleExit(m, q)
      PROVE  run' = run
  BY <1>6 DEF Outside, HandleExit, MarkBooted, AppStarts, Open, Quit, NewBuild
<1>. QED BY <1>1, <1>2, <1>3, <1>4, <1>5, <1>6, NextSorted

(* Every step keeps the order of a run, and what was sent stays sent.       *)
LEMMA RunsInOrder ==
  ASSUME TypeOK, Ordered, Next, NEW p \in Plans
  PROVE  RunInOrder(run'[p], p) /\ run[p].sent \subseteq run'[p].sent
<1>. DEFINE r == run[p]
            n == Len(Targets[p])
<1>1. r \in RunOf(n) /\ RunInOrder(r, p) /\ RunWrites(p) /\ r.k \in 1 .. n
  BY RunTyped, RunsOnly DEF Ordered, RunOf
<1>2. "verified" \in Words /\ "handed" \in Words
  BY DEF Words
<1>3. CASE run'[p] = [r EXCEPT !.at = "check", !.named = [m \in Machines |-> FactsOf(m)]]
  <2>1. run'[p].k = r.k /\ run'[p].out = r.out /\ run'[p].sent = r.sent
    BY <1>1, <1>3 DEF RunOf
  <2>. QED BY <1>1, <2>1 DEF RunInOrder
<1>4. CASE run'[p] = [r EXCEPT !.at = "starting", !.sent = r.sent \cup {Target(p)}]
  <2>1. run'[p].k = r.k /\ run'[p].out = r.out /\ run'[p].sent = r.sent \cup {Target(p)}
    BY <1>1, <1>4 DEF RunOf
  <2>2. r.k \in 1 .. r.k /\ Target(p) = Targets[p][r.k]
    BY <1>1, PlanFields DEF Target
  <2>. QED BY <1>1, <2>1, <2>2 DEF RunInOrder
<1>5. CASE \/ run'[p] = StoppedRun(r, n) \/ run'[p] = PassedRun(r, n, "verified")
           \/ Target(p) = Controller /\ run'[p] = PassedRun(r, n, "handed")
  <2>1. /\ RunInOrder(StoppedRun(r, n), p) /\ StoppedRun(r, n).sent = r.sent
        /\ RunInOrder(PassedRun(r, n, "verified"), p) /\ PassedRun(r, n, "verified").sent = r.sent
        /\ Targets[p][r.k] = Controller => RunInOrder(PassedRun(r, n, "handed"), p)
        /\ PassedRun(r, n, "handed").sent = r.sent
    BY <1>1, <1>2, RunEnds
  <2>2. Target(p) = Targets[p][r.k]
    BY DEF Target
  <2>. HIDE DEF r, n
  <2>3. RunInOrder(run'[p], p) /\ run'[p].sent = r.sent
    BY <1>5, <2>1, <2>2
  <2>. QED BY <2>3 DEF r
<1>6. CASE \/ \E a \in RunAt \ {"new"} : run'[p] = [r EXCEPT !.at = a]
           \/ run'[p] = [r EXCEPT !.misses = 0] \/ run'[p] = [r EXCEPT !.misses = r.misses + 1]
  <2>1. run'[p].sent = r.sent
    BY <1>1, <1>6 DEF RunOf
  <2>. QED BY ZenonT(60), <1>1, <1>6, <2>1, RunEnds
<1>. QED BY <1>1, <1>3, <1>4, <1>5, <1>6 DEF RunWrites

(* Every step keeps it for calls and records, too.                          *)
LEMMA OrderKept ==
  ASSUME TypeOK, Ordered, [Next]_vars
  PROVE  Ordered'
<1>0. CASE UNCHANGED vars
  BY <1>0 DEF Ordered, RunInOrder, vars
<1>1. CASE Next
  <2>1. \A p \in Plans : RunInOrder(run'[p], p) /\ run[p].sent \subseteq run'[p].sent
    BY <1>1, RunsInOrder
  <2>2. ASSUME NEW d \in Calls, call'[d] # Idle
        PROVE  call'[d].job[2] \in run'[call'[d].job[1]].sent
    <3>1. ASSUME call[d] # Idle, call'[d].job = call[d].job
          PROVE  call'[d].job[2] \in run'[call'[d].job[1]].sent
      BY <2>1, <3>1, BusyCall DEF Ordered
    <3>2. ASSUME NEW p \in Plans, Start(p, d), Reached(Target(p)), call'[d].job = <<p, Target(p)>>
          PROVE  call'[d].job[2] \in run'[call'[d].job[1]].sent
      <4>1. run'[p].sent = run[p].sent \cup {Target(p)}
        BY <3>2 DEF Start, TypeOK, Run
      <4>. QED BY <3>2, <4>1
    <3>3. ASSUME NEW j \in Jobs, Resend(j, d), call'[d].job = j
          PROVE  call'[d].job[2] \in run'[call'[d].job[1]].sent
      BY <3>3 DEF Resend
    <3>. QED BY <1>1, <2>2, <3>1, <3>2, <3>3, CallsOnly
  <2>3. ASSUME NEW j \in Jobs, job'[j].record # "none"
        PROVE  j[2] \in run'[j[1]].sent
    <3>1. JobWrites(j) /\ job[j] \in Job /\ j[1] \in Plans
      BY <1>1, JobsOnly, JobParts DEF TypeOK
    <3>2. ASSUME NEW c \in Calls, CreateRecord(c) \/ WriteRecord(c), call[c].job = j
          PROVE  j[2] \in run[j[1]].sent
      <4>1. call[c] # Idle
        BY <3>2, BusyCall DEF CreateRecord, WriteRecord
      <4>. QED BY <3>2, <4>1 DEF Ordered
    <3>3. job[j].record # "none" => j[2] \in run[j[1]].sent
      BY DEF Ordered
    <3>4. j[2] \in run[j[1]].sent
      BY <2>3, <3>1, <3>2, <3>3 DEF JobWrites, Job
    <3>. QED BY <2>1, <3>1, <3>4
  <2>. QED BY <2>1, <2>2, <2>3 DEF Ordered
<1>. QED BY <1>0, <1>1

(* The record of a machine exists only when every machine before it in the  *)
(* plan was verified, so a failure leaves the later ones alone (run()).     *)
THEOREM InOrder == Spec => []OneByOne
<1>1. Init => Ordered
  <2>. SUFFICES ASSUME Init PROVE Ordered
    OBVIOUS
  <2>1. ASSUME NEW p \in Plans
        PROVE  RunInOrder(run[p], p)
    BY PlanFields DEF Init, RunInOrder
  <2>. QED BY <2>1 DEF Init, Ordered
<1>2. TypeOK /\ Ordered => OneByOne
  <2>. SUFFICES ASSUME TypeOK, Ordered, NEW p \in Plans,
                       NEW i \in 1 .. Len(Targets[p]), NEW k \in 1 .. Len(Targets[p]), i < k,
                       job[<<p, Targets[p][k]>>].record # "none"
                PROVE  run[p].out[i] = "verified"
    BY DEF OneByOne
  <2>1. <<p, Targets[p][k]>> \in Jobs
    BY PlanFields
  <2>2. Targets[p][k] \in run[p].sent
    BY <2>1 DEF Ordered
  <2>3. PICK x \in 1 .. run[p].k : Targets[p][k] = Targets[p][x]
    BY <2>2 DEF Ordered, RunInOrder
  <2>4. run[p].k \in 1 .. Len(Targets[p]) /\ x \in 1 .. Len(Targets[p]) /\ Len(Targets[p]) \in Nat
    BY PlanFields DEF TypeOK
  <2>5. x = k
    BY <2>3, <2>4, RestartAssumption
  <2>6. i < run[p].k
    BY <2>4, <2>5
  <2>. QED BY <2>6 DEF Ordered, RunInOrder
<1>. QED BY <1>1, <1>2, OrderKept, TypeCorrect, PTL DEF Spec

-----------------------------------------------------------------------------
(* Arrivals *)

Here == {"launched", "booted"}

(* A live app is the last one started, a request names a process that was    *)
(* there, and a helper that went on saw that process gone.                   *)
AppsInOrder == \A m \in Machines : app[m].last > 0 /\ app[m].pid \in {0, app[m].last}

NamesKnown ==
  /\ \A p \in Plans : /\ run[p].at = "new" => run[p].sent = {}
                      /\ run[p].at # "new" => \A m \in TargetsOf(p) :
                           run[p].named[m][1] \in 1 .. app[m].last
  /\ \A c \in Calls : call[c] # Idle => run[call[c].job[1]].at # "new"

JobFresh(j) ==
  /\ job[j].record # "none" => job[j].old \in 1 .. app[j[2]].last
  /\ job[j].helper \in {"alone", "looking"} => app[j[2]].pid # job[j].old
  /\ job[j].state \in Here => /\ job[j].record = "made" /\ app[j[2]].last > job[j].old
                              /\ app[j[2]].pid # job[j].old

Fresh == AppsInOrder /\ NamesKnown /\ \A j \in Jobs : JobFresh(j)

(* A process ends, or the next one starts where none is.                     *)
AppWrites(m) ==
  \/ app'[m].pid \in {app[m].pid, 0} /\ app'[m].last = app[m].last
  \/ app[m].pid = 0 /\ app'[m].pid = app[m].last + 1 /\ app'[m].last = app[m].last + 1

(* Nothing else changes the processes of a machine.                         *)
LEMMA AppsOnly ==
  ASSUME TypeOK, Next, NEW m \in Machines
  PROVE  AppWrites(m)
<1>0. app \in [Machines -> Process] /\ app[m] \in Process
  BY DEF TypeOK
<1>1. app' = app => AppWrites(m)
  BY DEF AppWrites
<1>A. ASSUME NEW k \in Machines, NEW q, app' = [app EXCEPT ![k] = q],
             q.pid \in {app[k].pid, 0}, q.last = app[k].last
      PROVE  AppWrites(m)
  BY <1>0, <1>A DEF AppWrites
<1>2. ASSUME NEW p \in Plans, RunSteps(p)
      PROVE  app' = app
  BY <1>2, RunStepsMove
<1>3. ASSUME NEW p \in Plans, NEW c \in Calls, Start(p, c)
      PROVE  app' = app
  BY <1>3 DEF Start
<1>4. ASSUME NEW c \in Calls, TargetSteps(c), app' # app
      PROVE  AppWrites(m)
  <2>. DEFINE k == call[c].job[2]
              q == [app[k] EXCEPT !.leaving = app[k].leaving \cup {call[c].job[1]}]
  <2>1. Spawn(c) /\ k \in Machines /\ app[k] \in Process
    BY <1>4, BusyCall DEF TargetSteps, Judge, CreateRecord, WriteRecord, Spawn, TypeOK
  <2>2. app' = [app EXCEPT ![k] = q]
    BY <1>4, <2>1 DEF Spawn
  <2>3. q.pid = app[k].pid /\ q.last = app[k].last
    BY <2>1 DEF Process
  <2>. HIDE DEF q, k
  <2>. QED BY <1>A, <2>1, <2>2, <2>3
<1>5. ASSUME NEW j \in Jobs, HelperSteps(j) \/ HourPasses(j) \/ (\E c \in Calls : Resend(j, c)),
             app' # app
      PROVE  AppWrites(m)
  <2>. DEFINE q == [app[j[2]] EXCEPT !.opening = TRUE]
  <2>1. j[2] \in Machines /\ app[j[2]] \in Process
    BY JobParts DEF TypeOK
  <2>2. app' = [app EXCEPT ![j[2]] = q]
    BY <1>5 DEF HelperSteps, HourPasses, Resend, HelperStarts, AppGone, ExitTimeout,
       OtherRuns, Launch, LaunchFails, SeesApp, LookTimeout
  <2>3. q.pid = app[j[2]].pid /\ q.last = app[j[2]].last
    BY <2>1 DEF Process
  <2>. HIDE DEF q
  <2>. QED BY <1>A, <2>1, <2>2, <2>3
<1>6. ASSUME NEW k \in Machines, NEW p \in Plans, HandleExit(k, p)
      PROVE  AppWrites(m)
  <2>0. app[k] \in Process
    BY DEF TypeOK
  <2>1. /\ Ended(app[k]).pid = 0 /\ Ended(app[k]).last = app[k].last
        /\ [app[k] EXCEPT !.leaving = app[k].leaving \ {p}].pid = app[k].pid
        /\ [app[k] EXCEPT !.leaving = app[k].leaving \ {p}].last = app[k].last
    BY <2>0 DEF Ended, Process
  <2>2. \/ app' = [app EXCEPT ![k] = [app[k] EXCEPT !.leaving = app[k].leaving \ {p}]]
        \/ app' = [app EXCEPT ![k] = Ended(app[k])]
    BY <1>6 DEF HandleExit
  <2>. QED BY <1>A, <2>1, <2>2
<1>7. ASSUME NEW k \in Machines, Outside(k)
      PROVE  AppWrites(m)
  <2>1. CASE Quit(k)
    <3>1. PICK a \in {app[k], Installed(app[k])} : app' = [app EXCEPT ![k] = Ended(a)]
      BY <2>1 DEF Quit
    <3>2. Ended(a).pid = 0 /\ Ended(a).last = app[k].last
      BY <1>0, <3>1 DEF Ended, Installed, Process, TypeOK
    <3>. QED BY <1>0, <3>1, <3>2 DEF AppWrites
  <2>2. CASE AppStarts(k)
    BY <1>0, <2>2 DEF AppStarts, Up, AppWrites, Process
  <2>3. CASE MarkBooted(k) \/ Open(k) \/ NewBuild(k)
    BY <1>0, <2>3 DEF MarkBooted, Open, NewBuild, AppWrites, Process
  <2>. QED BY <1>7, <2>1, <2>2, <2>3 DEF Outside
<1>. QED BY <1>1, <1>2, <1>3, <1>4, <1>5, <1>6, <1>7, NextSorted

(* The number of processes grows, and a live app is the last one.           *)
LEMMA LastGrows ==
  ASSUME TypeOK, AppsInOrder, Next, NEW m \in Machines
  PROVE  /\ app[m].last \in Nat /\ app'[m].last \in Nat /\ app'[m].last >= app[m].last
         /\ app'[m].last > 0 /\ app'[m].pid \in {0, app'[m].last}
         /\ app'[m].pid \in {app[m].pid, 0, app[m].last + 1}
<1>1. AppWrites(m) /\ app[m].last \in Nat /\ app[m].last > 0 /\ app[m].pid \in {0, app[m].last}
  BY AppsOnly DEF TypeOK, Process, AppsInOrder
<1>. QED BY <1>1 DEF AppWrites

(* A request names a process that was there.                                *)
LEMMA NamesKept ==
  ASSUME TypeOK, AppsInOrder, NamesKnown, Next
  PROVE  NamesKnown'
<1>1. ASSUME NEW p \in Plans
      PROVE  /\ run'[p].at = "new" => run'[p].sent = {} /\ run[p].at = "new"
             /\ run'[p].at # "new" => \A m \in TargetsOf(p) :
                  run'[p].named[m][1] \in 1 .. app'[m].last
  <2>1. RunWrites(p) /\ run[p] \in RunOf(Len(Targets[p])) /\ TargetsOf(p) \subseteq Machines
    BY <1>1, RunsOnly, RunTyped, PlanFields DEF TargetsOf
  <2>2. ASSUME run'[p].named = run[p].named, run[p].at # "new"
        PROVE  \A m \in TargetsOf(p) : run'[p].named[m][1] \in 1 .. app'[m].last
    BY <2>1, <2>2, LastGrows DEF NamesKnown
  <2>3. CASE run'[p] = run[p]
    BY <2>2, <2>3 DEF NamesKnown
  <2>4. CASE Consume(p) /\ run'[p] = [run[p] EXCEPT !.at = "check", !.named = [m \in Machines |-> FactsOf(m)]]
    <3>1. run'[p].at = "check" /\ run'[p].named = [m \in Machines |-> FactsOf(m)]
      BY <2>1, <2>4 DEF RunOf
    <3>2. ASSUME NEW m \in TargetsOf(p)
          PROVE  run'[p].named[m][1] \in 1 .. app'[m].last
      <4>1. m \in Machines /\ app[m].pid # 0 /\ app' = app
        BY <2>1, <2>4 DEF Consume, Reached, Up
      <4>2. app[m].pid = app[m].last /\ app[m].last \in Nat /\ app[m].last > 0
        BY <4>1 DEF AppsInOrder, TypeOK, Process
      <4>. QED BY <3>1, <4>1, <4>2 DEF FactsOf
    <3>. QED BY <3>1, <3>2
  <2>5. CASE run[p].at # "new" /\ run'[p] # run[p] /\ ~Consume(p)
    <3>1. run'[p].named = run[p].named /\ run'[p].at # "new"
      BY <2>1, <2>5 DEF RunWrites, StoppedRun, PassedRun, RunOf, RunAt
    <3>. QED BY <2>2, <2>5, <3>1
  <2>. QED BY <2>1, <2>3, <2>4, <2>5 DEF RunWrites, Consume
<1>2. ASSUME NEW d \in Calls, call'[d] # Idle
      PROVE  run'[call'[d].job[1]].at # "new"
  <2>1. ASSUME call[d] # Idle, call'[d].job = call[d].job
        PROVE  run'[call'[d].job[1]].at # "new"
    BY <1>1, <2>1, BusyCall DEF NamesKnown
  <2>2. ASSUME NEW p \in Plans, Start(p, d), call'[d].job = <<p, Target(p)>>
        PROVE  run'[call'[d].job[1]].at # "new"
    <3>1. run[p].at # "new"
      BY <2>2 DEF Start
    <3>. QED BY <1>1, <2>2, <3>1
  <2>3. ASSUME NEW j \in Jobs, Resend(j, d), call'[d].job = j
        PROVE  run'[call'[d].job[1]].at # "new"
    <3>1. j[1] \in Plans /\ run[j[1]].sent # {} /\ run' = run
      BY <2>3, JobParts DEF Resend
    <3>. QED BY <2>3, <3>1 DEF NamesKnown
  <2>. QED BY <1>2, <2>1, <2>2, <2>3, CallsOnly
<1>. QED BY <1>1, <1>2 DEF NamesKnown

(* What the steps of a helper see.                                           *)
LEMMA HelperSees ==
  ASSUME TypeOK, NEW j \in Jobs, HelperSteps(j)
  PROVE  /\ job'[j].record = job[j].record /\ job'[j].old = job[j].old
         /\ app'[j[2]].pid = app[j[2]].pid /\ app'[j[2]].last = app[j[2]].last
         /\ job'[j].helper \in {"alone", "looking"} =>
              app[j[2]].pid # job[j].old \/ job[j].helper = "alone"
         /\ job'[j].state \in Here =>
              job[j].state \in Here \/ (app[j[2]].pid # job[j].old /\ Up(j[2]))
<1>0. /\ job \in [Jobs -> Job] /\ job[j] \in Job /\ job[j].state \in States
      /\ app \in [Machines -> Process] /\ j[2] \in Machines /\ app[j[2]] \in Process
  BY JobParts DEF TypeOK, Job
<1>1. \A w \in States : Fold(job[j].state, w) \in {job[j].state, w}
  BY <1>0, FoldFacts
<1>2. app'[j[2]].pid = app[j[2]].pid /\ app'[j[2]].last = app[j[2]].last
  BY <1>0 DEF HelperSteps, HelperStarts, AppGone, ExitTimeout, OtherRuns, Launch, LaunchFails,
     SeesApp, LookTimeout, Process
<1>3. ASSUME NEW f, NEW h, NEW w, Helper(j, f, h, w)
      PROVE  /\ job'[j].record = job[j].record /\ job'[j].old = job[j].old /\ job[j].helper = f
             /\ job'[j].helper = h /\ job'[j].state = Fold(job[j].state, w)
  BY <1>0, <1>3 DEF Helper, Job
<1>4. job'[j].record = job[j].record /\ job'[j].old = job[j].old
  BY <1>3 DEF HelperSteps, HelperStarts, AppGone, ExitTimeout, OtherRuns, Launch, LaunchFails,
     SeesApp, LookTimeout
<1>5. job'[j].helper \in {"alone", "looking"} =>
        app[j[2]].pid # job[j].old \/ job[j].helper = "alone"
  BY <1>3 DEF HelperSteps, HelperStarts, AppGone, ExitTimeout, OtherRuns, Launch, LaunchFails,
     SeesApp, LookTimeout
<1>6. \/ \E w \in {"helper_started", "exited", "failed", "relaunching"} :
           job'[j].state = Fold(job[j].state, w)
      \/ app[j[2]].pid # job[j].old /\ Up(j[2])
  BY <1>3 DEF HelperSteps, HelperStarts, AppGone, ExitTimeout, OtherRuns, Launch, LaunchFails,
     SeesApp, LookTimeout
<1>7. job'[j].state \in Here =>
        job[j].state \in Here \/ (app[j[2]].pid # job[j].old /\ Up(j[2]))
  BY <1>1, <1>6, EventWords DEF Here
<1>. QED BY <1>2, <1>4, <1>5, <1>7

(* Every step keeps what a job knows of the old process.                    *)
LEMMA JobFreshKept ==
  ASSUME TypeOK, OneMaker, Fresh, Next, NEW j \in Jobs
  PROVE  JobFresh(j)'
<1>. DEFINE m == j[2]
            was == job[j]
            is == job'[j]
<1>1. /\ JobWrites(j) /\ was \in Job /\ was.state \in States
      /\ j[1] \in Plans /\ m \in Machines /\ m \in TargetsOf(j[1])
  BY JobsOnly, JobParts DEF TypeOK, Job
<1>2. /\ app[m].last \in Nat /\ app'[m].last \in Nat /\ app'[m].last >= app[m].last
      /\ app'[m].pid \in {app[m].pid, 0, app[m].last + 1} /\ app[m].pid \in {0, app[m].last}
      /\ app[m].last > 0
  BY <1>1, LastGrows DEF Fresh, AppsInOrder
<1>3. JobFresh(j) /\ (was.record # "made" => was.helper = "none")
  BY DEF Fresh, OneMaker
(* What holds of a job that keeps its record goes on to hold.                *)
<1>4. ASSUME is.old = was.old, is.record = was.record \/ (is.record = "made" /\ was.record = "torn"),
             is.helper \in {was.helper, "spawned"} \/ app[m].pid # was.old,
             is.state \in Here =>
               was.state \in Here \/ (was.record = "made" /\ app[m].pid # was.old /\ app[m].pid # 0),
             is.helper \in {"alone", "looking"} => was.record = "made"
      PROVE  JobFresh(j)'
  <2>1. was.record # "none" => was.old \in 1 .. app[m].last
    BY <1>3 DEF JobFresh
  <2>2. is.record # "none" => is.old \in 1 .. app'[m].last
    BY <1>2, <1>4, <2>1
  <2>3. app[m].pid # was.old /\ was.record = "made" => app'[m].pid # was.old
    BY <1>2, <2>1
  <2>4. is.helper \in {"alone", "looking"} => app'[m].pid # is.old
    BY <1>3, <1>4, <2>3 DEF JobFresh
  <2>5. is.state \in Here => was.record = "made" /\ app[m].pid # was.old /\ app[m].last > was.old
    <3>1. was.state \in Here => was.record = "made" /\ app[m].pid # was.old /\ app[m].last > was.old
      BY <1>3 DEF JobFresh
    <3>2. was.record = "made" /\ app[m].pid # was.old /\ app[m].pid # 0 => app[m].last > was.old
      BY <1>2, <2>1
    <3>. QED BY <1>4, <3>1, <3>2
  <2>6. is.state \in Here => is.record = "made" /\ app'[m].last > is.old /\ app'[m].pid # is.old
    <3>1. was.record = "made" => is.record = "made"
      BY <1>4
    <3>2. was.record = "made" /\ app[m].last > was.old => app'[m].last > was.old
      BY <1>2, <2>1
    <3>. QED BY <1>4, <2>3, <2>5, <3>1, <3>2
  <2>. QED BY <2>2, <2>4, <2>6 DEF JobFresh
<1>5. CASE is = was
  <2>1. was.helper \in {"alone", "looking"} => was.record = "made"
    BY <1>3
  <2>2. /\ is.old = was.old /\ is.record = was.record /\ is.helper = was.helper
        /\ is.state = was.state
    BY <1>5
  <2>. QED BY <1>4, <2>1, <2>2
<1>6. CASE /\ \E c \in Calls : CreateRecord(c) /\ call[c].job = j /\ call'[c].at = "writing"
           /\ was.record = "none"
           /\ is = [was EXCEPT !.record = "torn", !.old = run[j[1]].named[j[2]][1]]
  <2>1. PICK c \in Calls : CreateRecord(c) /\ call[c].job = j
    BY <1>6
  <2>2. run[j[1]].at # "new"
    BY <2>1, BusyCall DEF CreateRecord, Fresh, NamesKnown
  <2>3. run[j[1]].named[m][1] \in 1 .. app[m].last
    BY <1>1, <2>2 DEF Fresh, NamesKnown
  <2>4. is.old = run[j[1]].named[m][1] /\ is.helper = "none" /\ is.state = was.state
    BY <1>1, <1>3, <1>6 DEF Job
  <2>5. is.old \in 1 .. app'[m].last
    BY <1>2, <2>3, <2>4
  <2>6. is.state \notin Here
    BY <1>3, <1>6, <2>4 DEF JobFresh
  <2>. QED BY <2>4, <2>5, <2>6 DEF JobFresh
<1>7. CASE /\ \E c \in Calls : WriteRecord(c) /\ call[c].job = j
           /\ is = [was EXCEPT !.record = "made"]
  <2>1. was.record = "torn" /\ was.helper = "none"
    BY <1>3, <1>7 DEF WriteRecord, OneMaker
  <2>2. /\ is.old = was.old /\ is.record = "made" /\ is.helper = "none" /\ is.state = was.state
    BY <1>1, <1>7, <2>1 DEF Job
  <2>. QED BY <1>4, <2>1, <2>2
<1>8. CASE /\ \E c \in Calls : Spawn(c) /\ call[c].job = j /\ call'[c] = Idle
           /\ is = [was EXCEPT !.helper = "spawned", !.spawned = was.spawned + 1]
  <2>1. is.old = was.old /\ is.record = was.record /\ is.helper = "spawned" /\ is.state = was.state
    BY <1>1, <1>8 DEF Job
  <2>. QED BY <1>4, <2>1
<1>9. CASE is = [was EXCEPT !.young = FALSE] \/ is = [was EXCEPT !.state = Fold(was.state, "failed")]
  <2>1. is.old = was.old /\ is.record = was.record /\ is.helper = was.helper
    BY <1>1, <1>9 DEF Job
  <2>2. is.state \in {was.state, "failed"}
    BY <1>1, <1>9, FoldFacts, EventWords DEF Job
  <2>3. is.state \in Here => was.state \in Here
    BY <2>2 DEF Here
  <2>4. was.helper \in {"alone", "looking"} => was.record = "made"
    BY <1>3
  <2>. QED BY <1>4, <2>1, <2>3, <2>4
<1>10. CASE /\ is = [was EXCEPT !.state = Fold(was.state, "booted")]
            /\ was.record = "made" /\ app[m].pid # was.old /\ Up(m)
  <2>1. is.old = was.old /\ is.record = was.record /\ is.helper = was.helper
    BY <1>1, <1>10 DEF Job
  <2>2. app[m].pid # 0
    BY <1>10 DEF Up
  <2>. QED BY <1>4, <1>10, <2>1, <2>2
<1>11. CASE HelperSteps(j)
  <2>1. was.record = "made"
    BY <1>3, <1>11, HelperBusy
  <2>2. /\ is.record = was.record /\ is.old = was.old
        /\ is.helper \in {"alone", "looking"} => app[m].pid # was.old \/ was.helper = "alone"
        /\ is.state \in Here => was.state \in Here \/ (app[m].pid # was.old /\ Up(m))
    BY <1>11, HelperSees
  <2>3. was.helper = "alone" => app[m].pid # was.old
    BY <1>3 DEF JobFresh
  <2>4. CASE is.helper \in {"alone", "looking"}
    <3>1. app[m].pid # was.old /\ (Up(m) => app[m].pid # 0)
      BY <2>2, <2>3, <2>4 DEF Up
    <3>2. is.state \in Here =>
            was.state \in Here \/ (was.record = "made" /\ app[m].pid # was.old /\ app[m].pid # 0)
      BY <2>1, <2>2, <3>1
    <3>. QED BY <1>4, <2>1, <2>2, <3>1, <3>2
  <2>5. CASE is.helper \notin {"alone", "looking"}
    <3>1. was.old \in 1 .. app[m].last
      BY <1>3, <2>1 DEF JobFresh
    <3>2. is.old \in 1 .. app'[m].last
      BY <1>2, <2>2, <3>1
    <3>3. is.state \in Here => app[m].pid # was.old /\ app[m].last > was.old
      <4>1. was.state \in Here => app[m].pid # was.old /\ app[m].last > was.old
        BY <1>3 DEF JobFresh
      <4>2. app[m].pid # was.old /\ Up(m) => app[m].last > was.old
        BY <1>2, <3>1 DEF Up
      <4>. QED BY <2>2, <4>1, <4>2
    <3>4. is.state \in Here => app'[m].pid # is.old /\ app'[m].last > is.old
      BY <1>2, <2>2, <3>1, <3>3
    <3>. QED BY <2>1, <2>2, <2>5, <3>2, <3>4 DEF JobFresh
  <2>. QED BY <2>4, <2>5
<1>. QED BY <1>1, <1>5, <1>6, <1>7, <1>8, <1>9, <1>10, <1>11 DEF JobWrites

(* Every step keeps it for apps, requests and jobs.                         *)
LEMMA FreshKept ==
  ASSUME TypeOK, OneMaker, Fresh, [Next]_vars
  PROVE  Fresh'
<1>0. CASE UNCHANGED vars
  BY <1>0 DEF Fresh, AppsInOrder, NamesKnown, JobFresh, FactsOf, vars
<1>1. CASE Next
  <2>1. AppsInOrder'
    BY <1>1, LastGrows DEF Fresh, AppsInOrder
  <2>2. NamesKnown'
    BY <1>1, NamesKept DEF Fresh
  <2>3. \A j \in Jobs : JobFresh(j)'
    BY <1>1, JobFreshKept
  <2>. QED BY <2>1, <2>2, <2>3 DEF Fresh
<1>. QED BY <1>0, <1>1

(* The state of a job says that the app arrived only when the old process   *)
(* is gone and a later one was started (mark_booted(), helper_script()).    *)
THEOREM NewArrivals == Spec => []ArrivalIsNew
<1>1. Init => OneMaker
  BY DEF Init, OneMaker, Idle, Made
<1>2. Init => Fresh
  BY DEF Init, Fresh, AppsInOrder, NamesKnown, JobFresh, Here
<1>3. Fresh => ArrivalIsNew
  BY DEF Fresh, JobFresh, ArrivalIsNew, Here
<1>. QED BY <1>1, <1>2, <1>3, OneMakerKept, FreshKept, TypeCorrect, PTL DEF Spec
=============================================================================
