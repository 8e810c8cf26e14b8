# Verification of kasaterm

kasaterm is a GPU terminal that runs many coding agents ("students": Claude and Codex panes) side by side, on several
machines of one person, with a gateway, a phone app and web views around it. This directory holds TLA+ specifications
of the parts of it whose correctness depends on order, failure and concurrency, the TLC configurations that check
them on small instances, and TLAPS proofs of what matters most.

Five parts of the program are modelled:

* **tell**: a message sent to an agent, stored in a ledger, and typed into the agent's terminal exactly when that is
  safe;
* **remote approval**: a permission question of an agent, shown at the desk and on other devices, answered once;
* **agent chains**: the Claude logins of an account, whose refresh tokens the gateway rotates for all devices, and the
  recovery of a request whose access token died meanwhile;
* **remote restart**: the app of other machines exits and starts again on the order of one, machine by machine;
* **lid-away**: a laptop that works on with its lid closed, and sleeps when the work is done.

## 1. Inventory

Sizes: `app/kasaterm` is about 222 000 lines of Rust, `crates/*` about 139 000, the rest is a Flutter phone app,
TypeScript views, Python release tools and themes.

### Components with state, order and failure

| Component | State it keeps | Operations | Talks to | What is hard |
|---|---|---|---|---|
| Tell ledger (`kasa-socket/src/tell.rs`) and submission (`kasa-collab/src/tell_service.rs`) | a map from message ids to receipts, in memory under a mutex and in one file | accept, transition, expire, prune, open (recover) | socket and HTTP callers, the GUI loop (a wake-up), delivery | crash between save and report, saves that fail half way, retries of a submit, a full store |
| Tell delivery (`app/kasaterm/src/tell_delivery.rs`), input gate (`kasa-pty/src/state/input.rs`) | the panes with a delivery under way, a cursor, held keys and an input revision per pane | tick, prove identity, stash, paste, wait for the echo, Enter, report | ledger, GUI loop, worker and timer threads, the agent's screen | a person types at the same time, the screen lags the input box, the conversation in the pane is replaced, threads outlive the GUI loop |
| Approval broker (`kasa-students/src/claude_mod.rs`) and hook (`claude-mods/kasaterm-bridge/hooks/register.ts`) | open permission requests, their decision and deadline, one shared wake-up | open and wait, decide, close by key, close by the end of the tool, sweep | the agent's hook (long poll), mirrors, the bridge | the same question is answered in several places; sleeping and waking |
| Approval bridge (`kasa-students/src/approval_bridge.rs`) | the requests it uploaded, a channel of notes, one follower per request | upload, follow, deliver, withdraw | broker, gateway | replies that are lost or late, a request that closes while it is uploaded |
| Approval store (`kasa-gateway/src/gateway_approvals.rs`) | requests, revision, keys of approving devices, a queue of expired requests | create, list (long poll), decide, cancel, sweep, announce | bridges, screens, phones | sweeps happen in whichever call comes first; everything is lost at a restart |
| Agent chains (`kasa-device/src/agent_chains.rs`, `kasa-gateway/src/gateway_agent_chains.rs`) | refresh tokens in the gateway's book, access tokens in each device's store, what a device remembers of slots and owners | offer, seal, hand over, rotate, pull, fill, save | provider, devices, Claude itself | a refresh token may be used once and has several users; a login changes a store while a reply is away; replies and saves that fail |
| Recovery after a 401 (`agent_chains/recovery.rs`, `kasa-students/src/proxy.rs`) | rounds under way per chain, what the last cycles told | ask, lead a round or follow it, look, verify, give up after eight seconds | agent chains, the proxy's requests | many requests share one look; they may give up or start again while others wait; what was found may not be theirs |
| Remote restart (`kasa-socket/src/app_restart.rs`, `app/kasaterm/src/app_restart.rs`) | a run of a plan, a job record and an append-only file of events per machine | approve, judge, record, spawn the helper, exit, launch, mark the arrival, poll | app, detached helper, other machines | two writers of one file, the app dies between two steps, a request that comes again, a person who opens or quits the app meanwhile |
| Lid-away (`lid_away.rs`, `lid_away/policy.rs`, `kasa-socket/src/lid_away.rs`) | a phase, the sleep setting of the system, a heartbeat file | tick, block, release, sleep, heartbeat, end of the app; the watchdog's script | the operating system, launchd | the setting outlives app and machine; either of two parties may die; calls fail; the lid moves between two of them |
| Close grace (`close_grace.rs`) | closed panes with their time | close, reopen, timer | panes | a timer of an earlier close |
| Update, session transfer, dispatch of work, account sync, board, remote mirrors | records and documents on disk, merged views | see `PROJECT.json` | other machines | failures half way, merging of sources |

### Components that are presentation, pure functions or input and output

Screen snapshots and layout, the Hangul automaton, GPU rendering, the old tmux bridge, the local web server, the
network path choice, device sign-in, the text of approvals, the phone's and the web's views, the document editor, the
release tools. `PROJECT.json` lists each with the reason it is not modelled.

### How the modelled parts work

```
 sender --submit--> TellLedger --pending--> TellScheduler --> TellDelivery --keys--> pane of an agent
                       ^  |                                       |    ^
                       |  +--- wake-up of the GUI loop            |    | a person types
                       +------------ receipt -------------------- +

 agent (window + hook) --long poll--> broker --upload--> bridge --create/follow/cancel--> gateway store
                                        ^  ^                                              |  long poll, push
                                     key|  |mirror                                   Mac screens, phones --decide-->

 login of a person --> slot of a device --offer--> book of the gateway --rotate--> provider
                            ^   |                        |
              Claude runs --+   +<------ pull, fill -----+          request --401--> ChainRecovery --newer token--> request

 run of a plan --start--> app of a machine --record, spawn--> helper --open--> new app
      ^                        +----------+--------------------+-----------------+
      +------- poll ----------- file of events (folded by every reader)

 app --block, release, sleep, heartbeat--> system <--look, release, remove, sleep-- watchdog (launchd)
```

### What makes them correct

* tell: no body is typed twice; a message that may have been typed is never queued again; a receipt tells the truth;
  the Enter of a delivery submits that message and nothing else, to the conversation it was addressed to; keys of a
  person are neither lost nor held for ever; no pane is blocked for ever; every message ends.
* approval: the agent takes one answer, and only one a person gave; no poll sleeps through it; a question answered at
  the desk is withdrawn elsewhere; a decision made elsewhere arrives; one decision wins; what is closed leaves the
  screens, and the phones hear of it once.
* agent chains: a device gives its login up only for a chain the gateway can rotate; one person's login is never replaced
  by another's; a filled slot keeps up with the gateway. Recovery: a request goes out again only with a newer token of
  its own chain; looks do not overlap; nobody waits for a round that is over.
* remote restart: a job gets one helper; a machine is touched only when those before it run again; an arrival is a new
  process; a helper that ended has said how.
* lid-away: a block on sleep has somebody who will lift it, and is lifted; work is not cut short; a closed machine
  that wakes without work is put to sleep again.

## 2. Modules

| Module | Models | Code |
|---|---|---|
| `TellReceipts` | states of a receipt and the allowed moves | `tell.rs` `State`, `transition` |
| `TellMailbox` | abstract: handed over at most once, never after it was closed | – |
| `TellWork` | abstract: the contract between the ledger and the workers, who may move a message when | – |
| `TellLedger` | the ledger, its saves and the callers that change it | `tell.rs`, `tell_service.rs` |
| `TellDelivery` | scheduler, proofs, stash, paste, echo, Enter, input gate, agent's box and screen | `tell_delivery.rs`, `state/input.rs` |
| `TellScheduler` | which panes a tick serves when there are more than workers | `tell_delivery.rs` `Scheduler` |
| `OneAnswer` | abstract: one offer, one decision, one answer to the engine | – |
| `ApprovalStore` | one request on the gateway as a value: opens, expires, closes, is forgotten | `gateway_approvals.rs` |
| `OneDecision` | abstract: a request is pending to its deadline, settled once and in time, kept for a while | – |
| `ApprovalBridge` | agent window and hook, broker, bridge, and the gateway as seen from there | `register.ts`, `claude_mod.rs`, `approval_bridge.rs` |
| `ApprovalGateway` | the store under the calls of all devices: lazy sweeps, revision, long polls, keys, announcements | `gateway_approvals.rs`, `remote_approval.rs`, `device_approvals.rs` |
| `AgentChains` | the gateway's book, the devices' slots and cycles, the provider, Claude's own rotation | `agent_chains.rs`, `gateway_agent_chains.rs` |
| `ChainRecovery` | requests after a 401, rounds, flights, looks | `agent_chains/recovery.rs`, `proxy.rs` |
| `AppRestart` | runs, judgement, job records and events, helper, old and new app | `app_restart.rs` (both) |
| `LidAway` | policy, calls, heartbeat, watchdog, lid and machine | `lid_away.rs` (both), `lid_away/policy.rs` |
| `*Proofs` | theorems about `TellLedger`, `TellDelivery` (with `TellScheduler`), `ApprovalBridge`, `ApprovalGateway`, `AgentChains`, `ChainRecovery`, `AppRestart`, `LidAway` | – |
| `MC*` | instances for TLC | – |

Abstract modules say what parts promise, and tie the modules that model one part each. `TellLedger` and `TellDelivery`
both implement `TellMailbox` and `TellWork`: each of the two treats the other in outline (the ledger reduces a worker to
its licence, the delivery a ledger to its receipts), and `TellWork` is the contract both keep. `ApprovalBridge` implements
`OneAnswer`. `ApprovalGateway` implements `OneDecision`, and so does the gateway as `ApprovalBridge` sees it;
`ApprovalStore` is shared by the two, so they agree on what a request is. All of these are theorems, and two of
them properties of a run (`KeepsPromise`, `KeepsOneAnswer`).

Definitions commented `faulty` (`Faulty`) are never used by a specification: each states a plausible mistake in the
definition next to it, and replacing the definition by it violates a property. `PROJECT.json` "mutants" pairs them.

### TellLedger

`mem` is `Ledger.records`, `disk` what `ledger.json` holds, `up` whether the process has the ledger open. Every change
goes through `Save`: a temporary file is written and renamed, then the directory is synced. It may work, fail before
the rename, or (`LateSyncError`) fail after it: then the file is new and the caller is told it is not. `Accept` prunes,
refuses when full and saves; the model keeps that pruning changes memory even when the store is full. `Transition` is
`Ledger::transition` with its roll-back to `uncertain` for a dispatch whose save failed, and with the reason that
receipts queued behind take over. `Open` turns every dispatch into `uncertain` and saves; if that save fails the ledger
is unusable for the life of the process (`refused`). `Crash` may come between any two steps. A worker is reduced to the
licence that the move to `dispatching` gives it: `Dispatch`, `Write` (refused once expired), then `Settle`; or `Defer`
and `GiveUp` before the write. `waking` holds the submits between their accept and their wake-up of the GUI.

Clock: the wall clock only goes forward. `wrote`, `acked` are history. `machine` is chosen in `Init` and never changes:
the room of the ledger, whether a save may fail after its rename (`late`) and whether the GUI may refuse a wake-up
(`gui`). It lets one run check what holds on every machine and what holds only on a sane one (see section 4).

### TellDelivery

An element of `jobs` is one delivery with the place it is at: a worker proving identity, an event waiting for the GUI, the
GUI between its last look and the guarded write, a timer thread, the thread of `finish`. Handlers of the GUI are split
at the place where another thread can come between: `Ready` then `Stash` or `Paste`, `Commit` then `Enter`. The writes
are guarded by the pane's input revision; it is kept relative to each job as `same`, which a write of anyone else
clears (`Touched`). `GuiIdle` keeps other GUI events out of a handler.

`pty` has the input gate (`hold`, the buffered keys, `closed`), the agent's input box with the one draft it can put away
(`box`, `stash`), and what its screen says of both (`shown`, and `stashed` for the words "› stashed"). The code sees only
the screen: whether the box is empty, whether a draft is put away (`CanStash`) and whether the message has arrived are
read from `shown` and `stashed`, which lag. `typing` says that the last write is so recent that the gate does not trust
the screen (`tell_ready`: 5 s after a key, 300 ms after any write); `Draw` lets the screen catch up. The agent's box is
modelled from how the code uses it (external): Enter submits it and brings a stash back, the stash key swaps. `Press` is
a person's key, text, Enter or the stash key: buffered while held, else written together with what was buffered; it may
come from other machines too, so it goes on when the GUI loop has stopped. The buffer is its first key; the keys behind
it are written as presses of their own right after. `SetClosed` is the GUI's own, between its other events.

What is assumed of time, each by name:
* `Replace`: another conversation does not take the pane between a fresh proof (1 s) and the guarded write of the
  same GUI event, unless a key was pressed (which the guard sees).
* `SlowDraw = FALSE`: an agent has drawn what a write did before the gate trusts its screen again, 5 s after a key
  (`DRAFT_TRUST`) and 300 ms after any write. It bounds `TrustEnds` and nothing else: a delivery may start, prove, be
  dispatched and look while the screen is stale, and only the checks of the draft mark and of the last write
  (`tell_ready`) keep it from writing. An agent
  may be slower: a fresh session draws its first paste up to 15 s late (`ECHO_DEADLINE`), and if that paste was withheld
  and its hold let go, a second message can meet a box that looks empty. `SlowDraw = TRUE` drops the assumption; see
  section 4.
* `DeadlinePasses` stands for the 3 s of a stash and the 15 s of an echo, `HoldExpires` for the 20 s of held keys,
  `ProofAges` for the 1 s of a proof, `Lapse` for the time in the queue. They may pass at any moment; the
  last two and `DeadlinePasses` are steps only where the code looks at them (a queued message, a delivery the GUI takes
  up).

Not in the module: titles carried by a tell, the reading of cells, the approval widgets (any look may find one).

### TellScheduler

`Serve` picks at most `Workers` free panes in the order of their names, rotated to start after the last one chosen.
`TellDelivery` is not told which: its `Select` serves any panes that can be served (`Selections`), and none only when none
can. `AllWorkersServe` proves that this scheduler chooses so.

### ApprovalBridge

Per request: `engine` (the window and how it closed), `hook` (the long poll's place: `armed` has made its `Notified`,
`looked` has seen an open request, `asleep` awaits), `broker` with `brokerTill`, `job` (the upload and the follower),
`gateway`. Shared: `notes` (the channel of `run`), `live`, `cancelling`, `woken`, `keyed`. Faults, counted against
`MaxFaults`: a failed or lost create, a failed poll, a lost cancel, a restart of the gateway, a crash of the app.
`said` is what people decided and where; `abandoned` the requests a fault cut off from the app.

Both sides are kept swept by the clock because every access sweeps first. Left out, with the reason: the digest
(a function of the id), questions to the user that are not permissions, the limit of 26 poll rounds (26 × 25 s is longer
than the ten minutes of a request), the broker's drop of a request a minute after it expired (hooks poll within seconds),
secret requests. That the gateway sweeps with its calls and not with the clock makes no difference here:
`DecidedOnce` and `GatewayAsPromised` prove that both show the same promise.

### ApprovalGateway

Here sweeps are lazy, as in the code: `store` changes only in a call, and `SweptAll` is what the call sees. A change and
the rise of the revision are two steps (`unbumped`, `Bump`). A screen's poll goes `asked`, `held`, `leaving`; the
revision is read before the list. The bump of a call's own sweep may come later than in the code: the model allows more.
`Register`, `Keyless`, `Decide` are the device's decision with the key it registers per run of the gateway. `Restart`
empties everything but what the devices believe. `Decide` leaves out the refusals that are functions of the request
alone: another digest, an allow of truncated text, the proof for a secret (`gateway_approvals.rs:585-597`).

### AgentChains

`head` is the provider: the one token of a login whose refresh half is good. `store` is what Claude keeps in a slot of a
device, a token pair or, once the login was handed over, its access half. `book` is the gateway's sealed chain; `map` and
`owner` are the lines a device saves in `agent-chains.json`. A device's cycle, `sync_once`, is split where its reads and
its effects are apart: `Offer` (read the store, learn the owner, send), `HandOver` or `KeepLogin` on the reply, `Pull`
(list the chains), `Fill` or `LeaveSlot`, `SaveLearned`. The reply is a value of its own (`sync[s].reply`), so it may be
old when it is read. `OfferFails`, `RefreshLost` and `SyncStops` are the faults: a lost reply, a save that fails, an app
that dies in the middle of a cycle. `Refresh` is the gateway's minute loop (`REFRESH_AHEAD_MS`), `ClaudeRotates` Claude's
own rotation of a slot that still has its refresh half, `Login` a person. `strayed` is history: logins that were rotated
or replaced unknown to the gateway.

Abstractions: one chain key and one slot on each device, without the workbench slot and a slot's stamped identity; the
pauses between retries; a generation is implied by the token; profiles carry UUIDs; `compare_and_write` is one step, as
are the store's read and the gateway's call; a unit of the clock is longer than a cycle (`Busy`); the profile of a spent
token is refused unless the device confirmed it before (`Known`).

### ChainRecovery

Each request has its own place (`req`); a request that finds no round under way starts one (`lead`), whose task looks for
the newer token once for all; each request then verifies the `result` for itself (`look`), because slot, chain and the
device's own login may have changed meanwhile (`stamp`, `ledger`). `flight` is the entry of the key in `flights`, `active`
its round, `io` its lock for blocking reads. `Late` are the eight seconds. Rotation, breaks, logins, hand-overs, removals
and expiry are the environment, as `AgentChains` allows them, one key and one slot. `had` is history: the tokens a
request could have found since it failed. `Manage` and `Observe` act on the ledger of the request's own stamp, which the code
does not ask there but in `check` and `grant_current`, and the clearing of old entries (`clear`) is left out: what either
would let through is refused by those two comparisons. The polling of 40 ms is no step, and the double check of `grant_current` is
one. A follower may be refused because its leader's ticket stops or its deadline passes.

### AppRestart

`run` is a run of a plan on the controlling machine, `call` a request under judgement at its target, `job` the record of
a job with the fold of its events and the helper, `app` the process of each machine and its bundle. An event out of order
stays in the file and does not move the state, so `state` is the fold of all lines. `Judge`, `CreateRecord`,
`WriteRecord` and `Spawn` are separate, since the app may die between any two and a request may come again (`Resend`)
beside one under way. The helper waits for the exit, opens the app, looks for it, and gives up in each of these places
with an event. `Open`, `Quit`, `NewBuild` and the failures are counted by `mishaps`.

Abstractions: the approval server is external and an approval is consumed once per plan; times to live of facts and
approvals; opening an app that runs does nothing; pids are not used again; a refusal for unsaved or busy work is a
choice; the script for Windows does the same; the helper looks for another process and launches in one step
(`Launch`), and is not killed.

### LidAway

The phase is the code's, its instants written as ages that stop at their limit, so the state space is finite without a
bound on time. Instants stand still while the machine sleeps; the age of the heartbeat file does not. `call` is the work
the event loop is about to do after a tick: the calls of `pmset`, the heartbeat and the sleep are steps of their own.
Each may fail, the writes and removals of the heartbeat too, whose errors the code ignores. The app or the machine may
die between any two of them (`Crash`, `Reboot`), and watchdog, lid and clock go on. The watchdog's script is split
likewise: look for the file, read its age (a file that went in between counts as old), release, remove the file, sleep.
Whether students are busy and staying awake is allowed is chosen at each tick. `gap` is history: whether the block there
is waits for its first heartbeat, and whether its app died before that.

The machine is external: closing the lid puts an unblocked machine to sleep; lifting a block on a closed lid does not,
which is why the code asks for sleep. A heartbeat is renewed at every tick (5 s, below the unit).
Not modelled: installing the watchdog, the caches of
settings and senses, the activity that keeps App Nap off, the hotspot.

## 3. Runs

| Run | Instance | Shows |
|---|---|---|
| `ledger` | 2 ids, 2 addresses in one pane; a machine with room for 1 on which everything may go wrong, and a sane one with room for 2 | `AtMostOneWrite`, `DispatchHasWorker`, `AckedIsKept` on both; `FailedIsUnwritten` without refused wake-ups; `FinalStays` without late errors; on the sane machine `KeepsPromise`: `TellMailbox` is implemented |
| `delivery` | 2 messages (one `reject`) for one Claude pane, GUI may stop | `CleanTurn`, `RightConversation`, `HoldHasOwner`, `DraftSurvives`, `AtMostOnceSent`, `HonestReceipt` |
| `delivery_live` | 1 message, fair, slow drawing | `EventuallyFinal` |
| `scheduler` | 5 panes, 2 workers | `BoundedOvertaking` |
| `bridge` | 1 request, 2 faults, mirror, fair | one answer (`KeepsOneAnswer`), given by a person (`RemoteAnswerWasGiven`); `NoSleeperMissesAnswer`; `WithdrawalUnderWay`; `HookReturns`; `DecisionArrives` where calls are prompt |
| `gateway_screens` | 2 requests, room for 1, a screen, 1 restart, fair | `HeldIsCurrent`, `ClosedIsAnnouncedOnce`, `ScreenLetsGo` |
| `gateway_decide` | 1 request, Mac and phone, 2 presses, 1 restart | `OneWinner`, `NotRefusedForKey` |
| `chains` | 2 devices, 3 logins of 2 people, 2 tokens each, 1 fault, fair | `OwnerIsRight`, `SlotKeepsPerson`, `HandOverKeepsLogin`, `SlotFollows` |
| `offer_loses_login` | 1 login, no fault, Claude may rotate early | violates `OfferKeepsLogin` (finding 1) |
| `recovery` | 2 requests, 3 tokens, 1 rotation, 1 change of login or slot | `RetryIsOwn`, `OneLookAtATime`, `RoundIsHeard` |
| `restart` | 2 plans over a machine and the controller, 2 requests at a time, 3 pids, 2 mishaps | `OneHelper`, `OneByOne`, `ArrivalIsNew`, `VerdictIsWritten` |
| `lid` | one machine, for ever, fair | `BlockIsWatched`, `NotCutShort`, `BlockIsReleased`, `KeepsItAsleep` |

### Bounds, and why they are enough

* Times are small numbers in the order of the code's: `Lifetime 2 > Ttl 1` for tell, gateway `Ttl 1 <` broker `BrokerTtl
  2` for approvals. `MaxTime` lets a message be issued in the future, wait, expire, be pruned and be submitted again,
  and lets a request expire on both sides and be forgotten.
* Two ids with two issue times: one can be pruned while the other lives; one waits behind the other. Receipts interact
  only through room, order and the reason they share. All six properties are proved for any ids, times and rooms.
* Two messages and one pane: panes interact only in the scheduler, which has a module of its own. One of the messages has
  the policy `reject`. All six safety properties are proved for any number of messages and panes. The run's `VIEW`
  (`MCView`) takes states for one that differ only in what no step and no property reads any more: the queue time of
  closed messages, which of them a screen still shows, and the screens once the GUI loop has stopped.
* `MaxMisses 1` for the code's 8 polls of a follower and its status errors of a run: what counts is one miss that is
  forgiven and one that is not.
* One request in the bridge's run: requests share the channel, the wake-up and the keys of a pane; the theorems
  `OneAnswerKept`, `OnlyGivenAnswers`, `NoMissedWakeup` and `Withdrawn` hold for any number of them.
* `MaxOpen 1` with two requests reaches the refusal of a full account. One restart suffices for revisions to meet. All
  four safety properties of the two runs are proved for any number of requests, devices and restarts.
* Five panes and two workers: a pane can be passed over twice. The bound is proved for any numbers.
* Two devices and three logins of two people: a device hands over while another fills, a second login of the same person
  and one of another come in meanwhile. `MaxTime 2` with `Life 2` and `Ahead 2`: the gateway rotates, an access token
  expires, an offer comes too late (`OfferLeft 1`). Two tokens per login: one rotation by either side. The
  theorems `OwnersRight` and `PersonKept` hold for all of these numbers, `HandedOverSafely` for all that keep the order of
  the margins.
* Two requests of one chain: one leads, one follows, and each may do either again. One rotation within a generation and
  one change (login, logout, removal, adoption or a new sign-in): what a request finds is either its own chain's newer
  token or something it must refuse. All three properties are proved for any number.
* Two plans that share a machine; one of them ends at the controller. Three processes: the old app, the one a helper or a
  person starts, and one after it. Two mishaps: the second can hit what recovers from the first. All four
  properties are proved for any number.
* `lid` has no bound on time: `Retry 1` below `Quiet 2` below `Stale 3` below `Cap 4` keep the code's order of
  the limits (retry 5 s, pause 60 s, a stale heartbeat 90 s, a cap of 10, 30 or 60 minutes), and every age stops at its limit.

`CHECK_DEADLOCK FALSE` stands only where the bounded clock, the bounded faults or the end of a run let a behaviour
stop. `delivery`, `delivery_live`, `scheduler` and `lid` are checked for deadlock.

### Fairness

* `TellDelivery!FairSpec`: worker threads and the GUI loop run what is ready (weak fairness per message of `Worker`,
  `Gui`), the tick is a timer. Strong fairness of `Lapse` and `DeadlinePasses`: queue time and the deadlines run out,
  but are steps only where they are looked at, and a message that is looked at again and again leaves and re-enters that
  place. Nothing is asked of the person, the agent or the
  screen. The GUI does not stop in this run: after it does nobody ticks, and receipts are recovered at the next start.
* `ApprovalBridge!FairSpec`: clock, the loop of the bridge, each step of a hook's poll and of a request's upload. A person
  owes nothing, and faults owe nothing but the error of a poll for a forgotten request. A unit of
  the clock that passes while the bridge is `Busy` counts as a fault, since calls take seconds and a unit is minutes;
  only `DecisionArrives` is about behaviours without faults.
* `ApprovalGateway!FairSpec`: a screen's poller thread polls for ever; strong fairness of the steps of a poll says that
  not every poll fails.
* `AgentChains!FairSpec`: weak fairness of `Refresh`, the gateway's loop of a minute, and of the steps of each
  device's cycle, a loop as well. People, Claude and faults owe nothing.
* `LidAway!FairSpec`: time passes (`Pass`), the event loop ticks and finishes its calls (`App`), launchd starts the
  watchdog's script and it ends (`Watchdog`). Strong fairness of `Unblock`, `Slept` and `WatchdogReleases`: each
  is tried again and again by the code, and not every try fails; and of `WatchdogReads`: the script is not killed at its
  first line every time. Lid, work, crashes and restarts owe nothing.

## 4. Findings and known deviations

**Finding 1**, run `offer_loses_login`: a device reads its slot's token and offers it; before the gateway answers, Claude
rotates that token. The device rightly keeps the new token, as the comment at `agent_chains.rs:1309` says, and offers it
in its next cycle. The gateway does not know that its chain is spent: it answers that it holds one of this person, and
the device gives its good login up for the dead chain. The margins (`OFFER_MIN_LEFT_MS`, the ten minutes of `seal`,
`REFRESH_AHEAD_MS`) keep Claude from rotating on its own clock meanwhile; a rotation for another reason, such as a 401,
is not kept out. `HandOverKeepsLogin` states what holds: persons with such a chain (`strayed`) are excepted by name. `HandedOverSafely`
proves that there is no other way to lose a login, and how wide the margins must be for it.

The following disagree with what a reader may expect. Each is excluded by name from a property or by a constant, and shows
again when that name is dropped.

* `machine.late`, `tell.rs:380`: when the sync of the directory fails after the rename, `private_write` reports a failed
  save although the file is the new one. `transition` rolls memory back to `uncertain`, the file says `accepted`, and the
  next start queues the message again. `tell.rs:326` says such a dispatch must stay non-retriable. Nothing is typed twice
  by it (`AtMostOneWrite` holds with it), but a receipt that was final changes: `FinalStays` excepts it.
* `machine.gui`, `tell_service.rs:77`: a submit that cannot wake the GUI loop moves its message to `failed` whatever a
  worker did with it since; a message that was typed reads `failed`, which `docs/tell-protocol.md` calls a definite
  failure without submission. `FailedIsUnwritten` excepts it.
* `SlowDraw`, `tell_delivery.rs:492`: the draft mark of a key is trusted for 5 s and every write is waited on for 300 ms,
  while a fresh agent may draw its first input up to 15 s late. A draft, or the text of a withheld message, that is not
  drawn yet passes for an empty box; the message is pasted behind it, and Enter submits both. A stash that is not drawn
  yet is stashed over. With `SlowDraw = TRUE` and the two messages of `delivery`, `CleanTurn` and `DraftSurvives` are
  violated.
* `Forsaken`, `app/kasaterm/src/lid_away.rs:267-280`: between the call that blocks sleep and the first heartbeat, an app
  that dies leaves a block nobody lifts (start, boot, tick, block, crash), although `kasa-socket/src/lid_away.rs:6-8`
  leaves that to the watchdog; and a boot releases only if it finds a heartbeat. The same holds when that first write
  fails, or when the watchdog removes a newer heartbeat than it had looked at, and the app then dies before it has written
  one again. The model has all of it; `BlockIsWatched` and `BlockIsReleased` except just these blocks, and
  `Watched` proves that there is no other way to leave one behind. Without the exception both are violated.

Seen while modelling, allowed by the code and no property's subject:

* Agent chains: a sound chain of one person is not replaced by another person's login of the same key, but a broken one
  is (`seal` compares the persons only while the chain it has is sound). When `list` fails or the app dies after a
  hand-over, `map` and `owner` are not written; the owner of the token can be learnt again only while it is good.
* Remote restart: two approved plans that name one machine can both pass `job_in_flight` and get a helper each. A person
  who opens the app before the helper looks makes the new app mark its arrival; the run says `verified`, while the
  helper writes of another instance. A job refused for a pending installation leaves its helper waiting up to a minute,
  and a quit in that time is followed by a launch. Nobody writes `verified` on the target, so a booted job is in flight
  for its hour; so is one whose app died between record and helper; a torn record is refused for ever.
* Lid-away: an app that stalls for 90 s has its block lifted and does not set it again, while its status says it is
  blocked. An app that restarts or quits with the lid closed lifts the block and does not ask for sleep. The watchdog
  asks only for the clamshell and puts a docked machine to sleep.
* Approvals: a withdrawal is sent once; a lost create reply leaves a request on other screens until it expires; a follower
  gives up after its misses. Tell: keys typed after the 20 s hold are not held.

## 5. Proofs

TLAPS proves the following for all values of the constants, under the named assumptions of the modules
(`TellAssumption`, `DeliveryAssumption`, `SchedulerAssumption`, `BridgeAssumption`, `GatewayAssumption`,
`StoreAssumption`, `ChainAssumption`, `RecoveryAssumption`, `RestartAssumption`, `LidAssumption`: sets of naturals,
positive lifetimes, the machines of a plan distinct and so on). A hypothesis a theorem has beyond these is
named with it. Each module first proves its `TypeOK` (`TypeCorrect`).

`TellLedgerProofs`
* `WriteSafety`: `AtMostOneWrite` and `NeverRequeued`. Neither is inductive: a licence that is about to write must already
  exclude a queued copy. `WriteInv` says that a spent message (licence unused, or written) is not queued, in memory and on
  disk, and is missing there only once its id is too old to be submitted again; and that an unused licence has written
  nothing. The lemmas `NotQueuedStays` and `TransitionNotQueued` carry this through prunings, expiry, recovery and the
  two outcomes of a failed save.
* `NoOrphanDispatch`: `DispatchHasWorker`, inductive together with the type invariant.
* `AcksKept`: `AckedIsKept`. The invariant `AckInv` is about the file as well: what was acknowledged of a live id is on
  disk, and memory holds nothing of a live id that the disk does not hold with the same body. Without the second part a
  submit that is answered from memory could be lost by a crash. Pruning, failed saves and late sync errors keep it,
  since none of them changes what a receipt is of (`Alike`).
* `FinalIsFinal`: `FinalStays`, a property of steps. What has to be known is the restart: without late sync errors the
  disk holds the state memory holds, or memory says `uncertain` of a dispatch the disk still has (`Trails`), and `Open`
  makes that `uncertain` too.
* `FailuresAreDefinite`: `FailedIsUnwritten`. `Worker` ties a licence to a dispatch in memory and on disk, so that what
  moves to `failed` was not written (`WriteInv`) and has nobody left who will.
* `PromiseKept`: the ledger of a sane machine implements `TellMailbox`. The fate of each message (`Post`) moves as the
  mailbox allows or not at all (`FateMoves`), under all the invariants above and one about lifetimes (`ExpiresInv`: no
  receipt waits beyond the life of its id).
* `LedgerKeepsContract`: the ledger of a sane machine implements `TellWork`. A message moves as a whole, its receipt
  with its licence and the count of its writes, so the mapping needs all invariants above at once: who holds a licence
  is in memory under dispatch and the other way round (`Licensed`), what memory does not know the disk does not know
  either, unless its id is outlived (`Bare`), and then its licence is void, since the last look before a write is at the expiry.
* `ContractSuffices`: whatever keeps the contract writes a body at most once, says `submitted` only of what was written
  and `failed` only of what was not (`HonestWork`), and implements `TellMailbox` (`KeepsMailbox`).

  The lemma `LedgerSteps` sorts the actions into five forms of what they do to memory and file, which these proofs
  go through.

`TellDeliveryProofs`, about `TellDelivery` and, in its last section, `TellScheduler`
* One inductive invariant, `Inv`, carries the six theorems: at most one delivery works on a pane (`Alone`); at each of
  its stages a delivery has written what the stage says (`Shape`), the ledger and the scheduler hold the receipt and the
  pane for it (`Booked`), and while nobody else has written (`same`) it knows who is in the pane and what is in the box
  (`Boxed`, `Clean`); a written message is nowhere reported as unwritten (`Told`); a message in a box or a stash was
  pasted once and is not sent, and a screen that is trusted is up to date (`Sound`, with `Drawn`); keys are held by a
  delivery that wrote (`Owned`). `CleanTurn` and `RightConversation` are decided when the screen is looked at and matter
  at the Enter, several steps of other threads later; `Boxed` and `Clean` are what carries them there. `Drawn` is where
  `~SlowDraw` comes in: only a look that found the draft mark gone and the last write old may conclude from the screen to
  the box, and the revision (`same`) says that the conclusion is still good at the write.
* `RightReceiver`: `RightConversation`. `HoldsOwned`: `HoldHasOwner`. `SentOnce`: `AtMostOnceSent`.
  `ReceiptsHonest`: `HonestReceipt`. Under `~SlowDraw`, as the run has it, `OnlyTheMessage`: `CleanTurn`, and
  `DraftsSurvive`: `DraftSurvives`; with `SlowDraw` both are violated (section 4).
* `NoneOvertakenLong`: `BoundedOvertaking` of the scheduler, for any finite set of panes and any number of workers. The
  bound is not inductive. `Near` measures how far a pane is from its turn, by the number of panes between the cursor and
  it in the rotated order (`Distance`), and says that `passed * workers + distance < |panes|`. A tick that passes a pane
  over has served as many panes as there are workers, all of them nearer to their turn (`Round`, `Nearer`).
* `AllWorkersServe`: a tick serves as many panes as there are to serve, up to the number of workers, so it
  serves none only when there is none to serve. This is what `TellDelivery` takes its scheduler to do.
* `MailboxKept`: `TellDelivery` implements `TellMailbox`. A message is taken when its body is written, and from `Told`
  and `Booked` no later step can write it again or after its receipt is closed.
* `DeliveryKeepsContract`: `TellDelivery` implements `TellWork`, under the licence a receipt and the count of writes
  stand for. To `Inv` it adds `Paid`: a delivery that waits for the echo, or is about to say `submitted`, has written
  the body of its message (`Hot`).

  With `LedgerKeepsContract` this closes the composition. `WriteSafety` and the others hold of a ledger whose workers
  write only under an unused licence and report as they must; `DeliveryKeepsContract` proves that of the
  workers, against a ledger that grants what `LedgerKeepsContract` proves the ledger to grant. What stays assumed is
  that each treats the other's step as one step: the ledger's moves are made under its mutex, and the body is written
  by one guarded write.

`ApprovalBridgeProofs`
* `CoherentAlways`: hook, engine and broker never disagree (`Fits`): a hook that holds a decision holds the broker's, the
  engine acted on the broker's, keys are pending only for open requests.
* `OneAnswerKept`: `ApprovalBridge` implements `OneAnswer`. Under `Coherent` each step is a step of `OneAnswer` or leaves
  engine and offer alone.
* `OnlyGivenAnswers`: `RemoteAnswerWasGiven`. `Sourced` follows a decision back: the broker's comes from a mirror or from
  a job, the job's from the gateway, the gateway's from a person who saw a whole request, if it allows.
* `NoMissedWakeup`: `NoSleeperMissesAnswer` for any number of requests. `Alert` extends it to the poll that has looked and
  does not sleep yet: this is the moment the early `Notified` is for.
* `Withdrawn`: `WithdrawalUnderWay`, for any number of requests that share the channel and the loop. It does not depend
  on the broker: a request that the gateway offers and no fault cut off is at every moment being announced to the loop,
  watched or withdrawn by it (`Watched`), and a follower reports that it is done only when the gateway has closed it.
* `GatewayAsPromised`: the gateway as this module has it implements `OneDecision`. `Standing` adds that a job which has not
  created its request has none there, that a pending one is before its deadline and an expired one was due.

`ApprovalGatewayProofs`
* `ToldOnce`: `ClosedIsAnnouncedOnce`. `Counted`: a request has been counted once from the moment it closes, in one of
  the two queues or among those told, and stays counted when the store forgets it, which the property leaves out.
* `WonOnce`: `OneWinner`. Whoever is told that it decided did so, and the request is `Past`: no longer pending in any
  state to come, so that nobody else can win it.
* `KeysRenewed`: `NotRefusedForKey`. `KeyInv` counts the restarts each place of a press needs: one to come to register
  again, a second one to be without a key after that.
* `HeldScreens`: `HeldIsCurrent`. `Follows` speaks of screens that are not held as well: a screen of this run of the
  gateway knows no later revision than there is, and its list is the store's when no rise was made or is owed since.
  `ChangeOwesBump` is the lemma that every call which changes what is listed owes a rise.
* `DecidedOnce`: the store implements `OneDecision`, though nothing sweeps it but the calls. What a request shows
  (`Shown`) is what a sweep would leave of it now, and an expired one shows as closed at its deadline. `Noticed`: an
  expired request was due when it was closed. `ShownPasses` is the step of the clock, `ShownCalls` the step of any call:
  sweeping early, late or not at all shows the same (`StillPending`: what a call's sweep leaves pending is in time).

`AgentChainsProofs`
* `OwnersRight`: `OwnerIsRight`, for any slots, logins, people and faults. `Owners` adds the chain's lineage and what a
  cycle carries between its steps: one about to give its refresh token up has proved its person (`RightHandOver`), one
  about to fill has proved that slot and chain are of one person (`RightFill`).
* `PersonKept`: `SlotKeepsPerson`, from the same invariant.
* `ChainStaysGood`: unless its login is in `strayed`, a chain that the gateway shows as sound holds the refresh token the
  provider takes. It needs the margins in the right order: `Margins` asks that the offer's and the gateway's exceed
  Claude's own by what faults may cost, each a unit of the clock. In the code they are 30 minutes and 3 hours against
  5 minutes, and the run's constants satisfy it. It is tight: with two faults and either margin one
  less, TLC finds `ChainIsGood` violated. The inductive invariant `Held` adds that no token is ahead of the provider
  (`Issued`), that one slot at most has the refresh half of a login (`OneSlot`), and how long a slot that still has the
  half of the gateway's chain will leave it alone (`Margin`): the heart of the argument, a race of Claude's clock
  against the cycle that will take the half away.
* `HandedOverSafely`: `HandOverKeepsLogin`, under `Margins`. `Replied` adds that what the gateway answered still holds at
  the hand-over: it has a sound chain of that person, or one of the person's logins is in `strayed`. It has to be any of
  them. If only the login offered and the one answered for are excepted, TLC finds a violation with three logins of one
  person: the chain answered for runs out while the reply is away, a third login takes its place, and Claude rotates
  that one before the slot gives its own up.

`ChainRecoveryProofs`
* `LooksOneByOne`: `OneLookAtATime`. A reader holds the lock of its flight (`Locks`), and all who use a flight use the
  one in the map (`OneFlight`), since it stays there as long as anybody uses it.
* `NoneSleepsOn`: `RoundIsHeard`. `Heard`: the task of a round that is waited for was started, and it ends only after the
  result is written, so the wake-up cannot fall between a look at the result and the sleep.
* `RetriesOwn`: `RetryIsOwn`. `Own`: while a request asks under the same login of the device, what its slot grants now is
  among what it could have found, and so is what was looked up for it.

`AppRestartProofs`
* `HelperOnce`: `OneHelper`. One call holds the record of a job until its helper is spawned (`OneMaker`): the record is
  created exclusively, and whoever finds it does not spawn.
* `InOrder`: `OneByOne`. `Ordered` ties the place of a run to its outcomes, to the requests it sent and to the
  records that exist: nothing is sent, in transit or recorded for a machine behind the run's place.
* `NewArrivals`: `ArrivalIsNew`. `Fresh`: a live app is the last one started, a request names a process that was there,
  and a helper that went on saw that process gone.
* `Verdicts`: `VerdictIsWritten`, from the facts about the fold (`FoldFacts`): an event a helper writes last moves every
  state it can meet there to one where a job may rest.

`LidAwayProofs`
* `Watched`: `BlockIsWatched`, with no assumption about when the app dies or what fails. `CallFits` says which calls go
  with which phase, and that a block a release has lifted stays lifted to its end; `Held` that a block without a
  heartbeat is one that has not had its own yet, whose app is up and not idle, or is lost.
* `WorkFinishes`: `NotCutShort`. `PauseIsReal`: the quiet time the policy counts is never more than the time since
  work was seen.

Every invariant and every property of steps that a passing run checks is a theorem. Out of the prover's reach and left
to TLC: liveness under fairness (`EventuallyFinal`, `HookReturns`, `DecisionArrives`, `ScreenLetsGo`, `SlotFollows`,
`BlockIsReleased`, `KeepsItAsleep`) and `ENABLED`. No proof needs induction over data, and no module here uses recursion.

TLC finds no violation of these inductive invariants on the instances of section 3, `delivery` included.

## 6. Not modelled, and plan

The modelled parts are those whose correctness depends on order and failure. Most of the 350 000 lines are not of that
kind: drawing, layout, terminal emulation, settings pages, wording, static data and the front ends. `PROJECT.json` gives
the reason for each. What could be added to the models, most important first:

1. Close grace (`close_grace.rs`): a closed pane can be reopened until its timer ends; the timer of an earlier close must
   not end a pane that was reopened or closed again.
2. Remote tells: the sender's side and its retry with the same id, composed with `TellLedger`.
3. The approvals of operators (`op_approval.rs`) beside `AppRestart`; session transfer, update, account sync, dispatch,
   the sender notices of `claude_mod.rs`, secret approvals.
4. Pure algorithms against reference definitions: the two-set Hangul automaton, the layout tree.

Proofs to come: the same composition for `AgentChains` and `ChainRecovery`, whose environment of rotations and logins is
so far only `AgentChains` in outline; that the requests of `ApprovalBridge` arrive at `ApprovalGateway` call by call.

## 7. Running

    tlc -config MCTellLedger.cfg MCTellLedger        # one configuration
    tlapm TellLedgerProofs.tla                       # the proofs of a module

`delivery` is the largest run: 1.5 million states, one to two minutes on two cores.
