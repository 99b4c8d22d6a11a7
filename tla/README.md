# Conductor Telegram bot: verification project

The program under `src/` bridges Conductor sessions (coding agents in cloud
workspaces) to Telegram topics. One process, shared by several teams (tenants),
polls every bound session, mirrors its transcript into its topic, shows what a
turn is doing, and carries the user's prompts the other way. State lives in
Postgres; the process is restarted by every deploy, sometimes with an overlap,
and Telegram and Conductor both fail, throttle, and answer late.

What can go wrong is therefore seldom in one function. It is a reply lost in a
restart, a prompt that waits for ever, a turn declared done while it runs, two
processes polling one session, a cursor that jumps over messages nobody saw.
This directory models those parts, checks them with TLC on small instances, and
proves the central safety results with TLAPS for all sizes.

All paths below are relative to `src/src/ctb/` unless they start with `docs/`.

## 1. The system

| component | state it keeps | operations | talks to |
|---|---|---|---|
| turn machine (`turn/machine.py`, `turn/state.py`) | `TurnContext`: state, pending prompts, start witness, idle streak, timers | one transition per piece of evidence; returns actions | pure, called by the poller |
| session poller (`turn/session_poller.py`) | the context in memory, saved to the `sessions` row | tick: drain, status, workspace, timers; save; execute actions | cursor, machine, prompt ledger, Conductor, outbox, card |
| prompt ledger (`db/repo/prompts.py`) | `outbound_prompts`: recorded, posted, queued, witnessed, refused, abandoned | written by the handler that posts and by the poller that witnesses or gives up | poller and prompt handlers, concurrently |
| transcript cursor (`turn/cursor.py`, `db/repo/transcript.py`) | cursor id and index, recorded messages, deliveries | drain by pages, advance by compare-and-set, repair a 404, seek to the end, shed | Conductor, outbox table, poller and /new, /board |
| offset search (in `turn/cursor.py`) | probes of one search | gallop, halve, step back | Conductor |
| outbox (`delivery/outbox.py`, `db/repo/deliveries.py`) | `deliveries`: pending, sending, sent, failed, skipped; claims; hashes | claim a batch of a topic, dedupe, send, mark, give back, recover orphans | Telegram, every producer of text |
| lease (`db/repo/lease.py`) | one row: holder and expiry | acquire, heartbeat, release | supervisors of overlapping processes |
| supervisor (`turn/supervisor.py`) | poller tasks, restart backoffs, fatal latch, rotation | reconcile pass: observe, select, cancel, spawn; corroborate a 401 | lease, sessions, tenants, client pool |
| client pool (`conductor/pool.py`) | a client per team, pins, last use | get, pin, unpin, forget, sweep | supervisor, pollers, handlers |
| pacing (`delivery/pacing.py`) | token budgets per chat and for all, a rotor | acquire, pause, serve the next destination | outbox |
| status card (`delivery/status_card.py`) | one live message per turn | show, edit, finish, adopt after a restart | poller, Telegram |
| renderers (`delivery/render/`) | none | text to Telegram HTML, split at 4096 | outbox, cursor |
| Conductor client (`conductor/client.py`) | auth failure counter, token bucket | call with retries | everything that reads Conductor |
| voice (`voice/`, `db/repo/voice_inputs.py`) | `voice_inputs`: received, transcribing, review, submitted | claim, transcribe, submit, sweep | prompt ledger, outbox |
| creation (`bot/wizards/`, `bot/handlers/common.py`) | wizard draft with a nonce | choose, confirm, create and bind | Conductor, rooms, cursor |
| rooms (`bot/handlers/topics.py`, `adopt.py`) | which session owns which topic | open, release, adopt, park | cursor, Telegram |
| CI watcher (`ci/`, `db/repo/ci.py`) | a watch per pull request, its last conclusion | poll GitHub, announce once | outbox |
| callbacks (`bot/keyboards.py`, `bot/actions.py`) | single-use tokens | issue, redeem, expire | handlers |
| tenancy (`bot/middleware/`, `bot/handlers/registration.py`, `db/repo/tenancy.py`) | members, invites, keys, auth stamps | admit, register, set a key | supervisor, pool |
| crypto, rewrap (`crypto.py`, `rewrap.py`) | wrapped tenant keys | seal, open, rewrap offline | tenancy |
| database (`db/connection.py`, `migrate.py`) | schema version | transactions, migrations | everything |
| health (`health.py`, `watchdog.py`, `silence.py`) | last-progress times | probe, warn | reads the others |

The interactions that matter are the shared rows. The `sessions` row is written
by the poller (context, cursor), by handlers (binding, QUEUED) and by the
recovery of a restart. `deliveries` is filled by the cursor's transaction and
emptied by the outbox. `outbound_prompts` is written by a handler waiting for a
POST while a poller witnesses the same prompt. The `tenants` row is written by
/key and by the supervisor that stops a team.

Hard behaviours: every `await` is an interleaving point for the other tasks of
the process; a task may be cancelled at it; the process may die at it; a deploy
may run two processes; Conductor's POST may be accepted and its answer lost or
late; Telegram may show a message and its answer be lost; a page of messages may
ignore `after`; an id may be forgotten. The list with lines is in
`PROJECT.json`, "hazards".

What makes each part correct:

* turn: idle ends only a turn that was seen to start; done is said once and only
  when nothing runs; no waiting state is for ever.
* prompts: each one the user was told is saved reaches an outcome; none is dropped silently.
* cursor: from the place mirroring began, the transcript goes to the chat in
  order, in full, once; history is not replayed.
* outbox: at least once, in order within a topic, twice only when a landing went unrecorded.
* lease: at most one process polls, and one does.
* supervisor: ceilings, fairness between teams, one team's trouble stays its own.
* pacing: a pause is respected by every sender, a budget per chat, and no chat starves another.
* Conductor client: a request that may have taken effect is not sent again blindly; a sick resource is not a sick API; the circuit closes again.
* rooms: a line typed in a topic reaches the session that is read there; no topic is orphaned.
* creation: one intent, one workspace, one bill.
* voice: a note is answered once, and is paid for within its budget.
* CI: a verdict is said once, every watch ends.
* receipts and card: a turn rings once, and a topic has one Stop, which is the running turn's.
* teams: an update acts for the team and the role its sender has, or had less than a moment ago.

## 2. Modules

| module | models | state |
|---|---|---|
| `TurnMachine` | the pure machine: one operator per row of `machine.py`, from a context to a context and a sequence of actions | none (operators) |
| `SessionPoller` | the poller, the ledger, the handler that posts, crash and restart | `task`, `ctx`, `todo` (what is left of a tick), `row` (durable context), `ledger`, `posting`, `accepted`, `echoed`, ... |
| `FinishLine` | SessionPoller with an observer of the message a turn ends with | `finish` |
| `OffsetSearch` | one search of `_first_offset_matching` while the transcript grows | `phase`, `low`, `high`, `asked`, `result`, ... |
| `Mirror` | abstract: what the cursor promises | `reached`, `queued`, `dropped`, ... |
| `TranscriptCursor` | the cursor, with overlapping pollers and a handler that seeds and binds | `row`, `recorded`, `queued`, `aside`, and each poller's place `at` and locals `poll` |
| `ReplyPromise` | abstract: what the outbox promises | `seen`, `fate` |
| `Outbox` | claims, sends, failures, recovery, workers' lives | `state`, `claim`, `age`, `thread`, `attempts`, `mode`, `jobs`, `inflight`, `seen` |
| `TopicReader` | Outbox with an observer of unrecorded landings | `lost` |
| `Pacing` | the outbox's pass: rotor, hold, budget per chat, pauses | `rows`, `rotor`, `tokens`, `paused`, `recent`, `stopped`, `worker` |
| `Lease` | lease row and the supervisor's loop in several processes | `holder`, `left`, and each process's `at`, `has`, `polls`, `age` |
| `Supervisor` | reconcile pass, client pool, auth stamps, handlers | `poller`, `client`, `pins`, `latched`, `backoff`, `turn`, `step`, ... |
| `ConductorClient` | requests through the circuit breaker and their retries | `state`, `streak`, `isolated`, `probe`, `at`, `asks`, `tries`, `landed`, `sick` |
| `Rooms` | the two tables that say who owns a topic, /board, /fork, /done, room_gone | `topic`, `session`, `route`, `owed`, `task` |
| `Creation` | the four ways to ask for a workspace, paying, binding, redelivery | `paid`, `row`, `seat`, `route`, `form`, `pending`, `task` |
| `VoiceNotes` | rows of `voice_inputs`, their workers, the sweep, Retry | `note`, `worker`, `billed`, `prompts` |
| `CIWatch` | one watch, polled by several instances, and GitHub | `row`, `poll`, `pull`, `ci`, `heard` |
| `Receipts` | the message a turn ends with, and its link | `prompt`, `sink`, `row`, `screen`, `rings` |
| `StatusCard` | the live card, the ticker, adoption | `turn`, `row`, `card`, `at`, `screen` |
| `Teams` | resolution and its cache, sign-up, keys, chats, seats | `team`, `seat`, `chat`, `primary`, `code`, `cache`, `task` |
| `MC...` | values for the constants, and the runs' hosts (section 3) | |
| `OutboxProofs`, `ArrivalsProofs`, `LeaseProofs`, `WorkersProofs`, `MirrorProofs`, `HandlersProofs`, `ControlsProofs`, `PollerProofs` | theorems (section 4) | |

How they compose. `SessionPoller` EXTENDS `TurnMachine`: a tick hands evidence to
the machine's operators and executes the actions they return. It takes from a
drain only its evidence; `TranscriptCursor` models the drain itself, and takes
from a seek only that it finds an end, which is what `OffsetSearch` establishes
(`FindsAnEnd`, `RepairsExactly`). `Outbox` starts with rows not yet queued; the
cursor's transaction is what queues them, and `Pacing` says when their destination is served.
`Receipts` queues rows for an outbox it keeps to claim, land and mark.
`Supervisor` assumes the process holds
the lease and treats a poller as something that calls Conductor and ends;
`Lease` is about who may run such a pass at all. `ConductorClient` is inside one call that
`Supervisor` and `SessionPoller` see only the outcome of. `Creation` ends with the binding that `Rooms` starts from.

Correspondence. One action is one piece of code between two awaits that matter,
the calls it makes included; a transaction is one step. What a handler or a task
still has to do is explicit state (`todo`, `at`, `mode`, `step`, `task`), so a crash or a
cancellation can fall between any two steps. `PROJECT.json`, "map", gives the
source lines of each definition. Python exceptions that end a pass are actions
of their own (`Fail`, `Stumble`, `Crash`).

Data abstracted throughout: texts are model values or row numbers, times are
small ages capped at their limit (an age at its cap means "old enough"), Conductor
and Telegram answer anything their API allows.

## 3. Runs

Components that share no state and are asked the same kind of question share a run. Its
module, a *host*, instantiates each of them, and a variable `world`, chosen in the initial
state, says which one runs; the variables of the others stay where they start. The state
space is the sum of the components' and not their product: nothing is left out of a
component, and no interaction between them is claimed. A host states the fairness of each
component under its own world, conjoins small invariants of one component into one property
named for the promise, and guards a liveness property by the world it speaks of.

| run | instance | what it shows |
|---|---|---|
| `Poller` | one prompt, one turn of another client, limits of one or two ticks, Stop between ticks, crash at every point | `TypeOK`; `IdleCountsOnlyOnceStarted`; `DoneOnlyWhenNothingIsRunning`; `PromptsAreNotForgotten`; `OnlyALateAnswerUnsettles` |
| `PollerFinish` | one prompt, no other client, Stop between ticks, crash at every point | `FinishAtMostOnce` |
| `PollerLive` | one prompt, crashes, no Stop | `WaitsEnd`, `EveryPromptSettles` under fairness |
| `OutboxSettles` | two rows, two lives one after the other, crash, failure, a topic deleted by the user | `TopicOrderIsExact`; `EveryRowSettles` under fairness |
| `Workers`: outbox | three rows of which one never goes out, two overlapping workers, crash, stop, database blip, refusals | `TypeOK`; `SettledMeansSeen`; the refinement `KeepsThePromise`; `ShownOnce` |
| `Workers`: supervisor | a team of three sessions with a quota of two, keys refused and replaced, handlers calling | `PollersKeepToTheirCeilings`; `ClientsOutliveTheirPollers` (a pinned client is closed only for another key; a latched team is not respawned) |
| `Mirror`: transcript | three messages with a gap in their index, the last an error; two pollers; the session created, opened from /board, or already mirrored; one forgotten id, one failed transaction, replayed pages, shedding, re-adoption | `NothingLostNothingTwice`; the refinement `KeepsTheMirror` |
| `Mirror`: client | two callers, one resource and the API, a threshold of two, two attempts, one hang | `CallsAreCounted`: no blind second POST, the half-open slot is always somebody's who runs, one sick resource opens nothing |
| `Mirror`: CI | two instances, two heads, one run each, two turns, one error, one cut-off | `OneVerdictOneNotice` |
| `Handlers`: rooms | two sessions and one to fork, three topics, two handlers, a discoverer, three commands, in a group and in a private chat | `EveryWordFindsItsRoom`; `NothingIsStranded` |
| `Handlers`: creation | a typed line, a card, a spoken task, two containers, two handlers, two beginnings, a quota of one | `OneIntentOneBill` |
| `Handlers`: receipts | two prompts, three endings, one death | `OneReceiptPerTurn` |
| `Controls`: teams | two users, two groups, two teams, two updates in flight, four operations, a TTL of one | `GroupsKeepTheirTeam`; `OnlyOwnersTouchOwners`; `AStaleResolutionIsYoung` |
| `Controls`: card | two turns, five posts, one mishap, one 429 | `OneStopButton`; `TheCardIsTheTurns` |
| `Arrivals`: search | every transcript up to 13 messages, growth of one, a cap of 12 | `FindsAnEnd`; `RepairsExactly`; `FewRequests` |
| `Arrivals`: transcript | as above, pages of one, two ids may be forgotten; created or mirrored | `WhatIsSaidArrives` under fairness |
| `Arrivals`: voice | one note, two workers, an orphan age of one tick and a deadline of two | `OneNoteOnePrompt`; `NothingWaitsForEver` under fairness |
| `Arrivals`: CI | two instances, a check run twice, errors up to the limit | in `NothingWaitsForEver`: every watch ends |
| `Arrivals`: pacing | three destinations in three chats: two chats refuse as they please, one of them also its card; the third chat's session narrates | `OneRowIntoAPause`; `NobodyStarves` under fairness |
| `Upkeep`: lease | two processes, a TTL of three ticks and a pace of one | `PollsUnderALiveLease`; in `EveryTeamIsServed`: while some instance lives somebody polls again |
| `Upkeep`: supervisor | two teams and one place | in `EveryTeamIsServed`: the rotation polls each team again and again, and the client of a rejected key is let go |
| `Upkeep`: client | two callers, one hang, a sick API that recovers | `TheApiComesBack` |
| `SupervisorStumbles` | two teams, one key refused | `OneTeamsKeyIsNotAnothersOutage` fails, see section 6 |
| `TeamsOwner` | the teams of `Controls` | `TeamKeepsAnOwner` fails, see section 6 |

Each property of a passing run has a mutant in `PROJECT.json`: a plausible bug in
one mapped definition under which TLC finds the property violated. The mutants
sit beside the definitions they alter, each marked as one.

### Bounds

* Timers (`QUEUED_TIMEOUT` and the rest) are 1 and ages are capped at `AgeMax` = 1:
  an age is "young" or "past the limit", which is all the guards ask.
  `DRAIN_CONFIRMS` is 2 so that a streak can be begun and broken. One prompt and one foreign
  turn are the smallest instance with "my turn", "another's turn" and "no turn".
* Three outbox rows give a batch (2) and a rest, so that a deferred or failed
  row has one before and one behind it. Two workers are a deploy. A claim's age has three values: new, aged, orphaned.
  `MaxAttempts` = 2 reaches a park after a retry.
* Three messages and pages of one or two give a full page, a short one and an
  empty one; two pollers can hold the same page. `MaxPages` = 2 reaches the
  bound of a drain.
* The searches run past the cap (13 > 12), so the capped and the uncapped gallop both occur.
* TTL 3 and pace 1 leave a missed pass and an expiry apart. Two processes give a holder and a waiter that boots between; the proof is for any number.
* Three sessions with a quota of two give a cancelled sibling and a waiting one;
  one `Odd` event (a 401 to a good key, a hang, a crash, a failed pass) per behaviour is enough for the
  latch and its undoing.
* Rooms: two sessions that can fight over a seat and one that /fork creates; three topics so that
  each may have one and one is left to a stranger; three commands so that two overlap and a third comes after.
* Creation: one intent of each kind, two containers (the second is the double bill), a
  redelivered update counted in `MaxBegun`.
* Teams: two of everything is the least with "mine" and "theirs"; four operations reach sign-up, an
  invitation, a change and what a stale resolution does after it. `Tick` waits for a read in flight, which the code's own timeouts bound.
* Client: a threshold of two separates one failure from a streak; two permits are the semaphore at its limit.
* Pacing: a pause of two ticks outlasts a refill of one; two chats with a global threshold of two reach the escalation;
  a burst of one and a batch of two make a batch wait for its budget half-way. `Backlog` lets the urgent topic have two rows.
* Counters that only bound the exploration are constants named `Max...`; every fault they count may fall at any step.

### Fairness

* `SessionPoller`: the tick is an endless loop of its task and the supervisor respawns it
  (WF). Clocks advance (SF: they are enabled between ticks only). A drain now and then finds nothing new and
  /status now and then answers (SF): a transcript that never rests or a server that never answers is outside the claim,
  and so is an endless series of crashes (`CalmsDown`).
* `Outbox`: processes are restarted by the platform (WF); the rotor serves each destination again
  and again (SF on `Claim`, which is what `NobodyStarves` of `Pacing` is about); a pause ends, so a send is attempted in the end (SF on `Deliver`); an idle pass comes again (SF on `Recover`), which the code does not promise a busy
  outbox: see section 6.
* `TranscriptCursor`: the tick and the handler's next step are taken up again (WF).
* `Lease`: time passes, a living process continues its loop (WF).
* `Supervisor`: the loop continues, running pollers call, time passes (WF). Nothing is
  assumed of handlers, owners or Conductor.
* `VoiceNotes`: a worker's task goes on, the sweep and the clock come round (WF on each). `EveryNoteIsAnswered` is conditional on
  jobs that in the end finish within the orphan window (`Quick`): the deadline is longer than the window, and without the premise two slow workers hand a note to and fro.
* `CIWatch`: a poll goes on and the interval elapses (WF). GitHub, Telegram and the checks may fail for ever; the watch still ends.
* `Pacing`: the task goes on, time passes, a waiting row grows old (WF). `NobodyStarves` supposes that in the end the topic's own sends
  do not fail for the network and that status cards stop being refused; other chats may refuse for ever.
* `ConductorClient`: requests are admitted and answered or time out, windows run out (WF). `CircuitRecovers` is conditional on callers that do not cancel every probe.

No fairness, and no liveness, for `Rooms`, `Creation`, `Receipts`, `StatusCard` and `Teams`: handlers answer updates that may never come.

`CHECK_DEADLOCK FALSE` is set in the hosts' cfgs (their worlds end when a bound is used up, every instance has died, or a search is over)
and in `TeamsOwner`; the poller's runs, `OutboxSettles` and `SupervisorStumbles` check for deadlock.

## 4. Proofs

Every theorem holds for all values of the constants that satisfy the named
ASSUMEs of the modules, which TLC evaluates in the runs; the hosts assert those
of the modules they instantiate (`ConstantsFit`). Where a theorem needs a switch
of the model to be off, its ASSUME says so, and the paragraph says why.

A component that runs under a host has its theorem stated of the host's
`SideBySide`: a lemma (`CreationSteps`, `RoomSteps`, `SupervisorSteps`, ...)
first shows that every behaviour of the host is one of the component's own
specification, and the rest is about the component alone.

**Outbox** (`OutboxProofs`), for any rows and workers, any limits, and every
failure the switches allow:

* `TypeCorrect`: `Spec => []TypeOK`, including that a row has a claimant exactly while it is `sending`.
* `NothingIsWrittenOff`: `Spec => []SettledMeansSeen`, assuming `DistinctContents`. The
  property is not inductive: marking a row sent needs to know that what a worker
  has in flight was shown (`Shown`), and the hash guard that finds a row's twin
  settled needs the twin to be the row itself, hence the assumption.
* `TheOutboxKeepsItsPromise`: `Spec => KeepsThePromise`, assuming also `~MaySlow`:
  initial states map to initial states and every step to a step or a stutter.
  It needs `Exclusive` (a row is in one live worker's hands at most) and `Owed`
  (what a worker works on is still owed); the mapping `Fate` collapses the row's states.
* `APartIsShownOnce`: `~MaySlow => (ReaderSpec => ShownOnce)`. Beside `Exclusive` it needs `Once`:
  a row that was seen is sent, or lost, or in flight.
* `ATopicReadsInOrder`: `~MayOverlap => (Spec => TopicOrderIsExact)`. Rows are queued in
  order, and in a claimed batch none waits that comes before one the worker holds (`InOrder`); with two workers
  that is not so, and the run of this property has one process after another too.

**Arrivals** (`ArrivalsProofs`).

The search, for any cap, transcript and growth: `SearchTypes`,
`SeekFindsAnEnd`, `RepairIsExact`. The invariant `Bracket` says that `low - 1` is
known not to match and, once bracketed, `high` is known to match; what the prober was told lies
between the length at the start and now (`Told`). The last two speak of transcripts within
the cap (`Fits`), as the code's cap is a deliberate give-up. Termination is not claimed of the search itself, but its requests are bounded:

* `SearchIsShort`: a search of a transcript of up to 2^e messages asks for 2e + 3 offsets at most, whether or not it is within the cap. The
  invariant `Few` counts: k + 1 probes double to 2^k, the last but one of them having shown a transcript longer than half of that
  (`LongerThanHalf`), and each later probe halves a bracket no wider than 2^(k-1); a grown transcript only raises the bound. The provers know nothing of `2^n`, so that it
  doubles and grows is derived from what it counts, the subsets of a set of n (`PowerCounts`, from the library's `FS_SUBSET`, whose own
  proof leaves 2^(n+1) = 2^n + 2^n to arithmetic).

Pacing, for any destinations, chats, budgets and pauses, and the voice pipeline, for any notes and workers:

* `OneRowPerPause`. A row let past the check is overtaken when its chat is paused while it waits for a budget (`Overtaken`). In `Paced`
  a chat that has had its late row is paused and has no other row past the check (`LateOnce`), since there is one task, one batch, and a
  check between any two rows of it; a pause is drawn out by a second 429 and never cut short. `Batches` is what makes the batch's counts
  meet the rows': whoever is still to be served has rows, and the one being served is not among them.
* `NoteWithinBudget`. A call is paid for after the claim that counted it, and between the two the claim may be swept and the note claimed again. So
  `Budgeted` balances, note by note, the calls made *and those workers still owe* (`Owed`) against the attempts counted, and the attempts, with one in hand
  for a row that waits to be claimed, against the budget and the taps of Retry. A claim of a note that has its transcript owes no
  call and counts no attempt, which needs that `transcribed` implies a transcript (`Sound`).

**Lease** (`LeaseProofs`), for any number of processes and any TTL above the pace: `LeaseTypes`, and
`OneSupervisorPolls` (`~MaySlow => (Spec => []PollsUnderALiveLease)`). The invariant `Sound` ties a
process's age to the row: whoever has the lease or pollers is named by the row, and the row has at
least as long to live as the process believes.

**Supervisor** (`WorkersProofs`), for any sessions, teams, quotas and places:

* `PollersFit`: the ceilings hold. What has to be carried along is that the pollers there are *and* the list the pass wants
  fit (`Fits`), in every phase of a pass (`PassInOrder`), because a pass works from a selection that binds, drops and
  latches may have overtaken: only what survives in both is ever started, and subsets of what fits fit (`FewerFit`).
  That the selection itself fits (`SelectionFits`) is counted: it takes a team's share by rank, so its size per team is the quota at most.
* `ClientsOutlive`: a client is closed under a poller for another key only, and a latched team is not respawned. The
  pins of a client are as many as its team's pollers (`PinsCount`); a latched team has no pollers, and nobody holds the second key before it is stored (`Keyed`).

**Transcript, client, CI** (`MirrorProofs`):

* `NothingIsLost` and the refinement `TheCursorMirrors`, for any transcript with any gaps in its index, any page size and
  any pollers, assuming `~MayRace` (section 6 says what the race does). One invariant, `Mirrored`, serves both: what was recorded is the stretch
  from where mirroring began to the row's cursor (`RowInStep`), and a poller in the middle of a drain stands
  at a place mirroring has reached, with a page that begins no further on (`PollsInStep`): so a write that passes its compare-and-set
  begins where the cursor is.
* `EveryCallIsCounted`, for any callers, assuming `~MayGarble`. The half-open slot is somebody's who has a call under way (`Borrowed`); a create
  is sent again only if it never landed (`Unspent`); while one resource is sick the circuit is closed and every failure that counts is that resource's (`Confined`).
* `VerdictsAreSaidOnce`, for any instances. `Accounts` balances what was repeated against the polls that were cut off or overlapped, poll by poll:
  each poll under way beyond the first may cost a repetition, at the price of the excuse its claim was, and a verdict on record that is not the last one said may cost one more.

**Handlers** (`HandlersProofs`), for any sessions, topics, handlers, intents and prompts:

* `OneLineOneWorkspace`. An update is with Telegram or with one handler, never with two (`OneHolder`), and a handler about to
  pay for a typed line knows that nobody has (`OnePayment`). It is for lines, because two taps on a card break just this.
* `OneReceiptStands`. The receipt of a prompt is the row of its number (`Numbered`); it has rung for the deaths so far, and once for itself if it
  has landed (`Counted`); one not marked yet shows no more than it says (`Shown`).
* `WordsFindTheirRooms` and `RoomsAreNotStranded`. The invariant `Housed` is the largest of the project, since rooms are kept in two
  tables that handlers write in several transactions. Its parts: what each handler has established so far and may rely on (`Errands`); that adoptions take turns under the
  lock and a session being forked is nobody else's (`Exclusive`); no session has two routes, and a topic routes to a session seated there or at the root (`Routed`);
  in a group, a topic nobody has opened is nobody's, and a fresh one is its opener's alone (`Apart`); and two bound sessions
  share a seat, in a group the root only, while one of them is on its way out (`Seated`). In a private chat, where topics are also the user's, `Apart` is not true, and the proof does without it there.
  Looking for this invariant with three handlers and four commands TLC showed the action property of the rooms to be too strong: a /done that was begun before a
  session moved into the topic unroutes it. `LosersStayRecoverable` now excepts that step (`Retires`, section 6).

**Controls** (`ControlsProofs`), for any users, groups, teams and updates at once, and for any turns, messages and mishaps:

* `GroupsArePaidForAndStay`, `OwnersAnswerToOwners` and `StalenessIsBounded`, from one invariant of `Teams`, `Governed`. Groups: what a team has of groups,
  of handlers about to give it one, and of codes still to be redeemed is together no more than the codes minted for it (`Paid`); without the handlers in the middle the redemption and the
  binding, two transactions, would not balance. Owners: a team has one owner (`Rooted`), and a handler about to seat its own
  team's owner anew is that owner (`OwnersHold`), since it looked the seat up a transaction earlier. Staleness: an entry of the cache, or what a handler holds between its read and its remembering,
  is what the rows say once they have been still for longer than it is old (`Young`); what updates were told of were teams once (`Tasked`).
* `CardsSayWhatTheMachineSaid`, from the invariant `Drawable` of `StatusCard`. One task at a time is in the middle of a send, and it has a card (`Locked`); what the poller hands over is the machine's phase (`Spoken`),
  and it is the card's face from the moment it was applied (`Faced`), adopted cards excepted until the machine has spoken; until something is lost, a clean card has been drawn as it is (`Shown`).
* `OneStopAtATime`, where a context saved without its card before the row was read is excused (`ForgetExcused`, see section 6). A count of Stops does not carry itself: a 429 or a lost call is paid for when it
  happens, and leaves its message behind only later, perhaps many steps later. So `Accounted` keeps a balance (`Balanced`): the messages that carry Stop and are not the card's own (`Orphans`),
  plus one if the card may yet leave its own behind (`AtRisk`), plus one if the removal of a superseded card was refused (`Refused`), are no more than the excuses and 429s so far. Five things put a
  message at risk: an edit that is held back (`HeldBack`), a card marked for its retirement that has not shown its last face (`Unretired`), a message somebody deleted that the card still counts on
  (`TakenAway`), a context that names a message the card has left (`Outdated`), a row that lost the card's message (`Unrecorded`). That each was paid for, and that it is one and not two,
  rests on who writes the row and when (`Rows`), when a card is marked (`Marks`), what a task holds while it sends (`Hands`) and what is known of an adopted card (`Found`). Every step
  keeps the balance, pays for what it breaks, or spends what was paid (`BalanceStands`, `BalanceIsPaid`, `BalanceIsSpent`).

**Turn** (`PollerProofs`), for any prompts, turns of other clients, thresholds and confirmation counts, and every crash, Stop and answer of Conductor:

* `PollerTypes`, `IdleMeansNothingUnseen`, `DoneMeansNothingRuns`, `NoPromptIsForgotten`, `WitnessedStaysWitnessed`. The machine is a pure function, so it is dealt with first and apart: every
  handler keeps to one contract, `Handles`, which says what it may make of the context (what may be believed started, what may be concluded, which prompts may go and by which
  action) and in which order its actions come; `StepHandled` collects the handlers. The poller then needs one invariant, `PollerInv`. What a tick has left is in order
  (`Orderly`): nothing about a prompt is left to do once Conductor is asked something new, and a finish line waits for nothing but the abandoning of its prompts. So when the transcript
  witnesses a prompt, nothing left in the tick names it, and no later action can take that back (`NeverNamed`).
* `FinishLineOnce`. While a finish line is still to be sent the turn is over in memory and in the row, and once it is sent the row stays so until a handler queues
  a prompt or the turn leaves IDLE (`FinishInv`): that the context is saved before its actions run is what makes the second half true across a crash.

**Only model-checked.** All liveness (`WaitsEnd`, `EveryPromptSettles` and the like): it rests on fairness and ENABLED, which are beyond the prover. Every
invariant and every action property that a passing run checks is stated by a theorem above, some under the assumptions named there.

## 5. Plan

Done: the five subsystems that own the program's promises (turn, cursor, outbox, lease,
supervisor with its pool), the outbox's pacing, the Conductor client's breaker and retries, rooms, creation, voice, CI, receipts,
the status card, and teams. Next:

1. The form's earlier pages and the callback tokens behind each keyboard.
2. `Rewrap` and migrations: a crash between two rows leaves every key readable.
3. The silence detector's episodes: one alarm and one all-clear.

Not planned: the renderers' formatting, reports (digest, home), HTTP wrappers, wiring.

## 6. Where the code and its documents part

Two disagreements are runs. **`SupervisorStumbles`**: `_observe` of a pass walks a snapshot of the task table
and looks each entry up; when an earlier iteration has latched a rejected key it has
removed that team's siblings, the lookup raises `KeyError`, and the pass's failure gives up the lease and cancels the pollers
of *every* team. The comment beside the latch says "Only this tenant stops. Everyone else keeps polling."

**`TeamsOwner`**: `add_member` refuses to demote an owner when `list_owner_ids` returns one id, but that query returns
admins too. With an admin in the team, the only owner can make itself a member with one mistyped
/invite, and the team has no owner: nobody may /forget it, and nothing grants the role back. The docstring says "The last
owner may not be demoted, not even by themselves." `remove_member` counts owners only and holds.

Others were met while modelling. They are in the models, as steps the code takes, and the
properties are stated so as to be true of the code:

* An unconfirmed stop moves a turn to WORKING without a start witness, where idles count, although `turn/state.py` says that without one idle means nothing. `IdleCountsOnlyOnceStarted` names this exception.
* The clock a cancellation is measured by is not saved with the context; a restart re-bases it, so under frequent restarts CANCELLING lasts. No liveness is claimed of CANCELLING.
* `mark_posted` is unconditional: the answer of a POST that arrives after the witness writes the row back. `OnlyALateAnswerUnsettles` says that nothing else does.
* Ambiguous prompts are said to be retried for ever with the same id (`db/repo/prompts.py`); they are abandoned when their turn is given up. `EveryPromptSettles` is the truth.
* `docs/RELIABILITY_AUDIT.md` says transient failures are retried without a terminal cap; a row is parked after `MAX_ATTEMPTS`.
* Recovery of stranded rows runs on idle passes only, so an outbox that is never idle leaves them; hence the strong fairness on `Recover`.
* Two replies with the same text in one topic: a recovered orphan is taken for already shown when its twin was. Hence `DistinctContents`.
* A clean stop may hand back a row whose landing was not recorded, and it is shown again; a worker slower than `ORPHAN_AFTER_MS` loses rows it is still sending (`MaySlow`). `ShownOnce` excuses the first and is checked without the second.
* After a crash, rows behind a stranded one are sent before it. `TopicOrderIsExact` excuses stranded rows.
* A created session is bound before its cursor is seeded; an overlapping poller may drain between the probe and the unconditional write of `seek_to_end`, which then jumps over what came between. The constant `MayRace` of `TranscriptCursor` admits the case; the runs check the rest.
* A released session opened again is sought to its end, so what was said meanwhile is not sent, although `bot/handlers/topics.py` says that it resumes where it stopped.
* A second 404 in one drain is raised and the session declared dead, although the repair's comment says such a 404 is never escalated. `EveryMessageArrives` excepts a dead session.
* A pass longer than the TTL spawns on a lease that has expired (`MaySlow` of `Lease`).
* One 401 counted between the observe loop and the selection pauses a whole team without the second opinion the supervisor otherwise asks for.
* The second opinion may be asked with the previous key's client and stamped on the row that holds the new one.
* Two taps on one confirm card at once bill twice: both handlers look for the nonce's workspace before either has paid. So can two updates pass the quota together. `OneIntentOneBill` speaks of typed lines and spoken tasks.
* The listing that looks for a nonce's workspace stops after ten pages of a hundred; beyond them a replay pays again.
* "Nothing was created" is said of a create whose 2xx answer was not JSON (`MayGarble` of `ConductorClient`), though it was billed.
* Adoption (`_bind`) unbinds every other session of the workspace, those with a room of their own included; `list_unwatched` (`db/repo/sessions.py`) names two other ways as the only ones in which a session loses its poller.
* /done twice of one session: the second deletes the topic its row still names, into which another session has moved since, and unbinds the chat row, whoever it routes to. The guard whose comment says /done "cannot take a bystander with it" (`bot/handlers/core.py`) covers the last write only.
* `_reroute_to_general` says it releases a room that was deleted; it releases one that is closed to the bot as well. In a private chat `claim_topic` reads `TOPIC_ID_INVALID`, which may only mean "not yours to rename", as gone.
* Voice: a claim is an orphan after 150 s and a job may take 180 s, so a slow note is paid for by two workers, within its attempts; a note whose dispatch kills the process is replayed until they are spent.
* CI: a verdict is said again when the process dies between message and write (`ci/watcher.py` says so), and a poll that looked at an older commit can end the watch a new turn has just armed.
* The receipt's link may be posted twice: the send and its record are two steps.
* The poller's save writes the machine's context, card id included, over the row before the card is adopted from it; the constant `ForgetExcused` of `StatusCard` excuses the Stop button this leaves behind. A card whose last edit failed for good keeps its Stop too.
* "Drop a finished card once its final text has actually landed" (`_maybe_retire`): two 429s with a tick between them leave a card that is marked to be dropped and whose message the context no longer
  knows; the next wake turns that card to a living face without taking the mark away (only a post does), so it is posted with Stop and dropped at once. `NoStopIsLetGo` speaks of finished cards.
* Two concurrent /start make two teams; after a group was demoted /setup does not make it the team's chat again, though `demote_chat` says "`/setup` restores it in one command"; a /key in flight makes a suspended team active again; the code of a removed admin still redeems.
* Pacing: three throttled status cards, whose edits do not wait for the pause they raise, can hold the global pause for ever; the destination query's LIMIT of 64 comes before the hold and the pauses; an evicted bucket comes back full, although a comment says eviction only forfeits tokens; recovery's sends take no chat budget; a batch of five waits out a burst of three, although a chat that is not ready is said to be "skipped, not waited on".

## 7. Not modelled

Rendering and chunking (pure text, with property tests of their own in the repository), crypto and the offline
rewrap, migrations, health and the watchdog (they read what the others write), digest and home (reports), and wiring: listed with reasons in
`PROJECT.json`. Within the modelled parts: how the outbox renders and falls back; pacing's eviction, LIMIT, focus and
recovery sends (section 6); the Conductor client's token bucket and backoff, which only delay; the supervisor's retention
and the cap on pooled clients; the form's pages before its last; replies that route by message id; speech and repository
keys; alarms; typing, pinning and pruning; and the poller's cadence.
