# A formal model of Spokes, the room that agrees on a place

The repository is a collaborative planner.  People and their agents join a
*room*, state what they need, look at places on a map, propose destinations,
negotiate and commit to one, step by step if the room has a plan of several
steps.  One Fastify server (`src/apps/server`) keeps the room in PostgreSQL and
pushes events over WebSockets; a React page (`src/apps/web`) and the WebMCP tools
it registers submit commands; `src/packages/contracts` holds the shared
schemas; a background pipeline looks places up and judges evidence.

This directory holds TLA+ modules of the parts where order, concurrency,
failure and repetition decide whether the room is right, the configurations
that check them with TLC, and theorems checked by TLAPS.

1. [Inventory](#1-inventory)
2. [Modules and the code](#2-modules-and-the-code)
3. [Runs, bounds, fairness](#3-runs-bounds-fairness)
4. [Proofs](#4-proofs)
5. [Where the code and its comments differ](#5-where-the-code-and-its-comments-differ)
6. [What is not modelled](#6-what-is-not-modelled)
7. [Plan](#7-plan)

## 1. Inventory

| Component | State | Operations | Interacts with |
|---|---|---|---|
| Command bus (`engine.ts` submitCommand, `server.ts` POST /api/commands) | `rooms.revision`, `events`, `command_idempotency`, requests in flight | submit: look for a recorded outcome, validate, lock the room, check the revision, run the handler, append the events, record, answer; open the next step | every command handler; delivery, through notifyCommit |
| Agreement (`engine.ts` propose / respond / ready / confirm / commit / planArrival, `phase.ts`, `steps.ts`) | phase, proposals, stances, readiness, active step, settlements | the commands named, joining, advancing a plan | confirmation registry, impasse bracket, step needs |
| Confirmation registry (`confirmation.ts`) | one-use codes in process memory, 120 s | mint, send again, spend, sweep | agreement, private requests, the socket's welcome |
| Step needs (`engine.ts` openAdvancedStep, applyPendingNeeds, resumePendingNeeds, `steps.ts`) | the list a step still owes, the in-memory set of steps being applied | submit the owed needs one by one after a step opens, resume on authentication | command bus, sockets |
| Impasse recovery (`impasse.ts`, needs, verdicts, scope and adjustment handlers of `engine.ts`) | needs, verdicts, scope, `impasse_active`, adjustments | the bracket at the end of each command; offer, deny, grant, stage, confirm, expire | eligibility, agreement, pool growth |
| Pool growth (`pool-fill.ts`, `candidate-write.ts`, `live-pool.ts`) | candidate rows, a fill job per process | timer, plan, locked batch, announcement; places brought in by hand; a new step's pool | scope, steps, other server processes |
| Eligibility (`eligibility.ts`, `facets.ts`, `attestations.ts`) | none of its own | classify every place against every need | recovery, reads |
| Screening and held conditions (`nl/holder.ts`, `nl/screening.ts`, `outstanding.ts`) | conditions in memory with a generation, runs in flight, reruns | hold, release, screen, wake on commit | verdict commands, the language model |
| Language turns (`nl/agent.ts`, `nl/approvals.ts`, the turn gate of `server.ts`) | turns in flight, staged actions, recorded turns | answer a sentence, stage an action, approve it | command bus, the language model |
| Delivery and presence (`ws.ts`, `presence.ts`, `commit-notifications.ts`) | sockets, per-room broadcast queue, who views what, who shares a position | authenticate, welcome, broadcast, close | every commit; the page |
| Sync and projection (`sync.ts`, `delta.ts`, `projection.ts`) | `last_synced_revision`, `arrived_at` | pages of events up to a target revision, filtered per viewer | the page, the tools |
| Page (`spatial-store.ts`, `ws-client.ts`, `revision-watermarks.ts`, `App.tsx`, `api.ts`) | context, watermarks, retry keys, codes received | coalesced refetch, catch-up, retry under one key | command bus, sockets |
| Rooms, invites, sessions (`rooms.ts`, `invites.ts`, `auth.ts`) | rooms, invite rows, token hashes | create, mint a link, claim it once per device | agreement (joining) |
| Admission (`admission.ts`, `token-bucket.ts`, `security.ts`) | reservations, windows, slots | admit, settle, take | outbound calls, HTTP |
| Enrichment pipeline (`pipeline/*`, `net/fetch-lease.ts`, `refine/*`, `enrich/*`) | queues, pools, prefetch windows, leases, caches | enqueue and join, dispatch, drop, batch, preview and open | the outside world; facts about places |
| Pre-population (`prepopulate/*`) | checkpoints | an operator's batch run | caches |
| Contracts and tools (`packages/contracts`, `webmcp.ts`) | none | schemas, limits, manifests | page and server |

### What is hard

* **Two actors between two statements.**  A command is one transaction under the
  room's row lock, but much of the system is not: the owed needs are submitted by
  as many requests and sockets as noticed them, guarded by a set in memory; a fill
  job plans with no lock and writes with one; a failed command's outcome is
  recorded after its transaction, without the lock.
* **State read before an `await` and used after it.**  The list of owed needs, the
  `rerun` flag of a fill job, the scope a batch was planned for, an offer's
  delegation, the text a place is judged against, the needs a plan was made from, the
  revision a welcome carries.
* **Order.**  A frame may overtake the answer to a request or come after it, and two
  answers may come in either order.
* **Repetition.**  A page that heard nothing sends its command again; a code is
  sent again on reconnection; a fill starts again at boot.
* **Two-phase consent.**  An agreement, or a grant beyond a delegation, is staged
  by an agent and confirmed later on the page, while people join, change their
  minds and veto.
* **Crash and restart.**  Codes, guards and jobs die with the process, rows do not.
* **Long legal sequences.**  Impasse after impasse, step after step, each of which
  must leave nothing behind that a later one would act on.

### What makes each component right

* *Command bus*: a key applies at most once in its window; a command is applied to
  the very revision it was made for; every answer is true and a recorded outcome
  stands.
* *Agreement*: a veto blocks exactly while it stands; a commit needs the consent of
  everyone who is in the room at that moment; one destination per step, in the
  plan's order, for good; nothing live is carried into the next step.
* *Step needs*: one applier at a time, no need lost, none on the wrong step, each
  applied in the end, and none twice.
* *Recovery*: offers ask for an irreducible set of needs, are made once, are open
  only in an impasse and are final once settled; a grant needs the consent the
  delegation asks for.
* *Pool growth*: a place once, numbers unique, the cap kept, no place of another
  circle, and a pool that is full or has all of its circle in the end.
* *Delivery, sync and the page*: the page never says that it has read past an event it
  could show and has not shown; history is dropped only once the map has it; after
  silence everything of the room is on the page, unless the server has refused the page.
* *Screening*: no verdict outlives the text it was made for, no wish for another run is
  lost as long as the room chooses, a withdrawn text is forgotten.
* *Refinement*: a change of needs always gets its plan, what waits for the model is
  always taken out of the bounded buffer, and every place is asked about every need
  in the end.
* *The rest*: see [the plan](#7-plan); the hazards that no property covers are listed,
  each at its line and with the reason, in `PROJECT.json`.

## 2. Modules and the code

`PROJECT.json` maps every definition to the lines it stands for.  What follows is
what a reader needs besides.

### Agreement, and its promise Destination

`Agreement` has one action per command that touches proposals, stances, readiness
or the phase, with joining through an invite, the steps of the confirmation
registry, and a restart.  A command holds the room's row from its first read to
its commit and is refused unless it was made for the current revision, so one that
takes effect is one atomic step and a refused one is no step.  Outside the
transaction, and so separate actions, are the minting of a code after the commit
(`Mint`), its expiry, its re-issue (`Reconnect`), its loss (`Restart`), and a commit
that spends a code and rolls back (`CommitRolledBack`).  The impasse bracket that
ends every command can move the phase; whether it does depends on the pool and the
needs, so here it is a choice (`Bracket`), which covers every outcome that
`Recovery` has.  `codes` has no expiry times: a code may expire at any moment.

`Destination` says what the room promises without proposals or codes: a step is
decided once, after the steps before it, for a place that everyone in the room
backs at that moment.  `Agreement` implements it under `Backing` (who is ready and
accepts or abstains on a live proposal of the place) and `Decisions` (the committed
proposals): the property `KeepsPromise`.

### StepNeeds

The step's list is only ever cut at its front, so it is the index of its first
need.  Each `await` of `applyPendingNeeds` is a boundary between actions: `Enter`
looks at the guard set, `Look` reads the revision and the active step, `Submit`,
`Refuse` or `Overtaken` is the command, `Record` writes the shortened list.
`ReadRoom` is a socket's authentication, `Advance` the request that settled the
step before.  The process may stop, and any query may fail.

### Recovery

A place is a distance, a price rung and a kitchen.  The needs are the three kinds
that the offers and the screening tell apart: a budget, an exclusion (for which an
offer drops the whole need) and a private condition (which only its owner's
verdicts decide).  Each command is one step and ends in `Bracket`; `PoolFill` is
the one writer that does not.  `ConflictSet` is the greedy deletion of
minimalConflictSet, newest need first, as a recursive function over the needs'
numbers; `Drafts` are the offers of generateAdjustments, `Renegotiated` the
bracket's supersession and suppression.  The order in which one pass inserts its
offers is left open: each is addressed and resolved on its own.  A grant that cannot be applied rolls back
whole, so it is no step.

### PoolFill

One job per server process, from its timer through the plan and the locked batch to
the announcement.  A circle is the set of the places in it: the order by distance
decides who comes first, never who comes.  The plan cache is a function of the
scope's id and is left out; so are the lookups of places just added.  Settled
steps' rows matter only through their highest number (`behind`).  Each `await`
between two reads or writes of shared state is an action boundary: `Wake` reads the
room, `Plan` the rows, `TryLock` the advisory lock, `InsertBatch` is the
transaction.  `calls` are the startPoolFill calls of commands that have committed.

### CommandBus

A request goes through `Precheck` (a recorded outcome, or validation), `Transact`
(under the room's row lock), and for a failure `StoreFailure` and `Reread` outside
it; a success that opened a step goes through `SubmitOwed` and `Opened`.  A body is
the revision it was made for and whether it validates; what the handler decides is
a choice, the phase gate one of its refusals.  A command appends any number of
events, none included.  A key's record lasts ten minutes; `window` counts how often
it has expired, and a record does not expire while a request that did not find it
is being handled, since a command takes seconds.  The history `log` has every
command applied, with its key, window and revision, and is what the answers are
compared with.

### Delivery, and its promise RoomFeed

`Delivery` follows one page.  A commit numbers its events on from the room's revision
and queues one frame; `Broadcast` is the room's queue, one frame after the other,
each behind its query.  A socket dials, is registered (from then on it gets frames),
reads the revision for its welcome and sends it.  The page has two watermarks,
`known` (the highest revision it has heard of) and `projected` (how far its feed is
read), a catch-up that pages through the delta or replaces a backlog that is too
long, and one refetch of the map that all who need it share and that goes round
again until it has what was asked for.  `Gesture` is a command of the page's owner,
whose answer comes over HTTP and can overtake its frame.  An event is only what it
is to this reader: shown, shown and changing what awaits him, or never shown.
`Faults` are a broadcast or a sync whose query fails, a map that cannot be read, a
socket that drops, a process that restarts and a token whose day is over.  A socket is replaced after its
fifteen minutes only when nothing is under way (`Reauthenticate` needs `Quiet`):
everything else takes seconds.  Replacing a backlog drops the lines beyond the named
revision too, as the code does.

The handshake is for pages of the server's own build and contract whose token is good
(`pass`).  Any other is refused (`Refuse`), with 4002 or 4003, and then dials no more.
`Restart` may leave a page outdated: `config.ts` names a new build at each start unless
the image names one, and a page that could not learn its own build passes for outdated
from the start (`Init`).  Where a reload is proven safe (`surface.ts`) the refused page
reloads at once, elsewhere it shows a banner with a button; either way the page that
follows is another one, opened by `Init`.  `TokenEnds` leaves an open socket alone, since
only the handshake looks at the token; a gesture of a page that is outdated or unknown
may be turned away (`TurnedAway`).  A request for the delta or the map of such a page may
be answered here although its token is over: the failures that it meets in the code are
those of `SyncFails` and `ContextFails`, which `MaxFaults` bounds.

`DroppedIsOnTheMap` says when the page may do that: the map shows the revision that the
server named for the backlog, whatever fails; and everything the page has read by then,
frames it heard meanwhile included, unless the very refetch it waited for was cut short
by a failure.  That exception is the code's.  A frame that comes while the catch-up
waits for the map moves the watermark past the named revision and queues another round
of the shared refetch; when that round fails, the catch-up only asks whether the map is
at the named revision (`App.tsx:393`), and drops the history although the map is behind the
frame.  The small run does not reach that state (it takes four revisions); the proof
attempt found it, and TLC confirmed it on a larger instance.

`RoomFeed` is what the feed promises: a mark that moves over nothing it does not show,
or starts anew, saying so.  `Delivery` implements it with `through <- projected` and
`lines <- feed`: the property `KeepsPromise`.

### Screening

One participant's condition.  Its text is held in the process with a generation, the
room has a declaration without content, and a run judges the places in batches.  Each
`await` of `screenPending` and `screen` is a boundary: `Check` whether the declaration
stands, `LetGo`, `Pick` a batch, `Read` the facts, `Judged`, `Looked` up and read
again, `Recorded` (a command, refused if the room has moved on).  `Condition` is
`POST /api/nl/condition` in its three steps, hold, read the room, declare.  A
`Wake` follows each commit; what comes while a run is on sets `rerun`.

Declarations, withdrawals and verdicts are commands for a room that still chooses
(`phase.ts`).  `Agree` ends that for good; the agreement of an earlier step does not, so
it is one of the commits of others.  A declaration that is refused, for a commit that came
first, the phase or a limit, lets its text go (`DeclareRefused`); a call that throws leaves
it held (`ConditionFails`).  A run that meets the agreed room is refused
`phase_unavailable`, which counts as nothing screened (`screening.ts:160`) and ends it
(`holder.ts:96`), and so is the rerun of a run that the last agreement overtook.  So in an
agreed room a text may stay held and declared beside places that nobody has judged, with
no fault: nothing will screen them, and nothing needs them any more.
`NothingLeftUnscreened` and `EventuallyScreened` therefore speak of a room that still
chooses; `OlderTextNeverLands` and `WithdrawnIsForgotten` speak of every room.

### Refinement

The background worker of one room.  `Arrive`, `Leave` and `Stop` are the loop's life;
`WakeRefinement` follows a commit of needs.  A plan is `Begin`, `Load`, `Apply` (from
the last query's answer on, with no `await`, the plan is made and made the latest),
`Submit`.  `Launch` is the scheduler's admission of a fetch: a slot, and room in the
ready buffer; `Fetched` matches what was fetched with the latest plan.  A batch waits
for the dispatch semaphore, gives up cells of other epochs (`Dispatch`), reads the
epoch (`Enqueue`), gets a slot (`Ask`) and is `Answered`.  `Settled` is the next plan's
occasion: all the last one waited for has settled, or its watchdog (two minutes) ran
out, which counts as a mishap.  What the sites can answer is a constant
(`Answerable`); a cell is a place, a criterion, the epoch it was made in and whether
it is only vocabulary work.  The evidence of a place counts as one unit of the
buffer.  Equal cells are one cell, so two batches that ask the very same are one.

### MC modules and proofs

Each `MC` module gives the constants of its module their small values; `MCRecovery` also
says which rooms its run stays in (`BoundedSpec`).  `AgreementProofs`, `StepNeedsProofs`,
`CommandBusProofs`, `RecoveryProofs`, `PoolFillProofs`, `DeliveryProofs`, `ScreeningProofs`
and `RefinementProofs` each hold the theorems of the module they are named after.  Definitions marked *mutant*
are plausible bugs of a neighbouring definition; each property has one it was seen to
catch.

## 3. Runs, bounds, fairness

| Run | What it asks | Size | Bounds and why they are enough |
|---|---|---|---|
| `agreement` | vetoes, consent and leftovers while a third person joins; order, uniqueness and finality over two steps; the refinement | 3 people, 2 places, 2 steps, 2 proposals | a joiner, a rival proposal and a second stage are what a commit can overlook; the second step has its own proposal and meets the first one's leftovers; places are interchangeable |
| `step_needs` | one applier, right step, nothing forgotten, everything applied | 2 appliers, 3 steps of 2 needs, one of them invalid, 1 other command, 1 fault | two appliers are enough to meet; a middle step can be settled while its loop runs |
| `recovery` | conflict sets, repeated and finished offers, needs set aside, screening pending, two steps | 2 people, 3 places, 3 offers; two needs in one step, or one need in two steps | two needs that exclude each other's places; three offers let a denied, an expired and an open one meet; `BoundedSpec` joins the two parts, which meet in the rooms with one need |
| `recovery_settled_step` | a comment about offers of a settled step | 1 need, 2 places, 2 offers | expected to fail, see 5 |
| `pool_fill` | one row per place, the cap, the scope; jobs end, a quiet room is filled | 2 processes, 3 places, 2 circles, cap 2, batches of 1, 2 steps, 2 scopes, 1 fault, failure limit 1 | two writers share the last free row, a circle moves under a planned batch, and the one fault is the one that gives up |
| `pool_fill_lost` | the comment that no change is lost | 1 process, no fault | expected to fail, see 5 |
| `command_bus` | once, on the head, truly answered, recorded for good | 2 requests at a time, 1 key or none, 3 revisions, 2 commands, 1 expiry, 1 fault | a repetition meets the first attempt at every stage, before and after an expiry |
| `delivery` | the feed's promise, the map, the refetch, silence, for pages of the server's build and others | 3 revisions, 1 found on opening, commits of 1 or 2 events, pages of 1, backlog of 2, 1 fault | a commit of two events spans two pages, the third revision makes a backlog too long, and the one fault, which may be the restart that outdates the page or the end of its token, comes at any point |
| `delivery_cards` | a comment about what awaits the reader | 3 revisions, no fault | expected to fail, see 5 |
| `screening` | older texts, reruns, withdrawal, everything screened while the room chooses | 2 places one at a time, 2 batches, 2 texts, 2 commits, agreements or changes from outside, 1 fault | the second text comes while the first one is judged, and the second change while the rerun the first one asked for is on |
| `screening_refused` | the comment about generations without its tacit condition | no fault | expected to fail, see 5 |
| `refinement` | wakes during plans, the ready buffer, everything asked | 2 places, a need and a word, room for one place's evidence, 2 fetches, 1 batch at a time, 1 mishap | the second place is fetched while the first one fills the buffer; one wake, departure, early plan, failure or restart at any point |

The bounds are constants named in the modules and stop only counters that the code
leaves open: `ProposalLimit` and `RoomLimit` are the code's own limits at small
values, `CommandBound`, `FailureBound`, `NeedLimit`, `OfferLimit`, `MaxScope`,
`MaxSteps`, `MaxEvents`, `MaxRevision`, `MaxCommands`, `MaxCommit`, `MaxWindows`,
`MaxTexts`, `MaxOutside`, `MaxUpsets` and `MaxFaults` are the runs'.  The price levels,
radii and the gain that suffices are the code's ladders cut to a few rungs.  The
code's own numbers are cut likewise: `Cap`, `Batch` and `FailureLimit` of `PoolFill`
(2500, 50 and 5), `PageCap` and `Backlog` of `Delivery`, `Batch` and `MaxBatches` of
`Screening` (8 batches), the slots of `Refinement` (64 and 4 fetches, 2 judge calls, 4
dispatches) and `ReadyCap` (512 KiB of a room).

The type invariants of `Agreement`, `StepNeeds`, `CommandBus` and `Refinement` are proved
and are not among their runs' properties.

Deadlock is checked except where the system may really stop: in `step_needs`, where a
settled plan with nothing owed has nothing left to do once the bounds are used up; in
`screening`, for a text that was screened, or in a room that has agreed; in `delivery`
and `delivery_cards`, where a page that was refused has stopped; in `refinement`, in a
room whose loop was reopened beside an old plan (see 5).

**Fairness** is assumed in five runs.

* `StepNeeds!FairSpec`: a request or socket that is inside the loop goes on (the process
  runs its promises), and while a page is open some socket authenticates again and
  again, because `ws.ts` closes every socket after fifteen minutes and the page
  reconnects (one of another build once it has reloaded, by itself or by hand).  It is not assumed that anything else happens: commands may overtake,
  queries may fail, up to the bounds.
* `PoolFill!FairSpec`: a process runs its timers and the calls it owes, and a page
  connects again and again, for the same reason.  Which batch is taken and whether
  the lock is free is not chosen fairly.
* `Delivery!Spec`: of all that is due (an answer, a frame, the next connection, the end of
  a socket's life) something happens in the end.  That is weaker than fairness of each,
  and enough: what is under way runs dry.  Nobody need commit anything.  A page that was
  refused dials no more, so nothing is due from it, and `EventuallyCurrent` leaves it out:
  the page that its reload opens is the one that becomes current.
* `Screening!Spec`: calls are answered, wakes arrive and runs go on.
* `Refinement!Spec`: the wake of a commit, the planner, the fetches and the batches each go
  on when they can (timers fire, every stage has a deadline).  Nobody need come, leave
  or change a need, and which place or batch goes first is not chosen fairly.

## 4. Proofs

All theorems hold for every value of the constants that satisfies the modules'
assumptions.  Those only fix types, and say that the organizer is a founder, that
an openable step is one of the plan's, that "no place" and "no record" are neither a
place nor a record, that a room's places, words and candidates are finitely many, and
that limits are numbers, those of work that has to be done at least 1.  The bounds of
the runs (`MaxFaults` and its like) are constants too, so a theorem covers any number of
faults, commits or texts.

Every safety invariant and every action property that a run checks is a theorem, and
so is each of the two refinements.  None of them is inductive by itself; `IInv` of each
module is the conjunction of named parts that is, with one lemma per action.  Each was
checked with TLC as an invariant of a small run before it was proved.

* **AgreementProofs.**  That a commit has everybody's consent rests on stages being
  gated, on proposals having ids in order, and on what is live being of the active step.
  The inductive invariant joins those facts; the lemmas take it through each command;
  the theorems derive type correctness, the five safety invariants, the finality of
  decisions and the refinement of `Destination`, whose steps are a join, a change of
  minds, or a decision for `CommitAgreement`.
* **StepNeedsProofs.**  Three invariants carry the properties.  `Guarded`, an applier in
  the loop has its step in the guard set, gives with the guard's test
  `OneApplierPerStep`.  `Fresh`, while the revision an applier read is the room's the
  step it saw active still is, gives `NeedsLandOnTheirStep` through the revision
  check.  `Behind`, what an applier has left behind was submitted or refused for good,
  gives `NothingForgotten` when the list is cut.  `Placed` only says that an applier
  works on a step of the plan and on a need it still has.
* **CommandBusProofs.**  That a command applies at most once is not visible from the
  log: it holds because an entry of the current window is recorded
  (`LogIsRecorded`), because a record says what the log says, under the same body
  (`RecordsAreTrue`), and because nobody is answered "no" without a record that lasts
  as long as the window (`Honest`).  `LogGrows` carries the two actions that append to
  the log.  `RecordsStand` needs one thing more, `OneOpener`: under a key one request at
  a time opens a step, and until it has brought its record forward the record says what
  its answer said, so the revision it writes is never older.  Two could only be opening
  at once if the second had found no record, and the first one's is there.
* **RecoveryProofs.**  What greedy deletion computes: `Greedy` is the recursion as a fact
  about functions, `GreedyExists` that there is such a function, and
  `ConflictSetIsIrreducible` that what it leaves conflicts and is irreducible, by
  induction from the newest need to the oldest and because fewer needs never exclude
  more (`FewerNeedsFeasible`).  About offers: at most one draft per need and one for the
  circle (`OneDraftEach`), so one pass offers nothing twice; a draft is for a need in
  force (`IsDraft`), so it is never for one set aside; the rest is that every command
  resolves or expires (`Lapsed`) and only the bracket adds (`RenegotiatedKeeps`).  To
  type correctness the inductive invariant adds `Unset`, a need not stated yet counts as
  active, without which a first statement could come set aside.
* **PoolFillProofs.**  `Remembered` is what a job knows: a plan that bears the room's
  scope id was made from the room's circle, because ids are never used again.  With the
  look at the id and at the rows inside the transaction it gives `FillInScope` and
  `OnePlaceOnce`; the cap needs the cardinality of what is inserted (`PoolWithinCap`).
  `CallsAreMoves` bounds the calls a process still owes.
* **DeliveryProofs.**  `Behind`: nothing the page has or is sent is ahead of the room.
  `Consumed`: what a catch-up read beyond the watermark is shown.  With these every step
  of the page is a step of `RoomFeed` or leaves it alone (one lemma per action), which is
  `KeepsItsPromise`; that whoever keeps `RoomFeed` has no hole in the feed is
  `FeedHasNoHole`, and the two give `PageHasNoHole`.  `Rounds`, `Replacing`, `Fresh` and
  `Covered` say where the newest revision is while it is not on the map: in the queue, on
  the wire, or behind a round of the refetch that will ask late enough.  They give
  `QuietMapIsCurrent`, `RefetchReaches` and `DroppedIsOnTheMap`.
* **ScreeningProofs.**  `Order`: texts are said one after the other, and only what was said
  is held, declared, judged by or run for.  `OfTheHeld`: while no declaration was refused,
  a run with the held generation has the held text, and what is about to be recorded is
  not older than the declaration it was read for, which is `OlderTextNeverLands`.
  `Forgetting` and `Pursued` say who is on the way when a text has no declaration, or is
  not screened in a room that still chooses: a wake, a wish kept for the end of a run, or
  a run that is still at it.
  At rest there is nobody on the way, which gives `WithdrawnIsForgotten` and
  `NothingLeftUnscreened`.
* **RefinementProofs.**  `Clock`: a loop with somebody there is not idle, and a timer is
  never beside a plan.  `PlanHonest`: a plan of the running loop knows the needs, has yet
  to read them, or has a wake noted that brings another, whether or not somebody is
  there; `ReplanComing` alone is not inductive, since people may come back in the middle
  of a plan.  `Counted` bounds epochs and owed wakes by the mishaps that there were.
  `NothingLeaks` needs, of each way a batch can end, that what it charged goes with it.

**Induction.**  The library's induction rules take an operator as a parameter, which this
prover's backends cannot instantiate.  Where a proof needs induction it uses that a
well-founded relation has minimal elements (`WFMin`), which is a fact about sets: over
the naturals for the recursion of `ConflictSet` (`NumbersByOne`), and over the finite
subsets of a set for the highest of finitely many numbers (`MaxExists` of
`PoolFillProofs`).

**Only model-checked** are the liveness properties `OwedIsApplied`, `FillEnds`,
`EventuallyFilled`, `EventuallyCurrent`, `EventuallyScreened` and `EventuallyTried`: liveness
under fairness and ENABLED are beyond this prover.  No module declares a RECURSIVE
operator.

## 5. Where the code and its comments differ

Each of these is a run that TLC must find violated.

* `recovery_settled_step`: `steps.ts` says that an advance sets a step's needs aside
  exactly as setting a need aside does.  It leaves their offers open, which
  setRequirementActive expires.
* `pool_fill_lost`: `pool-fill.ts` says that a change landing beside the final batch
  of the old scope cannot be lost.  A job that is announcing, or whose plan clears
  the flag after an await, forgets it; the pool stays unfilled until a page connects
  again.
* `delivery_cards`: the page looks again at what awaits its reader whenever it hears of
  an event that could change it, but two reasons to catch up share one sync
  (`App.tsx:338`), although the second may have come after the sync was computed.
  What awaits the reader is then older than what the page knows, until the next frame
  or welcome.
* `screening_refused`: the comment at `holder.ts:81` says that verdicts of an older text
  must never land on a newer declaration.  `release` deletes the entry that carries the
  generation; after a refused declaration the next text has the old number, and the
  run of the refused one passes for it.

The rest was met while modelling and is not stated by a run.

*Step needs.*  The comment at `engine.ts:572` says that a second reader does not run the
same submissions twice.  It reads its list before it looks at the guard set; if the
first applier finishes in between, the second enters with the old list and submits the
same needs again, each as a new row (`rows` can reach 2).

*Recovery.*  `engine.ts` says that consent beyond the delegated envelope needs the human
on the page.  Whether an offer is within it is recorded when the offer is made; a
delegation narrowed since is not looked at when the offer is granted.  A need locked
after a grant for it was staged is relaxed all the same.

*Pool growth.*  A room without a prepared snapshot keeps its fill job polling
(`pool-fill.ts:120` returns before the flag is cleared; the `mapped = FALSE` states show
it).  A step that opens without a place starts its numbers at 1 again, and the next
insert collides with a settled step's row; in that room two processes can also reset
each other's failure counts.  A job that gives up does not announce what it added.

*Screening.*  A text is let go without anything to restart it when a commit falls between
the hold and the declaration (or into the await of `declarationStands`): the commit's
wake sees no declaration yet and releases what `holder.ts:13` and `NL-AGENT.md` 242-245
say is held until the declaration goes.  `NL-AGENT.md` 236-239 says that the adapter does
not send what information is missing; `screening.ts:155` does.

*Refinement and pipeline.*
- A loop that stops while its plan awaits a query and starts again finds `pipelinePlanning`
  taken, so its first plan is refused; the old plan's end looks at its own, forgotten state
  and schedules nothing.  The room has no plan due until the next presence, wake or
  failure.  `reopened` records it, and the properties of `Refinement` leave it out.
- A plan reads its needs, then is labelled with the epoch of a later moment: after a wake in
  between, `pipelineLatestPlans` has the old items under the new epoch, and their cells
  pass the checks that are to keep stale judge cells out, until the replan.
- A batch reads the epoch it compares at its end (`worker.ts:1439`) after the awaits that
  follow the check of its cells; a wake in between is not noticed and the cursor is
  written.  The comment at 1682 says that this would erase the invalidation.  Epochs also
  start at 0 again in a new loop, so cells of the stopped one can pass for new.
- `notifyHostGateReleased` (`scheduler.ts:324`) is said to be called by the outbound gate; only
  tests call it.
- After a change of epoch `needsChanged` counts the representatives of batches, not their
  cells, in the volume shown.  `pipelineDedupeKey` has no room, so one room's drop rejects
  another room's wait for the same page.

*Language turns.*  Two repetitions that wait for a turn that fails go on side by side.

## 6. What is not modelled

* *Eligibility.*  Which place meets which need is a computation over text, opening
  hours and evidence.  `Recovery` takes its result as data and models what the room
  does with it.
* *Reads* (spatial queries, facets, projections of single events): they change
  nothing.
* *The language model, pages and parsers*: the outside world.  The commands they lead
  to are those of a person, through the same bus.
* *Lookups, evidence caches, pre-population*: recomputed at will, no room state.
* *Contracts*: a message that does not pass its schema is the `refused` of
  `CommandBus`.
* *Of the modelled parts*: two rooms never share state except the idempotency table,
  whose keys belong to a participant, so every module has one room.  Wording, ids
  beyond their order, and coordinates are abstracted as section 2 says.

* *Of `Delivery`*: presence and nonces on the same socket, the length of the feed and the
  merging of its lines, and `last_synced_revision`, which only the digest of an absence
  reads.  One page; what two tabs share is the server's.
* *Of `Screening`*: what a condition, a judgement and its evidence say; one participant.
* *Of `Refinement`*: budgets (a batch without budget is put off), search, facts older than a
  week, places already excluded, interactive reads, host gates, priorities and fairness
  among rooms, evidence larger than the whole buffer (which counts as asked), and the
  progress the room is shown.

Presence, language turns, invites, admission, prefetching and the leases have behaviour
worth checking; they are in the plan.

## 7. Plan

Done, in this order, each with its proofs: `Destination` and `Agreement`, the room's
purpose; `StepNeeds`, the one place where the server issues commands; `Recovery`, the
largest handler code and the longest legal sequences; `PoolFill`, the writer that is not
a command; `CommandBus`, what every handler stands on; `RoomFeed` and `Delivery`, what
people see; `Screening`, the private conditions; `Refinement`, the work in the background.

Left, the most valuable first:

1. `Presence`: sockets, tabs, views and the cache of who shares a position, against a
   specification that reads the truth.
2. `Invites` and `Turns`: one person per link and device; one answer per turn.
3. The rest of the pipeline: shared runs, priorities and routes, previews and leases;
   admission.
4. Composition: `CommandBus` as the bus of `StepNeeds`, so that overtaking and repetition
   come from the same module.
