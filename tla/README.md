# Forevermore Autopilot in TLA+

The autopilot drafts marketing posts with a language model, renders and lints
them, shows them to the owner, and acts on the owner's decision. This directory
holds TLA+ modules of that program, the TLC configurations that check them on
small instances, and proofs that TLAPS checks for every instance. Paths below
are relative to the repository; `src/src/` is the program, `src/review/` the
review station, `src/ops/` the schedules.

## 1. Inventory

| Part | State | Operations | Interacts with |
|---|---|---|---|
| State machine (`state/machine.mjs`) | none | `transitionItem`, `qaFailNext`, `regenNext`, `publishFailNext` | called by the stages and by every decision path; writes through `store.transition` |
| Stages (`stages/{plan,generate,render,qa,digest}.mjs`) | the items of a slot date, held as copies from one listing | list targets, claim, work, put down | store, brain driver, renderer adapters, lint |
| Stage runner (`stages/registry.mjs`) | kill switch, spend-cap marker, completion markers, `runs` rows | `runStage` | every stage; the tick and `run <stage>` call it |
| Tick (`stages/tick.mjs`, `cmdTick`) | `last_tick_at`, `tick.lock` | `runTickSweep`, `acquireTickLock` | launchd/systemd every 30 minutes, `/tick` |
| Contract gate (`tick.mjs`, `doctor/contract.mjs`) | `contract_state` | `contractGate`, `contractChecks` | head of every sweep; a failed run row, which the scanner alerts |
| Decisions (`decide/index.mjs`) | one call's progress | `decide`, `autoSkipSiblings` | station, control channel; store |
| CLI (`cli/commands.mjs`) | none | approve, reject, regen, pause, resume, run, tick, import | store, stages |
| File store (`store/file-store.mjs`) | one directory per item, run and decision files, `settings.json`, ledgers, lock files | `transition`, `putItem`, listings, `appendRun`, `updateRun`, `appendApproval`, `setSetting`, `tgClaim`... | everything |
| Postgres store and SQL (`store/postgres-store.mjs`, `src/db/`) | tables behind RPCs | the same interface, `ap_decide` | everything, in production |
| Outbound scanner (`control/notify.mjs`) | message ledger, run cursor | `runScanCycle` every minute | store, Discord |
| Control channel (`control/{commands,callbacks,newitem,cards,quiet}.mjs`) | `pending_change_note`, kill switch | taps, `/new`, `/pause`, `/rule`... | decide, store, Discord |
| Discord (`discord/{bot,gateway,api}.mjs`) | `bot.lock`, the socket's session | `acquireLock`, connect, reconnect, request with retries | control channel, scanner |
| Brain driver (`brain/drivers/claude-cli.mjs`) | one call's attempts and model | `complete` | generate |
| Planner (`plan/{planner,ideas,usage}.mjs`) | `ideas-usage.json` | `planWeek`, `bumpUsage` | plan |
| Renderer adapters (`adapters/{poster,video}.mjs`) | each item's `assets/`, the shared `__autopilot-clips` | plan the jobs of a draft, render, write files | render |
| Brand lint (`lint/{engine,dedupe}.mjs`) | none; reads a corpus from the store | `brandLint`, `computeDedupe` | qa |
| Review station (`src/review/`) | the tab's snapshot, selection, open detail | decide, edit, refresh; HTTP around `decide` | decide, store |
| Backup (`src/ops/vps/backup.sh`) | dumps and a mirror of `outbox/` in a bucket | dump, upload, prune, sync | Postgres, the renderers' files |
| Prompt assembly, schemas, digest, config, utilities | none of their own | pure, or reports | stages |

What is hard here, and what makes each part correct:

* **Stages and decisions share items without locks held across steps.** A stage
  lists its targets once, then spends minutes in the model or the renderer, and
  writes with a compare-and-swap on the item's *status alone*. The owner decides
  in between, from the station, Discord or a shell, sometimes twice. Correct
  means: what is under review is one consistent piece of work; a draft is decided
  once; budgets of redrafts are kept although they are patched from old copies;
  a slot gets one post.
* **Two writes where one is meant.** Failing a lint, requesting changes and
  deciding are each two or more writes; a process may die between any two.
  Correct means: the item can still be moved, and the record and the item agree.
* **Several processes.** The tick takes a lock, but the launchd entries
  `run plan`, `run generate` and `run digest`, and a shell, do not; the lock itself
  is created and filled in two steps and is broken when it looks stale.
* **Budgets and switches read before long work.** Kill switch, spend cap and
  completion markers are read once at the start of a stage.
* **Messages.** Claim, send and mark-sent are three steps; the scanner's cursor
  over runs moves while runs are still going; a request that timed out may have been
  served.
* **A tab that works on a snapshot.** What the owner typed, confirmed or sees belongs to
  a draft that may be gone, and answers overtake each other.
* **Files under the rows.** Renderers write over the files of earlier drafts, the backup
  copies rows and files at different times.
* **Two stores, one program.** Whatever is written must read the same from item files
  and from Postgres, whose schema lacks some of the keys.

Every such hazard is listed with its line in `PROJECT.json`, with the property
that covers it or why none does.

## 2. Modules

```
StateMachine      the transition table and the two retry policies, as data
  Lifecycle       what is promised of every item            (abstract)
    LifecycleProofs
  Pipeline        stages, decide() and CLI verbs on a shared store (detailed)
    PipelineInv   the inductive invariant
      PipelineProofs    types, the invariant and what follows from it; Pipeline
                        implements Lifecycle; what is on record of the decisions
      MCPipeline        constants for TLC
Tick              runStage, the sweep, shells, the owner's switch, midnight
  TickProofs, MCTick
TickLock          state/tick.lock between ticks
Store             every call on a document takes effect in one step (abstract)
  FileStore       documents, lock files and temporary files          (detailed)
    FileStoreProofs
Drafting          one run of generate over the model's CLI
  MCTickParts     TickLock, FileStore and Drafting: a tick's own machines
Notify            the bot's scan cycle and its ledger
  NotifyProofs, MCNotify
Bot               daemons, state/bot.lock and the gateway
ControlChannel    the owner's taps, notes and /new, and the items they meet
  ControlProofs
  MCDaemon        Bot and ControlChannel
Request           one call of the Discord API
Contract          the contract gate
Planner           planWeek, the plan stage's loop and the usage journal
Media             render workers, file by file
HookGate          the dedupe gate of QA
Backup            backup.sh beside the renderers
Parity            the program on its two stores, side by side
Station           a tab of the review station, its server, and others behind it
  StationProofs
  MCBox           the eight from Request on
BoxProofs         the safety of TickLock, Drafting, Bot, and of Request to Parity
```

Pipeline, Tick and Notify look at the same system at three scales. Pipeline has one slot date
and every access to the store a step of its own; Tick takes a stage for one step, which
Pipeline justifies, and has many dates, processes, days and the money; Notify sees of both
only what it scans, the items under review, the rows in `runs` and the markers. TickLock is
about what makes Tick's single ticker true; what it does not cover, a `run generate` beside
the tick, is in Pipeline as a second worker. FileStore is about the atomic `store.transition`
and ledger calls the others assume.

**StateMachine / Lifecycle.** `TRANSITIONS` is the table of `machine.mjs`,
`qaFailNext` and `regenNext` its policies. `Lifecycle` has one variable, the
status and counters of each item, and three actions: `Create` (`planStage` writes a
shell), `Advance` (`transitionItem` with no counters), `Bounce` (the policies'
patch). It is the specification the detailed module is shown to implement.

**Pipeline.** Variables: `items` (the store's item rows), `approvals` (decision
records), `job[w]` (a stage run: its stage, its listed copies, the target it is
in the middle of), `call[c]` (a `decide()` or CLI call: its next step, the item and
the copy it holds, siblings left), `crashes`.

| Code | Actions |
|---|---|
| `listByStatus` at the head of a stage | `StartStage`, `StartPlan` |
| `planStage` loop: `getItem`, `putItem` | `PlanCheck`, `PlanPut` |
| `transitionItem` to `drafting` / `rendering` | `Claim`; a target already there: `Resume` |
| `brain.complete`, then the transition to `drafted` | `GenerateDraft`; a throw: `GiveUp` |
| adapter, then the transition to `rendered` | `RenderAssets`; a throw: `GiveUp` |
| `qaStage`: pass; fail and bounce; lint threw | `QaPass`; `QaFail`, `QaBounce`; `QaError` |
| `decide()`: transition, record, skip siblings, bounce | `Decide`, `Record`, `ListSiblings`, `SkipSibling`, `RecordSkip`, `BounceCall` |
| `cmdApprove`, `cmdReject`, `cmdRegen` | `CliRecord`, `CliMove`, `BounceCall` |
| a process killed | `Crash` |

One action never spans two store accesses. `store.transition` is atomic here: it is
one conditional `UPDATE` in Postgres and one critical section of the item's lock file
in the file store (`FileStore` shows that the lock file implements it).

Data is reduced to what the properties tell apart. A caption is the *round* (the
item's `attempt`) it was written for, assets and lint reports are the draft they
were made from, feedback is the round it was given on. All items of an instance
belong to one slot date, which is the unit a stage run works on.

**Tick.** Variables: `items`, `redrafts`, the settings (`kill`, `marker`, `hit`), the
day's `spent` as the store adds it up and `burnt` as it really is, `lost` (what living runs
burnt and put on no row: replies that could not be used, stamps that failed), `run[p]` (how far
process `p` is in `runStage`) and `sweep` (how far the ticker is in `runTickSweep`).

| Code | Actions |
|---|---|
| `runStage`: kill switch; spend cap; completion marker and `appendRun` | `CheckKill`; `CheckCap`; `OpenRun` |
| the stage; its cost onto the row; `updateRun` and the marker | `Body`; `StampCost`; `CloseRun` |
| `runTickSweep`: plan and digest; `workDates`; one date; return | `DailyStage`; `ListDates`; `SweepDate`; `FinishSweep` |
| `run generate` from cron or a shell; `/new`; `/pause`, `/resume`; a decision | `ShellRun`; `Commission`; `SetKill`; `OwnerDecides` |
| midnight; a process killed | `NewDay`; `Crash` |

**TickLock.** One action per file access of `acquireTickLock`: `Create` (open `wx`),
`Write`, `FindLock`, `Break` (rm), and `ReleaseLock` in the `finally` of `cmdTick`; `Age` is 45
minutes passing. `overruns` and `contended` remember what the property excuses.

**Store / FileStore.** `Store` performs a call on its document in one step, as one statement
of `PostgresStore` does; `Outcome` and `After` say what each call answers and leaves. In
`FileStore` a call takes the steps of the code: look for the item (`Exists`, and
`CreateCheck` for `planStage`'s `getItem`), `Acquire` the lock file or find it `Busy` and
give up after `Retries`, `Read` and write the changed copy to a temporary file, `Rename`,
`Release`; `Crash` leaves the lock where it is. A process makes one call at a time; calls of
one process that overlap are two processes here. The refinement maps `docs` and `answer` to
themselves: a call takes effect when its file is renamed, or when it finds that it may not.
`Creator` says that each item has one process that may create it, which is what running one
planner at a time means.

**Notify.** Variables: the world (`review`, `runs`, `due`, `night`), the `cursor`, the
`ledger` with the claims that are `old`, `shown` (messages in the owner's channel), and
`bot` (how far the cycle is).

| Code | Actions |
|---|---|
| `runScanCycle`: head and orphans; section 1; first boot; sections 2 and 3; 4 to 6; end | `BeginCycle`; `ScanCards`; `FirstBoot`; `ScanRuns`, `AdvanceCursor`; `ScanMarks`; `EndCycle` |
| `resendOrphans`; `tgClaim`; the request; `tgMarkSent` | `TakeOrphan`; `Claim`; `Deliver`; `MarkSent` |
| a throw out of the cycle, or a death | `Dies` |

A section's list of keys is computed when the section begins and its keys are sent in any
order; the code sends them in one order. `Deliver(2)` is a request that was cut off after
Discord took it and that `_request` made again.

**ControlChannel.** Variables: `items` (status, attempt, whose note the item carries), the
cards `posted`, `pending` (the setting `pending_change_note`), and `ev[e]` (how far the
handler of the e-th event is). The bot does not wait for a handler before it takes the next
event, so handlers interleave at every access to the store.

| Code | Actions |
|---|---|
| `onDispatch`, `handleEvent` | `Tap`, `TapChanges`, `Reply`, `Text`, `New` |
| `handleButton`: Changes; approve and skip | `Arm`; `DecideTap` |
| `handleText`: read the setting; clear it; the note; the inbox | `ReadPending`; `ClearPending`; `ApplyNote`; `NoteDown` |
| `commissionItem`: `freeId`; `putItem`; the transition with the brief | `Probe`; `Put`; `Land` |
| ticks; the scanner; the station; ten minutes; a death | `Generate`, `Redraft`; `PostCard`; `StationDecides`; `FuseBurns`; `Crash` |

A tap and the setting it writes are two steps (`TapChanges`, `Arm`): what the owner means is
settled by the tap. `lastTap`, `tapRaced`, `shared` and two fields of `ev` remember what a
message was meant for and which meetings the properties excuse. `/pause` and `/tick` are in
Tick; the commands that only read, and `/rule`, which inserts a row, are left out.

**Station.** Variables: the `store`; the tab's `view` (its copy of the store), `selected`
item and open `detail` (edited text, reason panel, CONFIRM); `shown` (a failed reload hides
the detail, and the keys still work); `flights` (a decision from its POST to the reload it
asks for) and `refresh`. A caption is named by the item and attempt it was typed for;
`confirmed`, `carried`, `overtaken` are history.

| Code | Actions |
|---|---|
| cards, keys, links: `selectItem`, `applyHash` | `selectItem`, `applyHash` |
| `detailLocked` and the field that unlocks | `TypeConfirm` |
| caption editor; reason panel | `startEdit`, `TypeCaption`, `cancelEdit`; `openReason`, `closeReason` |
| `decide` in the tab: POST | `actApprove`, `submitReason` |
| `handlePostDecide`; `handleGetItems` | `handlePostDecide`; `ReloadServed`, `handleGetItems` |
| the answer and its reload; a failure of either | `DecideLoaded`; `DecideFails` |
| `refresh`, `reload`, `ingest` | `askRefresh`; `RefreshLoaded`, `RefreshFails` |
| the bot, the CLI, another tab; the pipeline | `OtherDecides`; `Redraft` |

**Bot.** Time passes five minutes at a time (`FiveMinutes`), which is how often a lock is
refreshed; a stamp more than three units old is stale. `life[b]` is how far daemon `b` is in
`runBot`: `StartBot`, `TryCreate`, `ReadLock`, `BreakLock`, `WriteStamp` (`acquireLock`),
`RefreshLock`, `StopBot` (the `finally`), `Sigterm`, `BotDies`; `session[b]` is its connection:
`Identify`, `GatewayReady`, `Lost`, `Reconnect`. A stamp goes into the file that was opened
(`handle`), also if somebody has removed it.

**Request.** One `_request`: `Posted`, `Answer` (429, or another 4xx), `Broken` (timeout,
network error, 5xx, before or after Discord did what was asked), `AskAgain` with its bound.

**Drafting.** `generateStage`'s loop (`TakeDraft`, `StampRun`) over `complete()`: `Spawn`, then
`Accepted`, `InvalidOutput` (asked again), `Unavailable` (the swap to the fallback model),
`SpawnError`; `DraftingDeath`. `spent` and `wasted` are what the CLI charged, `usage` what the
stage adds up.

**Contract.** `contractChecks`, `Compare` (read the setting; a read that fails counts as an
empty one), `NoteState` (write it), `Tell` (append the failed row), by ticks whose locks may have
been lost; `Drift`; `CutShort` is a death, or a write that fails and ends the gate.

**Planner.** One slot a day for each platform, which is what the configuration sets
(`instagram_per_day`, `tiktok_per_day`). `planWeek` is the last value of `PlannedBy`, a
recursive function over the days of the horizon; a day takes `PlanSlot` for each platform, as
the code's loop does. The sort of a slot's ideas is a set of pairs (`Scored`), the two loops
over the sorted are another (`Preferred`), and `Picks` numbers what they leave; `StartPlan`,
`StoreShell` (one item), `FinishPlan` (the journal), `PlanDeath`, `NextDay`. Scores are kept
in thirtieths, so the penalty of recency is an integer.

**Media.** A worker takes an item with the draft it reads (`StartRender`), stages stills in the
shared directory (`StageStill`), writes one file after the other (`WriteFile`), and lists what
it wrote if the item is still where it was (`FinishRender`); it may fail (`RenderFails`). A
redraft (`DraftAgain`) leaves the files of the last one.

**HookGate.** `StartLint`, `ListStatus` (the corpus, one status after another), `Verdict`,
`LintDeath`; around it `NewDraft`, `Approve` with its sibling skip, `Reject`.

**Backup.** `Command` is the next of `Dump`, `Upload`, `Prune`, `Sync`; `Fails` is `set -e`, or
the box going down; `WriteFiles` and `ListFiles` are a renderer's; `NightFalls`.

**Parity.** Each call on `item` (what item.json and the run files hold if the program keeps to
files) beside the same call on `row` (content_items, `runs`, `approvals`). The program writes
one of the two, so the item.json it left behind at the migration, `oldItem`, stays as it was,
and importing it again takes `item` and `row` back to it; `rewound` remembers that it did.
Births (`planStage`, `commissionItem`), the stages' transitions (`Claim`, `Draft`, `Render`,
`Qa`), decisions (`Decide`, `cmdRegen`, `BounceAfter`), run rows (`BeginRun`,
`ContractDrift`), and the migration (`ImportItems`, `ReplayDecision`). `Updated`, `Overlays`,
`RowOf` and `rowToItem` are what `postgres-store.mjs` makes of a patch, a new item and a row.

**MCTickParts, MCDaemon, MCBox.** Each composes machines that touch none of each other's state,
so exploring their product would only multiply states. The initial state chooses one in `part`,
and a step is a step of that one with all others at rest: every behaviour of each machine, and no
other. A machine's fairness, and what it must come to (`SweepsResume`, `BotListens`,
`DraftingStops`), is asked while it is the one that runs.

## 3. Runs

| Run | Instance | Question |
|---|---|---|
| `pipeline` | 2 candidates of a slot; 1 worker beside 2 reviewers with 1 death, or beside 1 reviewer and 1 operator; or 2 workers on different targets beside 1 caller; budgets 3 and 2 | Is what is under review one piece of work (`CardIsCoherent`), decided once (`DecidedOnce`), with a truthful record (`RecordsTellTheTruth`, `ApprovedIsRecorded`), are budgets kept (`AttemptBudget`)? The inductive invariant (`IInv`) and `ImplementsLifecycle` |
| `pipeline_liveness` | 1 item, 1 reviewer, 1 operator, 2 deaths | Does work left half done get finished (`InFlightWorkDrains`), and does only the end of a call leave a bounce half done (`BouncesComplete`)? |
| `tick` | 1 item, ticker and shell, cap 1, a pause or a death, 1 unit on no row | How far does a day overshoot (`SpendBound`), how far does a process run on after a pause (`KillHalts`)? |
| `tick_liveness` | 2 items on 2 dates, cap 1, 1 death | Does a sweep leave anything it could carry (`SweepDrains`), is what is owed reviewed in the end (`OwedWorkDrains`)? |
| `notify` | 1 card, 1 run, 1 critical marker, 1 fault | Is an event told once (`OneMessagePerEvent`), do cards and failures arrive (`CardsArrive`, `FailuresSeenArrive`)? |
| `tick_parts`, `daemon`, `box` | see below | each machine's |

The machines of the three composed runs:

| Run, machine | Instance | Question |
|---|---|---|
| `tick_parts`: FileStore | 2 processes; 1 item, 2 settings, 1 ledger key; 2 attempts at a lock, 1 death | Does a store of files do what one statement per call does (`ImplementsStore`), with one holder per lock (`OneHolder`), and does every call return (`EveryCallReturns`)? |
| TickLock | 3 ticks, 2 overruns, 1 death | How many sweeps run at once (`OneMorePerOverrun`), do they come back (`SweepsResume`)? |
| Drafting | 3 drafts, 2 retries, a fallback model | Is the cost on a run's row what was spent but for replies that could not be used, and those bounded (`StampIsSpentButWaste`); does the stage end (`DraftingStops`)? |
| `daemon`: Bot | 2 daemons; two of a hang, a lost connection and a death | How many daemons run at once (`OneDaemonPerOverrun`), does one come to listen again (`BotListens`)? |
| ControlChannel | 3 events, 1 item under review, 2 ids for `/new`, 1 death | Does the first message after a Changes tap, and no other, become its note where handlers do not meet on the setting (`NextMessageIsTheNote`), does a commission's brief reach its draft (`BriefsArrive`)? |
| `box`: Request | 4 retries, as in the program | Is a message posted again without need (`PostedOncePerLostAnswer`)? |
| Contract | 2 parts, 2 drifts, 2 ticks, 4 gates, 1 cut short, 1 failed read | Is a drift told once (`DriftIsToldOnce`)? |
| Planner | 4 ideas on all 81 mixes of platforms, 2 slots a day for 2 days, 3 days, 1 death | Is an idea repeated only for want of another (`ReuseIsLastResort`), does the journal count the stored items (`JournalTellsOfItems`)? |
| Media | a carousel and a reel of one world, 2 drafts, 2 workers | Does a rendered item list files of its own draft (`MediaIsOfTheDraft`)? |
| HookGate | 3 posts in 2 slots, 2 hooks that are alike, 2 drafts, 2 linters | Do two slots carry hooks that are too alike (`HooksStayApart`)? |
| Backup | 2 items, 3 nights, dumps kept for 2 | Does every dump restore, with its media (`DumpsRestore`)? |
| Parity | 1 item, budgets 2 and 1, 1 run, 4 decisions, 2 imports | Do both stores read the same since the last import (`StoresAgree`), is the owner's wish in both (`OwnerIsHeard`), does the run feed list stages only (`FeedIsOfStages`)? |
| Station | 2 candidates of a slot, one sensitive; three in all of 2 decisions and 1 refresh of the tab, 1 decision of somebody else, 1 lost request or answer | Is what was typed or confirmed at one draft used for another (`OnlyARefreshCarriesOver`), and is the draft decided the one that was shown (`DecidesTheDraftShown`)? |

The bounds: two items are the least that have siblings, and with one slot date all
items interact only through the sibling skip, which is pairwise. Two reviewers make
every doubled tap. Budgets 3 and 2 are the program's defaults; smaller ones are used
where a run asks about interleavings, and still reach every branch of both policies.
`Bounded` of MCPipeline lets a CLI verb meet one `decide()` call without a death, and two
workers meet one caller, on items in their first two attempts: the CLI and the second worker are
there for what they do to somebody else's step. Two workers there share no target of a stage
(`TargetsApart`); `finding_redraft` is about two that do.
Deaths are the one unbounded choice and are capped; one is enough to
separate any two writes, two let the recovery itself die. `Init` is an empty store:
the planner's first run. Deadlock is not checked: every instance legitimately ends when its
items are decided, its calls made and its bounds used up. That nothing gets stuck before is
what the liveness properties say.

In Tick an item costs one unit, so a cap of 1 is met and overshot by the first batch; two
dates are the least that can fail apart, a ticker and a shell the least that race past the
cap. `MaxLost` bounds what a day burns on no row; the code does not, so the bound of
`SpendBound` has it as a term. `Bounded` of MCTick leaves out what comes after the pause,
which is like what came before. In Notify events meet only in the queue of a section, which
the card, the run with its two kinds of alert and the marker fill three ways. In TickLock the
third process is the one that starts beside the second when the first removes the second's
lock. In ControlChannel a tap and two messages, or three `/new` on two ids, are the least that
meet on the setting and use up the ids; commissioned items are not decided there, since by
then they are like any other. In FileStore two processes meet on every document; three would
add waiting only, and the proofs cover any number. `Retries` is 200 in the program; two give a
first and a last attempt.

In Station a second decision is the one that can fall on a redraft of the first, or on its
sibling. `Bounded` of MCBox has three events of the tab in all, so that every pair of them meets
beside a decision; of what `DecidesTheDraftShown` speaks of, two decisions and a refresh with no
other decider and no fault, it cuts nothing. In Bot one hang is one daemon too many, and the second daemon's refresh is what must
not make a third; without hangs two daemons are as good as any number. `MaxMishaps` lets any two
of the three mishaps meet. In Planner a
horizon of two days makes four slots on which four ideas run short for some platform and not
for another, and a third day plans again over what is stored. In HookGate and Media
`Bounded` of MCBox stops where two linters, or two workers on one item, have been at work:
of what follows nothing is claimed (below), and the other machines are not cut by it. In
Parity the second import runs after the first one's rows were changed; four decisions are what
a redo, its budget and two more leave.

### Where the program and its documentation disagree

Each of these runs states what a comment or document says and is violated.

| Run | Statement | What the code does |
|---|---|---|
| `finding_slot` | "only one post per slot" (`decide/index.mjs:152-155`) | a sibling that QA passes after the approval can be approved too |
| `finding_cap` | "generation only; render/qa/digest cost nothing and keep draining the queue" (`registry.mjs:89-90`) | a `generate` paused by the cap ends the whole sweep, so drafts stay unrendered |
| `finding_redraft` | "so the re-draft actually responds to the human note" (`generate.mjs:33-36`) | with two generate runs on one item, a draft asked for before the note is accepted as the redraft: `cmdTick` takes `tick.lock`, but `run generate` (`src/ops/launchd`) does not, and the tick runs every 30 minutes |
| `finding_alert` | "every failure path emits a Telegram alert" (`docs/WAVE2_BRIEF.md:50`) | the cursor passes over rows that are still running; one that fails afterwards is never told |

Others are read off the code and the models and have no run of their own:

* "resumes cleanly after a crash" (`src/README.md:56-57`): a death between the two transitions
  of a bounce, or a throw of the decision record or the audit row that is written between them,
  leaves the item in `qa_failed` or `changes_requested`, which no stage lists.
  `BouncesComplete` fails in `pipeline_liveness` without its excuse for deaths.
* "the owner's NEXT plain message becomes the change note for this item"
  (`control/commands.mjs:46-47`): events are handled without waiting for one another. A message
  that reads the setting before the tap ahead of it has written it goes to the inbox, and the one
  after becomes the note; two that read it before either clears it both become notes.
  `NextMessageIsTheNote` fails without `raced`, in `daemon` without a death.
* "cmdRegen stores regen_note", so that the redraft responds to it (`generate.mjs:33-36`): it is
  no column (`postgres-store.mjs:256`), so on Postgres a redraft asked for by `autopilot regen
  --note` is drafted without its note. `OwnerIsHeard` leaves that note out.
* Feedback is "a file-mode-only annotation (no DB column)" and "harmlessly dropped in postgres
  mode" (`decide/index.mjs:96-98`): it is kept in `overlays.__feedback` and read back, and the
  redraft depends on it, as `OwnerIsHeard` says.
* "behaviourally identical to {@link FileStore}" (`postgres-store.mjs:6`): `__fileids.produced_by`,
  `telegram:/new`, shadows the run that drafts a commissioned item (`postgres-store.mjs:340`), so
  the station never shows a run for it, where file mode shows "the producing run"
  (`app.mjs:81`). `StoresAgree` fails if Postgres may not answer `Null` there.
* A regeneration takes an attempt (`machine.mjs:98`), and QA gives up by attempts: an item that
  failed twice and was then sent back by the owner is skipped at its next failure.
* The CLI verbs append their record before the move (`commands.mjs:215`): a move that loses its
  compare-and-swap leaves a record of a decision that did not happen.
* "n collision-probed" (`control/newitem.mjs:6`): two `/new` that probe before either stores
  take the same id. The later one overwrites the earlier one's item, even when that is already
  under review, and the earlier brief is gone, although its owner was told it is planned.
  `BriefsArrive` fails without its excuse.
* A death between `putItem` and the transition leaves a commissioned item `planned`, without
  the feedback that carries its brief; a generate run for its date then drafts it without.
* "decide()'s CAS 409 gives double-tap safety" (`control/callbacks.mjs:6-7`): for one draft. A
  card that still has its buttons carries no attempt and decides the draft that is under
  review now.
* A process that dies holding `item.lock` leaves it, and unlike the tick and bot locks it
  never goes stale: every later transition of that item fails after its 200 attempts, until
  somebody removes the file. `EveryCallReturns` says no more than that they return.
* "existing item ids are left untouched" (`plan.mjs:3`): `planStage` asks `getItem` and
  then overwrites with `putItem`, so two overlapping plan runs rewind an item.
* "an explicit decision recorded in `approvals`" (`docs/WAVE2_BRIEF.md:47`): a death
  between `decide()`'s two writes leaves an approved item with no record.
* "'edited' is a sub-type of approval" (`decide/index.mjs:22-24`): `cmdRegen` records
  `edited` for an item it sends back.
* Held messages "flush naturally" after quiet hours (`control/quiet.mjs`): a fallback alert
  that was held is passed by the run cursor and never sent. Orphans are sent again in
  quiet hours, too.
* Overlapping ticks "never double-spawn the brain" (`commands.mjs:102-107`): a tick that
  reads the lock after another created it and before it wrote its stamp takes it for a
  dead one's and breaks it. This needs two starts within milliseconds; `OneMorePerOverrun`
  says what is left of the exclusion when starts are apart but a sweep is slow.
* "prevents a second daemon on the box" (`discord/bot.mjs:6-7`): two daemons that are at the
  lock file at once can both go on, as two ticks can; `OneDaemonPerOverrun` speaks of daemons
  that come one at a time. A SIGTERM is not noticed while `start()` waits for READY
  (`bot.mjs:124`), and a refresh of the lock that fails is swallowed (`bot.mjs:54`).
  Heartbeats are sent whether or not the last one was acknowledged (`gateway.mjs:105`), so a
  connection that died silently is not noticed by them.
* A request that timed out after Discord served it is sent again: one message too many for each
  lost answer, which `PostedOncePerLostAnswer` counts. The same holds of the scanner's claims.
* The cost of replies that cannot be used is in nobody's sum: `complete` returns the cost of the
  reply it accepts (`claude-cli.mjs:150`), and `copyFrom` throws before a refused one is added up
  (`generate.mjs:175`); a stamp that fails is logged and forgotten (`generate.mjs:222-232`). So the
  spend cap is compared with less than was charged, by an amount nothing in the code bounds:
  `lost` in `SpendBound`, `wasted` in Drafting.
* "sensitive requires typed confirmation" (`app.js:30`): a refresh replaces the selection or the
  draft under an open detail, and CONFIRM or a caption typed for one item is used for another
  (`app.js:610`, `app.js:1600`). `OnlyARefreshCarriesOver` fails without `carried`. A failed reload
  hides the detail, and the keys still decide it; the answer of a decision throws away what was
  typed at another item meanwhile (`app.js:1085-1086`).
* A decision carries no attempt (`app.mjs:197`): after a lost answer, with another decider, or
  when an older reload comes last, a redraft that was never shown is decided.
* "which the bot scanner's existing failure path turns into a Discord alert"
  (`tick.mjs:39-40`): in Postgres the stage `doctor:contract` is stored as `transition`
  (`postgres-store.mjs:128`), which no feed lists, so the alert is never sent.
  `FeedIsOfStages` is about the other direction.
* "Idempotent across re-runs" (`commands.mjs:313`): importing the outbox again makes no second
  row, but puts the `item.json` the program has left behind over what the row has become: a
  note, a decision or a round made since is undone (`rewound` in Parity). `StoresAgree` speaks
  of what follows the last import, `OwnerIsHeard` excuses what it took back.
* A death between noting a drift and telling it loses the alert (`tick.mjs:48`), and a read of
  `contract_state` that fails counts as an empty one (`tick.mjs:46`), so a drift that was told is told
  again; `DriftIsToldOnce` counts each.
* With two slots a day for a platform, which the configuration allows, `planWeek` gives both
  the same ids (`planner.mjs:182-184`); Planner has one. A run that dies before its end leaves
  shells the journal does not count (`plan.mjs:59`), and two overlapping plan runs may lose
  each other's journal.
* Two workers on one item (a tick beside `run render`) may leave files of the older draft
  under the names the item lists, and all video renders share one `__autopilot-clips`.
* "a corpus of trailing-90-day items" (`lint/dedupe.mjs:3-4`): the corpus is all items of its
  statuses, of any age. Two linters at once pass two hooks that are alike, as neither lists
  the other's item.
* `rclone sync` from an outbox that is empty, as on a new box, empties the archive
  (`backup.sh:67`); "restored table row counts match live" (`restore.sh:10`) is compared with nothing.
* `capture.mjs:35` and `doctor/contract.mjs:142` expect different shapes of the catalog, and
  `lint/rules/price-law.mjs:48-54` does not see cents.

## 4. Fairness

`Fairness` in Pipeline assumes what the scheduling gives. A stage or a decision that was begun
goes on (weak fairness on `QaBounce`, `PlanItem`, `CallStep`). Ticks keep coming (launchd and
systemd, every 30 minutes) and sweep each stage for the statuses in `TICK_STAGE_FOR_STATUS`
(strong fairness on `TickStage`, because a tick finds work only while no other stage is
running). The model, the renderer and the lint engine may fail on a target any number of times
but not for ever (strong fairness on `Claim`, `Resume`, `GenerateDraft`, `RenderAssets`, and
on QA reaching a verdict). Nothing makes a planned item start: only the daily `run generate`
of its own date does, so `planned` is not among the statuses that must drain. Nobody is
obliged to decide, to plan or to die.

Tick: the ticker is a single process, so one weak fairness for all its steps says that
ticks are started and go on; midnight comes and the owner resumes; and a stage does not
fail for ever on one date. Shells, pauses and deaths are under no obligation.

FileStore: a call that was begun goes on (weak fairness of a process's steps); nobody is
obliged to make one.

ControlChannel: as long as a handler can go on, one does, and ticks bring what is drafting to
review (weak fairness of each of the two as a whole). The owner, the station and a generate run
for a planned item are under no obligation.

TickLock: ticks are started again and again, what was begun goes on, time passes. Bot: the
service manager starts a daemon again when none runs (weak fairness over all of them, as the
one that comes back may be any), what runs goes on, Discord answers, time passes; nobody is
obliged to send a SIGTERM. Drafting: the stage goes on; a CLI process ends, or is killed by its
timeout. In MCTickParts and MCDaemon each of these holds while its machine is the one that runs.

Notify: the bot goes on and is restarted (weak fairness of its steps), a claim gets old,
and again and again a cycle begins by day. The last one is more than weak or strong
fairness of the two parts, which would allow a night that falls exactly when a cycle
begins; a quiet window of hours and a cycle every minute exclude that. Faults are capped,
which says that requests do not fail for ever.

## 5. Proofs

All theorems hold for every value of the constants, under the assumption each module states:
bounds and budgets are naturals, sets of processes are finite, callers are of one kind only
(`ConstantsAssumption`, `TickAssumption`, `BotAssumption` and the like); a carousel may have two
slides and every piece has a shape the renderers know (`MediaAssumption`); an idea list is
finite, with ids and scores that compare, and a slot has at least one candidate
(`PlannerAssumption`); `/new` has ids to try, none of an item that is already there
(`ControlAssumption`); no item is taken for a missing one, `Null` is no id and `MaxDecisions` a
natural (`ParityAssumption`). The histories that properties speak of (`told`, `overlaps`,
`crossed`, `mixed`, `rewound`, `overtaken`, `tapRaced`) are written by the actions they tell of
and guard none.

* `LifecycleProofs!BudgetHolds`: `RedraftBudget` is inductive together with the types, when
  the two budgets are naturals (`BudgetsAreNatural`).
* `PipelineProofs!TypeCorrect`: every variable keeps its type, with any number of
  workers. It rests on lemmas about `TakeUp` and `PutDown`, the two ways `job` changes.
* `PipelineProofs!InvariantHolds`: `Spec /\ []TargetsApart => []IInv`. `TargetsApart` says that no
  two runs of one stage have an item among their targets at once; any number of runs may
  overlap, of different stages on the same items, or of one stage on different ones.
* `PipelineProofs!CardsCoherent`, `AttemptsBounded`: what follows from `IInv`. So does, as the
  lemma `RedraftsAnswer`, that what `finding_redraft` shows needs two runs with a target in common.
* `PipelineProofs!PipelineImplementsLifecycle`: every step is a step of Lifecycle or
  a stutter, with any number of deciders, operators and deaths.
* `PipelineProofs!DecisionsAreSingle`, `RecordsStayTrue`, `ApprovalsOnRecord`, also with
  `TargetsApart`: `RecordsInv` speaks of the records written *and of those a call still owes*
  (`Known`). What a record says of its draft is made true by the transition before it and is
  kept by every later step, as nothing moves an item that is approved or skipped, and an item
  sent back only gains rounds. A second decision of the same draft would have to find it
  under review, which no known record allows.
* `TickProofs!TickTyped`, `SwitchHalts`: types, and `KillHalts` from the invariant that a
  process past `CheckKill` has opened no run since the pause, one that is not has opened at
  most one.
* `TickProofs!SpendIsBounded`, when there are items: a process is let through while the rows are
  below the cap, so the rows and a batch for each process let through stay below the cap
  and a batch for each process (`Armed`); what was burnt beyond the rows is counted unit by unit
  in the hands of those about to stamp it (`Unpaid`), a death loses at most a batch, and what a
  living run burns on no row is `lost`, which the bound has as a term.
* `BoxProofs!OneMorePerOverrunHolds`: counts the processes that hold the lock with no
  file of their own that keeps others out. An overrun makes one of them. A process that
  ends its sweep may turn another into one by removing its file, but is none itself any
  more. Breaking a lock makes none while starts are apart, since the lock it removes is
  then still the one it judged, or gone.
* `BoxProofs!CallsPostOnce`: while a request is pending, whatever it posted went unheard, so a
  retry adds at most one message to the answers lost.
* `BoxProofs!StampsTell`, for a finite set of drafts and a natural `maxRetries`: `usage` is
  `spent` less `wasted`, and `wasted` is counted draft by draft, at most its attempts for one
  that is done and the attempts before the present one for the current; the swap of models
  repeats an attempt that cost nothing.
* `BoxProofs!GateKeepsApart`, for any posts, hooks and `N`: a linter that is past a
  status holds in its corpus every hook of it that counts, because hooks come under review
  through a linter only, and the owner moves them to a status listed later.
* `BoxProofs!DumpsAlwaysRestore`, when `RETENTION_DAYS` is positive: the rows of a dump are in
  the outbox when the dump is made, the sync comes after it, and the newest dump is never
  pruned.
* `BoxProofs!OneDaemonPerOverrunHolds`, for finitely many daemons, while they come to the lock
  one at a time: `DaemonInv` counts those that run or are about to. One of them is not one too
  many as long as the lock is fresh, or its stamp is being written. A fresh lock has the age
  of a daemon that runs, the one that stamped it, which need not be the one that created it;
  so when it gets old, that daemon has overrun, and pays for the one that comes in.
* `BoxProofs!DriftsAreToldOnce`, for finitely many ticks: `ContractInv` has one tick in
  the gate from which on the alerts still to come are counted, at most two for every other
  one, which have been paid for when it came in beside another; a failed read adds the one alert it
  repeats.
* `BoxProofs!StoresTellTheSame`, `OwnersNoteIsKept`, `FeedListsStages`: an import makes item and
  row the same again, whatever they were; a patch changes the same
  keys in the item and, with the `ids` kept inside `overlays`, in its row (`AgreeInv`), and what
  the owner asked last, if it is a note or a brief, is the feedback of both (`HearInv`). The
  feed follows from the table of labels alone.
* `BoxProofs!ListingsTellTheDraft`: while no two workers have been on one piece, what a worker
  has still to write is the end of the route of the current draft, what comes before is on disk
  and of that draft, and the names it noted are theirs (`MediaInv`); no two files of a route
  have one name, so nothing it writes later covers what it wrote before. That a carousel's
  files make a deck is a lemma about `planCarouselJobs` for every number of slides, the clamp
  included (`SlidesMakeADeck`).
* `BoxProofs!ReuseComesLast`, `JournalCountsItems`: a relation that orders a finite set
  numbers its elements (`Ranked`), so the candidates of a slot are distinct and the new ones come
  first (`SlotIsGood`); shells stay good with a slot more (`SlotAdded`); and the days of the
  horizon follow one after another. That last step is an induction, done by least
  counterexample with `WFMin`, as is the unfolding of the recursive function. A plan therefore
  fills every slot of its horizon, so what the next run stores is later than all that is stored
  (`PlannerInv`): its last shell of an idea, which dates the idea in the journal, has the latest
  date. After a death this no longer holds, nor is it claimed.
* `ControlProofs!NotesFindTheirItem`, `ControlTyped`: `NoteAwaited` says that the setting and the
  owner's last tap agree except while one handler, and no other, is about to make them: a tap's
  before it has written, or a message's before it has read and cleared; or else all remember that
  they met.
* `StationProofs!EntriesStayPut`, `DecisionsMeetTheirDraft`, `StationTyped`: what is entered is
  the selected draft's unless a refresh carried it (`EnteredForTheDraft`); and what the tab
  shows of an item it has not decided is the stored draft, and no snapshot in flight is ahead
  of the store (`ShownIsStored`), as long as nobody else decides, no answer is lost and no older
  one came last.
* `FileStoreProofs!FileStoreImplementsStore`, `LocksExclude`, `FileStoreTyped`: the
  invariant says that a temporary file about to be renamed is what `Store` would make of the
  document as it is *now* (`Ready`). Another locked call on that document is kept out by the
  lock; a creator is not, but he has found the item missing, and a transition about to rename
  has found it there, so the two cannot meet (`OneWriter`).
* `NotifyProofs!MessagesPaidFor`: a key is worth one message for good when it is marked
  sent, or while its message is out and the mark is not; what is in hand is claimed, and
  every further message was paid for by a fault.

Why `IInv` is needed. None of the safety properties is inductive: whether a draft
matches its item depends on the copy in some worker's hands. The argument is that
*between listing and writing, nobody else touches the item*: the statuses a stage
lists are moved only by stages (`CopiesInv`: a held copy equals the store's item, and
the item is in a status its stage may hold it in), decisions start only from
`pending_review`, which no stage lists, and an item in `changes_requested` belongs to
exactly one call (`BounceInv`). Then a patch computed from a copy is a patch computed
from the item, so the counters move as the policies say (`BudgetInv`) and the stages
agree with each other (`CoherenceInv`). Runs of different stages list different statuses, so they
may overlap at will, as the tick and the launchd jobs do. Two runs of *one* stage that share a
target do not keep the argument: the second holds a copy of an item the first has moved, and the
compare-and-swap lets it through when the item comes back to that status. That is the
hypothesis `TargetsApart`, and the program does not guarantee it: `finding_redraft` is a run without.

Only model-checked are

* what liveness and fairness say, which is out of the prover's reach: `InFlightWorkDrains`,
  `BouncesComplete`, `EveryCallReturns`, `SweepDrains`, `OwedWorkDrains`, `CardsArrive`,
  `FailuresSeenArrive`, `BriefsArrive`, `SweepsResume`, `BotListens`, `DraftingStops`;
* the types of TickLock, Notify and the machines of the box, as far as their proofs do not
  use them (`clips` of Media, `cursor` of Notify, among others).

Where a theorem and a run speak of the same property, the theorem says it for every value of
the constants, and the run shows that it is not vacuous: every action of its next-state
relation is taken.

## 6. Not modelled, and what is left

Left out for good, because it has no state of its own and no branch that another part
depends on: prompt assembly and the JSON schemas (Drafting has a reply that can or cannot be
used), the lint rules about the wording of one text (Pipeline and HookGate choose their
verdict), HTML and card layout, browser and encoder behind the renderers, `capture.mjs`
(records the library), the digest (a report over listings), configuration (read once),
the kit and the fixtures. Left out because they are sequential: `restore.sh`, which fills a
scratch container and removes it, and `apply.mjs`, which runs each migration in one
transaction with its tracking row. The launchd and systemd units are configuration; they
justify which processes overlap. Left out because each is one write or only reads: the
station's playbook, settings and activity views, `/rule`, `/status`, `/queue`, `/digest`,
`/doctor`. Dry runs write nothing. A publish stage does not exist in the repository, so the
statuses after `approved`, `publishFailNext` and `publishBackoffMs` have no part here; nor has
`ap_decide`, which no code calls.

Abstracted, and so not claimed: heartbeat timing and the arithmetic of quiet hours, what a
message says.

Every safety property that a passing run checks is also the statement of a theorem. Left to
prove are the types that no argument needs so far, and what of Pipeline's conclusions survives
two runs of one stage on one item, where `IInv` fails.
