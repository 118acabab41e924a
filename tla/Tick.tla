-------------------------------- MODULE Tick --------------------------------
(***************************************************************************)
(* The stage runner and the heartbeat that drives it.  A process runs a    *)
(* stage for one slot date through runStage(): it reads the kill switch,   *)
(* then the day's spend (generate only), then the completion marker, and   *)
(* opens a row in `runs`; it works, stamps the cost, closes the row and    *)
(* sets the marker.  The ticker sweeps: plan for today, then       *)
(* generate, render and qa for every slot date with work, then digest.     *)
(* Shells (cron entries and hand-typed `run generate`) go through the same *)
(* runner and take no lock.  The owner pauses, resumes and asks for        *)
(* redrafts at any moment, processes die, and days pass.                   *)
(*                                                                         *)
(* What a stage does inside is Pipeline's subject; here it is one step     *)
(* that moves every item of the date it lists, or leaves it with an error. *)
(* One drafted item costs 1.  The contract gate at the head of a sweep     *)
(* touches none of this state.                                             *)
(***************************************************************************)
EXTENDS Integers, FiniteSets

CONSTANTS Items,      \* content items
          Slot,       \* Slot[i] is the slot date of item i
          Ticker,     \* the process that holds the tick lock
          Shells,     \* processes that run `run generate` beside it
          Cap,        \* daily_spend_cap_usd, in drafts
          MaxRedrafts,\* redrafts the retry policies grant an item
          MaxPauses,  \* bound on how often the owner pauses
          MaxCrashes, \* bound on process deaths
          MaxLost     \* bound on what a day may spend past every row

Dates == {Slot[i] : i \in Items}
Procs == {Ticker} \cup Shells

ASSUME TickAssumption == /\ IsFiniteSet(Items)
                         /\ IsFiniteSet(Shells)
                         /\ Slot \in [Items -> Nat]
                         /\ Ticker \notin Shells
                         /\ Cap \in Nat \ {0}
                         /\ MaxRedrafts \in Nat
                         /\ MaxPauses \in Nat
                         /\ MaxCrashes \in Nat
                         /\ MaxLost \in Nat

VARIABLES items,    \* status of every item
          redrafts, \* redrafts of every item so far
          kill,     \* settings.kill_switch
          pauses,   \* times it was engaged so far
          spent,    \* dailySpend of today
          hit,      \* the spend_cap_hit marker carries today's date
          marker,   \* stage_completed:<stage>:<date> settings that are set
          run,      \* run[p]: how far process p is in runStage
          sweep,    \* how far the ticker is in runTickSweep
          crashes,  \* processes that died so far
          burnt,    \* what the runs opened today really cost
          lost,     \* the part of it that living runs put on no row
          opened    \* opened[p]: runs p opened since the switch was engaged

content  == <<items, redrafts>>
switch   == <<kill, pauses, opened>>
money    == <<spent, hit, burnt, lost>>

vars == <<items, redrafts, kill, pauses, opened, spent, hit, burnt, lost,
          marker, run, sweep, crashes>>

-----------------------------------------------------------------------------
(* Stages and what they do to an item *)

Stages == {"plan", "generate", "render", "qa", "digest"}

\* The operating date of plan and digest, which they complete once a day.
Today == -1

ItemStatuses == {"absent", "planned", "drafting", "drafted", "rendering",
                 "rendered", "pending_review", "closed"}

\* The statuses a stage lists.
Lists == [plan     |-> {"absent"},
          generate |-> {"planned", "drafting"},
          render   |-> {"drafted", "rendering"},
          qa       |-> {"rendered"},
          digest   |-> {}]

\* The statuses a stage may move item i to.  Only QA sends one back, while
\* the policy grants a redraft; an item given up or approved is closed.
Done(stage, i) ==
  CASE stage = "plan"     -> {"planned"}
    [] stage = "generate" -> {"drafted"}
    [] stage = "render"   -> {"rendered"}
    [] stage = "qa"       -> {"pending_review"} \cup
                             IF redrafts[i] < MaxRedrafts THEN {"drafting"}
                                                          ELSE {"closed"}

\* Where an error leaves an item that was claimed; such a run fails.
Error == [plan |-> "absent", generate |-> "drafting", render |-> "rendering",
          qa |-> "rendered"]

\* Seeded fault: a render that died is not taken up again.
TICK_STAGE_FOR_STATUS_NoResume == [drafting |-> "generate",
                                   drafted  |-> "render",
                                   rendered |-> "qa"]

\* Statuses that mean work is owed, and the stage that moves each on.
TICK_STAGE_FOR_STATUS == [drafting  |-> "generate",
                          drafted   |-> "render",
                          rendering |-> "render",
                          rendered  |-> "qa"]

Owed(stage) == {status \in DOMAIN TICK_STAGE_FOR_STATUS :
                  TICK_STAGE_FOR_STATUS[status] = stage}

\* The slot dates that carry work for `stage`.
workDates(stage) == {Slot[i] : i \in {j \in Items : items[j] \in Owed(stage)}}

\* Items a run of `stage` for `date` works on: plan fills the whole calendar.
Targets(stage, date) ==
  {i \in Items : /\ items[i] \in Lists[stage]
                 /\ stage = "plan" \/ Slot[i] = date}

-----------------------------------------------------------------------------
(* The sweep's and the runner's records *)

\* In `sweep`, stage is what to run next and failed remembers the stage passes
\* that failed.  fresh is lost at midnight: the sweep or the run belongs to
\* the day before.
IdleSweep == [stage |-> "none", listed |-> FALSE, queue |-> {},
              fresh |-> TRUE, stopped |-> "no", failed |-> {}]

IdleRun == [step |-> "idle", stage |-> "plan", date |-> 0, force |-> FALSE,
            fresh |-> TRUE, cost |-> 0, ok |-> TRUE]

RunStage(stage, date, force) ==
  [IdleRun EXCEPT !.step = "kill", !.stage = stage, !.date = date,
                  !.force = force]

Goto(p, step) == run' = [run EXCEPT ![p].step = step]

\* runStage returns: the ticker stops on "paused" whatever the reason,
\* collects a failure, and otherwise goes on.
Return(p, result) ==
  /\ run' = [run EXCEPT ![p] = IdleRun]
  /\ sweep' =
       IF p # Ticker THEN sweep
       ELSE CASE result \in {"kill_switch", "spend_cap"} ->
                   [sweep EXCEPT !.stage = "end", !.stopped = result]
              [] result = "failed" /\ run[p].date # Today ->
                   [sweep EXCEPT !.failed =
                      @ \cup {<<run[p].stage, run[p].date>>}]
              [] OTHER -> sweep

-----------------------------------------------------------------------------
(* runStage *)

\* Seeded fault: the switch is read once per sweep, not for every stage.
CheckKill_OncePerSweep(p) ==
  /\ run[p].step = "kill"
  /\ IF kill /\ run[p].stage = "plan"
       THEN Return(p, "kill_switch")
       ELSE /\ Goto(p, IF run[p].stage = "generate" THEN "cap" ELSE "open")
            /\ UNCHANGED sweep
  /\ UNCHANGED <<content, switch, money, marker, crashes>>

CheckKill(p) ==
  /\ run[p].step = "kill"
  /\ IF kill
       THEN Return(p, "kill_switch")
       ELSE /\ Goto(p, IF run[p].stage = "generate" THEN "cap" ELSE "open")
            /\ UNCHANGED sweep
  /\ UNCHANGED <<content, switch, money, marker, crashes>>

\* The spend of the local day against the cap; only generate is asked.
CheckCap(p) ==
  /\ run[p].step = "cap"
  /\ IF spent >= Cap
       THEN Return(p, "spend_cap") /\ hit' = TRUE
       ELSE Goto(p, "open") /\ UNCHANGED <<hit, sweep>>
  /\ UNCHANGED <<content, switch, marker, spent, burnt, lost, crashes>>

\* plan and digest of a sweep that midnight overtook are yesterday's, whose
\* marker the sweep's own day no longer shares.
Completed(p) == /\ <<run[p].stage, run[p].date>> \in marker
                /\ run[p].date = Today => sweep.fresh

\* Skip what is completed, unless forced; otherwise appendRun, whose
\* started_at decides which day pays.
OpenRun(p) ==
  /\ run[p].step = "open"
  /\ IF ~run[p].force /\ Completed(p)
       THEN Return(p, "skipped") /\ UNCHANGED opened
       ELSE /\ run' = [run EXCEPT ![p].step = "body", ![p].fresh = TRUE]
            /\ opened' = IF kill THEN [opened EXCEPT ![p] = @ + 1] ELSE opened
            /\ UNCHANGED sweep
  /\ UNCHANGED <<content, money, marker, kill, pauses, crashes>>

\* What a run of today costs: usable replies, and others no row will show.
Burn(r, cost, waste) ==
  /\ burnt' = IF r.fresh THEN burnt + cost + waste ELSE burnt
  /\ lost'  = IF r.fresh THEN lost + waste ELSE lost

\* The stage itself: every target moves on or keeps an error; a draft that
\* could not be written down may have been paid for.  The model's replies that
\* were of no use cost money too, and it is in no usage: the driver returns the
\* cost of the reply it accepts, and copyFrom throws before a refused one is
\* added up.  A stage may also throw for a reason of its own.
Body(p) ==
  LET r       == run[p]
      targets == Targets(r.stage, r.date)
  IN  /\ r.step = "body"
      /\ \E done \in SUBSET targets, ok \in BOOLEAN :
           /\ ok => done = targets
           /\ \E to \in [targets -> ItemStatuses] :
                /\ \A i \in targets :
                     to[i] \in IF i \in done THEN Done(r.stage, i)
                                            ELSE {items[i], Error[r.stage]}
                /\ items' = [i \in Items |-> IF i \in targets THEN to[i]
                                                             ELSE items[i]]
                /\ redrafts' = [i \in Items |->
                                  IF i \in done /\ to[i] = "drafting"
                                    THEN redrafts[i] + 1 ELSE redrafts[i]]
           /\ IF r.stage = "generate"
                THEN \E cost \in Cardinality(done)..Cardinality(targets),
                        waste \in 0..(MaxLost - lost) :
                       /\ waste > 0 => targets # {}
                       /\ run' = [run EXCEPT ![p].step = "stamp",
                                             ![p].cost = cost, ![p].ok = ok]
                       /\ Burn(r, cost, waste)
                ELSE /\ run' = [run EXCEPT ![p].step = "close", ![p].ok = ok]
                     /\ UNCHANGED <<burnt, lost>>
      /\ UNCHANGED <<switch, marker, spent, hit, sweep, crashes>>

\* Seeded fault: the cost of a failed batch is not put on its row.
StampCost_OnlyOk(p) ==
  /\ run[p].step = "stamp"
  /\ spent' = IF run[p].fresh /\ run[p].ok THEN spent + run[p].cost ELSE spent
  /\ Goto(p, "close")
  /\ UNCHANGED <<content, switch, marker, hit, burnt, lost, sweep, crashes>>

\* generate puts the batch's cost on its row, also when it is about to fail;
\* an updateRun that throws is logged and forgotten, and the cost with it.
StampCost(p) ==
  /\ run[p].step = "stamp"
  /\ LET cost == IF run[p].fresh THEN run[p].cost ELSE 0
     IN  \/ spent' = spent + cost /\ UNCHANGED lost
         \/ /\ lost + cost <= MaxLost
            /\ lost' = lost + cost
            /\ UNCHANGED spent
  /\ Goto(p, "close")
  /\ UNCHANGED <<content, switch, marker, hit, burnt, sweep, crashes>>

\* The row is closed and, when the stage succeeded, marked completed.  The
\* markers of render and qa are left out: every run of theirs is forced.
CloseRun(p) ==
  /\ run[p].step = "close"
  /\ Return(p, IF run[p].ok THEN "ok" ELSE "failed")
  /\ marker' = IF /\ run[p].ok
                   /\ run[p].stage \in {"plan", "generate", "digest"}
                   /\ run[p].date = Today => sweep.fresh
                 THEN marker \cup {<<run[p].stage, run[p].date>>}
                 ELSE marker
  /\ UNCHANGED <<content, switch, money, crashes>>

RunStep(p) == \/ CheckKill(p)
              \/ CheckCap(p)
              \/ OpenRun(p)
              \/ Body(p)
              \/ StampCost(p)
              \/ CloseRun(p)

-----------------------------------------------------------------------------
(* runTickSweep *)

\* Seeded fault: qa is swept before render.
Next_QaFirst == [plan |-> "generate", generate |-> "qa", qa |-> "render",
                 render |-> "digest", digest |-> "end"]

\* TICK_STAGE_ORDER between plan and digest.
AfterStage == [plan |-> "generate", generate |-> "render", render |-> "qa",
               qa |-> "digest", digest |-> "end"]

\* The ticker is between two calls of runStage.
Sweeping(stages) == /\ run[Ticker] = IdleRun
                    /\ sweep.stage \in stages

BeginSweep ==
  /\ Sweeping({"none"})
  /\ sweep' = [IdleSweep EXCEPT !.stage = "plan"]
  /\ UNCHANGED <<content, switch, money, marker, run, crashes>>

\* plan and digest, once a day; their markers are kept per operating day.
DailyStage ==
  /\ Sweeping({"plan", "digest"})
  /\ run' = [run EXCEPT ![Ticker] =
               RunStage(sweep.stage, Today, FALSE)]
  /\ sweep' = [sweep EXCEPT !.stage = AfterStage[@]]
  /\ UNCHANGED <<content, switch, money, marker, crashes>>

\* List the dates of a stage family when its turn comes.
ListDates ==
  /\ Sweeping({"generate", "render", "qa"})
  /\ ~sweep.listed
  /\ sweep' = [sweep EXCEPT !.listed = TRUE, !.queue = workDates(sweep.stage)]
  /\ UNCHANGED <<content, switch, money, marker, run, crashes>>

\* Run the family's stage for the earliest date left, even if it is marked
\* completed; with none left go on to the next family.
SweepDate ==
  /\ Sweeping({"generate", "render", "qa"})
  /\ sweep.listed
  /\ \/ /\ sweep.queue = {}
        /\ sweep' = [sweep EXCEPT !.stage = AfterStage[@],
                                  !.listed = FALSE]
        /\ UNCHANGED run
     \/ \E date \in sweep.queue :
          /\ \A other \in sweep.queue : date <= other
          /\ run' = [run EXCEPT ![Ticker] = RunStage(sweep.stage, date, TRUE)]
          /\ sweep' = [sweep EXCEPT !.queue = @ \ {date}]
  /\ UNCHANGED <<content, switch, money, marker, crashes>>

\* Every way out of the sweep stamps last_tick_at, which only the outbound
\* scanner reads.
FinishSweep ==
  /\ Sweeping({"end"})
  /\ sweep' = IdleSweep
  /\ UNCHANGED <<content, switch, money, marker, run, crashes>>

SweepStep == DailyStage \/ ListDates \/ SweepDate \/ FinishSweep

-----------------------------------------------------------------------------
(* The others *)

\* cmdRun: `run generate [--date d] [--force]`.
ShellRun(p) ==
  /\ p \in Shells
  /\ run[p] = IdleRun
  /\ \E date \in Dates, force \in BOOLEAN :
       run' = [run EXCEPT ![p] = RunStage("generate", date, force)]
  /\ UNCHANGED <<content, switch, money, marker, sweep, crashes>>

\* commissionItem: `/new` puts an item of its own and moves it to drafting.
Commission(i) ==
  /\ items[i] = "absent"
  /\ items' = [items EXCEPT ![i] = "drafting"]
  /\ UNCHANGED <<switch, money, marker, redrafts, run, sweep, crashes>>

SetKill(value) ==
  /\ kill # value
  /\ kill' = value
  /\ value => pauses < MaxPauses
  /\ pauses' = IF value THEN pauses + 1 ELSE pauses
  /\ opened' = [p \in Procs |-> 0]
  /\ UNCHANGED <<content, money, marker, run, sweep, crashes>>

\* The owner decides an item; requested changes send it back to drafting.
OwnerDecides(i) ==
  /\ items[i] = "pending_review"
  /\ \/ /\ redrafts[i] < MaxRedrafts
        /\ items' = [items EXCEPT ![i] = "drafting"]
        /\ redrafts' = [redrafts EXCEPT ![i] = @ + 1]
     \/ /\ items' = [items EXCEPT ![i] = "closed"]
        /\ UNCHANGED redrafts
  /\ UNCHANGED <<switch, money, marker, run, sweep, crashes>>

\* Midnight: nothing is spent or completed yet.  No process is so slow that
\* it sees two of them.
NewDay ==
  /\ \A p \in Procs : run[p].fresh
  /\ sweep.fresh
  /\ spent' = 0 /\ burnt' = 0 /\ lost' = 0 /\ hit' = FALSE
  /\ marker' = {m \in marker : m[2] # Today}
  /\ run' = [p \in Procs |-> IF run[p] = IdleRun THEN IdleRun
                              ELSE [run[p] EXCEPT !.fresh = FALSE]]
  /\ sweep' = IF sweep = IdleSweep THEN IdleSweep
                                  ELSE [sweep EXCEPT !.fresh = FALSE]
  /\ UNCHANGED <<content, switch, crashes>>

\* A process dies; the ticker's sweep dies with it.
Crash(p) ==
  /\ crashes < MaxCrashes
  /\ \/ run[p] # IdleRun
     \/ p = Ticker /\ sweep.stage # "none"
  /\ crashes' = crashes + 1
  /\ run' = [run EXCEPT ![p] = IdleRun]
  /\ sweep' = IF p = Ticker THEN IdleSweep ELSE sweep
  /\ UNCHANGED <<content, switch, money, marker>>

Init == /\ items = [i \in Items |-> "absent"]
        /\ redrafts = [i \in Items |-> 0]
        /\ kill = FALSE
        /\ pauses = 0
        /\ spent = 0
        /\ hit = FALSE
        /\ marker = {}
        /\ run = [p \in Procs |-> IdleRun]
        /\ sweep = IdleSweep
        /\ crashes = 0
        /\ burnt = 0
        /\ lost = 0
        /\ opened = [p \in Procs |-> 0]

Next == \/ \E p \in Procs : RunStep(p) \/ ShellRun(p) \/ Crash(p)
        \/ BeginSweep
        \/ SweepStep
        \/ \E value \in BOOLEAN : SetKill(value)
        \/ \E i \in Items : Commission(i) \/ OwnerDecides(i)
        \/ NewDay

Spec == Init /\ [][Next]_vars

\* launchd starts a tick every 30 minutes and a step that was begun goes on;
\* midnight comes; the owner resumes what was paused; a stage does not fail
\* for ever on a date.
Fairness ==
  /\ WF_vars(BeginSweep \/ SweepStep \/ RunStep(Ticker))
  /\ SF_vars(NewDay)
  /\ WF_vars(SetKill(FALSE))
  /\ \A date \in Dates : SF_vars(/\ Body(Ticker)
                                 /\ run[Ticker].date = date
                                 /\ run'[Ticker].ok)

FairSpec == Spec /\ Fairness

-----------------------------------------------------------------------------
(* Properties *)

Run == [step : {"idle", "kill", "cap", "open", "body", "stamp", "close"},
        stage : Stages, date : Int, force : BOOLEAN, fresh : BOOLEAN,
        cost : Nat, ok : BOOLEAN]

Sweep == [stage : Stages \cup {"none", "end"}, listed : BOOLEAN,
          queue : SUBSET Nat, fresh : BOOLEAN,
          stopped : {"no", "kill_switch", "spend_cap"},
          failed : SUBSET (Stages \X Int)]

TypeOK ==
  /\ items \in [Items -> ItemStatuses]
  /\ redrafts \in [Items -> 0..MaxRedrafts]
  /\ kill \in BOOLEAN /\ hit \in BOOLEAN
  /\ spent \in Nat /\ burnt \in Nat /\ lost \in 0..MaxLost
  /\ marker \subseteq Stages \X Int
  /\ run \in [Procs -> Run]
  /\ sweep \in Sweep
  /\ pauses \in 0..MaxPauses
  /\ crashes \in 0..MaxCrashes
  /\ opened \in [Procs -> Nat]

\* The largest batch one run of generate can pay for.
Batch == LET OnDate(d) == Cardinality({i \in Items : Slot[i] = d})
         IN  CHOOSE n \in {OnDate(d) : d \in Dates} :
               \A d \in Dates : OnDate(d) <= n

\* The cap is compared before a batch and the cost recorded after it, by
\* processes that do not wait for each other, and a death loses the record;
\* even so a day costs at most the cap and one batch per process, plus one per
\* death, plus what living runs paid past the rows: unusable replies and stamps
\* that failed (`lost`).  Nothing else gets past the cap; the cap does not bound
\* `lost` itself (step 2 of runStage, the loop and the stamp of generateStage).
SpendBound ==
  burnt < Cap + Batch * (Cardinality(Procs) + crashes) + lost

\* /pause halts every process within the stage it is in: after the switch is
\* engaged a process starts at most the one run it had already let through,
\* in the middle of a forced sweep as well (step 1 of runStage).
KillHalts == \A p \in Procs : opened[p] <= 1

\* Items a sweep could have carried on: those whose stage failed on their
\* date in this very sweep are excused.
LeftBehind ==
  {i \in Items : /\ items[i] \in Owed("render") \cup Owed("qa")
                 /\ <<TICK_STAGE_FOR_STATUS[items[i]], Slot[i]>>
                      \notin sweep.failed}

\* With no shell beside it, a sweep that ran to its end has carried every item
\* it could to review: a redraft flows through render and qa in the same
\* sweep, and a date that failed strands no other (the header of tick.mjs).
SweepDrains ==
  [][FinishSweep /\ sweep.stopped = "no" => LeftBehind = {}]_vars

\* The spend cap pauses generation only, render and qa keep draining (the
\* comment on step 2 of runStage in registry.mjs).
CapStopsGenerationOnly ==
  [][FinishSweep /\ sweep.stopped = "spend_cap" => LeftBehind = {}]_vars

\* Work that is owed reaches review or is closed, whatever fails, dies, is
\* paused or runs out of money on the way (the tick sweeps every date and
\* resumes what a death left, and the cap lasts a day).
OwedWorkDrains ==
  \A i \in Items :
    items[i] \in {"drafting", "drafted", "rendering", "rendered"}
      ~> items[i] \in {"pending_review", "closed"}
=============================================================================
