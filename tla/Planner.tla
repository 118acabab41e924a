------------------------------ MODULE Planner ------------------------------
(***************************************************************************)
(* The planner.  planWeek is a pure function of the idea list, the usage   *)
(* journal and the day; the plan stage runs it once a day, stores the      *)
(* shells whose slots are still free one by one, and writes the ideas of   *)
(* those into the journal.  A run may die at any point and is repeated,    *)
(* that day or the next.  Dates are numbers; date 1 is a Monday.           *)
(***************************************************************************)
EXTENDS Integers, FiniteSets, Sequences

CONSTANTS IdeaLists,         \* ideas.json: what ideas may look like
          horizonDays,       \* planning_horizon_days
          candidatesPerSlot, \* cadence.candidates_per_slot
          QuietDays,         \* cadence.quiet_days, ISO weekdays
          StartDate,         \* the first day the planner runs
          MaxDays,           \* bound on the days that pass
          MaxPlanDeaths      \* bound on runs that die

ASSUME PlannerAssumption ==
  /\ \A list \in IdeaLists : /\ IsFiniteSet(DOMAIN list) /\ DOMAIN list \subseteq Int
                             /\ \A i \in DOMAIN list : list[i].score \in Int
  /\ horizonDays \in Nat /\ candidatesPerSlot \in Nat \ {0} /\ StartDate \in Nat

VARIABLES ideas,    \* idea id -> its platform and score
          day,      \* today
          journal,  \* ideas-usage.json: idea id -> last_used_at and uses
          slots,    \* the stored items: <<slot date, platform, k>> -> idea id
          plan,     \* shells: planWeek's result
          handled,  \* how many of them the stage has come past
          created,  \* createdShells of the run
          planning, \* "idle", "running" or, today, "done"
          planDeaths

plannerVars == <<ideas, day, journal, slots, plan, handled, created, planning, planDeaths>>

NeverUsed == [last |-> 0, uses |-> 0]

isoWeekday(date) == ((date - 1) % 7) + 1

\* DEFAULT_FORMAT_MIX, which the config repeats.
formatForSlot(platform, weekday) ==
  IF platform = "tiktok" THEN "tiktok_video"
  ELSE IF weekday \in {2, 5} THEN "carousel"
  ELSE IF weekday = 4 THEN "image" ELSE "reel"

ideaEligibleFor(i, platform) ==
  ideas[i].platform \in IF platform = "tiktok" THEN {"both", "tiktok"}
                        ELSE {"both", "reels", "ig-carousel", "ig-story"}

\* How well an idea fits a format, 0 is best; only `effort: S` makes an image.
formatPreferenceRank(i, format) ==
  LET p == ideas[i].platform
      flexible == p \in {"both", "reels"}
  IN CASE format = "carousel" -> IF p = "ig-carousel" THEN 0 ELSE IF p = "both" THEN 1 ELSE 2
       [] format = "image"    -> IF ~flexible THEN 2 ELSE IF ideas[i].small THEN 0 ELSE 1
       [] format = "reel"     -> IF flexible THEN 0 ELSE 1
       [] OTHER               -> 0

\* The penalty of a recent use, in thirtieths: never under a tenth.
recencyPenalty(last, date) ==
  IF last = 0 \/ date - last >= 30 THEN 30
  ELSE IF date - last <= 3 THEN 3 ELSE date - last

Pool(platform) == {i \in DOMAIN ideas : ideaEligibleFor(i, platform)}

\* The sort of a slot's pool, by fit, then score, then id: <<i, j>> if i goes first.
Scored(platform, date, recency) ==
  LET format == formatForSlot(platform, isoWeekday(date))
      rank(i) == formatPreferenceRank(i, format)
      s(i) == ideas[i].score * recencyPenalty(recency[i], date)
      before(i, j) == \/ rank(i) < rank(j)
                      \/ rank(i) = rank(j) /\ s(i) > s(j)
                      \/ rank(i) = rank(j) /\ s(i) = s(j) /\ i < j
  IN {x \in Pool(platform) \X Pool(platform) : before(x[1], x[2])}

\* The first loop over the scored takes what is new to the run, the second the rest.
Preferred(platform, scored, used) ==
  {x \in Pool(platform) \X Pool(platform) :
     \/ x[1] \notin used /\ x[2] \in used
     \/ (x[1] \in used <=> x[2] \in used) /\ x \in scored}

\* The first candidatesPerSlot of an order, as shells of the slot.
Picks(platform, date, order, used) ==
  LET place == [i \in Pool(platform) |->
                  1 + Cardinality({j \in Pool(platform) : <<j, i>> \in order})]
      size == Cardinality(Pool(platform))
  IN [k \in 1..(IF size < candidatesPerSlot THEN size ELSE candidatesPerSlot) |->
        LET i == CHOOSE j \in Pool(platform) : place[j] = k
        IN [date |-> date, platform |-> platform, k |-> k, idea |-> i, reused |-> i \in used]]

\* Seeded fault: an idea is spent once it was picked for that platform.
Chosen_PerPlatform(platform, date, week) ==
  LET used == {week.shells[n].idea : n \in {m \in DOMAIN week.shells :
                                              week.shells[m].platform = platform}}
  IN Picks(platform, date, Preferred(platform, Scored(platform, date, week.recency), used), used)

\* The candidates of a slot: ideas the run has not used, then the used ones.
Chosen(platform, date, week) ==
  Picks(platform, date, Preferred(platform, Scored(platform, date, week.recency), week.used),
        week.used)

\* One slot of the fold: its candidates count as used on its date from now on.
PlanSlot(week, platform, date) ==
  LET chosen == Chosen(platform, date, week)
      picked == {chosen[k].idea : k \in DOMAIN chosen}
  IN [shells |-> week.shells \o chosen,
      used |-> week.used \cup picked,
      recency |-> [i \in DOMAIN ideas |-> IF i \in picked THEN date ELSE week.recency[i]]]

\* Instagram then TikTok of a day that is not quiet: instagram_per_day and
\* tiktok_per_day are 1, as the config has them.
PlanDay(week, date) ==
  IF isoWeekday(date) \in QuietDays THEN week
  ELSE PlanSlot(PlanSlot(week, "instagram", date), "tiktok", date)

\* What the days of the horizon, T+1..T+n, make of the journal.
PlannedBy(date) ==
  LET week[n \in 0..horizonDays] ==
        IF n = 0 THEN [shells |-> <<>>, used |-> {},
                       recency |-> [i \in DOMAIN ideas |-> journal[i].last]]
        ELSE PlanDay(week[n - 1], date + n)
  IN week

planWeek(date) == PlannedBy(date)[horizonDays].shells

\* The plan stage begins: ideas and journal are read, the week is planned.
StartPlan ==
  /\ planning = "idle"
  /\ planning' = "running"
  /\ plan' = planWeek(day) /\ handled' = 0 /\ created' = <<>>
  /\ UNCHANGED <<ideas, day, journal, slots, planDeaths>>

\* An item that exists is left alone, whatever the plan now says.
StoreShell ==
  /\ planning = "running" /\ handled < Len(plan)
  /\ LET s == plan[handled + 1]
         id == <<s.date, s.platform, s.k>>
     IN IF id \in DOMAIN slots
          THEN UNCHANGED <<slots, created>>
          ELSE /\ slots' = [x \in DOMAIN slots \cup {id} |-> IF x = id THEN s.idea ELSE slots[x]]
               /\ created' = Append(created, s)
  /\ handled' = handled + 1
  /\ UNCHANGED <<ideas, day, journal, plan, planning, planDeaths>>

\* The loop of bumpUsage: the last shell of an idea dates it, each one counts.
Journalled(shells) ==
  [i \in DOMAIN ideas |->
     LET mine == {n \in DOMAIN shells : shells[n].idea = i}
         latest == CHOOSE n \in mine : \A m \in mine : m <= n
     IN IF mine = {} THEN journal[i]
        ELSE [last |-> shells[latest].date, uses |-> journal[i].uses + Cardinality(mine)]]

\* Seeded fault: the whole plan is journalled, not what was created of it.
FinishPlan_AllShells ==
  /\ planning = "running" /\ handled = Len(plan)
  /\ planning' = "done"
  /\ journal' = Journalled(plan)
  /\ UNCHANGED <<ideas, day, slots, plan, handled, created, planDeaths>>

\* bumpUsage over the created shells, then the completion marker of runStage.
FinishPlan ==
  /\ planning = "running" /\ handled = Len(plan)
  /\ planning' = "done"
  /\ journal' = Journalled(created)
  /\ UNCHANGED <<ideas, day, slots, plan, handled, created, planDeaths>>

PlanDeath ==
  /\ planning = "running" /\ planDeaths < MaxPlanDeaths
  /\ planning' = "idle" /\ planDeaths' = planDeaths + 1
  /\ plan' = <<>> /\ handled' = 0 /\ created' = <<>>
  /\ UNCHANGED <<ideas, day, journal, slots>>

\* The day passes, with its plan or without.
NextDay ==
  /\ planning # "running" /\ day < StartDate + MaxDays
  /\ day' = day + 1 /\ planning' = "idle"
  /\ plan' = <<>> /\ handled' = 0 /\ created' = <<>>
  /\ UNCHANGED <<ideas, journal, slots, planDeaths>>

PlannerInit ==
  /\ ideas \in IdeaLists
  /\ day = StartDate
  /\ journal = [i \in DOMAIN ideas |-> NeverUsed]
  /\ slots = [x \in {} |-> 0]
  /\ plan = <<>> /\ handled = 0 /\ created = <<>>
  /\ planning = "idle" /\ planDeaths = 0

PlannerNext == StartPlan \/ StoreShell \/ FinishPlan \/ PlanDeath \/ NextDay

PlannerSpec == PlannerInit /\ [][PlannerNext]_plannerVars

-----------------------------------------------------------------------------

\* "Don't repeat an idea across the week" (planWeek): whatever the journal says,
\* a plan never offers an idea twice in a slot, and offers it in a second slot
\* only when that slot had no eligible idea left that is new to the week.
ReuseIsLastResort ==
  \A n \in DOMAIN plan : \A m \in 1..(n - 1) :
    plan[m].idea = plan[n].idea =>
      /\ <<plan[m].date, plan[m].platform>> # <<plan[n].date, plan[n].platform>>
      /\ plan[n].reused
      /\ \A i \in DOMAIN ideas : ideaEligibleFor(i, plan[n].platform) =>
           \E l \in 1..(n - 1) : plan[l].idea = i

\* Between runs, and while none has died, the journal counts every stored item
\* once under its idea, with the latest of their dates (planStage, bumpUsage).
JournalTellsOfItems ==
  planning # "running" /\ planDeaths = 0 =>
    \A i \in DOMAIN ideas :
      LET mine == {x \in DOMAIN slots : slots[x] = i}
      IN /\ journal[i].uses = Cardinality(mine)
         /\ \A x \in mine : x[1] <= journal[i].last
=============================================================================
