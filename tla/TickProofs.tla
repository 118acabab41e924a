----------------------------- MODULE TickProofs -----------------------------
(***************************************************************************)
(* Types, the reach of the kill switch and the overshoot of the spend cap, *)
(* for any number of items, dates, shells, pauses and deaths.              *)
(***************************************************************************)
EXTENDS Tick, FiniteSetTheorems, TLAPS

LEMMA IdleIsRun == IdleRun \in Run /\ IdleSweep \in Sweep
  BY DEF IdleRun, IdleSweep, Run, Sweep, Stages

LEMMA DatesAreNat == \A stage : workDates(stage) \subseteq Nat
  BY TickAssumption DEF workDates

\* A run that is begun is well-formed and has let nothing through yet.
LEMMA BeginsTyped ==
  ASSUME NEW stage \in Stages, NEW date \in Int, NEW force \in BOOLEAN
  PROVE  /\ RunStage(stage, date, force) \in Run
         /\ RunStage(stage, date, force).step = "kill"
  BY DEF RunStage, IdleRun, Run, Stages

\* Returning from runStage keeps types, and leaves p idle.
LEMMA ReturnTyped ==
  ASSUME TypeOK, NEW p \in Procs,
         NEW result \in {"kill_switch", "spend_cap", "skipped", "ok", "failed"},
         Return(p, result)
  PROVE  /\ run' \in [Procs -> Run]
         /\ sweep' \in Sweep
         /\ run' = [run EXCEPT ![p] = IdleRun]
<1>1. run' = [run EXCEPT ![p] = IdleRun]
  BY DEF Return
<1>2. run' \in [Procs -> Run]
  BY <1>1, IdleIsRun DEF TypeOK
<1>3. sweep' \in Sweep
  <2>1. run[p] \in Run /\ sweep \in Sweep
    BY DEF TypeOK
  <2>2. CASE p # Ticker
    BY <2>1, <2>2 DEF Return
  <2>3. CASE p = Ticker /\ result \in {"kill_switch", "spend_cap"}
    <3>1. sweep' = [sweep EXCEPT !.stage = "end", !.stopped = result]
      BY <2>3 DEF Return
    <3> QED
      BY <3>1, <2>1, <2>3 DEF Sweep
  <2>4. CASE p = Ticker /\ result = "failed" /\ run[p].date # Today
    <3>1. sweep' = [sweep EXCEPT !.failed =
                      @ \cup {<<run[p].stage, run[p].date>>}]
      BY <2>4 DEF Return
    <3>2. <<run[p].stage, run[p].date>> \in Stages \X Int
      BY <2>1 DEF Run
    <3> QED
      BY <3>1, <3>2, <2>1 DEF Sweep
  <2>5. CASE /\ p = Ticker
             /\ result \notin {"kill_switch", "spend_cap"}
             /\ ~(result = "failed" /\ run[p].date # Today)
    BY <2>1, <2>5 DEF Return
  <2> QED
    BY <2>2, <2>3, <2>4, <2>5
<1> QED
  BY <1>1, <1>2, <1>3

\* Moving p to another step of its run keeps types.
LEMMA GotoTyped ==
  ASSUME TypeOK, NEW p \in Procs,
         NEW step \in {"idle", "kill", "cap", "open", "body", "stamp", "close"},
         Goto(p, step)
  PROVE  run' \in [Procs -> Run]
<1>1. run[p] \in Run
  BY DEF TypeOK
<1>2. [run[p] EXCEPT !.step = step] \in Run
  BY <1>1 DEF Run
<1>3. run' = [run EXCEPT ![p] = [run[p] EXCEPT !.step = step]]
  BY DEF Goto
<1> QED
  BY <1>2, <1>3 DEF TypeOK

\* The body of a stage keeps statuses, counters and costs in their types.
LEMMA BodyTyped ==
  ASSUME TypeOK, NEW p \in Procs, Body(p)
  PROVE  TypeOK'
<1> DEFINE r       == run[p]
           targets == Targets(r.stage, r.date)
<1>1. r \in Run /\ sweep \in Sweep /\ r.stage \in Stages
  BY DEF TypeOK, Run
<1>2. /\ r.step = "body"
      /\ UNCHANGED <<switch, marker, spent, hit, sweep, crashes>>
  BY DEF Body
<1>3. PICK done \in SUBSET targets, ok \in BOOLEAN :
        /\ \E to \in [targets -> ItemStatuses] :
             /\ \A i \in targets :
                  to[i] \in IF i \in done THEN Done(r.stage, i)
                                         ELSE {items[i], Error[r.stage]}
             /\ items' = [i \in Items |-> IF i \in targets THEN to[i]
                                                          ELSE items[i]]
             /\ redrafts' = [i \in Items |->
                               IF i \in done /\ to[i] = "drafting"
                                 THEN redrafts[i] + 1 ELSE redrafts[i]]
        /\ IF r.stage = "generate"
             THEN \E cost \in Cardinality(done)..Cardinality(targets),
                     waste \in 0..(MaxLost - lost) :
                    /\ run' = [run EXCEPT ![p].step = "stamp",
                                          ![p].cost = cost, ![p].ok = ok]
                    /\ Burn(r, cost, waste)
             ELSE /\ run' = [run EXCEPT ![p].step = "close", ![p].ok = ok]
                  /\ UNCHANGED <<burnt, lost>>
  BY DEF Body
<1>4. PICK to \in [targets -> ItemStatuses] :
        /\ \A i \in targets :
             to[i] \in IF i \in done THEN Done(r.stage, i)
                                    ELSE {items[i], Error[r.stage]}
        /\ items' = [i \in Items |-> IF i \in targets THEN to[i]
                                                     ELSE items[i]]
        /\ redrafts' = [i \in Items |->
                          IF i \in done /\ to[i] = "drafting"
                            THEN redrafts[i] + 1 ELSE redrafts[i]]
  BY <1>3
<1>5. targets \subseteq Items
  BY DEF Targets
<1>6. items' \in [Items -> ItemStatuses]
  BY <1>4, <1>5 DEF TypeOK
<1>7. redrafts' \in [Items -> 0..MaxRedrafts]
  <2> SUFFICES ASSUME NEW i \in Items, i \in done, to[i] = "drafting"
               PROVE  redrafts[i] + 1 \in 0..MaxRedrafts
    BY <1>4, TickAssumption DEF TypeOK
  <2>1. i \in targets /\ to[i] \in Done(r.stage, i)
    BY <1>4
  <2>2. items[i] \in Lists[r.stage]
    BY <2>1 DEF Targets
  <2>3. r.stage # "digest"
    BY <2>2, <1>1 DEF Lists, Stages
  <2>4. r.stage = "qa"
    BY <2>1, <2>3, <1>1 DEF Done, Stages
  <2>5. redrafts[i] < MaxRedrafts
    BY <2>1, <2>4 DEF Done
  <2> QED
    BY <2>5, TickAssumption DEF TypeOK
<1>8. run' \in [Procs -> Run] /\ burnt' \in Nat /\ lost' \in 0..MaxLost
  <2>1. CASE r.stage = "generate"
    <3>1. PICK cost \in Cardinality(done)..Cardinality(targets),
               waste \in 0..(MaxLost - lost) :
            /\ run' = [run EXCEPT ![p].step = "stamp",
                                  ![p].cost = cost, ![p].ok = ok]
            /\ Burn(r, cost, waste)
      BY <1>3, <2>1
    <3>2. IsFiniteSet(targets) /\ IsFiniteSet(done)
      BY <1>5, FS_Subset, TickAssumption
    <3>3. Cardinality(done) \in Nat /\ Cardinality(targets) \in Nat
      BY <3>2, FS_CardinalityType
    <3>4. cost \in Nat
      BY <3>3
    <3>5. [run[p] EXCEPT !.step = "stamp", !.cost = cost, !.ok = ok] \in Run
      BY <1>1, <3>4 DEF Run
    <3>6. run' = [run EXCEPT ![p] =
             [run[p] EXCEPT !.step = "stamp", !.cost = cost, !.ok = ok]]
      BY <3>1
    <3>7. run' \in [Procs -> Run]
      BY <3>5, <3>6 DEF TypeOK
    <3>8. burnt' \in Nat /\ lost' \in 0..MaxLost
      <4>1. burnt \in Nat /\ lost \in 0..MaxLost /\ MaxLost \in Nat
        BY TickAssumption DEF TypeOK
      <4>2. /\ burnt' = burnt + cost + waste \/ burnt' = burnt
            /\ lost' = lost + waste \/ lost' = lost
        BY <3>1 DEF Burn
      <4>3. waste \in 0..(MaxLost - lost)
        BY <3>1
      <4> HIDE DEF targets
      <4> QED
        BY <3>4, <4>1, <4>2, <4>3
    <3> QED
      BY <3>7, <3>8
  <2>2. CASE r.stage # "generate"
    <3>1. /\ run' = [run EXCEPT ![p].step = "close", ![p].ok = ok]
          /\ UNCHANGED <<burnt, lost>>
      BY <1>3, <2>2
    <3>2. [run[p] EXCEPT !.step = "close", !.ok = ok] \in Run
      BY <1>1 DEF Run
    <3>3. run' = [run EXCEPT ![p] =
                    [run[p] EXCEPT !.step = "close", !.ok = ok]]
      BY <3>1
    <3> QED
      BY <3>1, <3>2, <3>3 DEF TypeOK
  <2> QED
    BY <2>1, <2>2
<1>9. sweep' \in Sweep
  BY <1>1, <1>2 DEF Sweep, Run
<1> QED
  BY <1>2, <1>6, <1>7, <1>8, <1>9 DEF TypeOK, switch

-----------------------------------------------------------------------------
(* Types *)

LEMMA TypeInit == Init => TypeOK
<1> SUFFICES ASSUME Init
             PROVE  TypeOK
  OBVIOUS
<1>1. items \in [Items -> ItemStatuses] /\ marker \subseteq Stages \X Int
  BY DEF Init, ItemStatuses
<1>2. run \in [Procs -> Run] /\ sweep \in Sweep
  BY IdleIsRun DEF Init
<1>3. /\ redrafts \in [Items -> 0..MaxRedrafts]
      /\ pauses \in 0..MaxPauses /\ crashes \in 0..MaxCrashes
      /\ lost \in 0..MaxLost
  BY TickAssumption DEF Init
<1> QED
  BY <1>1, <1>2, <1>3 DEF Init, TypeOK

\* The steps of runStage keep types.
LEMMA RunStepTyped ==
  ASSUME TypeOK, NEW p \in Procs, RunStep(p)
  PROVE  TypeOK'
<1>1. CASE CheckKill(p)
  <2>1. run' \in [Procs -> Run] /\ sweep' \in Sweep
    <3>1. CASE kill
      <4>1. Return(p, "kill_switch")
        BY <1>1, <3>1 DEF CheckKill
      <4> QED
        BY <4>1, ReturnTyped
    <3>2. CASE ~kill
      <4>1. PICK step \in {"cap", "open"} : Goto(p, step)
        BY <1>1, <3>2 DEF CheckKill
      <4>2. UNCHANGED sweep
        BY <1>1, <3>2 DEF CheckKill
      <4> QED
        BY <4>1, <4>2, GotoTyped DEF TypeOK
    <3> QED
      BY <3>1, <3>2
  <2> QED
    BY <1>1, <2>1
    DEF CheckKill, TypeOK, content, switch, money
<1>2. CASE CheckCap(p)
  <2>1. run' \in [Procs -> Run] /\ sweep' \in Sweep
    <3>1. CASE spent >= Cap
      BY <1>2, <3>1, ReturnTyped DEF CheckCap
    <3>2. CASE ~(spent >= Cap)
      <4>1. Goto(p, "open") /\ UNCHANGED sweep
        BY <1>2, <3>2 DEF CheckCap
      <4> QED
        BY <4>1, GotoTyped DEF TypeOK
    <3> QED
      BY <3>1, <3>2
  <2>2. hit' \in BOOLEAN
    BY <1>2 DEF CheckCap, TypeOK
  <2> QED
    BY <1>2, <2>1, <2>2 DEF CheckCap, TypeOK, content, switch
<1>3. CASE OpenRun(p)
  <2>1. /\ run' \in [Procs -> Run] /\ sweep' \in Sweep
        /\ opened' \in [Procs -> Nat]
    <3>1. CASE ~run[p].force /\ Completed(p)
      BY <1>3, <3>1, ReturnTyped DEF OpenRun, TypeOK
    <3>2. CASE ~(~run[p].force /\ Completed(p))
      <4>1. /\ run' = [run EXCEPT ![p] =
                         [run[p] EXCEPT !.step = "body", !.fresh = TRUE]]
            /\ opened' = IF kill THEN [opened EXCEPT ![p] = @ + 1]
                                 ELSE opened
            /\ UNCHANGED sweep
        BY <1>3, <3>2 DEF OpenRun
      <4>2. [run[p] EXCEPT !.step = "body", !.fresh = TRUE] \in Run
        BY DEF TypeOK, Run
      <4> QED
        BY <4>1, <4>2 DEF TypeOK
    <3> QED
      BY <3>1, <3>2
  <2> QED
    BY <1>3, <2>1 DEF OpenRun, TypeOK, content, money
<1>4. CASE Body(p)
  BY <1>4, BodyTyped
<1>5. CASE StampCost(p)
  <2>1. run' \in [Procs -> Run]
    BY <1>5, GotoTyped DEF StampCost
  <2>2. spent' \in Nat /\ lost' \in 0..MaxLost
    <3>1. run[p].cost \in Nat /\ spent \in Nat /\ lost \in 0..MaxLost
      BY DEF TypeOK, Run
    <3> QED
      BY <1>5, <3>1, TickAssumption DEF StampCost
  <2> QED
    BY <1>5, <2>1, <2>2 DEF StampCost, TypeOK, content, switch
<1>6. CASE CloseRun(p)
  <2>1. run' \in [Procs -> Run] /\ sweep' \in Sweep
    BY <1>6, ReturnTyped DEF CloseRun
  <2>2. <<run[p].stage, run[p].date>> \in Stages \X Int
    BY DEF TypeOK, Run
  <2>3. marker' \subseteq Stages \X Int
    BY <1>6, <2>2 DEF CloseRun, TypeOK
  <2> QED
    BY <1>6, <2>1, <2>3 DEF CloseRun, TypeOK, content, switch, money
<1> QED
  BY <1>1, <1>2, <1>3, <1>4, <1>5, <1>6 DEF RunStep

\* The ticker's sweep keeps types.
LEMMA SweepStepTyped ==
  ASSUME TypeOK, BeginSweep \/ SweepStep
  PROVE  TypeOK'
<1>1. sweep \in Sweep /\ Ticker \in Procs
  BY DEF TypeOK, Procs
<1>2. CASE BeginSweep
  <2>1. sweep' \in Sweep
    BY <1>2, IdleIsRun DEF BeginSweep, Sweep, Stages
  <2> QED
    BY <1>2, <2>1 DEF BeginSweep, TypeOK, content, switch, money
<1>3. CASE DailyStage
  <2>1. sweep.stage \in {"plan", "digest"}
    BY <1>3 DEF DailyStage, Sweeping
  <2>2. RunStage(sweep.stage, Today, FALSE) \in Run
    <3>1. sweep.stage \in Stages /\ Today \in Int
      BY <2>1 DEF Stages, Today
    <3> QED
      BY <3>1, BeginsTyped
  <2>3. run' \in [Procs -> Run]
    BY <1>3, <2>2 DEF DailyStage, TypeOK
  <2>4. sweep' \in Sweep
    BY <1>1, <1>3, <2>1 DEF DailyStage, Sweep, Stages, AfterStage
  <2> QED
    BY <1>3, <2>3, <2>4
    DEF DailyStage, TypeOK, content, switch, money
<1>4. CASE ListDates
  <2>1. sweep' \in Sweep
    BY <1>1, <1>4, DatesAreNat DEF ListDates, Sweep
  <2> QED
    BY <1>4, <2>1
    DEF ListDates, TypeOK, content, switch, money
<1>5. CASE SweepDate
  <2>1. sweep.stage \in {"generate", "render", "qa"}
    BY <1>5 DEF SweepDate, Sweeping
  <2>2. CASE /\ sweep.queue = {}
             /\ sweep' = [sweep EXCEPT !.stage = AfterStage[@],
                                       !.listed = FALSE]
             /\ UNCHANGED run
    <3>1. AfterStage[sweep.stage] \in Stages
      BY <2>1 DEF AfterStage, Stages
    <3>2. sweep' = [sweep EXCEPT !.stage = AfterStage[sweep.stage],
                                 !.listed = FALSE]
      BY <2>2
    <3>3. sweep' \in Sweep
      BY <1>1, <3>1, <3>2 DEF Sweep
    <3> QED
      BY <1>5, <2>2, <3>3
      DEF SweepDate, TypeOK, content, switch, money
  <2>3. CASE \E date \in sweep.queue :
               /\ run' = [run EXCEPT ![Ticker] =
                            RunStage(sweep.stage, date, TRUE)]
               /\ sweep' = [sweep EXCEPT !.queue = @ \ {date}]
    <3>1. PICK date \in sweep.queue :
            /\ run' = [run EXCEPT ![Ticker] =
                         RunStage(sweep.stage, date, TRUE)]
            /\ sweep' = [sweep EXCEPT !.queue = @ \ {date}]
      BY <2>3
    <3>2. date \in Int
      BY <1>1 DEF Sweep
    <3>3. RunStage(sweep.stage, date, TRUE) \in Run
      BY <2>1, <3>2, BeginsTyped DEF Stages
    <3>4. run' \in [Procs -> Run]
      BY <3>1, <3>3 DEF TypeOK
    <3>5. sweep' \in Sweep
      BY <1>1, <3>1 DEF Sweep
    <3> QED
      BY <1>5, <3>4, <3>5
      DEF SweepDate, TypeOK, content, switch, money
  <2> QED
    BY <1>5, <2>2, <2>3 DEF SweepDate
<1>6. CASE FinishSweep
  <2>1. sweep' \in Sweep
    BY <1>6, IdleIsRun DEF FinishSweep
  <2> QED
    BY <1>6, <2>1 DEF FinishSweep, TypeOK, content, switch, money
<1> QED
  BY <1>2, <1>3, <1>4, <1>5, <1>6 DEF SweepStep

\* Shells, the owner, midnight and death keep types.
LEMMA OthersTyped ==
  ASSUME TypeOK,
         \/ \E p \in Procs : ShellRun(p) \/ Crash(p)
         \/ \E value \in BOOLEAN : SetKill(value)
         \/ \E i \in Items : Commission(i) \/ OwnerDecides(i)
         \/ NewDay
  PROVE  TypeOK'
<1>1. CASE \E p \in Procs : ShellRun(p)
  <2>1. PICK p \in Procs, date \in Dates, force \in BOOLEAN :
          run' = [run EXCEPT ![p] = RunStage("generate", date, force)]
    BY <1>1 DEF ShellRun
  <2>2. date \in Int
    BY TickAssumption DEF Dates
  <2>3. run' \in [Procs -> Run]
    BY <2>1, <2>2, BeginsTyped DEF TypeOK, Stages
  <2> QED
    BY <1>1, <2>3 DEF ShellRun, TypeOK, content, switch, money
<1>2. CASE \E p \in Procs : Crash(p)
  <2>1. /\ run' \in [Procs -> Run] /\ sweep' \in Sweep
        /\ crashes' \in 0..MaxCrashes
    BY <1>2, IdleIsRun, TickAssumption DEF Crash, TypeOK
  <2> QED
    BY <1>2, <2>1 DEF Crash, TypeOK, content, switch, money
<1>3. CASE \E value \in BOOLEAN : SetKill(value)
  <2>1. kill' \in BOOLEAN /\ pauses' \in 0..MaxPauses
    BY <1>3, TickAssumption DEF SetKill, TypeOK
  <2>2. opened' \in [Procs -> Nat]
    BY <1>3 DEF SetKill
  <2> QED
    BY <1>3, <2>1, <2>2 DEF SetKill, TypeOK, content, money
<1>4. CASE \E i \in Items : Commission(i)
  <2>1. items' \in [Items -> ItemStatuses]
    BY <1>4 DEF Commission, TypeOK, ItemStatuses
  <2> QED
    BY <1>4, <2>1 DEF Commission, TypeOK, switch, money
<1>5. CASE \E i \in Items : OwnerDecides(i)
  <2>1. items' \in [Items -> ItemStatuses]
    BY <1>5 DEF OwnerDecides, TypeOK, ItemStatuses
  <2>2. redrafts' \in [Items -> 0..MaxRedrafts]
    BY <1>5, TickAssumption DEF OwnerDecides, TypeOK
  <2> QED
    BY <1>5, <2>1, <2>2 DEF OwnerDecides, TypeOK, switch, money
<1>6. CASE NewDay
  <2>1. \A p \in Procs : [run[p] EXCEPT !.fresh = FALSE] \in Run
    BY DEF TypeOK, Run
  <2>2. run' \in [Procs -> Run]
    BY <1>6, <2>1, IdleIsRun DEF NewDay
  <2>3. sweep' \in Sweep
    BY <1>6, IdleIsRun DEF NewDay, TypeOK, Sweep
  <2>4. marker' \subseteq Stages \X Int /\ lost' \in 0..MaxLost
    BY <1>6, TickAssumption DEF NewDay, TypeOK
  <2> QED
    BY <1>6, <2>2, <2>3, <2>4 DEF NewDay, TypeOK, content, switch
<1> QED
  BY <1>1, <1>2, <1>3, <1>4, <1>5, <1>6

LEMMA TypeStep == TypeOK /\ [Next]_vars => TypeOK'
<1> SUFFICES ASSUME TypeOK, [Next]_vars
             PROVE  TypeOK'
  OBVIOUS
<1>1. CASE UNCHANGED vars
  BY <1>1
  DEF vars, TypeOK, content, switch, money
<1>2. CASE Next
  BY <1>2, RunStepTyped, SweepStepTyped, OthersTyped DEF Next
<1> QED
  BY <1>1, <1>2

\* Statuses, counters, amounts and the runner's records keep their types,
\* and an item is redrafted at most MaxRedrafts times (runStage, runTickSweep).
THEOREM TickTyped == Spec => []TypeOK
<1>1. Init => TypeOK
  BY TypeInit
<1>2. TypeOK /\ [Next]_vars => TypeOK'
  BY TypeStep
<1> QED
  BY <1>1, <1>2, PTL DEF Spec

-----------------------------------------------------------------------------
(* The kill switch *)

\* A process that opened a run since the switch was engaged is past the
\* point where it opens runs, and must pass the switch to come back there.
HaltsInv == \A p \in Procs :
              \/ opened[p] = 0
              \/ /\ kill
                 /\ opened[p] = 1
                 /\ run[p].step \notin {"cap", "open"}

LEMMA HaltsRunStep ==
  ASSUME TypeOK, HaltsInv, NEW p \in Procs, RunStep(p)
  PROVE  HaltsInv'
<1>1. /\ UNCHANGED kill
      /\ run' \in [Procs -> Run]
      /\ \A q \in Procs \ {p} : run'[q] = run[q] /\ opened'[q] = opened[q]
  <2>1. UNCHANGED kill
    BY DEF RunStep, CheckKill, CheckCap, OpenRun, Body, StampCost, CloseRun,
           switch
  <2>2. run' \in [Procs -> Run]
    BY RunStepTyped DEF TypeOK
  <2>3. ASSUME NEW q \in Procs \ {p}
        PROVE  run'[q] = run[q] /\ opened'[q] = opened[q]
    <3>1. CASE OpenRun(p)
      BY <3>1 DEF OpenRun, Return, TypeOK
    <3>2. CASE Body(p)
      BY <3>2 DEF Body, TypeOK, switch
    <3>3. CASE CheckKill(p) \/ CheckCap(p) \/ StampCost(p) \/ CloseRun(p)
      BY <3>3 DEF CheckKill, CheckCap, StampCost, CloseRun, Return, Goto,
                  TypeOK, switch
    <3> QED
      BY <3>1, <3>2, <3>3 DEF RunStep
  <2> QED
    BY <2>1, <2>2, <2>3
<1>2. \/ opened'[p] = 0
      \/ kill /\ opened'[p] = 1 /\ run'[p].step \notin {"cap", "open"}
  <2>1. CASE CheckKill(p)
    <3>1. CASE kill
      BY <2>1, <3>1 DEF CheckKill, Return, HaltsInv, TypeOK, IdleRun, switch
    <3>2. CASE ~kill
      BY <2>1, <3>2 DEF CheckKill, HaltsInv, switch
    <3> QED
      BY <3>1, <3>2
  <2>2. CASE CheckCap(p)
    BY <2>2 DEF CheckCap, HaltsInv, switch
  <2>3. CASE OpenRun(p)
    <3>1. opened[p] = 0
      BY <2>3 DEF OpenRun, HaltsInv
    <3>2. CASE ~run[p].force /\ Completed(p)
      BY <2>3, <3>1, <3>2 DEF OpenRun
    <3>3. CASE ~(~run[p].force /\ Completed(p))
      <4>1. /\ run' = [run EXCEPT ![p].step = "body", ![p].fresh = TRUE]
            /\ opened' = IF kill THEN [opened EXCEPT ![p] = @ + 1]
                                 ELSE opened
        BY <2>3, <3>3 DEF OpenRun
      <4>2. run'[p].step = "body"
        BY <4>1 DEF TypeOK, Run
      <4> QED
        BY <3>1, <4>1, <4>2 DEF TypeOK
    <3> QED
      BY <3>2, <3>3
  <2>4. CASE Body(p)
    <3>1. \E cost, ok :
            \/ run' = [run EXCEPT ![p].step = "stamp",
                                  ![p].cost = cost, ![p].ok = ok]
            \/ run' = [run EXCEPT ![p].step = "close", ![p].ok = ok]
      BY <2>4, Zenon DEF Body
    <3>2. run'[p].step \in {"stamp", "close"}
      BY <3>1 DEF TypeOK, Run
    <3>3. UNCHANGED switch
      BY <2>4 DEF Body
    <3> QED
      BY <3>2, <3>3 DEF HaltsInv, switch
  <2>5. CASE StampCost(p)
    <3>1. run'[p].step = "close"
      BY <2>5 DEF StampCost, Goto, TypeOK, Run
    <3> QED
      BY <2>5, <3>1 DEF StampCost, HaltsInv, switch
  <2>6. CASE CloseRun(p)
    <3>1. run'[p] = IdleRun
      BY <2>6 DEF CloseRun, Return, TypeOK
    <3> QED
      BY <2>6, <3>1 DEF CloseRun, HaltsInv, IdleRun, switch
  <2> QED
    BY <2>1, <2>2, <2>3, <2>4, <2>5, <2>6 DEF RunStep
<1> QED
  BY <1>1, <1>2 DEF HaltsInv

LEMMA HaltsOthers ==
  ASSUME TypeOK, HaltsInv,
         \/ BeginSweep \/ SweepStep
         \/ \E p \in Procs : ShellRun(p) \/ Crash(p)
         \/ \E value \in BOOLEAN : SetKill(value)
         \/ \E i \in Items : Commission(i) \/ OwnerDecides(i)
         \/ NewDay
  PROVE  HaltsInv'
<1>1. CASE DailyStage \/ SweepDate \/ \E p \in Procs : ShellRun(p)
  <2>1. UNCHANGED switch
    BY <1>1 DEF DailyStage, SweepDate, ShellRun
  <2>2. \A p \in Procs : run'[p] = run[p] \/ run'[p].step = "kill"
    BY <1>1 DEF DailyStage, SweepDate, ShellRun, RunStage, IdleRun, TypeOK
  <2> QED
    BY <2>1, <2>2 DEF HaltsInv, switch
<1>2. CASE \/ BeginSweep \/ ListDates \/ FinishSweep
           \/ \E i \in Items : Commission(i) \/ OwnerDecides(i)
  BY <1>2 DEF BeginSweep, ListDates, FinishSweep, Commission, OwnerDecides,
              HaltsInv, switch
<1>3. CASE \E p \in Procs : Crash(p)
  <2>1. UNCHANGED switch
    BY <1>3 DEF Crash
  <2>2. \A p \in Procs : run'[p] = run[p] \/ run'[p] = IdleRun
    BY <1>3 DEF Crash, TypeOK
  <2> QED
    BY <2>1, <2>2 DEF HaltsInv, IdleRun, switch
<1>4. CASE \E value \in BOOLEAN : SetKill(value)
  BY <1>4 DEF SetKill, HaltsInv
<1>5. CASE NewDay
  <2>1. UNCHANGED switch
    BY <1>5 DEF NewDay
  <2>2. \A p \in Procs : run'[p].step = run[p].step
    BY <1>5 DEF NewDay, TypeOK, Run
  <2> QED
    BY <2>1, <2>2 DEF HaltsInv, switch
<1> QED
  BY <1>1, <1>2, <1>3, <1>4, <1>5 DEF SweepStep

\* After /pause a process starts at most the one run it had already let
\* through, with any number of processes and in the middle of a sweep as
\* well (step 1 of runStage in registry.mjs).
THEOREM SwitchHalts == Spec => []KillHalts
<1>1. Init => TypeOK /\ HaltsInv
  BY TypeInit DEF Init, HaltsInv
<1>2. TypeOK /\ HaltsInv /\ [Next]_vars => (TypeOK /\ HaltsInv)'
  <2> SUFFICES ASSUME TypeOK, HaltsInv, [Next]_vars
               PROVE  HaltsInv'
    BY TypeStep
  <2>1. CASE UNCHANGED vars
    BY <2>1 DEF vars, HaltsInv
  <2>2. CASE Next
    BY <2>2, HaltsRunStep, HaltsOthers DEF Next
  <2> QED
    BY <2>1, <2>2
<1>3. HaltsInv => KillHalts
  BY DEF HaltsInv, KillHalts
<1> QED
  BY <1>1, <1>2, <1>3, PTL DEF Spec

-----------------------------------------------------------------------------
(* The day's spend.  A process that the cap let through may cost a batch;  *)
(* there are no more of them than processes, and each was let through when *)
(* the rows were below the cap.  What was burnt and is on no row yet is in *)
(* the hands of processes about to stamp it, went down with a death, or    *)
(* was lost to the rows by a living process.                               *)

\* A set of naturals has a least member.
LEMMA Least ==
  ASSUME NEW S \in SUBSET Nat, S # {}
  PROVE  \E n \in S : \A m \in S : n <= m
<1>1. PICK n \in S : \A m \in S : ~(<<m, n>> \in OpToRel(<, Nat))
  BY NatLessThanWellFounded, WFMin
<1>2. ASSUME NEW m \in S PROVE ~(m < n)
  BY <1>1 DEF OpToRel
<1> QED BY <1>2

\* The items of a date, whose batch may cost as much.
OnDate(d) == {i \in Items : Slot[i] = d}

LEMMA OnDateFinite == \A d : /\ IsFiniteSet(OnDate(d))
                             /\ Cardinality(OnDate(d)) \in Nat
  BY TickAssumption, FS_Subset, FS_CardinalityType DEF OnDate

\* Batch is well defined: no date has more items.
LEMMA BatchBounds ==
  ASSUME Items # {}
  PROVE  Batch \in Nat /\ \A d : Cardinality(OnDate(d)) <= Batch
<1> DEFINE Size(d) == Cardinality(OnDate(d))
           Bounds  == {n \in Nat : \A d \in Dates : Size(d) <= n}
<1>1. Cardinality(Items) \in Bounds
  <2>1. \A d : OnDate(d) \subseteq Items
    BY DEF OnDate
  <2>2. \A d : Size(d) <= Cardinality(Items)
    BY <2>1, TickAssumption, FS_Subset
  <2> QED BY <2>2, TickAssumption, FS_CardinalityType
<1>2. PICK n \in Bounds : \A m \in Bounds : n <= m
  BY <1>1, Least
<1>3. PICK date : date \in Dates
  BY DEF Dates
<1>4. \E d \in Dates : Size(d) = n
  <2> SUFFICES ASSUME \A d \in Dates : Size(d) # n PROVE FALSE
    OBVIOUS
  <2>1. \A d \in Dates : Size(d) \in Nat /\ Size(d) <= n
    BY <1>2, OnDateFinite
  <2>2. n \in Nat /\ n > 0
    BY <1>2, <1>3, <2>1
  <2>3. \A d \in Dates : Size(d) <= n - 1
    BY <2>1, <2>2
  <2>4. n - 1 \in Bounds
    BY <2>2, <2>3
  <2> QED BY <1>2, <2>2, <2>4
<1>5. Batch \in {Size(d) : d \in Dates} /\ \A d \in Dates : Size(d) <= Batch
  <2>1. Batch = CHOOSE k \in {Size(d) : d \in Dates} : \A d \in Dates : Size(d) <= k
    BY DEF Batch, OnDate
  <2>2. n \in {Size(d) : d \in Dates} /\ \A d \in Dates : Size(d) <= n
    BY <1>2, <1>4
  <2> HIDE DEF Size
  <2> QED BY <2>1, <2>2
<1>6. Batch \in Nat
  BY <1>5, OnDateFinite
<1>7. ASSUME NEW d PROVE Size(d) <= Batch
  <2>1. CASE d \in Dates
    BY <1>5, <2>1
  <2>2. CASE d \notin Dates
    <3>1. OnDate(d) = {}
      BY <2>2 DEF Dates, OnDate
    <3> QED BY <3>1, <1>6, FS_EmptySet
  <2> QED BY <2>1, <2>2
<1> QED BY <1>6, <1>7

\* Runs of generate that the cap has let through, and have not stamped yet.
Armed == {p \in Procs : /\ run[p].stage = "generate"
                        /\ run[p].step \in {"open", "body", "stamp"}}

\* What was spent today and is on no row yet, unit by unit: for each process as
\* many pairs as its batch has cost.
Unpaid == {u \in Procs \X (1..Batch) : /\ run[u[1]].step = "stamp"
                                       /\ run[u[1]].fresh
                                       /\ u[2] <= run[u[1]].cost}

MoneyInv ==
  /\ \A p \in Procs : /\ run[p].step \in {"cap", "stamp"} => run[p].stage = "generate"
                      /\ run[p].step = "stamp" => run[p].cost <= Batch
  /\ spent + Batch * Cardinality(Armed) < Cap + Batch * Cardinality(Procs)
  /\ burnt <= spent + Cardinality(Unpaid) + lost + Batch * crashes

LEMMA ProcsFinite == IsFiniteSet(Procs) /\ Cardinality(Procs) \in Nat
<1>1. Procs = Shells \cup {Ticker}
  BY DEF Procs
<1>2. IsFiniteSet(Procs)
  BY <1>1, TickAssumption, FS_AddElement
<1> QED BY <1>2, FS_CardinalityType

LEMMA MoneyFinite ==
  ASSUME Items # {}
  PROVE  /\ IsFiniteSet(Armed) /\ Cardinality(Armed) \in Nat
         /\ Cardinality(Armed) <= Cardinality(Procs)
         /\ IsFiniteSet(Armed') /\ Cardinality(Armed') \in Nat
         /\ Cardinality(Armed') <= Cardinality(Procs)
         /\ IsFiniteSet(Unpaid) /\ Cardinality(Unpaid) \in Nat
         /\ IsFiniteSet(Unpaid') /\ Cardinality(Unpaid') \in Nat
<1>1. Armed \subseteq Procs /\ Armed' \subseteq Procs
  BY DEF Armed
<1>2. Unpaid \subseteq Procs \X (1..Batch) /\ Unpaid' \subseteq Procs \X (1..Batch)
  BY DEF Unpaid
<1>3. IsFiniteSet(Procs \X (1..Batch))
  <2>1. IsFiniteSet(1..Batch)
    BY BatchBounds, FS_Interval
  <2> QED BY <2>1, ProcsFinite, FS_Product
<1>4. ASSUME NEW S, S \subseteq Procs
      PROVE  /\ IsFiniteSet(S) /\ Cardinality(S) \in Nat
             /\ Cardinality(S) <= Cardinality(Procs)
  BY <1>4, ProcsFinite, FS_Subset, FS_CardinalityType
<1>5. ASSUME NEW S, S \subseteq Procs \X (1..Batch)
      PROVE  IsFiniteSet(S) /\ Cardinality(S) \in Nat
  BY <1>3, <1>5, FS_Subset, FS_CardinalityType
<1> QED BY <1>1, <1>2, <1>4, <1>5

LEMMA Times ==
  ASSUME NEW m \in Nat, NEW a \in Nat, NEW b \in Nat, a <= b
  PROVE  m * a \in Nat /\ m * b \in Nat /\ m * a <= m * b
         /\ m * (a + 1) = m * a + m
<1>1. PICK k \in Nat : b = a + k
  OBVIOUS
<1>2. m * a \in Nat /\ m * k \in Nat
  OBVIOUS
<1>3. m * b = m * a + m * k
  BY <1>1
<1>4. m * (a + 1) = m * a + m
  OBVIOUS
<1> QED BY <1>2, <1>3, <1>4

\* The pairs of one batch are as many as it has cost.
LEMMA PairsOf ==
  ASSUME NEW p, NEW c \in Nat
  PROVE  /\ IsFiniteSet({p} \X (1..c))
         /\ Cardinality({p} \X (1..c)) = c
<1>1. IsFiniteSet(1..c) /\ Cardinality(1..c) = c
  BY FS_Interval
<1>2. IsFiniteSet({p}) /\ Cardinality({p}) = 1
  BY FS_Singleton
<1>3. Cardinality({p} \X (1..c)) = 1 * c
  BY <1>1, <1>2, FS_Product
<1>4. IsFiniteSet({p} \X (1..c))
  BY <1>1, <1>2, FS_Product
<1> QED BY <1>3, <1>4

\* The six ways in which a step can touch the money.
LEMMA NothingCharged ==
  ASSUME Items # {}, TypeOK, MoneyInv,
         \A p \in Procs : /\ run'[p].step \in {"cap", "stamp"} => run'[p].stage = "generate"
                          /\ run'[p].step = "stamp" => run'[p].cost <= Batch,
         UNCHANGED <<spent, burnt, lost, crashes>>,
         spent < Cap \/ Armed' \subseteq Armed,
         Unpaid' = Unpaid
  PROVE  MoneyInv'
<1>1. spent \in Nat /\ Cap \in Nat /\ Batch \in Nat
  BY BatchBounds, TickAssumption DEF TypeOK
<1>2. spent + Batch * Cardinality(Armed') < Cap + Batch * Cardinality(Procs)
  <2>1. CASE spent < Cap
    <3>1. /\ Batch * Cardinality(Armed') <= Batch * Cardinality(Procs)
          /\ Batch * Cardinality(Armed') \in Nat
          /\ Batch * Cardinality(Procs) \in Nat
      BY <1>1, MoneyFinite, ProcsFinite, Times
    <3> QED BY <1>1, <2>1, <3>1
  <2>2. CASE Armed' \subseteq Armed
    <3>1. Cardinality(Armed') <= Cardinality(Armed)
      BY <2>2, MoneyFinite, FS_Subset
    <3>2. /\ Batch * Cardinality(Armed') <= Batch * Cardinality(Armed)
          /\ Batch * Cardinality(Armed') \in Nat
          /\ Batch * Cardinality(Armed) \in Nat
      BY <1>1, <3>1, MoneyFinite, Times
    <3>3. Batch * Cardinality(Procs) \in Nat
      BY <1>1, MoneyFinite, ProcsFinite, Times
    <3> QED BY <1>1, <3>2, <3>3 DEF MoneyInv
  <2> QED BY <2>1, <2>2
<1>3. burnt' <= spent' + Cardinality(Unpaid') + lost' + Batch * crashes'
  BY DEF MoneyInv
<1> QED BY <1>2, <1>3 DEF MoneyInv

\* A batch that is paid for makes as many pairs as it costs; one that belongs to
\* yesterday's run makes none.
LEMMA Charged ==
  ASSUME Items # {}, TypeOK, MoneyInv, UNCHANGED <<spent, crashes>>,
         NEW p \in Procs, NEW cost \in 0..Batch, NEW ok \in BOOLEAN,
         NEW waste \in Nat,
         run[p].step = "body", run[p].stage = "generate",
         run' = [run EXCEPT ![p] = [run[p] EXCEPT !.step = "stamp",
                                                  !.cost = cost, !.ok = ok]],
         Burn(run[p], cost, waste)
  PROVE  MoneyInv'
<1>1. /\ spent \in Nat /\ burnt \in Nat /\ crashes \in Nat /\ Batch \in Nat /\ cost \in Nat
      /\ lost \in Nat
      /\ run \in [Procs -> Run]
  BY BatchBounds, TickAssumption DEF TypeOK
<1>2. /\ run'[p] = [run[p] EXCEPT !.step = "stamp", !.cost = cost, !.ok = ok]
      /\ run'[p].step = "stamp" /\ run'[p].cost = cost
      /\ run'[p].stage = "generate" /\ run'[p].fresh = run[p].fresh
      /\ \A q \in Procs : q # p => run'[q] = run[q]
  BY <1>1 DEF Run
<1>3. \A q \in Procs : /\ run'[q].step \in {"cap", "stamp"} => run'[q].stage = "generate"
                       /\ run'[q].step = "stamp" => run'[q].cost <= Batch
  BY <1>2, <1>1 DEF MoneyInv
<1>4. Armed' = Armed
  BY <1>2 DEF Armed
<1>5. burnt' <= spent + Cardinality(Unpaid') + lost' + Batch * crashes
  <2>1. Batch * crashes \in Nat /\ burnt <= spent + Cardinality(Unpaid) + lost + Batch * crashes
    BY <1>1, Times DEF MoneyInv
  <2>2. CASE run[p].fresh
    <3> DEFINE pairs == {p} \X (1..cost)
    <3>1. ASSUME NEW q \in Procs, NEW k \in 1..Batch
          PROVE  <<q, k>> \in Unpaid' <=> <<q, k>> \in Unpaid \/ <<q, k>> \in pairs
      BY <1>2, <2>2 DEF Unpaid
    <3>2. Unpaid \subseteq Procs \X (1..Batch) /\ Unpaid' \subseteq Procs \X (1..Batch)
      BY DEF Unpaid
    <3>3. pairs \subseteq Procs \X (1..Batch)
      <4>1. 1..cost \subseteq 1..Batch
        BY <1>1
      <4> QED BY <4>1
    <3>4. Unpaid \cap pairs = {}
      BY DEF Unpaid
    <3>5. Unpaid' = Unpaid \cup pairs
      <4> HIDE DEF pairs
      <4> QED BY <3>1, <3>2, <3>3
    <3>6. IsFiniteSet(pairs) /\ Cardinality(pairs) = cost
      BY <1>1, PairsOf
    <3>7. Cardinality(Unpaid') = Cardinality(Unpaid) + cost
      <4> HIDE DEF pairs
      <4>1. Cardinality(Unpaid') = Cardinality(Unpaid) + Cardinality(pairs) - Cardinality({})
        BY <3>4, <3>5, <3>6, MoneyFinite, FS_Union
      <4> QED BY <4>1, <3>6, <1>1, MoneyFinite, FS_EmptySet
    <3>8. burnt' = burnt + cost + waste /\ lost' = lost + waste
      BY <2>2 DEF Burn
    <3> HIDE DEF pairs
    <3> QED BY <1>1, <2>1, <3>7, <3>8, MoneyFinite
  <2>3. CASE ~run[p].fresh
    <3>1. Unpaid' = Unpaid
      BY <1>2, <2>3 DEF Unpaid
    <3> QED BY <2>1, <2>3, <3>1 DEF Burn
  <2> QED BY <2>2, <2>3
<1> QED BY <1>3, <1>4, <1>5 DEF MoneyInv

\* The stamp moves what a batch cost from its pairs to the rows, or loses it.
LEMMA Stamped ==
  ASSUME Items # {}, TypeOK, MoneyInv, NEW p \in Procs, StampCost(p)
  PROVE  MoneyInv'
<1>1. /\ spent \in Nat /\ lost \in Nat /\ burnt \in Nat /\ crashes \in Nat /\ Batch \in Nat
      /\ run \in [Procs -> Run]
  BY BatchBounds, TickAssumption DEF TypeOK
<1> DEFINE cost == IF run[p].fresh THEN run[p].cost ELSE 0
<1>2. /\ run[p].step = "stamp" /\ run[p].stage = "generate" /\ cost \in 0..Batch
      /\ run' = [run EXCEPT ![p] = [run[p] EXCEPT !.step = "close"]]
      /\ \/ spent' = spent + cost /\ lost' = lost
         \/ spent' = spent /\ lost' = lost + cost
      /\ UNCHANGED <<burnt, crashes>>
  BY <1>1 DEF StampCost, MoneyInv, Run, Goto
<1>3. /\ run'[p].step = "close"
      /\ \A q \in Procs : q # p => run'[q] = run[q]
  BY <1>1, <1>2 DEF Run
<1>4. \A q \in Procs : /\ run'[q].step \in {"cap", "stamp"} => run'[q].stage = "generate"
                       /\ run'[q].step = "stamp" => run'[q].cost <= Batch
  BY <1>3 DEF MoneyInv
<1>5. spent' + Batch * Cardinality(Armed') < Cap + Batch * Cardinality(Procs)
  <2>1. Armed' = Armed \ {p} /\ p \in Armed
    BY <1>2, <1>3 DEF Armed
  <2>2. Cardinality(Armed) = Cardinality(Armed') + 1
    BY <2>1, MoneyFinite, FS_RemoveElement
  <2>3. /\ Batch * Cardinality(Armed) = Batch * Cardinality(Armed') + Batch
        /\ Batch * Cardinality(Armed') \in Nat
    BY <1>1, <2>2, MoneyFinite, Times
  <2>4. Batch * Cardinality(Procs) \in Nat /\ Cap \in Nat
    BY <1>1, ProcsFinite, Times, TickAssumption
  <2> HIDE DEF cost
  <2> QED BY <1>1, <1>2, <2>3, <2>4 DEF MoneyInv
<1>6. burnt <= spent' + Cardinality(Unpaid') + lost' + Batch * crashes
  <2> DEFINE pairs == {p} \X (1..cost)
  <2>1. ASSUME NEW q \in Procs, NEW k \in 1..Batch
        PROVE  <<q, k>> \in Unpaid' <=> <<q, k>> \in Unpaid /\ <<q, k>> \notin pairs
    BY <1>1, <1>2, <1>3 DEF Unpaid, Run
  <2>2. Unpaid \subseteq Procs \X (1..Batch) /\ Unpaid' \subseteq Procs \X (1..Batch)
    BY DEF Unpaid
  <2>3. Unpaid \cap pairs = pairs
    <3>1. ASSUME NEW k \in 1..cost PROVE <<p, k>> \in Unpaid
      BY <1>1, <1>2 DEF Unpaid, Run
    <3>2. pairs \subseteq Unpaid
      <4> HIDE DEF cost
      <4>1. ASSUME NEW u \in pairs PROVE u \in Unpaid
        <5>1. PICK k \in 1..cost : u = <<p, k>>
          OBVIOUS
        <5> QED BY <5>1, <3>1
      <4> QED BY <4>1
    <3> HIDE DEF pairs
    <3> QED BY <3>2
  <2>4. Unpaid' = Unpaid \ pairs
    <3> HIDE DEF pairs
    <3> QED BY <2>1, <2>2
  <2>5. Cardinality(pairs) = cost
    <3> HIDE DEF cost
    <3>1. cost \in Nat BY <1>1, <1>2
    <3> QED BY <3>1, PairsOf
  <2>6. Cardinality(Unpaid') = Cardinality(Unpaid) - cost
    <3> HIDE DEF pairs, cost
    <3> QED BY <2>3, <2>4, <2>5, MoneyFinite, FS_Difference
  <2>7. Batch * crashes \in Nat
    BY <1>1, Times
  <2> HIDE DEF cost
  <2> QED BY <1>1, <1>2, <2>6, <2>7, MoneyFinite DEF MoneyInv
<1> QED BY <1>2, <1>4, <1>5, <1>6 DEF MoneyInv

\* A death takes at most one batch with it that no row tells of.
LEMMA LostInDeath ==
  ASSUME Items # {}, TypeOK, MoneyInv, NEW p \in Procs, Crash(p)
  PROVE  MoneyInv'
<1>1. /\ spent \in Nat /\ burnt \in Nat /\ lost \in Nat /\ crashes \in Nat /\ Batch \in Nat
      /\ run \in [Procs -> Run]
  BY BatchBounds, TickAssumption DEF TypeOK
<1>2. /\ run' = [run EXCEPT ![p] = IdleRun] /\ crashes' = crashes + 1
      /\ UNCHANGED <<spent, burnt, lost>>
  BY DEF Crash, money
<1>3. /\ run'[p] = IdleRun
      /\ \A q \in Procs : q # p => run'[q] = run[q]
  BY <1>1, <1>2
<1>4. \A q \in Procs : /\ run'[q].step \in {"cap", "stamp"} => run'[q].stage = "generate"
                       /\ run'[q].step = "stamp" => run'[q].cost <= Batch
  BY <1>3 DEF MoneyInv, IdleRun
<1>5. spent + Batch * Cardinality(Armed') < Cap + Batch * Cardinality(Procs)
  <2>1. Armed' \subseteq Armed
    BY <1>3 DEF Armed, IdleRun
  <2>2. Cardinality(Armed') <= Cardinality(Armed)
    BY <2>1, MoneyFinite, FS_Subset
  <2>3. /\ Batch * Cardinality(Armed') <= Batch * Cardinality(Armed)
        /\ Batch * Cardinality(Armed') \in Nat /\ Batch * Cardinality(Armed) \in Nat
    BY <1>1, <2>2, MoneyFinite, Times
  <2>4. Batch * Cardinality(Procs) \in Nat /\ Cap \in Nat
    BY <1>1, ProcsFinite, Times, TickAssumption
  <2> QED BY <1>1, <2>3, <2>4 DEF MoneyInv
<1>6. burnt <= spent + Cardinality(Unpaid') + lost + Batch * crashes'
  <2> DEFINE pairs == {p} \X (1..Batch)
  <2>1. ASSUME NEW q \in Procs, NEW k \in 1..Batch
        PROVE  <<q, k>> \in Unpaid' <=> <<q, k>> \in Unpaid /\ <<q, k>> \notin pairs
    BY <1>3 DEF Unpaid, IdleRun
  <2>2. Unpaid \subseteq Procs \X (1..Batch) /\ Unpaid' \subseteq Procs \X (1..Batch)
    BY DEF Unpaid
  <2>3. Unpaid' = Unpaid \ pairs
    <3> HIDE DEF pairs
    <3> QED BY <2>1, <2>2
  <2>4. IsFiniteSet(pairs) /\ Cardinality(pairs) = Batch
    BY <1>1, PairsOf
  <2>5. Cardinality(Unpaid \cap pairs) \in Nat /\ Cardinality(Unpaid \cap pairs) <= Batch
    <3> HIDE DEF pairs
    <3>1. /\ IsFiniteSet(Unpaid \cap pairs)
          /\ Cardinality(Unpaid \cap pairs) <= Cardinality(pairs)
      BY <2>4, FS_Intersection
    <3> QED BY <3>1, <2>4, FS_CardinalityType
  <2>6. Cardinality(Unpaid') = Cardinality(Unpaid) - Cardinality(Unpaid \cap pairs)
    <3> HIDE DEF pairs
    <3> QED BY <2>3, MoneyFinite, FS_Difference
  <2>7. Batch * (crashes + 1) = Batch * crashes + Batch /\ Batch * crashes \in Nat
    BY <1>1, Times
  <2> HIDE DEF pairs
  <2> QED BY <1>1, <1>2, <2>5, <2>6, <2>7, MoneyFinite DEF MoneyInv
<1> QED BY <1>2, <1>4, <1>5, <1>6 DEF MoneyInv

\* At midnight nothing is spent, and what is in hand is yesterday's.
LEMMA DayBegins == ASSUME Items # {}, TypeOK, MoneyInv, NewDay PROVE MoneyInv'
<1>1. /\ crashes \in Nat /\ Batch \in Nat /\ run \in [Procs -> Run] /\ Cap \in Nat \ {0}
  BY BatchBounds, TickAssumption DEF TypeOK
<1>0. spent' = 0 /\ burnt' = 0 /\ lost' = 0 /\ UNCHANGED crashes
  BY DEF NewDay
<1>2. run' = [p \in Procs |-> IF run[p] = IdleRun THEN IdleRun
                             ELSE [run[p] EXCEPT !.fresh = FALSE]]
  BY DEF NewDay
<1>3. \A p \in Procs : /\ run'[p].step = run[p].step /\ run'[p].stage = run[p].stage
                       /\ run'[p].cost = run[p].cost
  BY <1>1, <1>2 DEF Run
<1>4. /\ Batch * Cardinality(Armed') <= Batch * Cardinality(Procs)
      /\ Batch * Cardinality(Armed') \in Nat /\ Batch * Cardinality(Procs) \in Nat
      /\ Batch * crashes \in Nat
  BY <1>1, MoneyFinite, ProcsFinite, Times
<1>5. spent' + Batch * Cardinality(Armed') < Cap + Batch * Cardinality(Procs)
  BY <1>0, <1>1, <1>4
<1>6. burnt' <= spent' + Cardinality(Unpaid') + lost' + Batch * crashes'
  BY <1>0, <1>1, <1>4, MoneyFinite
<1>7. \A p \in Procs : /\ run'[p].step \in {"cap", "stamp"} => run'[p].stage = "generate"
                       /\ run'[p].step = "stamp" => run'[p].cost <= Batch
  BY <1>3 DEF MoneyInv
<1> QED BY <1>5, <1>6, <1>7 DEF MoneyInv

\* Where only processes that pay for nothing move, nothing is charged.
LEMMA OthersMove ==
  ASSUME Items # {}, TypeOK, MoneyInv, UNCHANGED <<spent, burnt, lost, crashes>>,
         \A p \in Procs : \/ run'[p] = run[p]
                          \/ /\ run[p].step # "stamp"
                             /\ run'[p].step \in {"idle", "kill", "close"}
                          \/ /\ run[p].step # "stamp" /\ run'[p].stage = run[p].stage
                             /\ \/ run'[p].step = "cap" /\ run[p].stage = "generate"
                                \/ run'[p].step = "body" /\ run[p].step = "open"
                                \/ /\ run'[p].step = "open"
                                   /\ spent < Cap \/ run[p].stage # "generate"
  PROVE  MoneyInv'
<1>1. \A p \in Procs : /\ run'[p].step \in {"cap", "stamp"} => run'[p].stage = "generate"
                       /\ run'[p].step = "stamp" => run'[p].cost <= Batch
  BY DEF MoneyInv
<1>2. spent < Cap \/ Armed' \subseteq Armed
  BY DEF Armed
<1>3. Unpaid' = Unpaid
  BY DEF Unpaid
<1> QED BY <1>1, <1>2, <1>3, NothingCharged

\* Only generate costs something, at most one batch.
LEMMA BodyMoney ==
  ASSUME Items # {}, TypeOK, MoneyInv, NEW p \in Procs, Body(p)
  PROVE  MoneyInv'
<1> DEFINE targets == Targets(run[p].stage, run[p].date)
<1>1. /\ run \in [Procs -> Run] /\ run[p].step = "body" /\ Batch \in Nat
      /\ UNCHANGED <<spent, crashes>>
  BY BatchBounds DEF Body, TypeOK
<1>2. PICK done \in SUBSET targets, ok \in BOOLEAN :
        IF run[p].stage = "generate"
          THEN \E cost \in Cardinality(done)..Cardinality(targets),
                  waste \in 0..(MaxLost - lost) :
                 /\ run' = [run EXCEPT ![p].step = "stamp",
                                       ![p].cost = cost, ![p].ok = ok]
                 /\ Burn(run[p], cost, waste)
          ELSE /\ run' = [run EXCEPT ![p].step = "close", ![p].ok = ok]
               /\ UNCHANGED <<burnt, lost>>
  BY DEF Body
<1>3. CASE run[p].stage = "generate"
  <2>1. PICK cost \in Cardinality(done)..Cardinality(targets),
             waste \in 0..(MaxLost - lost) :
          /\ run' = [run EXCEPT ![p].step = "stamp",
                                ![p].cost = cost, ![p].ok = ok]
          /\ Burn(run[p], cost, waste)
    BY <1>2, <1>3
  <2>2. targets \subseteq OnDate(run[p].date)
    BY <1>3 DEF Targets, OnDate
  <2>3. /\ IsFiniteSet(targets) /\ IsFiniteSet(done)
        /\ Cardinality(targets) <= Cardinality(OnDate(run[p].date))
    <3> HIDE DEF targets
    <3> QED BY <2>2, OnDateFinite, FS_Subset
  <2>4. /\ Cardinality(done) \in Nat /\ Cardinality(targets) \in Nat
        /\ Cardinality(OnDate(run[p].date)) <= Batch
    BY <2>3, FS_CardinalityType, BatchBounds
  <2>5. cost \in 0..Batch
    <3> HIDE DEF targets
    <3> QED BY <1>1, <2>3, <2>4, OnDateFinite
  <2>6. run' = [run EXCEPT ![p] = [run[p] EXCEPT !.step = "stamp", !.cost = cost, !.ok = ok]]
    BY <2>1
  <2>7. waste \in Nat
    BY <2>1, TickAssumption DEF TypeOK
  <2> QED BY <1>1, <1>3, <2>1, <2>5, <2>6, <2>7, Charged
<1>4. CASE run[p].stage # "generate"
  <2>1. /\ run' = [run EXCEPT ![p] = [run[p] EXCEPT !.step = "close", !.ok = ok]]
        /\ UNCHANGED <<burnt, lost>>
    BY <1>2, <1>4
  <2>2. /\ run'[p].step = "close"
        /\ \A q \in Procs : q # p => run'[q] = run[q]
    BY <1>1, <2>1 DEF Run
  <2> QED BY <1>1, <2>1, <2>2, OthersMove
<1> QED BY <1>3, <1>4

LEMMA ReturnIdles ==
  ASSUME TypeOK, NEW p \in Procs, NEW result, Return(p, result)
  PROVE  /\ run'[p].step = "idle"
         /\ \A q \in Procs : q # p => run'[q] = run[q]
  BY DEF Return, TypeOK, IdleRun

LEMMA GotoSteps ==
  ASSUME TypeOK, NEW p \in Procs, NEW step, Goto(p, step)
  PROVE  /\ run'[p].step = step /\ run'[p].stage = run[p].stage
         /\ \A q \in Procs : q # p => run'[q] = run[q]
  BY DEF Goto, TypeOK, Run

LEMMA RunMoney ==
  ASSUME Items # {}, TypeOK, MoneyInv, NEW p \in Procs, RunStep(p)
  PROVE  MoneyInv'
<1>1. CASE CheckKill(p)
  <2>1. UNCHANGED <<spent, burnt, lost, crashes>> /\ run[p].step = "kill"
    BY <1>1 DEF CheckKill, money
  <2>2. CASE kill
    <3>1. Return(p, "kill_switch")
      BY <1>1, <2>2 DEF CheckKill
    <3> QED BY <2>1, <3>1, ReturnIdles, OthersMove
  <2>3. CASE ~kill
    <3>1. Goto(p, IF run[p].stage = "generate" THEN "cap" ELSE "open")
      BY <1>1, <2>3 DEF CheckKill
    <3>2. CASE run[p].stage = "generate"
      <4>1. Goto(p, "cap") BY <3>1, <3>2
      <4> QED BY <2>1, <3>2, <4>1, GotoSteps, OthersMove
    <3>3. CASE run[p].stage # "generate"
      <4>1. Goto(p, "open") BY <3>1, <3>3
      <4> QED BY <2>1, <3>3, <4>1, GotoSteps, OthersMove
    <3> QED BY <3>2, <3>3
  <2> QED BY <2>2, <2>3
<1>2. CASE CheckCap(p)
  <2>1. UNCHANGED <<spent, burnt, lost, crashes>> /\ run[p].step = "cap"
    BY <1>2 DEF CheckCap
  <2>2. CASE spent >= Cap
    <3>1. Return(p, "spend_cap")
      BY <1>2, <2>2 DEF CheckCap
    <3> QED BY <2>1, <3>1, ReturnIdles, OthersMove
  <2>3. CASE ~(spent >= Cap)
    <3>1. Goto(p, "open")
      BY <1>2, <2>3 DEF CheckCap
    <3>2. spent < Cap
      BY <2>3, TickAssumption DEF TypeOK
    <3> QED BY <2>1, <3>1, <3>2, GotoSteps, OthersMove
  <2> QED BY <2>2, <2>3
<1>3. CASE OpenRun(p)
  <2>1. UNCHANGED <<spent, burnt, lost, crashes>> /\ run[p].step = "open"
    BY <1>3 DEF OpenRun, money
  <2>2. CASE ~run[p].force /\ Completed(p)
    <3>1. Return(p, "skipped")
      BY <1>3, <2>2 DEF OpenRun
    <3> QED BY <2>1, <3>1, ReturnIdles, OthersMove
  <2>3. CASE ~(~run[p].force /\ Completed(p))
    <3>1. run' = [run EXCEPT ![p].step = "body", ![p].fresh = TRUE]
      BY <1>3, <2>3 DEF OpenRun
    <3>2. /\ run'[p].step = "body" /\ run'[p].stage = run[p].stage
          /\ \A q \in Procs : q # p => run'[q] = run[q]
      BY <3>1 DEF TypeOK, Run
    <3> QED BY <2>1, <3>2, OthersMove
  <2> QED BY <2>2, <2>3
<1>4. CASE Body(p)
  BY <1>4, BodyMoney
<1>5. CASE StampCost(p)
  BY <1>5, Stamped
<1>6. CASE CloseRun(p)
  <2>1. /\ UNCHANGED <<spent, burnt, lost, crashes>> /\ run[p].step = "close"
        /\ Return(p, IF run[p].ok THEN "ok" ELSE "failed")
    BY <1>6 DEF CloseRun, money
  <2> QED BY <2>1, ReturnIdles, OthersMove
<1> QED BY <1>1, <1>2, <1>3, <1>4, <1>5, <1>6 DEF RunStep

LEMMA OtherMoney ==
  ASSUME Items # {}, TypeOK, MoneyInv,
         \/ BeginSweep \/ SweepStep
         \/ \E p \in Procs : ShellRun(p)
         \/ \E value \in BOOLEAN : SetKill(value)
         \/ \E i \in Items : Commission(i) \/ OwnerDecides(i)
  PROVE  MoneyInv'
<1>1. UNCHANGED <<spent, burnt, lost, crashes>>
  BY DEF BeginSweep, SweepStep, DailyStage, ListDates, SweepDate, FinishSweep,
         ShellRun, SetKill, Commission, OwnerDecides, money
<1>2. CASE DailyStage \/ SweepDate \/ \E p \in Procs : ShellRun(p)
  <2>1. \A p \in Procs : \/ run'[p] = run[p]
                         \/ run[p].step = "idle" /\ run'[p].step = "kill"
    <3>1. \A stage, date, force : RunStage(stage, date, force).step = "kill"
      BY DEF RunStage, IdleRun
    <3>2. run \in [Procs -> Run] /\ IdleRun.step = "idle"
      BY DEF TypeOK, IdleRun
    <3> HIDE DEF RunStage, IdleRun
    <3>3. CASE DailyStage
      BY <3>1, <3>2, <3>3 DEF DailyStage, Sweeping
    <3>4. CASE SweepDate
      <4>1. \/ UNCHANGED run
            \/ \E date : run' = [run EXCEPT ![Ticker] = RunStage(sweep.stage, date, TRUE)]
        BY <3>4 DEF SweepDate
      <4>2. run[Ticker].step = "idle"
        BY <3>2, <3>4 DEF SweepDate, Sweeping
      <4>3. CASE UNCHANGED run
        BY <4>3
      <4>4. ASSUME NEW date, run' = [run EXCEPT ![Ticker] = RunStage(sweep.stage, date, TRUE)]
            PROVE  \A p \in Procs :
                     \/ run'[p] = run[p]
                     \/ p = Ticker /\ run'[p].step = "kill"
        <5>1. RunStage(sweep.stage, date, TRUE).step = "kill"
          BY <3>1
        <5> DEFINE begun == RunStage(sweep.stage, date, TRUE)
        <5> HIDE DEF begun
        <5> QED BY <3>2, <4>4, <5>1 DEF begun
      <4> QED BY <4>1, <4>2, <4>3, <4>4
    <3>5. CASE \E p \in Procs : ShellRun(p)
      BY <3>1, <3>2, <3>5 DEF ShellRun
    <3> QED BY <1>2, <3>3, <3>4, <3>5
  <2> QED BY <1>1, <2>1, OthersMove
<1>3. CASE \/ BeginSweep \/ ListDates \/ FinishSweep
           \/ \E value \in BOOLEAN : SetKill(value)
           \/ \E i \in Items : Commission(i) \/ OwnerDecides(i)
  <2>1. UNCHANGED run
    BY <1>3 DEF BeginSweep, ListDates, FinishSweep, SetKill, Commission, OwnerDecides
  <2> QED BY <1>1, <2>1, OthersMove
<1> QED BY <1>2, <1>3 DEF SweepStep

\* What is in hand is no more than what the cap's margin foresees.
LEMMA MoneyBound ==
  ASSUME Items # {}, TypeOK, MoneyInv
  PROVE  SpendBound
<1>1. /\ Batch \in Nat /\ spent \in Nat /\ burnt \in Nat /\ crashes \in Nat
      /\ lost \in Nat
      /\ Cap \in Nat /\ Cardinality(Procs) \in Nat
  BY BatchBounds, ProcsFinite, TickAssumption DEF TypeOK
<1> DEFINE stamping == {p \in Procs : run[p].step = "stamp"}
<1>2. stamping \subseteq Armed /\ IsFiniteSet(stamping)
  <2>1. stamping \subseteq Armed
    BY DEF MoneyInv, Armed
  <2> QED BY <2>1, MoneyFinite, FS_Subset
<1>3. Cardinality(Unpaid) <= Cardinality(stamping) * Batch
  <2>1. Unpaid \subseteq stamping \X (1..Batch)
    BY DEF Unpaid
  <2>2. IsFiniteSet(1..Batch) /\ Cardinality(1..Batch) = Batch
    BY <1>1, FS_Interval
  <2>3. /\ IsFiniteSet(stamping \X (1..Batch))
        /\ Cardinality(stamping \X (1..Batch)) = Cardinality(stamping) * Batch
    BY <1>2, <2>2, FS_Product
  <2> HIDE DEF stamping
  <2> QED BY <2>1, <2>3, FS_Subset
<1>4. Cardinality(stamping) \in Nat /\ Cardinality(stamping) <= Cardinality(Armed)
  <2> HIDE DEF stamping
  <2> QED BY <1>2, MoneyFinite, FS_Subset, FS_CardinalityType
<1>5. /\ Batch * Cardinality(stamping) <= Batch * Cardinality(Armed)
      /\ Batch * Cardinality(stamping) \in Nat /\ Batch * Cardinality(Armed) \in Nat
  BY <1>1, <1>4, MoneyFinite, Times
<1>6. Cardinality(stamping) * Batch = Batch * Cardinality(stamping)
  <2> HIDE DEF stamping
  <2> QED BY <1>1, <1>4
<1>7. /\ Batch * (Cardinality(Procs) + crashes) = Batch * Cardinality(Procs) + Batch * crashes
      /\ Batch * Cardinality(Procs) \in Nat /\ Batch * crashes \in Nat
  BY <1>1
<1> HIDE DEF stamping
<1> QED BY <1>1, <1>3, <1>5, <1>6, <1>7, MoneyFinite DEF MoneyInv, SpendBound

\* However many processes run generate beside each other, and however often they
\* die between a batch and its stamp: a day costs at most the cap and one batch
\* per process and death, and what unusable replies and failed stamps kept from
\* the rows.
THEOREM SpendIsBounded == Items # {} => (Spec => []SpendBound)
<1> SUFFICES ASSUME Items # {} PROVE Spec => []SpendBound
  OBVIOUS
<1>1. ASSUME Init PROVE MoneyInv
  <2>1. Armed = {} /\ Unpaid = {}
    BY <1>1 DEF Init, IdleRun, Armed, Unpaid
  <2>2. \A p \in Procs : run[p].step = "idle"
    BY <1>1 DEF Init, IdleRun
  <2>3. spent = 0 /\ burnt = 0 /\ lost = 0 /\ crashes = 0
    BY <1>1 DEF Init
  <2>4. Batch \in Nat /\ Batch * Cardinality(Procs) \in Nat /\ Batch * 0 = 0
    BY <1>1, BatchBounds, ProcsFinite, Times
  <2>5. Cardinality(Armed) = 0 /\ Cardinality(Unpaid) = 0
    BY <2>1, FS_EmptySet
  <2> QED BY <2>2, <2>3, <2>4, <2>5, TickAssumption DEF MoneyInv
<1>2. ASSUME TypeOK, MoneyInv, [Next]_vars PROVE MoneyInv'
  <2>1. CASE UNCHANGED vars
    <3>1. UNCHANGED <<run, spent, burnt, lost, crashes>>
      BY <2>1 DEF vars
    <3> QED BY <1>2, <3>1, OthersMove
  <2>2. CASE Next
    BY <1>2, <2>2, RunMoney, OtherMoney, LostInDeath, DayBegins DEF Next
  <2> QED BY <1>2, <2>1, <2>2
<1>3. TypeOK /\ MoneyInv => SpendBound
  BY MoneyBound
<1> QED BY <1>1, <1>2, <1>3, TickTyped, PTL DEF Spec
=============================================================================
