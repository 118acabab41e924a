--------------------------- MODULE PipelineProofs ---------------------------
(***************************************************************************)
(* Pipeline's types are right for every set of items, workers and callers  *)
(* and every budget.  As long as no two runs of one stage share a target,  *)
(* and however many runs overlap otherwise, it keeps the redraft budget,   *)
(* and never shows the owner a card whose parts disagree, whoever decides  *)
(* and whatever dies; it implements Lifecycle, and its records are true.   *)
(* The argument is the inductive invariant IInv of PipelineInv.  That the  *)
(* hypothesis is needed shows with finding_redraft.cfg.                    *)
(***************************************************************************)
EXTENDS PipelineInv, TLAPS

-----------------------------------------------------------------------------
(* Lemmas about the records *)

LEMMA ConstantItems == Absent \in Item /\ Shell \in Item /\ Shell # Absent
BY DEF Absent, Shell, Item, Statuses

LEMMA IdleTypes == IdleJob \in Job /\ IdleCall \in Call
BY ConstantItems DEF IdleJob, NoTodo, Job, IdleCall, Call, VALID_DECISIONS,
                     STATUS_FOR_DECISION

\* A bounce patch keeps an item an item.
LEMMA BouncedType ==
  ASSUME NEW item \in Item, NEW copy \in Item
  PROVE  /\ Bounced(item, qaFailNext(copy, MaxAttempts)) \in Item
         /\ Bounced(item, regenNext(copy, MaxRegens)) \in Item
<1> DEFINE Answer(to, attempt, regens) ==
             [to |-> to, attempt |-> attempt, regen_count |-> regens]
<1>1. ASSUME NEW to \in Statuses, NEW attempt \in Nat, NEW regens \in Nat
      PROVE  Bounced(item, Answer(to, attempt, regens)) \in Item
  BY DEF Bounced, Item
<1>2. {"drafting", "skipped"} \subseteq Statuses
  BY DEF Statuses
<1>3. /\ copy.attempt \in Nat /\ copy.attempt + 1 \in Nat
      /\ copy.regen_count \in Nat /\ copy.regen_count + 1 \in Nat
  BY DEF Item
<1>4. Bounced(item, qaFailNext(copy, MaxAttempts)) \in Item
  BY <1>1, <1>2, <1>3 DEF qaFailNext
<1>5. Bounced(item, regenNext(copy, MaxRegens)) \in Item
  BY <1>1, <1>2, <1>3 DEF regenNext
<1>6. QED BY <1>4, <1>5

\* A decision keeps an item an item.
LEMMA DecidedType ==
  ASSUME NEW item \in Item, NEW decision, NEW status \in Statuses
  PROVE  /\ Decided(item, decision, status) \in Item
         /\ Decided(item, decision, status).status = status
         /\ Decided(item, decision, status).attempt = item.attempt
         /\ Decided(item, decision, status).regen_count = item.regen_count
BY DEF Decided, Item, OwnerText

\* What TakeUp and PutDown do to the jobs.
LEMMA TakeUpFacts ==
  ASSUME TypeOK, NEW w \in Workers, NEW i \in Items, NEW copy \in Item,
         TakeUp(w, i, copy)
  PROVE  /\ job' \in [Workers -> Job]
         /\ \A v \in Workers \ {w} : job'[v] = job[v]
         /\ job'[w].stage = job[w].stage
         /\ job'[w].item = i
         /\ job'[w].todo = [job[w].todo EXCEPT ![i] = copy]
BY DEF TakeUp, TypeOK, Job

LEMMA PutDownFacts ==
  ASSUME TypeOK, NEW w \in Workers, NEW i \in Items, PutDown(w, i)
  PROVE  /\ job' \in [Workers -> Job]
         /\ \A v \in Workers \ {w} : job'[v] = job[v]
         /\ \/ job'[w] = IdleJob
            \/ /\ job'[w].stage = job[w].stage
               /\ job'[w].item = NoItem
               /\ job'[w].todo = [job[w].todo EXCEPT ![i] = Absent]
<1> DEFINE rest == [job[w].todo EXCEPT ![i] = Absent]
           next == [job[w] EXCEPT !.item = NoItem, !.todo = rest]
<1>1. rest \in [Items -> Item]
  BY ConstantItems DEF TypeOK, Job
<1>2. next \in Job /\ next.stage = job[w].stage /\ next.item = NoItem
                   /\ next.todo = rest
  BY <1>1 DEF TypeOK, Job
<1>3. job' = [job EXCEPT ![w] = IF rest = NoTodo THEN IdleJob ELSE next]
  BY DEF PutDown
<1>4. QED BY <1>2, <1>3, IdleTypes DEF TypeOK

-----------------------------------------------------------------------------
(* Types *)

\* The worker's half of the step.
LEMMA WorkerTypeStep ==
  ASSUME TypeOK, NEW w \in Workers, WorkerStep(w)
  PROVE  TypeOK' /\ UNCHANGED call
<1> USE ConstantItems, IdleTypes
<1> DEFINE Good == /\ items' \in [Items -> Item]
                   /\ job' \in [Workers -> Job]
                   /\ UNCHANGED <<approvals, call, crashes>>
<1>1. SUFFICES Good
  BY DEF TypeOK
<1>2. CASE StartPlan(w)
  BY <1>2 DEF StartPlan, TypeOK, Job, Stages
<1>3. ASSUME NEW stage \in DOMAIN Scans, StartStage(w, stage)
      PROVE  Good
  <2>1. stage \in Stages
    BY DEF Scans, Stages
  <2> DEFINE targets == [i \in Items |-> IF items[i].status \in Scans[stage]
                                           THEN items[i] ELSE Absent]
  <2>2. targets \in [Items -> Item]
    BY DEF TypeOK
  <2>3. [stage |-> stage, item |-> NoItem, todo |-> targets] \in Job
    BY <2>1, <2>2 DEF Job
  <2> HIDE DEF targets
  <2>4. job' = [job EXCEPT ![w] = [stage |-> stage, item |-> NoItem,
                                   todo |-> targets]]
    BY <1>3 DEF StartStage, targets
  <2>5. QED BY <1>3, <2>3, <2>4 DEF StartStage, TypeOK
<1>4. ASSUME NEW i \in Items, PlanItem(w, i)
      PROVE  Good
  BY <1>4, TakeUpFacts, PutDownFacts DEF PlanItem, PlanCheck, PlanPut, TypeOK
<1>5. ASSUME NEW stage, NEW i \in Items, NEW from, NEW to \in Statuses,
             Claim(w, stage, i, from, to)
      PROVE  Good
  <2> DEFINE updated == [items[i] EXCEPT !.status = to]
  <2>1. updated \in Item
    BY DEF TypeOK, Item
  <2> HIDE DEF updated
  <2>2. \/ items' = [items EXCEPT ![i] = updated] /\ TakeUp(w, i, updated)
        \/ UNCHANGED items /\ PutDown(w, i)
    BY <1>5 DEF Claim, updated
  <2>3. QED BY <1>5, <2>1, <2>2, TakeUpFacts, PutDownFacts DEF Claim, TypeOK
<1>6. ASSUME NEW stage, NEW i \in Items, NEW status,
             \/ Resume(w, stage, i, status)
             \/ GiveUp(w, stage, i)
             \/ QaError(w, i)
      PROVE  Good
  <2>1. job[w].todo[i] \in Item
    BY DEF TypeOK, Job
  <2>2. QED BY <1>6, <2>1, TakeUpFacts, PutDownFacts
            DEF Resume, GiveUp, QaError, TypeOK
<1>7. ASSUME NEW i \in Items, GenerateDraft(w, i)
      PROVE  Good
  <2>1. items[i] \in Item /\ job[w].todo[i] \in Item
    BY DEF TypeOK, Job
  <2>2. [items[i] EXCEPT !.status = "drafted",
                         !.caption = job[w].todo[i].attempt] \in Item
    BY <2>1 DEF Item, Statuses
  <2>3. items' \in [Items -> Item]
    BY <1>7, <2>2 DEF GenerateDraft, TypeOK
  <2>4. QED BY <1>7, <2>3, PutDownFacts DEF GenerateDraft
<1>8. ASSUME NEW i \in Items, RenderAssets(w, i)
      PROVE  Good
  <2>1. items[i] \in Item /\ job[w].todo[i] \in Item
    BY DEF TypeOK, Job
  <2>2. [items[i] EXCEPT !.status = "rendered",
                         !.assets = job[w].todo[i].caption] \in Item
    BY <2>1 DEF Item, Statuses
  <2>3. items' \in [Items -> Item]
    BY <1>8, <2>2 DEF RenderAssets, TypeOK
  <2>4. QED BY <1>8, <2>3, PutDownFacts DEF RenderAssets
<1>9. ASSUME NEW i \in Items, QaPass(w, i) \/ QaFail(w, i) \/ QaBounce(w, i)
      PROVE  Good
  <2>1. items[i] \in Item /\ job[w].todo[i] \in Item
    BY DEF TypeOK, Job
  <2>2. CASE QaPass(w, i)
    <3>1. [items[i] EXCEPT !.status = "pending_review",
                           !.lint = job[w].todo[i].caption] \in Item
      BY <2>1 DEF Item, Statuses
    <3>2. items' \in [Items -> Item]
      BY <2>2, <3>1 DEF QaPass, TypeOK
    <3>3. QED BY <2>2, <3>2, PutDownFacts DEF QaPass
  <2>3. CASE QaFail(w, i)
    <3> DEFINE updated == [items[i] EXCEPT !.status = "qa_failed",
                                           !.lint = job[w].todo[i].caption]
    <3>1. updated \in Item
      BY <2>1 DEF Item, Statuses
    <3> HIDE DEF updated
    <3>2. \/ items' = [items EXCEPT ![i] = updated] /\ TakeUp(w, i, updated)
          \/ UNCHANGED items /\ PutDown(w, i)
      BY <2>3 DEF QaFail, updated
    <3>3. QED BY <2>3, <3>1, <3>2, TakeUpFacts, PutDownFacts
              DEF QaFail, TypeOK
  <2>4. CASE QaBounce(w, i)
    <3>1. items' \in [Items -> Item]
      BY <2>1, <2>4, BouncedType DEF QaBounce, TypeOK
    <3>2. QED BY <2>4, <3>1, PutDownFacts DEF QaBounce
  <2>5. QED BY <1>9, <2>2, <2>3, <2>4
<1>10. {"drafting", "rendering"} \subseteq Statuses
  BY DEF Statuses
<1>11. QED
  BY <1>2, <1>3, <1>4, <1>5, <1>6, <1>7, <1>8, <1>9, <1>10
  DEF WorkerStep, GenerateItem, RenderItem, QaItem

\* What a call may do to its own record, and how approvals grow.
LEMMA CallUpdate ==
  ASSUME TypeOK, NEW c \in Callers, NEW next \in Call,
         call' = [call EXCEPT ![c] = next]
  PROVE  /\ call' \in [Callers -> Call]
         /\ call'[c] = next
         /\ \A d \in Callers \ {c} : call'[d] = call[d]
BY DEF TypeOK

\* The calls' half of the step.  A record carries the item of its call, so
\* the types need CallInv beside them.
LEMMA CallTypeStep ==
  ASSUME TypeOK, CallInv, NEW c \in Callers, BeginCall(c) \/ CallStep(c)
  PROVE  TypeOK' /\ CallInv'
<1> USE IdleTypes
<1> DEFINE Good == /\ items' \in [Items -> Item]
                   /\ approvals' \subseteq Approval
                   /\ \E next \in Call :
                        /\ call' = [call EXCEPT ![c] = next]
                        /\ next.step # "idle" => next.item \in Items
                   /\ UNCHANGED <<job, crashes>>
<1>1. SUFFICES Good
  <2>1. PICK next \in Call : /\ call' = [call EXCEPT ![c] = next]
                             /\ next.step # "idle" => next.item \in Items
    BY <1>1
  <2>2. CallInv'
    BY <2>1, CallUpdate DEF CallInv
  <2>3. QED BY <1>1, <2>1, <2>2, CallUpdate DEF TypeOK
<1> DEFINE Becomes(next) == /\ next \in Call
                            /\ call' = [call EXCEPT ![c] = next]
                            /\ next.step # "idle" => next.item \in Items
<1>2. call[c] \in Call /\ (call[c].step # "idle" => call[c].item \in Items)
  BY DEF TypeOK, CallInv
<1>3. Return(c) => Becomes(IdleCall)
  BY <1>2 DEF Return, IdleCall
<1>4. ASSUME NEW step \in {"list", "bounce"}, call[c].item \in Items,
             Proceed(c, step)
      PROVE  Becomes([call[c] EXCEPT !.step = step])
  BY <1>2, <1>4 DEF Proceed, Call
<1>5. ASSUME NEW rest \in SUBSET Items, call[c].item \in Items,
             SkipRest(c, rest)
      PROVE  \/ Becomes(IdleCall)
             \/ Becomes([call[c] EXCEPT !.step = "skip", !.todo = rest])
  BY <1>2, <1>3, <1>5 DEF SkipRest, Call
<1>6. ASSUME NEW decision \in VALID_DECISIONS, call[c].item \in Items,
             AppendApproval(c, decision)
      PROVE  approvals' \subseteq Approval
  BY <1>2, <1>6 DEF AppendApproval, Approval, Call, Item, TypeOK
<1>7. ASSUME NEW i \in Items, NEW decision \in VALID_DECISIONS,
             Decide(c, i, decision)
      PROVE  Good
  <2> DEFINE status  == STATUS_FOR_DECISION[decision]
             updated == Decided(items[i], decision, status)
             next    == [step |-> "record", item |-> i, copy |-> updated,
                         decision |-> decision, todo |-> {}]
  <2>1. status \in Statuses
    BY DEF STATUS_FOR_DECISION, VALID_DECISIONS, Statuses
  <2> HIDE DEF status
  <2>2. updated \in Item
    BY <2>1, DecidedType DEF TypeOK
  <2> HIDE DEF updated
  <2>3. next \in Call /\ next.step # "idle" /\ next.item \in Items
    BY <2>2 DEF Call
  <2> HIDE DEF next
  <2>4. call' = [call EXCEPT ![c] = next] /\ items' = [items EXCEPT ![i] = updated]
    BY <1>7 DEF Decide, next, updated, status
  <2>5. QED BY <1>7, <2>2, <2>3, <2>4 DEF Decide, TypeOK
<1>8. CASE Record(c)
  <2>1. call[c].item \in Items /\ call[c].decision \in VALID_DECISIONS
    BY <1>2, <1>8 DEF Record, Call
  <2>2. approvals' \subseteq Approval
    BY <1>6, <1>8, <2>1 DEF Record
  <2>3. Proceed(c, "list") \/ Proceed(c, "bounce") \/ Return(c)
    BY <1>8, <2>1 DEF Record, VALID_DECISIONS, STATUS_FOR_DECISION
  <2>4. \E next \in Call : Becomes(next)
    BY <1>3, <1>4, <2>1, <2>3
  <2>5. QED BY <1>8, <2>2, <2>4 DEF Record, TypeOK
<1>9. CASE ListSiblings(c)
  <2> DEFINE siblings == {s \in Items \ {call[c].item} :
                            /\ items[s].status = "pending_review"
                            /\ Group[s] = Group[call[c].item]}
  <2>1. siblings \in SUBSET Items
    OBVIOUS
  <2> HIDE DEF siblings
  <2>2. call[c].item \in Items
    BY <1>2, <1>9 DEF ListSiblings
  <2>3. SkipRest(c, siblings)
    BY <1>9 DEF ListSiblings, SkipRest, siblings
  <2>4. QED BY <1>5, <1>9, <2>1, <2>2, <2>3 DEF ListSiblings, TypeOK
<1>10. ASSUME NEW s \in Items, SkipSibling(c, s)
       PROVE  Good
  <2> DEFINE updated == [items[s] EXCEPT !.status = "skipped"]
             next    == [call[c] EXCEPT !.step = "recordSkip", !.item = s,
                                        !.copy = updated]
  <2>1. items[s] \in Item
    BY DEF TypeOK
  <2>2. updated \in Item
    BY <2>1 DEF Item, Statuses
  <2> HIDE DEF updated
  <2>3. next \in Call /\ next.item \in Items
    BY <1>2, <2>2 DEF Call
  <2>4. CASE CasSucceeds(s, "pending_review")
    <3>1. items' = [items EXCEPT ![s] = updated]
          /\ call' = [call EXCEPT ![c] = next]
      BY <1>10, <2>4 DEF SkipSibling, updated
    <3>2. QED BY <1>10, <2>2, <2>3, <3>1 DEF SkipSibling, TypeOK
  <2>5. CASE ~CasSucceeds(s, "pending_review")
    <3>1. call[c].todo \ {s} \in SUBSET Items /\ call[c].item \in Items
      BY <1>2, <1>10 DEF SkipSibling, Call
    <3>2. SkipRest(c, call[c].todo \ {s}) /\ UNCHANGED items
      BY <1>10, <2>5 DEF SkipSibling
    <3>3. QED BY <1>5, <1>10, <3>1, <3>2 DEF SkipSibling, TypeOK
  <2>6. QED BY <2>4, <2>5
<1>11. CASE RecordSkip(c)
  <2>1. /\ call[c].item \in Items
        /\ call[c].todo \ {call[c].item} \in SUBSET Items
    BY <1>2, <1>11 DEF RecordSkip, Call
  <2>2. approvals' \subseteq Approval
    BY <1>6, <1>11, <2>1 DEF RecordSkip, VALID_DECISIONS, STATUS_FOR_DECISION
  <2>3. QED BY <1>5, <1>11, <2>1, <2>2 DEF RecordSkip, TypeOK
<1>12. CASE BounceCall(c)
  <2>1. call[c].item \in Items /\ call[c].copy \in Item
    BY <1>2, <1>12 DEF BounceCall, Call
  <2>2. Bounced(items[call[c].item], regenNext(call[c].copy, MaxRegens)) \in Item
    BY <2>1, BouncedType DEF TypeOK
  <2>3. items' \in [Items -> Item]
    BY <1>12, <2>1, <2>2 DEF BounceCall, TypeOK
  <2>4. QED BY <1>3, <1>12, <2>3 DEF BounceCall, TypeOK
<1>13. ASSUME NEW i \in Items, NEW verb \in DOMAIN Verbs,
              CliRecord(c, i, verb)
       PROVE  Good
  <2> DEFINE decision == Verbs[verb].decision
             next     == [step |-> "move", item |-> i, copy |-> items[i],
                          decision |-> decision, todo |-> {}]
  <2>1. decision \in VALID_DECISIONS
    BY DEF Verbs, VALID_DECISIONS, STATUS_FOR_DECISION
  <2> HIDE DEF decision
  <2>2. next \in Call /\ next.step # "idle" /\ next.item \in Items
    BY <2>1 DEF Call, TypeOK
  <2>3. call' = [call EXCEPT ![c] = next]
    BY <1>13 DEF CliRecord, decision
  <2>4. approvals' = approvals \cup {[item |-> i, round |-> items[i].attempt,
                                      decision |-> decision, by |-> c]}
    BY <1>13 DEF CliRecord, decision
  <2>5. approvals' \subseteq Approval
    BY <2>1, <2>4 DEF Approval, Item, TypeOK
  <2> HIDE DEF next
  <2>6. QED BY <1>13, <2>2, <2>3, <2>5 DEF CliRecord, TypeOK
<1>14. ASSUME NEW verb \in DOMAIN Verbs, CliMove(c, verb)
       PROVE  Good
  <2> DEFINE i       == call[c].item
             updated == Decided(items[i], Verbs[verb].decision, Verbs[verb].to)
             next    == [call[c] EXCEPT !.step = "bounce", !.copy = updated]
  <2>1. i \in Items
    BY <1>2, <1>14 DEF CliMove
  <2>2. updated \in Item
    BY <2>1, DecidedType DEF TypeOK, Verbs, Statuses
  <2> HIDE DEF updated
  <2>3. next \in Call /\ next.item \in Items
    BY <1>2, <2>1, <2>2 DEF Call
  <2> HIDE DEF next
  <2>4. items' \in {items, [items EXCEPT ![i] = updated]}
    BY <1>14 DEF CliMove, updated
  <2>5. call' = [call EXCEPT ![c] = next] \/ Return(c)
    BY <1>14 DEF CliMove, updated, next
  <2>6. UNCHANGED <<approvals, job, crashes>>
    BY <1>14 DEF CliMove
  <2>7. QED BY <1>3, <2>1, <2>2, <2>3, <2>4, <2>5, <2>6 DEF TypeOK
<1>15. QED
  BY <1>7, <1>8, <1>9, <1>10, <1>11, <1>12, <1>13, <1>14
  DEF BeginCall, CallStep

LEMMA CrashTypeStep ==
  ASSUME TypeOK, CallInv, Crash
  PROVE  TypeOK' /\ CallInv'
<1>1. crashes' \in 0..MaxCrashes
  BY ConstantsAssumption DEF Crash, TypeOK
<1>2. CASE \E w \in Workers : job' = [job EXCEPT ![w] = IdleJob] /\ UNCHANGED call
  BY <1>1, <1>2, IdleTypes DEF Crash, TypeOK, CallInv
<1>3. CASE \E c \in Callers : Return(c) /\ UNCHANGED job
  <2>1. PICK c \in Callers : Return(c) /\ UNCHANGED job
    BY <1>3
  <2>2. /\ call' \in [Callers -> Call]
        /\ call'[c] = IdleCall
        /\ \A d \in Callers \ {c} : call'[d] = call[d]
    BY <2>1, IdleTypes, CallUpdate DEF Return
  <2>3. CallInv'
    BY <2>2 DEF CallInv, IdleCall
  <2>4. QED BY <1>1, <2>1, <2>2, <2>3 DEF Crash, TypeOK
<1>4. QED BY <1>2, <1>3 DEF Crash

LEMMA TypesInvariant == Spec => [](TypeOK /\ CallInv)
<1>1. Init => TypeOK /\ CallInv
  BY ConstantItems, IdleTypes, ConstantsAssumption
  DEF Init, TypeOK, CallInv, IdleCall
<1>2. TypeOK /\ CallInv /\ [Next]_vars => TypeOK' /\ CallInv'
  <2> SUFFICES ASSUME TypeOK, CallInv, [Next]_vars PROVE TypeOK' /\ CallInv'
    OBVIOUS
  <2>1. ASSUME NEW w \in Workers, WorkerStep(w) PROVE TypeOK' /\ CallInv'
    <3>1. TypeOK' /\ UNCHANGED call
      BY <2>1, WorkerTypeStep
    <3>2. QED BY <3>1 DEF CallInv
  <2>2. ASSUME NEW c \in Callers, BeginCall(c) \/ CallStep(c)
        PROVE  TypeOK' /\ CallInv'
    BY <2>2, CallTypeStep
  <2>3. CASE UNCHANGED vars
    BY <2>3 DEF vars, TypeOK, CallInv
  <2>4. QED BY <2>1, <2>2, <2>3, CrashTypeStep DEF Next
<1>3. QED BY <1>1, <1>2, PTL DEF Spec

\* Every variable keeps its type, whatever the number of workers, callers
\* and crashes.
THEOREM TypeCorrect == Spec => []TypeOK
BY TypesInvariant, PTL

-----------------------------------------------------------------------------
(* What a step may do to the parts of the invariant it does not aim at *)

\* What the invariant says of one worker's copies.
CopiesOf(w) ==
  /\ \A i \in Items : job[w].stage = "plan" /\ Holds(w, i) =>
       /\ job[w].todo[i] = Shell
       /\ job[w].item = i => items[i] = Absent
  /\ \A i \in Items :
       Holds(w, i) /\ job[w].stage \in {"generate", "render", "qa"} => Current(w, i)
  /\ job[w].item \in Items => Holds(w, job[w].item)

LEMMA CopiesSplit ==
  (\A w \in Workers : CopiesOf(w)) <=> PlannerInv /\ CopiesInv /\ MiddleInv
BY DEF CopiesOf, PlannerInv, CopiesInv, MiddleInv

\* The same of the next state.
LEMMA CopiesJoin ==
  ASSUME \A w \in Workers : CopiesOf(w)'
  PROVE  PlannerInv' /\ CopiesInv' /\ MiddleInv'
BY DEF CopiesOf, PlannerInv, CopiesInv, MiddleInv

\* Worker w may change the item.
InHand(w, i) == \/ job[w].stage \in {"generate", "render", "qa"} /\ Holds(w, i)
                \/ job[w].stage = "plan" /\ job[w].item = i

\* An item in one worker's hand is in no other's: their stages hold items in
\* different statuses, and a planner puts only what is missing.
LEMMA OneHand ==
  ASSUME IInv, TargetsApart, NEW v \in Workers, NEW w \in Workers, v # w,
         NEW i \in Items, InHand(w, i)
  PROVE  ~InHand(v, i)
<1> SUFFICES ASSUME InHand(v, i) PROVE FALSE
  OBVIOUS
<1>1. Holds(v, i) /\ Holds(w, i)
  BY DEF InHand, IInv, MiddleInv
<1>2. job[v].stage # job[w].stage
  BY <1>1 DEF TargetsApart
<1>3. ASSUME NEW u \in {v, w}, job[u].stage \in {"generate", "render", "qa"}
      PROVE  Current(u, i)
  BY <1>1, <1>3 DEF IInv, CopiesInv
<1>4. ASSUME NEW u \in {v, w}, job[u].stage = "plan"
      PROVE  items[i].status = "absent"
  BY <1>1, <1>4 DEF InHand, IInv, PlannerInv, Absent
<1>5. CASE job[v].stage = "plan" \/ job[w].stage = "plan"
  BY <1>2, <1>3, <1>4, <1>5 DEF InHand, Current
<1>6. CASE job[v].stage # "plan" /\ job[w].stage # "plan"
  BY <1>2, <1>3, <1>6 DEF InHand, Current
<1>7. QED BY <1>5, <1>6

\* A worker that changes at most an item in its own hand leaves the copies of
\* all other workers current.
LEMMA OthersKeepCopies ==
  ASSUME IInv, TargetsApart, NEW w \in Workers, NEW i \in Items,
         \A j \in Items \ {i} : items'[j] = items[j],
         items'[i] = items[i] \/ InHand(w, i),
         \A v \in Workers \ {w} : job'[v] = job[v]
  PROVE  \A v \in Workers \ {w} : CopiesOf(v)'
<1> SUFFICES ASSUME NEW v \in Workers \ {w} PROVE CopiesOf(v)'
  OBVIOUS
<1>1. job'[v] = job[v] /\ CopiesOf(v)
  BY CopiesSplit DEF IInv
<1>2. \A j \in Items : InHand(v, j) => items'[j] = items[j]
  BY OneHand
<1>3. \A j \in Items : Holds(v, j)' <=> Holds(v, j)
  BY <1>1 DEF Holds
<1>4. \A j \in Items : job[v].stage = "plan" /\ Holds(v, j) =>
         /\ job'[v].todo[j] = Shell
         /\ job'[v].item = j => items'[j] = Absent
  BY <1>1, <1>2 DEF CopiesOf, InHand
<1>5. \A j \in Items :
        Holds(v, j) /\ job[v].stage \in {"generate", "render", "qa"} =>
          Current(v, j)'
  BY <1>1, <1>2 DEF CopiesOf, InHand, Current
<1>6. QED BY <1>1, <1>3, <1>4, <1>5 DEF CopiesOf

\* A worker that is done with a target keeps the rest of its copies current,
\* whatever it made of the target.
LEMMA PutDownKeepsCopies ==
  ASSUME IInv, TargetsApart, NEW w \in Workers, NEW i \in Items,
         job[w].item \in {NoItem, i}, PutDown(w, i),
         \A j \in Items \ {i} : items'[j] = items[j],
         items'[i] = items[i] \/ InHand(w, i)
  PROVE  PlannerInv' /\ CopiesInv' /\ MiddleInv'
<1>1. \A v \in Workers \ {w} : CopiesOf(v)'
  <2>1. \A v \in Workers \ {w} : job'[v] = job[v]
    BY DEF PutDown, IInv, TypeOK
  <2>2. QED BY <2>1, OthersKeepCopies
<1>2. job[w].todo \in [Items -> Item] /\ job[w] \in Job
  BY DEF IInv, TypeOK, Job
<1>3. job'[w] = IdleJob => CopiesOf(w)'
  BY ConstantsAssumption DEF CopiesOf, Holds, IdleJob, NoTodo
<1>4. ASSUME job'[w].stage = job[w].stage, job'[w].item = NoItem,
             job'[w].todo = [job[w].todo EXCEPT ![i] = Absent]
      PROVE  CopiesOf(w)'
  <2>1. \A j \in Items : Holds(w, j)' => /\ j # i
                                         /\ Holds(w, j)
                                         /\ job'[w].todo[j] = job[w].todo[j]
                                         /\ items'[j] = items[j]
                                         /\ job[w].item # j
                                         /\ job'[w].item # j
    BY <1>2, <1>4, ConstantsAssumption DEF Holds
  <2>2. CopiesOf(w)
    BY CopiesSplit DEF IInv
  <2>3. ASSUME NEW j \in Items, job'[w].stage = "plan", Holds(w, j)'
        PROVE  job'[w].todo[j] = Shell
    BY <1>4, <2>1, <2>2, <2>3 DEF CopiesOf
  <2>4. ASSUME NEW j \in Items, Holds(w, j)',
               job'[w].stage \in {"generate", "render", "qa"}
        PROVE  Current(w, j)'
    BY <1>4, <2>1, <2>2, <2>4 DEF CopiesOf, Current
  <2>5. QED BY <1>4, <2>1, <2>3, <2>4, ConstantsAssumption DEF CopiesOf
<1>5. CopiesOf(w)'
  BY <1>3, <1>4, PutDownFacts DEF IInv
<1>6. QED BY <1>1, <1>5, CopiesJoin

\* A worker that takes up a target holds the item as it now is.
LEMMA TakeUpKeepsCopies ==
  ASSUME IInv, TargetsApart, NEW w \in Workers, NEW i \in Items,
         NEW copy \in Item, job[w].item = NoItem, TakeUp(w, i, copy),
         copy # Absent, items'[i] = copy,
         \A j \in Items \ {i} : items'[j] = items[j], InHand(w, i),
         \/ job[w].stage = "generate" /\ copy.status = "drafting"
         \/ job[w].stage = "render" /\ copy.status = "rendering"
         \/ job[w].stage = "qa" /\ copy.status = "qa_failed"
  PROVE  PlannerInv' /\ CopiesInv' /\ MiddleInv'
<1>1. \A v \in Workers \ {w} : CopiesOf(v)'
  <2>1. \A v \in Workers \ {w} : job'[v] = job[v]
    BY DEF TakeUp, IInv, TypeOK
  <2>2. QED BY <2>1, OthersKeepCopies
<1>2. /\ job'[w].stage = job[w].stage
      /\ job'[w].item = i
      /\ job'[w].todo = [job[w].todo EXCEPT ![i] = copy]
      /\ job[w].todo \in [Items -> Item]
  BY TakeUpFacts DEF IInv, TypeOK, Job
<1>3. \A j \in Items \ {i} : Holds(w, j)' => /\ Holds(w, j)
                                             /\ job'[w].todo[j] = job[w].todo[j]
                                             /\ items'[j] = items[j]
                                             /\ job[w].item # j
                                             /\ job'[w].item # j
  BY <1>2, ConstantsAssumption DEF Holds
<1>4. job'[w].todo[i] = copy /\ items'[i] = copy
  BY <1>2
<1>5. CopiesOf(w)
  BY CopiesSplit DEF IInv
<1>6. ASSUME NEW j \in Items, Holds(w, j)'
      PROVE  Current(w, j)'
  <2>1. CASE j = i
    BY <1>2, <1>4, <2>1 DEF Current
  <2>2. CASE j # i
    BY <1>2, <1>3, <1>5, <1>6, <2>2 DEF CopiesOf, Current
  <2>3. QED BY <2>1, <2>2
<1>7. CopiesOf(w)'
  BY <1>2, <1>4, <1>6 DEF CopiesOf, Holds
<1>8. QED BY <1>1, <1>7, CopiesJoin

\* Whoever leaves the items between two transitions of an owner's redo
\* alone does not disturb the calls that are bouncing them.
LEMMA WorkerKeepsBounces ==
  ASSUME IInv, UNCHANGED call,
         \A j \in Items : \/ items'[j] = items[j]
                          \/ items[j].status # "changes_requested"
  PROVE  BounceInv'
BY DEF IInv, BounceInv, Bouncing

\* Calls touch only items under review or between the two transitions of a
\* redo, which no worker holds.
LEMMA CallKeepsCopies ==
  ASSUME IInv, UNCHANGED job,
         \A j \in Items :
           \/ items'[j] = items[j]
           \/ items[j].status \in {"pending_review", "changes_requested"}
  PROVE  PlannerInv' /\ CopiesInv' /\ MiddleInv'
<1>1. PlannerInv'
  BY DEF IInv, PlannerInv, Holds, Absent
<1>2. CopiesInv'
  BY DEF IInv, CopiesInv, Current, Holds
<1>3. MiddleInv'
  BY DEF IInv, MiddleInv, Holds
<1>4. QED BY <1>1, <1>2, <1>3

\* Only the items that change have to be looked at again.
LEMMA ItemwiseInv ==
  ASSUME IInv,
         \A j \in Items : \/ items'[j] = items[j]
                          \/ Budgeted(items'[j]) /\ Coherent(items'[j])
  PROVE  BudgetInv' /\ CoherenceInv'
BY DEF IInv, BudgetInv, CoherenceInv

-----------------------------------------------------------------------------
(* The steps of a worker *)

\* Listing targets.
LEMMA StartInv ==
  ASSUME IInv, TargetsApart, NEW w \in Workers,
         StartPlan(w) \/ \E stage \in DOMAIN Scans : StartStage(w, stage)
  PROVE  IInv'
<1>2. TypeOK' /\ CallInv' /\ UNCHANGED <<items, call>>
  BY WorkerTypeStep DEF IInv, WorkerStep, StartPlan, StartStage, CallInv
<1>3. BounceInv' /\ BudgetInv' /\ CoherenceInv'
  BY <1>2, WorkerKeepsBounces, ItemwiseInv
<1>1. \A v \in Workers \ {w} : CopiesOf(v)'
  <2>1. \A v \in Workers \ {w} : job'[v] = job[v]
    BY DEF StartPlan, StartStage, IInv, TypeOK
  <2>2. CASE Items = {}
    BY <2>1, <2>2, CopiesSplit DEF CopiesOf, IInv
  <2>3. QED BY <1>2, <2>1, <2>2, OthersKeepCopies
<1>4. CASE StartPlan(w)
  <2>1. /\ job'[w].stage = "plan"
        /\ job'[w].item = NoItem
        /\ job'[w].todo = [i \in Items |-> Shell]
    BY <1>4 DEF StartPlan, IInv, TypeOK
  <2>2. PlannerInv' /\ CopiesInv' /\ MiddleInv'
    BY <1>1, <2>1, CopiesJoin, ConstantsAssumption DEF CopiesOf
  <2>3. QED BY <1>2, <1>3, <2>2 DEF IInv
<1>5. ASSUME NEW stage \in DOMAIN Scans, StartStage(w, stage)
      PROVE  IInv'
  <2> DEFINE targets == [i \in Items |-> IF items[i].status \in Scans[stage]
                                           THEN items[i] ELSE Absent]
  <2>1. /\ job'[w].stage = stage
        /\ job'[w].item = NoItem
        /\ job'[w].todo = targets
    BY <1>5 DEF StartStage, IInv, TypeOK
  <2>2. \A i \in Items : Holds(w, i)' => /\ items[i].status \in Scans[stage]
                                         /\ job'[w].todo[i] = items[i]
    BY <2>1 DEF Holds
  <2> HIDE DEF targets
  <2>3. stage \in {"generate", "render", "qa"}
    BY DEF Scans
  <2>4. ASSUME NEW i \in Items, Holds(w, i)'
        PROVE  Current(w, i)'
    BY <1>2, <2>1, <2>2, <2>3, <2>4, ConstantsAssumption DEF Current, Scans
  <2>5. CopiesOf(w)'
    BY <2>1, <2>3, <2>4, ConstantsAssumption DEF CopiesOf
  <2>6. PlannerInv' /\ CopiesInv' /\ MiddleInv'
    BY <1>1, <2>5, CopiesJoin
  <2>7. QED BY <1>2, <1>3, <2>6 DEF IInv
<1>6. QED BY <1>4, <1>5

\* A step that changes one item to `new` and puts it down.
LEMMA PutDownInv ==
  ASSUME IInv, TypeOK', TargetsApart, NEW w \in Workers, NEW i \in Items, NEW new,
         UNCHANGED call, job[w].item \in {NoItem, i}, PutDown(w, i),
         \/ items' = items
         \/ /\ items' = [items EXCEPT ![i] = new]
            /\ InHand(w, i)
            /\ items[i].status # "changes_requested"
            /\ Budgeted(new) /\ Coherent(new)
  PROVE  IInv'
<1>1. \A j \in Items \ {i} : items'[j] = items[j]
  BY DEF IInv, TypeOK
<1>2. \/ items'[i] = items[i]
      \/ /\ InHand(w, i)
         /\ items[i].status # "changes_requested"
         /\ Budgeted(items'[i]) /\ Coherent(items'[i])
  BY DEF IInv, TypeOK
<1>3. PlannerInv' /\ CopiesInv' /\ MiddleInv'
  BY <1>1, <1>2, PutDownKeepsCopies
<1>4. BounceInv'
  BY <1>1, <1>2, WorkerKeepsBounces
<1>5. BudgetInv' /\ CoherenceInv'
  BY <1>1, <1>2, ItemwiseInv
<1>6. CallInv'
  BY DEF IInv, CallInv
<1>7. QED BY <1>3, <1>4, <1>5, <1>6 DEF IInv

\* A step that changes one item to `new` and takes it up as that.
LEMMA TakeUpInv ==
  ASSUME IInv, TypeOK', TargetsApart, NEW w \in Workers, NEW i \in Items,
         NEW new \in Item, UNCHANGED call, job[w].item = NoItem,
         TakeUp(w, i, new), items' = [items EXCEPT ![i] = new],
         InHand(w, i), items[i].status # "changes_requested",
         Budgeted(new), Coherent(new),
         \/ job[w].stage = "generate" /\ new.status = "drafting"
         \/ job[w].stage = "render" /\ new.status = "rendering"
         \/ job[w].stage = "qa" /\ new.status = "qa_failed"
  PROVE  IInv'
<1>1. /\ \A j \in Items \ {i} : items'[j] = items[j]
      /\ items'[i] = new
  BY DEF IInv, TypeOK
<1>2. PlannerInv' /\ CopiesInv' /\ MiddleInv'
  BY <1>1, TakeUpKeepsCopies DEF Absent
<1>3. BounceInv'
  BY <1>1, WorkerKeepsBounces
<1>4. BudgetInv' /\ CoherenceInv'
  BY <1>1, ItemwiseInv
<1>5. CallInv'
  BY DEF IInv, CallInv
<1>6. QED BY <1>2, <1>3, <1>4, <1>5 DEF IInv

\* What the policies do to the budget and the coherence of an item.
LEMMA BouncedFacts ==
  ASSUME NEW item \in Item, Budgeted(item), item.feedback <= item.attempt
  PROVE  /\ Budgeted(Bounced(item, qaFailNext(item, MaxAttempts)))
         /\ Budgeted(Bounced(item, regenNext(item, MaxRegens)))
         /\ Coherent(Bounced(item, qaFailNext(item, MaxAttempts)))
         /\ Coherent(Bounced(item, regenNext(item, MaxRegens)))
<1> DEFINE Answer(to, attempt, regens) ==
             [to |-> to, attempt |-> attempt, regen_count |-> regens]
<1>1. ASSUME NEW to \in {"drafting", "skipped"}, NEW attempt \in Nat,
             NEW regens \in Nat, regens <= MaxRegens,
             attempt <= MaxAttempts + regens, item.feedback <= attempt,
             to = "drafting" => item.feedback < attempt
      PROVE  /\ Budgeted(Bounced(item, Answer(to, attempt, regens)))
             /\ Coherent(Bounced(item, Answer(to, attempt, regens)))
  BY <1>1 DEF Bounced, Item, Budgeted, Coherent
<1>2. /\ item.attempt \in Nat /\ item.regen_count \in Nat
      /\ item.regen_count <= MaxRegens
      /\ item.attempt <= MaxAttempts + item.regen_count
      /\ item.feedback \in Nat /\ item.feedback <= item.attempt
      /\ MaxAttempts \in Nat /\ MaxRegens \in Nat
  BY ConstantsAssumption DEF Item, Budgeted
<1>3. /\ Budgeted(Bounced(item, qaFailNext(item, MaxAttempts)))
      /\ Coherent(Bounced(item, qaFailNext(item, MaxAttempts)))
  <2>1. CASE item.attempt < MaxAttempts
    <3>1. qaFailNext(item, MaxAttempts)
            = Answer("drafting", item.attempt + 1, item.regen_count)
      BY <2>1 DEF qaFailNext
    <3>2. item.attempt + 1 <= MaxAttempts + item.regen_count
      BY <1>2, <2>1
    <3> HIDE DEF Answer
    <3>3. QED BY <1>1, <1>2, <3>1, <3>2
  <2>2. CASE ~(item.attempt < MaxAttempts)
    <3>1. qaFailNext(item, MaxAttempts)
            = Answer("skipped", item.attempt, item.regen_count)
      BY <2>2 DEF qaFailNext
    <3> HIDE DEF Answer
    <3>2. QED BY <1>1, <1>2, <3>1
  <2>3. QED BY <2>1, <2>2
<1>4. /\ Budgeted(Bounced(item, regenNext(item, MaxRegens)))
      /\ Coherent(Bounced(item, regenNext(item, MaxRegens)))
  <2>1. CASE item.regen_count < MaxRegens
    <3>1. regenNext(item, MaxRegens)
            = Answer("drafting", item.attempt + 1, item.regen_count + 1)
      BY <2>1 DEF regenNext
    <3>2. /\ item.attempt + 1 <= MaxAttempts + (item.regen_count + 1)
          /\ item.regen_count + 1 <= MaxRegens
      BY <1>2, <2>1
    <3> HIDE DEF Answer
    <3>3. QED BY <1>1, <1>2, <3>1, <3>2
  <2>2. CASE ~(item.regen_count < MaxRegens)
    <3>1. regenNext(item, MaxRegens)
            = Answer("skipped", item.attempt, item.regen_count)
      BY <2>2 DEF regenNext
    <3> HIDE DEF Answer
    <3>2. QED BY <1>1, <1>2, <3>1
  <2>3. QED BY <2>1, <2>2
<1>5. QED BY <1>3, <1>4

\* The steps of the planner.
LEMMA PlanItemInv ==
  ASSUME IInv, TargetsApart, NEW w \in Workers, NEW i \in Items, PlanItem(w, i)
  PROVE  IInv'
<1>1. TypeOK' /\ UNCHANGED call
  BY WorkerTypeStep DEF IInv, WorkerStep
<1>2. CASE PlanCheck(w, i) /\ items[i] = Absent
  <2>1. /\ UNCHANGED items
        /\ job[w].stage = "plan" /\ job[w].item = NoItem
        /\ TakeUp(w, i, Shell)
    BY <1>2 DEF PlanCheck, NextTarget
  <2>2. /\ job'[w].stage = "plan" /\ job'[w].item = i
        /\ job'[w].todo = [job[w].todo EXCEPT ![i] = Shell]
        /\ job[w].todo \in [Items -> Item]
    BY <2>1, TakeUpFacts, ConstantItems DEF IInv, TypeOK, Job
  <2>3. \A v \in Workers \ {w} : CopiesOf(v)'
    <3>1. \A v \in Workers \ {w} : job'[v] = job[v]
      BY <2>1 DEF TakeUp, IInv, TypeOK
    <3>2. QED BY <2>1, <3>1, OthersKeepCopies
  <2>4. ASSUME NEW j \in Items, Holds(w, j)'
        PROVE  /\ job'[w].todo[j] = Shell
               /\ job'[w].item = j => items'[j] = Absent
    <3>1. CASE j = i
      BY <1>2, <2>1, <2>2, <3>1
    <3>2. CASE j # i
      BY <2>1, <2>2, <2>4, <3>2 DEF PlannerInv, Holds, IInv
    <3>3. QED BY <3>1, <3>2
  <2>5. PlannerInv' /\ CopiesInv' /\ MiddleInv'
    <3>1. CopiesOf(w)'
      BY <2>2, <2>4, ConstantItems DEF CopiesOf, Holds
    <3>2. QED BY <2>3, <3>1, CopiesJoin
  <2>6. BounceInv' /\ BudgetInv' /\ CoherenceInv'
    BY <1>1, <2>1, WorkerKeepsBounces, ItemwiseInv
  <2>7. CallInv'
    BY <1>1 DEF IInv, CallInv
  <2>8. QED BY <1>1, <2>5, <2>6, <2>7 DEF IInv
<1>3. CASE PlanCheck(w, i) /\ items[i] # Absent
  <2>1. UNCHANGED items /\ job[w].item = NoItem /\ PutDown(w, i)
    BY <1>3 DEF PlanCheck, NextTarget
  <2>2. QED BY <1>1, <2>1, PutDownInv
<1>4. CASE PlanPut(w, i)
  <2>1. items[i].status # "changes_requested"
    BY <1>4 DEF PlanPut, Working, IInv, PlannerInv, MiddleInv, Absent
  <2>2. Budgeted(Shell) /\ Coherent(Shell)
    BY ConstantsAssumption DEF Budgeted, Coherent, Shell
  <2>3. /\ items' = [items EXCEPT ![i] = Shell]
        /\ job[w].item = i /\ InHand(w, i)
        /\ PutDown(w, i)
    BY <1>4 DEF PlanPut, Working, InHand
  <2>4. QED BY <1>1, <2>1, <2>2, <2>3, PutDownInv
<1>5. QED BY <1>2, <1>3, <1>4 DEF PlanItem

\* What a worker knows of a target it has not yet worked on, or is in the
\* middle of.
LEMMA TargetFacts ==
  ASSUME IInv, NEW w \in Workers, NEW i \in Items,
         NEW stage \in {"generate", "render", "qa"},
         NextTarget(w, stage, i) \/ Working(w, stage, i)
  PROVE  /\ items[i] \in Item /\ items[i] = job[w].todo[i]
         /\ Budgeted(items[i]) /\ Coherent(items[i])
         /\ job[w].stage = stage /\ job[w].item \in {NoItem, i}
         /\ InHand(w, i)
         /\ NextTarget(w, stage, i) => job[w].item = NoItem
         /\ Working(w, "generate", i) => items[i].status = "drafting"
         /\ Working(w, "render", i) => items[i].status = "rendering"
         /\ NextTarget(w, "qa", i) => items[i].status = "rendered"
         /\ Working(w, "qa", i) => items[i].status = "qa_failed"
         /\ items[i].status # "changes_requested"
<1>1. Holds(w, i) /\ job[w].stage = stage
  BY DEF NextTarget, Working, Holds, IInv, MiddleInv
<1>2. Current(w, i)
  BY <1>1 DEF IInv, CopiesInv
<1>3. items[i] \in Item /\ Budgeted(items[i]) /\ Coherent(items[i])
  BY DEF IInv, TypeOK, BudgetInv, CoherenceInv
<1>4. QED
  BY <1>1, <1>2, <1>3, ConstantsAssumption DEF Current, NextTarget, Working, InHand

LEMMA ClaimInv ==
  ASSUME IInv, TypeOK', UNCHANGED call, TargetsApart,
         NEW w \in Workers, NEW i \in Items,
         \/ Claim(w, "generate", i, "planned", "drafting")
         \/ Claim(w, "render", i, "drafted", "rendering")
         \/ Resume(w, "generate", i, "drafting")
         \/ Resume(w, "render", i, "rendering")
  PROVE  IInv'
<1>1. ASSUME NEW stage \in {"generate", "render"}, NEW from, NEW to,
             Claim(w, stage, i, from, to),
             \/ stage = "generate" /\ from = "planned" /\ to = "drafting"
             \/ stage = "render" /\ from = "drafted" /\ to = "rendering"
      PROVE  IInv'
  <2> DEFINE updated == [items[i] EXCEPT !.status = to]
  <2>1. NextTarget(w, stage, i)
    BY <1>1 DEF Claim
  <2>2. /\ items[i] \in Item /\ Budgeted(items[i]) /\ Coherent(items[i])
        /\ items[i].status # "changes_requested" /\ InHand(w, i)
        /\ job[w].stage = stage /\ job[w].item = NoItem
    BY <2>1, TargetFacts
  <2>3. CASE CasSucceeds(i, from)
    <3>1. /\ updated \in Item /\ updated.status = to
          /\ Budgeted(updated) /\ Coherent(updated)
      BY <1>1, <2>2, <2>3
      DEF Item, Statuses, Budgeted, Coherent, CasSucceeds
    <3>2. items' = [items EXCEPT ![i] = updated] /\ TakeUp(w, i, updated)
      BY <1>1, <2>3 DEF Claim
    <3> HIDE DEF updated
    <3>3. QED BY <1>1, <2>2, <3>1, <3>2, TakeUpInv
  <2>4. CASE ~CasSucceeds(i, from)
    BY <1>1, <2>2, <2>4, PutDownInv DEF Claim
  <2>5. QED BY <2>3, <2>4
<1>2. ASSUME NEW stage \in {"generate", "render"}, NEW status,
             Resume(w, stage, i, status),
             \/ stage = "generate" /\ status = "drafting"
             \/ stage = "render" /\ status = "rendering"
      PROVE  IInv'
  <2>1. NextTarget(w, stage, i) /\ job[w].todo[i].status = status
    BY <1>2 DEF Resume
  <2>2. /\ items[i] \in Item /\ Budgeted(items[i]) /\ Coherent(items[i])
        /\ items[i].status # "changes_requested" /\ InHand(w, i)
        /\ items[i] = job[w].todo[i]
        /\ job[w].stage = stage /\ job[w].item = NoItem
    BY <2>1, TargetFacts
  <2>3. items' = [items EXCEPT ![i] = items[i]] /\ TakeUp(w, i, items[i])
    BY <1>2, <2>2 DEF Resume, IInv, TypeOK
  <2>4. QED BY <1>2, <2>1, <2>2, <2>3, TakeUpInv
<1>3. QED BY <1>1, <1>2

LEMMA WorkInv ==
  ASSUME IInv, TypeOK', UNCHANGED call, TargetsApart,
         NEW w \in Workers, NEW i \in Items,
         \/ GenerateDraft(w, i) \/ GiveUp(w, "generate", i)
         \/ RenderAssets(w, i) \/ GiveUp(w, "render", i)
  PROVE  IInv'
<1>1. CASE GenerateDraft(w, i)
  <2> DEFINE updated == [items[i] EXCEPT !.status  = "drafted",
                                         !.caption = job[w].todo[i].attempt]
  <2>1. /\ items[i] \in Item /\ items[i] = job[w].todo[i]
        /\ Budgeted(items[i]) /\ Coherent(items[i]) /\ job[w].item = i
        /\ InHand(w, i)
        /\ items[i].status = "drafting"
    BY <1>1, TargetFacts DEF GenerateDraft, Working
  <2>2. Budgeted(updated) /\ Coherent(updated)
    BY <2>1 DEF Item, Budgeted, Coherent
  <2>3. items' = items \/ items' = [items EXCEPT ![i] = updated]
    BY <1>1 DEF GenerateDraft
  <2> HIDE DEF updated
  <2>4. QED BY <1>1, <2>1, <2>2, <2>3, PutDownInv DEF GenerateDraft
<1>2. CASE RenderAssets(w, i)
  <2> DEFINE updated == [items[i] EXCEPT !.status = "rendered",
                                         !.assets = job[w].todo[i].caption]
  <2>1. /\ items[i] \in Item /\ items[i] = job[w].todo[i]
        /\ Budgeted(items[i]) /\ Coherent(items[i]) /\ job[w].item = i
        /\ InHand(w, i)
        /\ items[i].status = "rendering"
    BY <1>2, TargetFacts DEF RenderAssets, Working
  <2>2. Budgeted(updated) /\ Coherent(updated)
    BY <2>1 DEF Item, Budgeted, Coherent
  <2>3. items' = items \/ items' = [items EXCEPT ![i] = updated]
    BY <1>2 DEF RenderAssets
  <2> HIDE DEF updated
  <2>4. QED BY <1>2, <2>1, <2>2, <2>3, PutDownInv DEF RenderAssets
<1>3. CASE GiveUp(w, "generate", i) \/ GiveUp(w, "render", i)
  BY <1>3, PutDownInv DEF GiveUp, Working
<1>4. QED BY <1>1, <1>2, <1>3

LEMMA QaItemInv ==
  ASSUME IInv, TypeOK', UNCHANGED call, TargetsApart,
         NEW w \in Workers, NEW i \in Items, QaItem(w, i)
  PROVE  IInv'
<1>1. /\ items[i] \in Item /\ items[i] = job[w].todo[i]
      /\ Budgeted(items[i]) /\ Coherent(items[i])
      /\ items[i].status # "changes_requested" /\ InHand(w, i)
      /\ job[w].stage = "qa" /\ job[w].item \in {NoItem, i}
  BY TargetFacts DEF QaItem, QaPass, QaFail, QaBounce, QaError
<1>2. CASE QaPass(w, i)
  <2> DEFINE updated == [items[i] EXCEPT !.status = "pending_review",
                                         !.lint = job[w].todo[i].caption]
  <2>1. items[i].status = "rendered"
    BY <1>2, TargetFacts DEF QaPass
  <2>2. Budgeted(updated) /\ Coherent(updated)
    BY <1>1, <2>1 DEF Item, Budgeted, Coherent
  <2>3. items' = items \/ items' = [items EXCEPT ![i] = updated]
    BY <1>2 DEF QaPass
  <2> HIDE DEF updated
  <2>4. QED BY <1>1, <1>2, <2>2, <2>3, PutDownInv DEF QaPass
<1>3. CASE QaFail(w, i)
  <2> DEFINE updated == [items[i] EXCEPT !.status = "qa_failed",
                                         !.lint = job[w].todo[i].caption]
  <2>0. items[i].status = "rendered"
    BY <1>3, TargetFacts DEF QaFail
  <2>1. updated \in Item /\ updated.status = "qa_failed"
        /\ Budgeted(updated) /\ Coherent(updated)
    BY <1>1, <2>0 DEF Item, Statuses, Budgeted, Coherent
  <2>2. job[w].item = NoItem
    BY <1>3 DEF QaFail, NextTarget
  <2>3. \/ items' = [items EXCEPT ![i] = updated] /\ TakeUp(w, i, updated)
        \/ UNCHANGED items /\ PutDown(w, i)
    BY <1>3 DEF QaFail
  <2> HIDE DEF updated
  <2>4. QED BY <1>1, <2>1, <2>2, <2>3, TakeUpInv, PutDownInv
<1>4. CASE QaBounce(w, i)
  <2> DEFINE updated == Bounced(items[i], qaFailNext(items[i], MaxAttempts))
  <2>1. Budgeted(updated) /\ Coherent(updated)
    BY <1>1, BouncedFacts DEF Coherent
  <2>2. items' = items \/ items' = [items EXCEPT ![i] = updated]
    BY <1>1, <1>4 DEF QaBounce
  <2> HIDE DEF updated
  <2>3. QED BY <1>1, <1>4, <2>1, <2>2, PutDownInv DEF QaBounce
<1>5. CASE QaError(w, i)
  BY <1>1, <1>5, PutDownInv DEF QaError
<1>6. QED BY <1>2, <1>3, <1>4, <1>5 DEF QaItem

LEMMA WorkerInv ==
  ASSUME IInv, TargetsApart, NEW w \in Workers, WorkerStep(w)
  PROVE  IInv'
<1>1. TypeOK' /\ UNCHANGED call
  BY WorkerTypeStep DEF IInv
<1>2. QED
  BY <1>1, StartInv, PlanItemInv, ClaimInv, WorkInv, QaItemInv
  DEF WorkerStep, GenerateItem, RenderItem

-----------------------------------------------------------------------------
(* The steps of a call *)

\* A call that changes one item, and itself into `next`.
LEMMA CallChangeInv ==
  ASSUME IInv, TypeOK', CallInv', UNCHANGED job, NEW c \in Callers,
         NEW i \in Items, NEW new,
         \/ items' = items
         \/ /\ items' = [items EXCEPT ![i] = new]
            /\ items[i].status \in {"pending_review", "changes_requested"}
            /\ items[i].status = "changes_requested"
                 => Bouncing(c) /\ call[c].item = i
            /\ Budgeted(new) /\ Coherent(new),
         \A d \in Callers \ {c} : call'[d] = call[d],
         Bouncing(c)' =>
           /\ call'[c].item \in Items
           /\ items'[call'[c].item] = call'[c].copy
           /\ call'[c].copy.status = "changes_requested"
           /\ \/ items[call'[c].item].status = "pending_review"
              \/ Bouncing(c) /\ call'[c].item = call[c].item
  PROVE  IInv'
<1>1. /\ \A j \in Items \ {i} : items'[j] = items[j]
      /\ \/ items'[i] = items[i]
         \/ /\ items[i].status \in {"pending_review", "changes_requested"}
            /\ items[i].status = "changes_requested"
                 => Bouncing(c) /\ call[c].item = i
            /\ Budgeted(items'[i]) /\ Coherent(items'[i])
  BY DEF IInv, TypeOK
<1>2. PlannerInv' /\ CopiesInv' /\ MiddleInv'
  BY <1>1, CallKeepsCopies
<1>3. BudgetInv' /\ CoherenceInv'
  BY <1>1, ItemwiseInv
<1>4. ASSUME NEW d \in Callers \ {c}, Bouncing(d)'
      PROVE  /\ Bouncing(d) /\ call'[d] = call[d]
             /\ call[d].item \in Items
             /\ items[call[d].item] = call[d].copy
             /\ call[d].copy.status = "changes_requested"
             /\ items'[call[d].item] = items[call[d].item]
             /\ Bouncing(c)' => call'[c].item # call[d].item
  <2>1. Bouncing(d) /\ call'[d] = call[d]
    BY <1>4 DEF Bouncing
  <2>2. /\ call[d].item \in Items
        /\ items[call[d].item] = call[d].copy
        /\ call[d].copy.status = "changes_requested"
        /\ Bouncing(c) => call[c].item # call[d].item
    BY <2>1 DEF IInv, BounceInv
  <2>3. QED BY <1>1, <2>1, <2>2
<1>5. BounceInv'
  <2>1. ASSUME NEW d \in Callers, Bouncing(d)'
        PROVE  /\ call'[d].item \in Items
               /\ items'[call'[d].item] = call'[d].copy
               /\ call'[d].copy.status = "changes_requested"
    BY <1>4, <2>1
  <2>2. ASSUME NEW d \in Callers, NEW e \in Callers, Bouncing(d)',
               Bouncing(e)', call'[d].item = call'[e].item
        PROVE  d = e
    <3>1. CASE d # c /\ e # c
      BY <1>4, <2>2, <3>1 DEF IInv, BounceInv
    <3>2. CASE d = c \/ e = c
      BY <1>4, <2>2, <3>2
    <3>3. QED BY <3>1, <3>2
  <2>3. QED BY <2>1, <2>2 DEF BounceInv
<1>6. QED BY <1>2, <1>3, <1>5 DEF IInv

\* An item that leaves review is no card any more, and a decision does not touch
\* the counters.
LEMMA DecidedFacts ==
  ASSUME NEW item \in Item, Budgeted(item), Coherent(item), NEW decision,
         item.status = "pending_review",
         NEW status \in {"approved", "changes_requested", "skipped"}
  PROVE  /\ Budgeted(Decided(item, decision, status))
         /\ Coherent(Decided(item, decision, status))
         /\ Decided(item, decision, status).status = status
BY DEF Decided, Item, OwnerText, Budgeted, Coherent

\* A call that ends, or goes on skipping siblings, is bouncing nothing.
LEMMA ReturnFacts ==
  ASSUME TypeOK, NEW c \in Callers, NEW rest, Return(c) \/ SkipRest(c, rest)
  PROVE  /\ \A d \in Callers \ {c} : call'[d] = call[d]
         /\ ~Bouncing(c)'
BY DEF Return, SkipRest, Bouncing, IdleCall, TypeOK, Call

LEMMA CallInvStep ==
  ASSUME IInv, NEW c \in Callers, BeginCall(c) \/ CallStep(c)
  PROVE  IInv'
<1>1. TypeOK' /\ CallInv' /\ TypeOK
  BY CallTypeStep DEF IInv
<1>2. \A j \in Items : items[j] \in Item /\ Budgeted(items[j]) /\ Coherent(items[j])
  BY DEF IInv, TypeOK, BudgetInv, CoherenceInv
<1>3. ASSUME NEW i \in Items, NEW decision \in VALID_DECISIONS,
             Decide(c, i, decision)
      PROVE  IInv'
  <2> DEFINE status  == STATUS_FOR_DECISION[decision]
             updated == Decided(items[i], decision, status)
             next    == [step |-> "record", item |-> i, copy |-> updated,
                         decision |-> decision, todo |-> {}]
  <2>1. /\ status \in {"approved", "changes_requested", "skipped"}
        /\ decision = "changes_requested" => status = "changes_requested"
    BY DEF STATUS_FOR_DECISION, VALID_DECISIONS
  <2>2. /\ items[i].status = "pending_review"
        /\ items' = [items EXCEPT ![i] = updated]
        /\ call' = [call EXCEPT ![c] = next]
        /\ UNCHANGED job
    BY <1>3 DEF Decide, CasSucceeds
  <2> HIDE DEF status
  <2>3. Budgeted(updated) /\ Coherent(updated) /\ updated.status = status
    BY <1>2, <2>1, <2>2, DecidedFacts
  <2> HIDE DEF updated
  <2>4. /\ call'[c] = next
        /\ \A d \in Callers \ {c} : call'[d] = call[d]
        /\ items'[i] = updated
    BY <1>1, <2>2 DEF TypeOK
  <2>5. Bouncing(c)' => /\ call'[c].item = i
                        /\ items'[i] = call'[c].copy
                        /\ call'[c].copy.status = "changes_requested"
    BY <2>1, <2>3, <2>4 DEF Bouncing
  <2> HIDE DEF next
  <2>6. QED BY <1>1, <2>2, <2>3, <2>4, <2>5, CallChangeInv
<1>4. CASE Record(c)
  <2>1. call[c].item \in Items /\ call[c].step = "record" /\ call[c] \in Call
    BY <1>4 DEF Record, IInv, CallInv, TypeOK
  <2>2. UNCHANGED <<items, job>>
    BY <1>4 DEF Record
  <2>3. /\ \A d \in Callers \ {c} : call'[d] = call[d]
        /\ Bouncing(c)' => /\ Bouncing(c)
                           /\ call'[c].item = call[c].item
                           /\ call'[c].copy = call[c].copy
    <3>1. CASE call[c].decision \in {"approved", "edited"}
      <4>1. call' = [call EXCEPT ![c].step = "list"]
        BY <1>4, <3>1 DEF Record, Proceed
      <4>2. QED BY <1>1, <2>1, <4>1 DEF Bouncing, TypeOK, Call
    <3>2. CASE call[c].decision = "changes_requested"
      <4>1. call' = [call EXCEPT ![c].step = "bounce"]
        BY <1>4, <3>2 DEF Record, Proceed
      <4>2. QED BY <1>1, <2>1, <3>2, <4>1 DEF Bouncing, TypeOK, Call
    <3>3. CASE call[c].decision = "rejected"
      <4>1. Return(c)
        BY <1>4, <3>3 DEF Record
      <4>2. QED BY <1>1, <4>1, ReturnFacts
    <3>4. QED BY <2>1, <3>1, <3>2, <3>3
              DEF Call, VALID_DECISIONS, STATUS_FOR_DECISION
  <2>4. Bouncing(c)' => /\ items'[call'[c].item] = call'[c].copy
                        /\ call'[c].copy.status = "changes_requested"
    BY <2>2, <2>3 DEF IInv, BounceInv
  <2>5. QED BY <1>1, <2>1, <2>2, <2>3, <2>4, CallChangeInv
<1>5. CASE ListSiblings(c)
  <2> DEFINE siblings == {s \in Items \ {call[c].item} :
                            /\ items[s].status = "pending_review"
                            /\ Group[s] = Group[call[c].item]}
  <2>1. call[c].item \in Items /\ UNCHANGED <<items, job>>
    BY <1>5 DEF ListSiblings, IInv, CallInv
  <2>2. SkipRest(c, siblings)
    BY <1>5 DEF ListSiblings, SkipRest
  <2> HIDE DEF siblings
  <2>3. QED BY <1>1, <2>1, <2>2, ReturnFacts, CallChangeInv
<1>6. ASSUME NEW s \in Items, SkipSibling(c, s)
      PROVE  IInv'
  <2> DEFINE updated == [items[s] EXCEPT !.status = "skipped"]
             next    == [call[c] EXCEPT !.step = "recordSkip", !.item = s,
                                        !.copy = updated]
  <2>1. UNCHANGED job
    BY <1>6 DEF SkipSibling
  <2>2. CASE CasSucceeds(s, "pending_review")
    <3>1. Budgeted(updated) /\ Coherent(updated)
      BY <1>2, <2>2 DEF Item, Budgeted, Coherent, CasSucceeds
    <3>2. items' = [items EXCEPT ![s] = updated]
          /\ call' = [call EXCEPT ![c] = next]
      BY <1>6, <2>2 DEF SkipSibling
    <3>3. items[s].status = "pending_review"
      BY <2>2 DEF CasSucceeds
    <3> HIDE DEF updated
    <3>4. next.step = "recordSkip"
      BY <1>1 DEF TypeOK, Call
    <3> HIDE DEF next
    <3>5. ~Bouncing(c)' /\ \A d \in Callers \ {c} : call'[d] = call[d]
      BY <1>1, <3>2, <3>4 DEF Bouncing, TypeOK
    <3>6. QED BY <1>1, <2>1, <3>1, <3>2, <3>3, <3>5, CallChangeInv
  <2>3. CASE ~CasSucceeds(s, "pending_review")
    <3>1. SkipRest(c, call[c].todo \ {s}) /\ UNCHANGED items
      BY <1>6, <2>3 DEF SkipSibling
    <3>2. QED BY <1>1, <2>1, <3>1, ReturnFacts, CallChangeInv
  <2>4. QED BY <2>2, <2>3
<1>7. CASE RecordSkip(c)
  <2>1. /\ call[c].item \in Items /\ UNCHANGED <<items, job>>
        /\ SkipRest(c, call[c].todo \ {call[c].item})
    BY <1>7 DEF RecordSkip, IInv, CallInv
  <2>2. QED BY <1>1, <2>1, ReturnFacts, CallChangeInv
<1>8. CASE BounceCall(c)
  <2> DEFINE i       == call[c].item
             updated == Bounced(items[i], regenNext(items[i], MaxRegens))
  <2>1. Bouncing(c) /\ Return(c) /\ UNCHANGED job
    BY <1>8 DEF BounceCall, Bouncing
  <2>2. i \in Items /\ items[i] = call[c].copy
        /\ items[i].status = "changes_requested"
    BY <2>1 DEF IInv, BounceInv
  <2>3. Budgeted(updated) /\ Coherent(updated)
    BY <1>2, <2>2, BouncedFacts DEF Coherent
  <2>4. items' = items \/ items' = [items EXCEPT ![i] = updated]
    BY <1>8, <2>2 DEF BounceCall
  <2> HIDE DEF updated
  <2>5. QED BY <1>1, <2>1, <2>2, <2>3, <2>4, ReturnFacts, CallChangeInv
<1>9. ASSUME NEW i \in Items, NEW verb \in DOMAIN Verbs,
             CliRecord(c, i, verb)
      PROVE  IInv'
  <2>1. /\ UNCHANGED <<items, job>>
        /\ ~Bouncing(c)'
        /\ \A d \in Callers \ {c} : call'[d] = call[d]
    BY <1>1, <1>9 DEF CliRecord, Bouncing, TypeOK
  <2>2. QED BY <1>1, <2>1, CallChangeInv
<1>10. ASSUME NEW verb \in DOMAIN Verbs, CliMove(c, verb)
       PROVE  IInv'
  <2> DEFINE i       == call[c].item
             updated == Decided(items[i], Verbs[verb].decision, Verbs[verb].to)
             next    == [call[c] EXCEPT !.step = "bounce", !.copy = updated]
  <2>1. i \in Items /\ UNCHANGED job /\ call[c].step = "move"
    BY <1>10 DEF CliMove, IInv, CallInv
  <2>2. CASE CasSucceeds(i, "pending_review")
    <3>1. Budgeted(updated) /\ Coherent(updated) /\ updated.status = Verbs[verb].to
      BY <1>2, <2>1, <2>2, DecidedFacts DEF Verbs, CasSucceeds
    <3>2. /\ items' = [items EXCEPT ![i] = updated]
          /\ items[i].status = "pending_review"
          /\ IF verb = "regen" THEN call' = [call EXCEPT ![c] = next]
                               ELSE Return(c)
      BY <1>10, <2>2 DEF CliMove, CasSucceeds
    <3>3. verb = "regen" => updated.status = "changes_requested"
      BY <3>1 DEF Verbs
    <3> HIDE DEF updated
    <3>4. next.item = i /\ next.copy = updated
      BY <1>1 DEF TypeOK, Call
    <3> HIDE DEF next
    <3>5. CASE verb = "regen"
      <4>1. /\ call'[c] = next
            /\ \A d \in Callers \ {c} : call'[d] = call[d]
            /\ items'[i] = updated
        BY <1>1, <2>1, <3>2, <3>5 DEF TypeOK
      <4>2. QED BY <1>1, <2>1, <3>1, <3>2, <3>3, <3>4, <3>5, <4>1, CallChangeInv
    <3>6. CASE verb # "regen"
      BY <1>1, <2>1, <3>1, <3>2, <3>6, ReturnFacts, CallChangeInv
    <3>7. QED BY <3>5, <3>6
  <2>3. CASE ~CasSucceeds(i, "pending_review")
    BY <1>1, <1>10, <2>1, <2>3, ReturnFacts, CallChangeInv DEF CliMove
  <2>4. QED BY <2>2, <2>3
<1>11. QED
  BY <1>3, <1>4, <1>5, <1>6, <1>7, <1>8, <1>9, <1>10 DEF BeginCall, CallStep

-----------------------------------------------------------------------------
(* Deaths, and the theorems *)

LEMMA CrashInv ==
  ASSUME IInv, Crash
  PROVE  IInv'
<1>1. TypeOK' /\ CallInv' /\ UNCHANGED items
  BY CrashTypeStep DEF IInv, Crash
<1>2. BudgetInv' /\ CoherenceInv'
  BY <1>1, ItemwiseInv
<1>3. ASSUME NEW w \in Workers, job' = [job EXCEPT ![w] = IdleJob],
             UNCHANGED call
      PROVE  IInv'
  <2>1. /\ job'[w] = IdleJob
        /\ \A v \in Workers \ {w} : job'[v] = job[v]
    BY <1>3 DEF IInv, TypeOK
  <2>2. PlannerInv' /\ CopiesInv' /\ MiddleInv'
    BY <1>1, <2>1, ConstantsAssumption
    DEF IInv, PlannerInv, CopiesInv, MiddleInv, Current, Holds, IdleJob, NoTodo
  <2>3. BounceInv'
    BY <1>1, <1>3, WorkerKeepsBounces
  <2>4. QED BY <1>1, <1>2, <2>2, <2>3 DEF IInv
<1>4. ASSUME NEW c \in Callers, Return(c), UNCHANGED job
      PROVE  IInv'
  <2>1. PlannerInv' /\ CopiesInv' /\ MiddleInv'
    BY <1>1, <1>4, CallKeepsCopies
  <2>2. /\ ~Bouncing(c)'
        /\ \A d \in Callers \ {c} :
             call'[d] = call[d] /\ (Bouncing(d)' => Bouncing(d))
    BY <1>4, ReturnFacts DEF IInv, Bouncing
  <2>3. BounceInv'
    BY <1>1, <2>2 DEF IInv, BounceInv
  <2>4. QED BY <1>1, <1>2, <2>1, <2>3 DEF IInv
<1>5. QED BY <1>3, <1>4 DEF Crash

\* The inductive invariant holds of every reachable state.
LEMMA InvariantHolds == Spec /\ []TargetsApart => []IInv
<1>1. Init => IInv
  <2> SUFFICES ASSUME Init PROVE IInv
    OBVIOUS
  <2>1. TypeOK /\ CallInv
    BY ConstantItems, IdleTypes, ConstantsAssumption
    DEF Init, TypeOK, CallInv, IdleCall
  <2>2. PlannerInv /\ CopiesInv /\ MiddleInv
    BY ConstantsAssumption
    DEF Init, PlannerInv, CopiesInv, MiddleInv, Holds, IdleJob, NoTodo
  <2>3. BounceInv
    BY DEF Init, BounceInv, Bouncing, IdleCall
  <2>4. BudgetInv /\ CoherenceInv
    BY ConstantsAssumption
    DEF Init, BudgetInv, CoherenceInv, Budgeted, Coherent, Absent
  <2>5. QED BY <2>1, <2>2, <2>3, <2>4 DEF IInv
<1>2. IInv /\ TargetsApart /\ [Next]_vars => IInv'
  <2> SUFFICES ASSUME IInv, TargetsApart, [Next]_vars PROVE IInv'
    OBVIOUS
  <2>1. CASE UNCHANGED vars
    BY <2>1 DEF vars, IInv, TypeOK, PlannerInv, CopiesInv, MiddleInv,
                BounceInv, CallInv, BudgetInv, CoherenceInv, Current, Holds,
                Bouncing, Budgeted, Coherent
  <2>2. QED BY <2>1, WorkerInv, CallInvStep, CrashInv DEF Next
<1>3. QED BY <1>1, <1>2, PTL DEF Spec

\* Unless two runs of one stage share a target, the owner never sees a card
\* whose caption, assets and lint report belong to different rounds, whichever
\* stages run side by side, whoever decides and whoever dies in between (the
\* patches of generate.mjs, render.mjs and qa.mjs).
THEOREM CardsCoherent == Spec /\ []TargetsApart => []CardIsCoherent
<1>1. IInv => CardIsCoherent
  BY DEF IInv, CoherenceInv, Coherent, CardIsCoherent, TypeOK, Item
<1>2. QED BY <1>1, InvariantHolds, PTL

\* Unless two runs of one stage share a target, the counters that qa.mjs,
\* decide() and the CLI patch from copies never exceed the redraft budget.
THEOREM AttemptsBounded == Spec /\ []TargetsApart => []AttemptBudget
<1>1. IInv => AttemptBudget
  BY DEF IInv, BudgetInv, Budgeted, AttemptBudget, LC!RedraftBudget
<1>2. QED BY <1>1, InvariantHolds, PTL

\* The finding that a redraft may not answer its feedback needs two runs of
\* generate on one item: without, what comes back to review was written for a
\* round after the owner's feedback (copywriterRequest in generate.mjs).
LEMMA RedraftsAnswer == Spec /\ []TargetsApart => []RedraftAnswersFeedback
<1>1. IInv => RedraftAnswersFeedback
  BY DEF IInv, CoherenceInv, Coherent, RedraftAnswersFeedback
<1>2. QED BY <1>1, InvariantHolds, PTL

-----------------------------------------------------------------------------
(***************************************************************************)
(* Unless two runs of one stage share a target, Pipeline implements        *)
(* Lifecycle: each of its steps is, on every item's status and counters,   *)
(* one step of Lifecycle or none.  What Lifecycle promises therefore holds *)
(* of the code's interleavings: LifecycleProofs' budget is one consequence.*)
(***************************************************************************)

\* What Lifecycle sees of an item.
View(item) == [status      |-> item.status,
               attempt     |-> item.attempt,
               regen_count |-> item.regen_count]

LifeOf == [i \in Items |-> View(items[i])]

\* One item moves from the view before to the view after by the table.
Advances(before, after) ==
  /\ before.status \notin {"qa_failed", "changes_requested"}
  /\ after.status \in Statuses
  /\ canTransition(before.status, after.status)
  /\ after.attempt = before.attempt
  /\ after.regen_count = before.regen_count

\* Lifecycle's table and policies are the ones Pipeline uses.
LEMMA SameStateMachine ==
  /\ LC!Statuses = Statuses
  /\ \A from, to : canTransition(from, to) => LC!canTransition(from, to)
<1>1. LC!Statuses = Statuses /\ LC!TRANSITIONS = TRANSITIONS
  BY DEF LC!Statuses, Statuses, LC!TRANSITIONS, TRANSITIONS
<1>2. QED BY <1>1 DEF canTransition, LC!canTransition

LEMMA SamePolicies ==
  ASSUME NEW item \in Item
  PROVE  /\ LC!qaFailNext(View(item), MaxAttempts) = qaFailNext(item, MaxAttempts)
         /\ LC!regenNext(View(item), MaxRegens) = regenNext(item, MaxRegens)
<1>1. View(item).attempt = item.attempt
      /\ View(item).regen_count = item.regen_count
  BY DEF View
<1>2. QED BY <1>1 DEF LC!qaFailNext, LC!regenNext, qaFailNext, regenNext

\* What Lifecycle sees of a policy's answer.
LEMMA BouncedView ==
  ASSUME NEW item \in Item, NEW next
  PROVE  View(Bounced(item, next)) = [status      |-> next.to,
                                      attempt     |-> next.attempt,
                                      regen_count |-> next.regen_count]
BY DEF View, Bounced, Item

\* A step that changes one item as Lifecycle allows is one of its steps.
LEMMA LifeStep ==
  ASSUME TypeOK, NEW i \in Items, NEW new \in Item,
         items' = [items EXCEPT ![i] = new],
         \/ items[i] = Absent /\ new = Shell
         \/ Advances(items[i], new)
         \/ items[i].status = "qa_failed"
              /\ new = Bounced(items[i], qaFailNext(items[i], MaxAttempts))
         \/ items[i].status = "changes_requested"
              /\ new = Bounced(items[i], regenNext(items[i], MaxRegens))
  PROVE  LC!LifeNext
<1>1. LifeOf' = [LifeOf EXCEPT ![i] = View(new)]
  BY DEF LifeOf, View, TypeOK
<1>2. LifeOf[i] = View(items[i]) /\ items[i] \in Item
  BY DEF LifeOf, TypeOK
<1>3. /\ LifeOf = [j \in Items |-> [status      |-> items[j].status,
                                    attempt     |-> items[j].attempt,
                                    regen_count |-> items[j].regen_count]]
      /\ LifeOf' = [j \in Items |-> [status      |-> items'[j].status,
                                     attempt     |-> items'[j].attempt,
                                     regen_count |-> items'[j].regen_count]]
  BY DEF LifeOf, View
<1> HIDE DEF LifeOf
<1>4. CASE items[i] = Absent /\ new = Shell
  <2>1. View(new) = LC!Newborn /\ View(items[i]).status = "absent"
    BY <1>4 DEF View, Shell, Absent, LC!Newborn
  <2>2. LC!Create(i)
    BY <1>1, <1>2, <1>3, <2>1 DEF LC!Create
  <2>3. QED BY <2>2 DEF LC!LifeNext
<1>5. CASE Advances(items[i], new)
  <2>1. View(new) = [View(items[i]) EXCEPT !.status = new.status]
    BY <1>2, <1>5 DEF View, Advances, Item
  <2>2. /\ View(items[i]).status = items[i].status
        /\ new.status \in LC!Statuses
    BY <1>5, SameStateMachine DEF View, Advances
  <2>3. LC!Advance(i, new.status)
    BY <1>1, <1>2, <1>3, <1>5, <2>1, <2>2, SameStateMachine
    DEF Advances, LC!Advance
  <2>4. QED BY <2>2, <2>3 DEF LC!LifeNext
<1>6. CASE /\ items[i].status = "qa_failed"
           /\ new = Bounced(items[i], qaFailNext(items[i], MaxAttempts))
  <2> DEFINE next == qaFailNext(items[i], MaxAttempts)
  <2>1. /\ LC!qaFailNext(LifeOf[i], MaxAttempts) = next
        /\ LifeOf[i].status = "qa_failed"
    BY <1>2, <1>6, SamePolicies DEF View
  <2>2. View(new) = [status |-> next.to, attempt |-> next.attempt,
                     regen_count |-> next.regen_count]
    BY <1>2, <1>6, BouncedView
  <2>3. LC!Bounce(i)
    BY <1>1, <1>3, <2>1, <2>2 DEF LC!Bounce
  <2>4. QED BY <2>3 DEF LC!LifeNext
<1>7. CASE /\ items[i].status = "changes_requested"
           /\ new = Bounced(items[i], regenNext(items[i], MaxRegens))
  <2> DEFINE next == regenNext(items[i], MaxRegens)
  <2>1. /\ LC!regenNext(LifeOf[i], MaxRegens) = next
        /\ LifeOf[i].status = "changes_requested"
    BY <1>2, <1>7, SamePolicies DEF View
  <2>2. View(new) = [status |-> next.to, attempt |-> next.attempt,
                     regen_count |-> next.regen_count]
    BY <1>2, <1>7, BouncedView
  <2>3. LC!Bounce(i)
    BY <1>1, <1>3, <2>1, <2>2 DEF LC!Bounce
  <2>4. QED BY <2>3 DEF LC!LifeNext
<1>8. QED BY <1>4, <1>5, <1>6, <1>7

-----------------------------------------------------------------------------
(* Every step of Pipeline is such a step, or leaves the items alone. *)

\* A target's new record, when a stage moves it by the table.
LEMMA StageAdvances ==
  ASSUME NEW item \in Item, NEW status \in Statuses, NEW new \in Item,
         item.status \notin {"qa_failed", "changes_requested"},
         canTransition(item.status, status), new.status = status,
         new.attempt = item.attempt, new.regen_count = item.regen_count
  PROVE  Advances(item, new)
BY DEF Advances

LEMMA TableSteps ==
  /\ canTransition("planned", "drafting")
  /\ canTransition("drafted", "rendering")
  /\ canTransition("drafting", "drafted")
  /\ canTransition("rendering", "rendered")
  /\ canTransition("rendered", "pending_review")
  /\ canTransition("rendered", "qa_failed")
  /\ canTransition("pending_review", "approved")
  /\ canTransition("pending_review", "changes_requested")
  /\ canTransition("pending_review", "skipped")
  /\ {"drafting", "rendering", "drafted", "rendered", "pending_review",
      "qa_failed", "approved", "changes_requested", "skipped"} \subseteq Statuses
BY DEF canTransition, TRANSITIONS, Statuses

LEMMA WorkerRefines ==
  ASSUME IInv, NEW w \in Workers, WorkerStep(w)
  PROVE  UNCHANGED items \/ LC!LifeNext
<1>1. TypeOK
  BY DEF IInv
<1>2. \A i \in Items : items[i] \in Item
  BY <1>1 DEF TypeOK
<1>3. CASE StartPlan(w) \/ \E stage \in DOMAIN Scans : StartStage(w, stage)
  BY <1>3 DEF StartPlan, StartStage
<1>4. ASSUME NEW i \in Items, PlanItem(w, i)
      PROVE  UNCHANGED items \/ LC!LifeNext
  <2>1. CASE PlanCheck(w, i)
    BY <2>1 DEF PlanCheck
  <2>2. CASE PlanPut(w, i)
    <3>1. items[i] = Absent
      BY <2>2 DEF PlanPut, Working, IInv, MiddleInv, PlannerInv
    <3>2. items' = [items EXCEPT ![i] = Shell]
      BY <2>2 DEF PlanPut
    <3>3. QED BY <1>1, <3>1, <3>2, LifeStep, ConstantItems
  <2>3. QED BY <1>4, <2>1, <2>2 DEF PlanItem
<1>5. ASSUME NEW i \in Items, NEW stage, NEW from, NEW to \in Statuses,
             Claim(w, stage, i, from, to), canTransition(from, to),
             from \notin {"qa_failed", "changes_requested"}
      PROVE  UNCHANGED items \/ LC!LifeNext
  <2> DEFINE new == [items[i] EXCEPT !.status = to]
  <2>1. CASE CasSucceeds(i, from)
    <3>1. /\ new \in Item /\ new.status = to
          /\ new.attempt = items[i].attempt
          /\ new.regen_count = items[i].regen_count
      BY <1>2 DEF Item
    <3>2. items' = [items EXCEPT ![i] = new] /\ items[i].status = from
      BY <1>5, <2>1 DEF Claim, CasSucceeds
    <3> HIDE DEF new
    <3>3. QED BY <1>1, <1>2, <1>5, <3>1, <3>2, StageAdvances, LifeStep
  <2>2. CASE ~CasSucceeds(i, from)
    BY <1>5, <2>2 DEF Claim
  <2>3. QED BY <2>1, <2>2
<1>6. ASSUME NEW i \in Items, NEW stage, NEW status,
             Resume(w, stage, i, status) \/ GiveUp(w, stage, i) \/ QaError(w, i)
      PROVE  UNCHANGED items
  BY <1>6 DEF Resume, GiveUp, QaError
<1>7. ASSUME NEW i \in Items, GenerateDraft(w, i)
      PROVE  UNCHANGED items \/ LC!LifeNext
  <2> DEFINE new == [items[i] EXCEPT !.status  = "drafted",
                                     !.caption = job[w].todo[i].attempt]
  <2>1. items[i].status = "drafting" /\ items[i] = job[w].todo[i]
    BY <1>7, TargetFacts DEF GenerateDraft
  <2>2. /\ new \in Item /\ new.status = "drafted"
        /\ new.attempt = items[i].attempt
        /\ new.regen_count = items[i].regen_count
    BY <1>2, <2>1, TableSteps DEF Item
  <2>3. UNCHANGED items \/ items' = [items EXCEPT ![i] = new]
    BY <1>7 DEF GenerateDraft
  <2> HIDE DEF new
  <2>4. QED
    BY <1>1, <1>2, <2>1, <2>2, <2>3, TableSteps, StageAdvances, LifeStep
<1>8. ASSUME NEW i \in Items, RenderAssets(w, i)
      PROVE  UNCHANGED items \/ LC!LifeNext
  <2> DEFINE new == [items[i] EXCEPT !.status = "rendered",
                                     !.assets = job[w].todo[i].caption]
  <2>1. items[i].status = "rendering" /\ items[i] = job[w].todo[i]
    BY <1>8, TargetFacts DEF RenderAssets
  <2>2. /\ new \in Item /\ new.status = "rendered"
        /\ new.attempt = items[i].attempt
        /\ new.regen_count = items[i].regen_count
    BY <1>2, <2>1, TableSteps DEF Item
  <2>3. UNCHANGED items \/ items' = [items EXCEPT ![i] = new]
    BY <1>8 DEF RenderAssets
  <2> HIDE DEF new
  <2>4. QED
    BY <1>1, <1>2, <2>1, <2>2, <2>3, TableSteps, StageAdvances, LifeStep
<1>9. ASSUME NEW i \in Items, NEW status \in {"pending_review", "qa_failed"},
             NextTarget(w, "qa", i),
             \/ UNCHANGED items
             \/ items' = [items EXCEPT ![i] =
                  [items[i] EXCEPT !.status = status,
                                   !.lint = job[w].todo[i].caption]]
      PROVE  UNCHANGED items \/ LC!LifeNext
  <2> DEFINE new == [items[i] EXCEPT !.status = status,
                                     !.lint = job[w].todo[i].caption]
  <2>1. items[i].status = "rendered" /\ items[i] = job[w].todo[i]
    BY <1>9, TargetFacts
  <2>2. /\ new \in Item /\ new.status = status
        /\ new.attempt = items[i].attempt
        /\ new.regen_count = items[i].regen_count
    BY <1>2, <2>1, TableSteps DEF Item
  <2>3. UNCHANGED items \/ items' = [items EXCEPT ![i] = new]
    BY <1>9
  <2> HIDE DEF new
  <2>4. QED
    BY <1>1, <1>2, <2>1, <2>2, <2>3, TableSteps, StageAdvances, LifeStep
<1>10. ASSUME NEW i \in Items, QaPass(w, i) \/ QaFail(w, i)
       PROVE  UNCHANGED items \/ LC!LifeNext
  <2>1. CASE QaPass(w, i)
    BY <1>9, <2>1 DEF QaPass
  <2>2. CASE QaFail(w, i)
    BY <1>9, <2>2 DEF QaFail
  <2>3. QED BY <1>10, <2>1, <2>2
<1>11. ASSUME NEW i \in Items, QaBounce(w, i)
       PROVE  UNCHANGED items \/ LC!LifeNext
  <2> DEFINE new == Bounced(items[i], qaFailNext(items[i], MaxAttempts))
  <2>1. items[i].status = "qa_failed" /\ items[i] = job[w].todo[i]
    BY <1>11, TargetFacts DEF QaBounce
  <2>2. new \in Item
    BY <1>2, BouncedType
  <2>3. UNCHANGED items \/ items' = [items EXCEPT ![i] = new]
    BY <1>11, <2>1 DEF QaBounce
  <2>4. QED BY <1>1, <2>1, <2>2, <2>3, LifeStep
<1>12. QED
  <2>1. ASSUME NEW i \in Items, GenerateItem(w, i) \/ RenderItem(w, i)
        PROVE  UNCHANGED items \/ LC!LifeNext
    BY <1>5, <1>6, <1>7, <1>8, <2>1, TableSteps DEF GenerateItem, RenderItem
  <2>2. ASSUME NEW i \in Items, QaItem(w, i)
        PROVE  UNCHANGED items \/ LC!LifeNext
    BY <1>6, <1>10, <1>11, <2>2 DEF QaItem
  <2>3. QED BY <1>3, <1>4, <2>1, <2>2 DEF WorkerStep

\* Out of review by a decision.
LEMMA DecisionAdvances ==
  ASSUME TypeOK, NEW i \in Items, NEW decision,
         NEW status \in {"approved", "changes_requested", "skipped"},
         items[i].status = "pending_review",
         items' = [items EXCEPT ![i] = Decided(items[i], decision, status)]
  PROVE  LC!LifeNext
<1> DEFINE new == Decided(items[i], decision, status)
<1>1. /\ new \in Item /\ new.status = status
      /\ new.attempt = items[i].attempt
      /\ new.regen_count = items[i].regen_count
      /\ items[i] \in Item /\ status \in Statuses
  BY DecidedType, TableSteps DEF TypeOK
<1> HIDE DEF new
<1>2. Advances(items[i], new)
  BY <1>1, TableSteps, StageAdvances
<1>3. QED BY <1>1, <1>2, LifeStep DEF new

LEMMA CallRefines ==
  ASSUME IInv, NEW c \in Callers, BeginCall(c) \/ CallStep(c)
  PROVE  UNCHANGED items \/ LC!LifeNext
<1>1. TypeOK /\ \A i \in Items : items[i] \in Item
  BY DEF IInv, TypeOK
<1>2. ASSUME NEW i \in Items, NEW decision \in VALID_DECISIONS,
             Decide(c, i, decision)
      PROVE  LC!LifeNext
  <2>1. STATUS_FOR_DECISION[decision]
          \in {"approved", "changes_requested", "skipped"}
    BY DEF STATUS_FOR_DECISION, VALID_DECISIONS
  <2>2. QED BY <1>1, <1>2, <2>1, DecisionAdvances DEF Decide, CasSucceeds
<1>3. CASE Record(c) \/ ListSiblings(c) \/ RecordSkip(c)
           \/ \E i \in Items, verb \in DOMAIN Verbs : CliRecord(c, i, verb)
  BY <1>3 DEF Record, ListSiblings, RecordSkip, CliRecord
<1>4. ASSUME NEW s \in Items, SkipSibling(c, s)
      PROVE  UNCHANGED items \/ LC!LifeNext
  <2> DEFINE new == [items[s] EXCEPT !.status = "skipped"]
  <2>1. /\ new \in Item /\ new.status = "skipped"
        /\ new.attempt = items[s].attempt
        /\ new.regen_count = items[s].regen_count
    BY <1>1, TableSteps DEF Item
  <2>2. \/ UNCHANGED items
        \/ /\ items[s].status = "pending_review"
           /\ items' = [items EXCEPT ![s] = new]
    BY <1>4 DEF SkipSibling, CasSucceeds
  <2> HIDE DEF new
  <2>3. QED BY <1>1, <2>1, <2>2, TableSteps, StageAdvances, LifeStep
<1>5. CASE BounceCall(c)
  <2> DEFINE i   == call[c].item
             new == Bounced(items[i], regenNext(items[i], MaxRegens))
  <2>1. i \in Items /\ items[i] = call[c].copy
        /\ items[i].status = "changes_requested"
    BY <1>5 DEF BounceCall, Bouncing, IInv, BounceInv
  <2>2. new \in Item
    BY <1>1, <2>1, BouncedType
  <2>3. UNCHANGED items \/ items' = [items EXCEPT ![i] = new]
    BY <1>5, <2>1 DEF BounceCall
  <2>4. QED BY <1>1, <2>1, <2>2, <2>3, LifeStep
<1>6. ASSUME NEW verb \in DOMAIN Verbs, CliMove(c, verb)
      PROVE  UNCHANGED items \/ LC!LifeNext
  <2>1. call[c].item \in Items
        /\ Verbs[verb].to \in {"approved", "changes_requested", "skipped"}
    BY <1>6 DEF CliMove, IInv, CallInv, Verbs
  <2>2. QED BY <1>1, <1>6, <2>1, DecisionAdvances DEF CliMove, CasSucceeds
<1>7. QED BY <1>2, <1>3, <1>4, <1>5, <1>6 DEF BeginCall, CallStep

\* Unless two runs of one stage share a target, Pipeline implements Lifecycle,
\* whatever runs, deciders, operators and crashes do otherwise.
THEOREM PipelineImplementsLifecycle == Spec /\ []TargetsApart => ImplementsLifecycle
<1>1. Init => LC!LifeInit
  BY DEF Init, Absent, LC!LifeInit, LC!NotBorn
<1>2. IInv /\ [Next]_vars => [LC!LifeNext]_LifeOf
  <2> SUFFICES ASSUME IInv, [Next]_vars
               PROVE  UNCHANGED items \/ LC!LifeNext
    BY DEF LifeOf
  <2>1. CASE UNCHANGED vars \/ Crash
    BY <2>1 DEF vars, Crash
  <2>2. QED BY <2>1, WorkerRefines, CallRefines DEF Next
<1>3. Spec /\ []TargetsApart => LC!LifeSpec
  BY <1>1, <1>2, InvariantHolds, PTL DEF Spec, LC!LifeSpec, LifeOf, View
<1>4. QED BY <1>3 DEF ImplementsLifecycle

-----------------------------------------------------------------------------
(***************************************************************************)
(* What is on record of the decisions, with targets apart.  Nothing        *)
(* touches an item that is approved or skipped; so what a record says of a *)
(* draft stays true from the transition that made it true, and no second   *)
(* decision finds the draft under review.  This is said of the records     *)
(* already written and of those a call has still to write.                 *)
(***************************************************************************)

Owes(c) == call[c].step \in {"record", "recordSkip"}

\* The record call c is about to write.
Owed(c) == [item     |-> call[c].item,
            round    |-> call[c].copy.attempt,
            decision |-> IF call[c].step = "recordSkip" THEN "rejected"
                                                        ELSE call[c].decision,
            by       |-> c]

Known == ByDecide \cup {Owed(c) : c \in {d \in Callers : Owes(d)}}

\* What became of round r of item i is what the decision says.
Told(i, r, decision) ==
  /\ i \in Items /\ r \in Nat
  /\ items[i].status # "absent"
  /\ \/ /\ decision \in {"approved", "edited"}
        /\ items[i].status = "approved" /\ items[i].attempt = r
     \/ /\ decision = "rejected"
        /\ items[i].status = "skipped" /\ items[i].attempt = r
     \/ /\ decision = "changes_requested"
        /\ \/ items[i].attempt > r
           \/ /\ items[i].status \in {"changes_requested", "skipped"}
              /\ items[i].attempt = r

RecordsInv ==
  /\ \A c \in Callers : call[c].step \in {"record", "list", "skip", "recordSkip"}
                          => c \in Reviewers
  /\ \A a \in Known : Told(a.item, a.round, a.decision)
  /\ \A a, b \in Known : a.item = b.item /\ a.round = b.round => a = b

\* The CLI has recorded the approval it is about to carry out.
ApprovedInv ==
  /\ ApprovedIsRecorded
  /\ \A c \in Callers, i \in Items :
       call[c].step = "move" /\ call[c].decision # "rejected" /\ call[c].item = i
         => HasApproval(i)

-----------------------------------------------------------------------------
(* What a step may do to what is known *)

\* Stages touch what is in work, calls what is under review or being redone.
LEMMA WorkerTouches ==
  ASSUME IInv, NEW w \in Workers, WorkerStep(w), NEW j \in Items
  PROVE  \/ items'[j] = items[j]
         \/ items[j].status \notin {"pending_review", "changes_requested",
                                    "approved", "skipped"}
<1>1. items = [i \in Items |-> items[i]]
  BY DEF IInv, TypeOK
<1>2. CASE StartPlan(w) \/ \E stage \in DOMAIN Scans : StartStage(w, stage)
  BY <1>2 DEF StartPlan, StartStage
<1>3. ASSUME NEW i \in Items, PlanItem(w, i)
      PROVE  \/ UNCHANGED items
             \/ /\ items[i].status = "absent"
                /\ \A k \in Items \ {i} : items'[k] = items[k]
  BY <1>1, <1>3 DEF PlanItem, PlanCheck, PlanPut, Working, IInv, MiddleInv,
                    PlannerInv, Absent
<1>4. ASSUME NEW i \in Items, GenerateItem(w, i)
      PROVE  \/ UNCHANGED items
             \/ /\ items[i].status \in {"planned", "drafting"}
                /\ \A k \in Items \ {i} : items'[k] = items[k]
  BY <1>1, <1>4 DEF GenerateItem, Claim, Resume, GenerateDraft, GiveUp, CasSucceeds
<1>5. ASSUME NEW i \in Items, RenderItem(w, i)
      PROVE  \/ UNCHANGED items
             \/ /\ items[i].status \in {"drafted", "rendering"}
                /\ \A k \in Items \ {i} : items'[k] = items[k]
  BY <1>1, <1>5 DEF RenderItem, Claim, Resume, RenderAssets, GiveUp, CasSucceeds
<1>6. ASSUME NEW i \in Items, QaItem(w, i)
      PROVE  \/ UNCHANGED items
             \/ /\ items[i].status \in {"rendered", "qa_failed"}
                /\ \A k \in Items \ {i} : items'[k] = items[k]
  BY <1>1, <1>6 DEF QaItem, QaPass, QaFail, QaBounce, QaError, CasSucceeds
<1>7. QED BY <1>2, <1>3, <1>4, <1>5, <1>6 DEF WorkerStep

LEMMA CallTouches ==
  ASSUME IInv, NEW c \in Callers, BeginCall(c) \/ CallStep(c), NEW j \in Items
  PROVE  \/ items'[j] = items[j]
         \/ items[j].status \in {"pending_review", "changes_requested"}
<1>1. items = [i \in Items |-> items[i]]
  BY DEF IInv, TypeOK
<1>2. ASSUME NEW i \in Items, NEW decision \in VALID_DECISIONS, Decide(c, i, decision)
      PROVE  /\ items[i].status = "pending_review"
             /\ \A k \in Items \ {i} : items'[k] = items[k]
  BY <1>1, <1>2 DEF Decide, CasSucceeds
<1>3. ASSUME NEW i \in Items, NEW verb \in DOMAIN Verbs, CliRecord(c, i, verb)
      PROVE  UNCHANGED items
  BY <1>3 DEF CliRecord
<1>4. CASE Record(c) \/ ListSiblings(c) \/ RecordSkip(c)
  BY <1>4 DEF Record, ListSiblings, RecordSkip
<1>5. ASSUME NEW s \in Items, SkipSibling(c, s)
      PROVE  \/ UNCHANGED items
             \/ /\ items[s].status = "pending_review"
                /\ \A k \in Items \ {s} : items'[k] = items[k]
  BY <1>1, <1>5 DEF SkipSibling, CasSucceeds
<1>6. CASE BounceCall(c)
  BY <1>1, <1>6 DEF BounceCall, CasSucceeds
<1>7. ASSUME NEW verb \in DOMAIN Verbs, CliMove(c, verb)
      PROVE  \/ UNCHANGED items
             \/ /\ items[call[c].item].status = "pending_review"
                /\ \A k \in Items \ {call[c].item} : items'[k] = items[k]
  BY <1>1, <1>7 DEF CliMove, CasSucceeds
<1>8. QED BY <1>2, <1>3, <1>4, <1>5, <1>6, <1>7 DEF BeginCall, CallStep

\* A step that touches nothing decided takes no decision back.
LEMMA ToldStays ==
  ASSUME IInv, UNCHANGED items \/ LC!LifeNext,
         \A j \in Items : \/ items'[j] = items[j]
                          \/ items[j].status \notin {"approved", "skipped"},
         NEW i, NEW r, NEW decision, Told(i, r, decision)
  PROVE  Told(i, r, decision)'
<1> USE DEF Told
<1>1. CASE items'[i] = items[i]
  BY <1>1
<1>2. CASE items'[i] # items[i]
  <2>1. LC!LifeNext /\ i \in Items /\ items[i] \in Item
    BY <1>2 DEF IInv, TypeOK
  <2>2. /\ LifeOf = [j \in Items |-> [status      |-> items[j].status,
                                      attempt     |-> items[j].attempt,
                                      regen_count |-> items[j].regen_count]]
        /\ LifeOf' = [j \in Items |-> [status      |-> items'[j].status,
                                       attempt     |-> items'[j].attempt,
                                       regen_count |-> items'[j].regen_count]]
    BY DEF LifeOf, View
  <2>3. /\ decision = "changes_requested"
        /\ items[i].status \notin {"absent", "approved", "skipped"}
        /\ \/ items[i].attempt > r
           \/ items[i].status = "changes_requested" /\ items[i].attempt = r
    BY <1>2, <2>1
  <2>4. /\ LifeOf[i].status = items[i].status /\ LifeOf[i].attempt = items[i].attempt
        /\ LifeOf'[i].status = items'[i].status /\ LifeOf'[i].attempt = items'[i].attempt
    BY <2>1, <2>2
  <2> HIDE DEF LifeOf
  <2>5. PICK k \in Items : \/ LC!Create(k)
                           \/ \E to \in LC!Statuses : LC!Advance(k, to)
                           \/ LC!Bounce(k)
    BY <2>1 DEF LC!LifeNext
  <2>6. CASE k # i
    <3>1. LifeOf'[i] = LifeOf[i]
      BY <2>1, <2>2, <2>5, <2>6 DEF LC!Create, LC!Advance, LC!Bounce
    <3>2. QED BY <2>3, <2>4, <3>1, <1>1
  <2>7. CASE k = i
    <3>1. CASE LC!Create(i)
      BY <2>2, <2>3, <2>4, <3>1 DEF LC!Create
    <3>2. ASSUME NEW to \in LC!Statuses, LC!Advance(i, to)
          PROVE  Told(i, r, decision)'
      <4>1. LifeOf'[i] = [LifeOf[i] EXCEPT !.status = to]
        BY <2>1, <2>2, <3>2 DEF LC!Advance
      <4>2. LifeOf[i].status # "changes_requested"
        BY <2>2, <3>2 DEF LC!Advance
      <4>3. items'[i].attempt = items[i].attempt /\ items'[i].status = to
        BY <2>2, <2>4, <4>1, <2>1
      <4>4. to # "absent"
        BY DEF LC!Statuses
      <4>5. QED BY <2>1, <2>3, <2>4, <4>2, <4>3, <4>4
    <3>3. CASE LC!Bounce(i)
      <4>1. /\ items'[i].status \in {"drafting", "skipped"}
            /\ \/ items'[i].attempt = items[i].attempt + 1
               \/ items'[i].attempt = items[i].attempt /\ items'[i].status = "skipped"
        BY <2>1, <2>2, <2>4, <3>3
        DEF LC!Bounce, LC!qaFailNext, LC!regenNext
      <4>2. QED BY <2>1, <2>3, <4>1 DEF Item
    <3>4. QED BY <2>5, <2>7, <3>1, <3>2, <3>3
  <2>8. QED BY <2>6, <2>7
<1>3. QED BY <1>1, <1>2

\* A step after which no more is known than before.
LEMMA NothingNew ==
  ASSUME IInv, RecordsInv, UNCHANGED items \/ LC!LifeNext, Known' \subseteq Known,
         \A j \in Items : \/ items'[j] = items[j]
                          \/ items[j].status \notin {"approved", "skipped"},
         \A c \in Callers : call'[c].step \in {"record", "list", "skip", "recordSkip"}
                              => c \in Reviewers
  PROVE  RecordsInv'
<1>1. ASSUME NEW a \in Known' PROVE Told(a.item, a.round, a.decision)'
  <2>1. Told(a.item, a.round, a.decision)
    BY DEF RecordsInv
  <2>2. QED BY <2>1, ToldStays
<1>2. QED BY <1>1 DEF RecordsInv

\* A step that decides item i, and tells so.
LEMMA OneNew ==
  ASSUME IInv, RecordsInv, UNCHANGED items \/ LC!LifeNext,
         NEW i \in Items, NEW new, Known' \subseteq Known \cup {new},
         new.item = i, new.round = items[i].attempt,
         items[i].status = "pending_review", Told(i, new.round, new.decision)',
         \A j \in Items : \/ items'[j] = items[j]
                          \/ items[j].status \notin {"approved", "skipped"},
         \A c \in Callers : call'[c].step \in {"record", "list", "skip", "recordSkip"}
                              => c \in Reviewers
  PROVE  RecordsInv'
<1>1. ASSUME NEW a \in Known' PROVE Told(a.item, a.round, a.decision)'
  <2>1. CASE a \in Known
    <3>1. Told(a.item, a.round, a.decision)
      BY <2>1 DEF RecordsInv
    <3>2. QED BY <3>1, ToldStays
  <2>2. CASE a = new
    BY <2>2
  <2>3. QED BY <2>1, <2>2
<1>2. ASSUME NEW a \in Known, a.item = i, a.round = items[i].attempt PROVE FALSE
  <2>1. Told(a.item, a.round, a.decision)
    BY DEF RecordsInv
  <2>2. items[i].attempt \in Nat
    BY DEF IInv, TypeOK, Item
  <2>3. QED BY <1>2, <2>1, <2>2 DEF Told
<1>3. ASSUME NEW a \in Known', NEW b \in Known', a.item = b.item, a.round = b.round
      PROVE  a = b
  <2>1. CASE a \in Known /\ b \in Known
    BY <1>3, <2>1 DEF RecordsInv
  <2>2. CASE a = new \/ b = new
    BY <1>2, <1>3, <2>2
  <2>3. QED BY <2>1, <2>2
<1>4. QED BY <1>1, <1>3 DEF RecordsInv

\* What one call's step adds to what is known.
LEMMA KnownAfter ==
  ASSUME NEW c \in Callers, \A d \in Callers \ {c} : call'[d] = call[d],
         NEW New, ByDecide' \subseteq Known \cup New,
         Owes(c)' => Owed(c)' \in Known \cup New
  PROVE  Known' \subseteq Known \cup New
<1>1. ASSUME NEW d \in Callers, Owes(d)' PROVE Owed(d)' \in Known \cup New
  <2>1. CASE d = c
    BY <1>1, <2>1
  <2>2. CASE d # c
    <3>1. call'[d] = call[d]
      BY <2>2
    <3>2. Owes(d) /\ Owed(d)' = Owed(d)
      BY <1>1, <3>1 DEF Owes, Owed
    <3>3. QED BY <3>2 DEF Known
  <2>3. QED BY <2>1, <2>2
<1>2. QED BY <1>1 DEF Known

-----------------------------------------------------------------------------
(* The steps of workers and calls *)

LEMMA WorkerRecords ==
  ASSUME IInv, RecordsInv, NEW w \in Workers, WorkerStep(w)
  PROVE  RecordsInv'
<1>1. UNCHANGED call
  BY WorkerTypeStep DEF IInv
<1>2. UNCHANGED approvals
  BY DEF WorkerStep, StartPlan, StartStage, PlanItem, PlanCheck, PlanPut,
         GenerateItem, Claim, Resume, GenerateDraft, GiveUp, RenderItem,
         RenderAssets, QaItem, QaPass, QaFail, QaBounce, QaError
<1>3. Known' = Known
  BY <1>1, <1>2 DEF Known, ByDecide, Owes, Owed
<1>4. \A c \in Callers : call'[c].step \in {"record", "list", "skip", "recordSkip"}
                           => c \in Reviewers
  BY <1>1 DEF RecordsInv
<1>5. QED BY <1>3, <1>4, WorkerRefines, WorkerTouches, NothingNew

\* A step of call c that decides nothing, and records what it owed at most.
LEMMA QuietCall ==
  ASSUME IInv, RecordsInv, NEW c \in Callers, UNCHANGED items \/ LC!LifeNext,
         \A j \in Items : \/ items'[j] = items[j]
                          \/ items[j].status \in {"pending_review", "changes_requested"},
         \A d \in Callers \ {c} : call'[d] = call[d],
         ~Owes(c)', call'[c].step \in {"list", "skip"} => c \in Reviewers,
         ByDecide' \subseteq Known
  PROVE  RecordsInv'
<1>1. Known' \subseteq Known \cup {}
  BY KnownAfter
<1>2. \A d \in Callers : call'[d].step \in {"record", "list", "skip", "recordSkip"}
                           => d \in Reviewers
  BY DEF RecordsInv, Owes
<1>3. QED BY <1>1, <1>2, NothingNew

\* A call that has nothing to do any more, or siblings left to skip.
LEMMA SkipRestFacts ==
  ASSUME TypeOK, NEW c \in Callers, NEW rest, Return(c) \/ SkipRest(c, rest)
  PROVE  /\ \A d \in Callers \ {c} : call'[d] = call[d]
         /\ ~Owes(c)' /\ call'[c].step \in {"idle", "skip"}
         /\ Return(c) => call'[c].step = "idle"
BY DEF Return, SkipRest, Owes, IdleCall, TypeOK, Call

\* Writing down what is owed.
LEMMA AppendFacts ==
  ASSUME NEW c \in Callers, Owes(c), AppendApproval(c, Owed(c).decision)
  PROVE  ByDecide' \subseteq Known
BY DEF AppendApproval, ByDecide, Known, Owed

LEMMA CallRecords ==
  ASSUME IInv, RecordsInv, NEW c \in Callers, BeginCall(c) \/ CallStep(c)
  PROVE  RecordsInv'
<1>1. TypeOK /\ TypeOK' /\ call[c] \in Call
  BY CallTypeStep DEF IInv, TypeOK
<1>2. /\ UNCHANGED items \/ LC!LifeNext
      /\ \A j \in Items : \/ items'[j] = items[j]
                          \/ items[j].status \in {"pending_review", "changes_requested"}
  BY CallRefines, CallTouches
<1>3. ASSUME UNCHANGED approvals PROVE ByDecide' \subseteq Known
  BY <1>3 DEF ByDecide, Known
<1>4. \A j \in Items : items[j] \in Item /\ items'[j] \in Item
  BY <1>1 DEF TypeOK
\* A call takes an item out of review and owes the record.
<1>5. ASSUME NEW i \in Items, NEW status, NEW next \in Call,
             items[i].status = "pending_review",
             items'[i].status = status, items'[i].attempt = items[i].attempt,
             UNCHANGED approvals, c \in Reviewers,
             call' = [call EXCEPT ![c] = next],
             next.step \in {"record", "recordSkip"}, next.item = i,
             next.copy.attempt = items[i].attempt,
             \/ status = "skipped" /\ next.step = "recordSkip"
             \/ status = STATUS_FOR_DECISION[next.decision] /\ next.step = "record"
      PROVE  RecordsInv'
  <2>1. /\ call'[c] = next /\ Owes(c)'
        /\ \A d \in Callers \ {c} : call'[d] = call[d]
    BY <1>1, <1>5 DEF TypeOK, Owes
  <2>0. PICK new : new = Owed(c)'
    OBVIOUS
  <2>2. new.item = i /\ new.round = items[i].attempt
    BY <1>5, <2>0, <2>1 DEF Owed
  <2>3. Known' \subseteq Known \cup {new}
    BY <1>3, <1>5, <2>0, <2>1, KnownAfter
  <2>4. new.decision = IF next.step = "recordSkip" THEN "rejected" ELSE next.decision
    BY <2>0, <2>1 DEF Owed
  <2>5. next.decision \in {"approved", "edited", "changes_requested", "rejected"}
    BY <1>5 DEF Call, VALID_DECISIONS, STATUS_FOR_DECISION
  <2>6. Told(i, new.round, new.decision)'
    BY <1>4, <1>5, <2>2, <2>4, <2>5 DEF Told, STATUS_FOR_DECISION, Item
  <2>7. \A d \in Callers : call'[d].step \in {"record", "list", "skip", "recordSkip"}
                             => d \in Reviewers
    BY <1>5, <2>1 DEF RecordsInv
  <2>8. QED BY <1>2, <1>5, <2>2, <2>3, <2>6, <2>7, OneNew
<1>6. ASSUME NEW i \in Items, NEW decision \in VALID_DECISIONS, Decide(c, i, decision)
      PROVE  RecordsInv'
  <2> DEFINE updated == Decided(items[i], decision, STATUS_FOR_DECISION[decision])
             next    == [step |-> "record", item |-> i, copy |-> updated,
                         decision |-> decision, todo |-> {}]
  <2>1. STATUS_FOR_DECISION[decision] \in Statuses
    BY TableSteps DEF STATUS_FOR_DECISION, VALID_DECISIONS
  <2>2. /\ updated \in Item /\ updated.attempt = items[i].attempt
        /\ updated.status = STATUS_FOR_DECISION[decision]
    BY <1>4, <2>1, DecidedType
  <2>3. /\ items[i].status = "pending_review" /\ c \in Reviewers
        /\ items' = [items EXCEPT ![i] = updated]
        /\ call' = [call EXCEPT ![c] = next] /\ UNCHANGED approvals
    BY <1>6 DEF Decide, CasSucceeds
  <2> HIDE DEF updated
  <2>4. next \in Call /\ items'[i] = updated
    BY <1>1, <2>2, <2>3 DEF Call, TypeOK
  <2>5. /\ next.step = "record" /\ next.item = i /\ next.copy = updated
        /\ next.decision = decision
    OBVIOUS
  <2> HIDE DEF next
  <2>6. QED BY <1>5, <2>2, <2>3, <2>4, <2>5
<1>7. CASE Record(c)
  <2>1. Owes(c) /\ c \in Reviewers /\ call[c].step = "record"
    BY <1>7 DEF Record, Owes, RecordsInv
  <2>2. ByDecide' \subseteq Known
    BY <1>7, <2>1, AppendFacts DEF Record, Owed
  <2>3. \/ call' = [call EXCEPT ![c].step = "list"]
        \/ call' = [call EXCEPT ![c].step = "bounce"]
        \/ Return(c)
    <3>1. CASE call[c].decision \in {"approved", "edited"}
      BY <1>7, <3>1 DEF Record, Proceed
    <3>2. CASE call[c].decision = "changes_requested"
      BY <1>7, <3>2 DEF Record, Proceed
    <3>3. CASE call[c].decision = "rejected"
      BY <1>7, <3>3 DEF Record
    <3>4. QED BY <1>1, <3>1, <3>2, <3>3 DEF Call, VALID_DECISIONS, STATUS_FOR_DECISION
  <2>4. /\ \A d \in Callers \ {c} : call'[d] = call[d]
        /\ ~Owes(c)'
    <3>1. CASE Return(c)
      BY <1>1, <3>1, SkipRestFacts
    <3>2. ASSUME NEW step \in {"list", "bounce"}, call' = [call EXCEPT ![c].step = step]
          PROVE  /\ \A d \in Callers \ {c} : call'[d] = call[d]
                 /\ call'[c].step = step
      BY <1>1, <3>2 DEF TypeOK, Call
    <3>3. QED BY <2>3, <3>1, <3>2 DEF Owes
  <2>5. QED BY <1>2, <2>1, <2>2, <2>4, QuietCall
<1>8. CASE ListSiblings(c)
  <2>1. c \in Reviewers /\ UNCHANGED approvals
    BY <1>8 DEF ListSiblings, RecordsInv
  <2>2. \E rest : SkipRest(c, rest)
    BY <1>8 DEF ListSiblings, SkipRest
  <2>3. QED BY <1>1, <1>2, <1>3, <2>1, <2>2, SkipRestFacts, QuietCall
<1>9. ASSUME NEW s \in Items, SkipSibling(c, s)
      PROVE  RecordsInv'
  <2>1. c \in Reviewers /\ UNCHANGED approvals
    BY <1>9 DEF SkipSibling, RecordsInv
  <2>2. CASE CasSucceeds(s, "pending_review")
    <3> DEFINE updated == [items[s] EXCEPT !.status = "skipped"]
               next    == [call[c] EXCEPT !.step = "recordSkip", !.item = s,
                                          !.copy = updated]
    <3>1. /\ updated \in Item /\ updated.attempt = items[s].attempt
          /\ updated.status = "skipped"
      BY <1>4, TableSteps DEF Item
    <3>2. /\ items[s].status = "pending_review"
          /\ items' = [items EXCEPT ![s] = updated]
          /\ call' = [call EXCEPT ![c] = next]
      BY <1>9, <2>2 DEF SkipSibling, CasSucceeds
    <3> HIDE DEF updated
    <3>3. items'[s] = updated
      BY <1>1, <3>2 DEF TypeOK
    <3>4. /\ next \in Call /\ next.step = "recordSkip" /\ next.item = s
          /\ next.copy = updated
      BY <1>1, <3>1 DEF Call
    <3> HIDE DEF next
    <3>5. QED BY <1>5, <2>1, <3>1, <3>2, <3>3, <3>4
  <2>3. CASE ~CasSucceeds(s, "pending_review")
    <3>1. SkipRest(c, call[c].todo \ {s})
      BY <1>9, <2>3 DEF SkipSibling
    <3>2. QED BY <1>1, <1>2, <1>3, <2>1, <3>1, SkipRestFacts, QuietCall
  <2>4. QED BY <2>2, <2>3
<1>10. CASE RecordSkip(c)
  <2>1. Owes(c) /\ c \in Reviewers /\ call[c].step = "recordSkip"
    BY <1>10 DEF RecordSkip, Owes, RecordsInv
  <2>2. ByDecide' \subseteq Known
    BY <1>10, <2>1, AppendFacts DEF RecordSkip, Owed
  <2>3. SkipRest(c, call[c].todo \ {call[c].item})
    BY <1>10 DEF RecordSkip
  <2>4. QED BY <1>1, <1>2, <2>1, <2>2, <2>3, SkipRestFacts, QuietCall
<1>11. CASE BounceCall(c)
  <2>1. Return(c) /\ UNCHANGED approvals
    BY <1>11 DEF BounceCall
  <2>2. QED BY <1>1, <1>2, <1>3, <2>1, SkipRestFacts, QuietCall
<1>12. ASSUME NEW i \in Items, NEW verb \in DOMAIN Verbs, CliRecord(c, i, verb)
       PROVE  RecordsInv'
  <2>1. c \notin Reviewers
    BY <1>12, ConstantsAssumption DEF CliRecord
  <2>2. ByDecide' \subseteq Known
    BY <1>12, <2>1 DEF CliRecord, ByDecide, Known
  <2>3. /\ \A d \in Callers \ {c} : call'[d] = call[d]
        /\ call'[c].step = "move"
    BY <1>1, <1>12 DEF CliRecord, TypeOK
  <2>4. QED BY <1>2, <2>2, <2>3, QuietCall DEF Owes
<1>13. ASSUME NEW verb \in DOMAIN Verbs, CliMove(c, verb)
       PROVE  RecordsInv'
  <2>1. UNCHANGED approvals
    BY <1>13 DEF CliMove
  <2>2. ASSUME NEW new, call' = [call EXCEPT ![c].step = "bounce", ![c].copy = new]
        PROVE  /\ \A d \in Callers \ {c} : call'[d] = call[d]
               /\ call'[c].step = "bounce"
    BY <1>1, <2>2 DEF TypeOK, Call
  <2>3. /\ \A d \in Callers \ {c} : call'[d] = call[d]
        /\ call'[c].step \in {"idle", "bounce"}
    <3>1. CASE Return(c)
      BY <1>1, <3>1, SkipRestFacts
    <3>2. CASE ~Return(c)
      BY <1>13, <2>2, <3>2 DEF CliMove
    <3>3. QED BY <3>1, <3>2
  <2>4. QED BY <1>2, <1>3, <2>1, <2>3, QuietCall DEF Owes
<1>14. QED
  BY <1>6, <1>7, <1>8, <1>9, <1>10, <1>11, <1>12, <1>13 DEF BeginCall, CallStep

LEMMA CrashRecords ==
  ASSUME IInv, RecordsInv, Crash
  PROVE  RecordsInv'
<1>1. UNCHANGED <<items, approvals>>
  BY DEF Crash
<1>2. CASE UNCHANGED call
  <2>1. Known' = Known
    BY <1>1, <1>2 DEF Known, ByDecide, Owes, Owed
  <2>2. QED BY <1>1, <1>2, <2>1, NothingNew DEF RecordsInv
<1>3. ASSUME NEW c \in Callers, Return(c) PROVE RecordsInv'
  <2>1. ByDecide' \subseteq Known
    BY <1>1 DEF ByDecide, Known
  <2>2. QED BY <1>1, <1>3, <2>1, SkipRestFacts, QuietCall DEF IInv
<1>4. QED BY <1>2, <1>3 DEF Crash

\* Unless two runs of one stage share a target, decision records are kept as
\* RecordsInv says.
LEMMA RecordsHold == Spec /\ []TargetsApart => []RecordsInv
<1>1. Init => RecordsInv
  BY DEF Init, RecordsInv, Known, ByDecide, Owes, IdleCall
<1>2. IInv /\ RecordsInv /\ [Next]_vars => RecordsInv'
  <2> SUFFICES ASSUME IInv, RecordsInv, [Next]_vars PROVE RecordsInv'
    OBVIOUS
  <2>1. CASE UNCHANGED vars
    <3>1. Known' = Known /\ UNCHANGED <<items, call>>
      BY <2>1 DEF vars, Known, ByDecide, Owes, Owed
    <3>2. QED BY <3>1, NothingNew DEF RecordsInv
  <2>2. QED BY <2>1, WorkerRecords, CallRecords, CrashRecords DEF Next
<1>3. QED BY <1>1, <1>2, InvariantHolds, PTL DEF Spec

\* With targets apart, however many requests, siblings in flight, CLI verbs and
\* deaths: no draft is decided twice by decide().
THEOREM DecisionsAreSingle == Spec /\ []TargetsApart => []DecidedOnce
<1>1. RecordsInv => DecidedOnce
  BY DEF RecordsInv, Known, DecidedOnce
<1>2. QED BY <1>1, RecordsHold, PTL

\* With targets apart, what decide() has recorded stays true of the item.
THEOREM RecordsStayTrue == Spec /\ []TargetsApart => []RecordsTellTheTruth
<1>1. RecordsInv => RecordsTellTheTruth
  <2> SUFFICES ASSUME RecordsInv, NEW a \in ByDecide
               PROVE  CASE a.decision \in {"approved", "edited"} ->
                             items[a.item].status = "approved"
                        [] a.decision = "rejected" -> items[a.item].status = "skipped"
                        [] a.decision = "changes_requested" ->
                             \/ items[a.item].attempt > a.round
                             \/ items[a.item].status \in {"changes_requested", "skipped"}
    BY DEF RecordsTellTheTruth
  <2>1. Told(a.item, a.round, a.decision)
    BY DEF RecordsInv, Known
  <2>2. CASE a.decision \in {"approved", "edited"}
    BY <2>1, <2>2 DEF Told
  <2>3. CASE a.decision = "rejected"
    BY <2>1, <2>3 DEF Told
  <2>4. CASE a.decision = "changes_requested"
    BY <2>1, <2>4 DEF Told
  <2>5. QED BY <2>1, <2>2, <2>3, <2>4 DEF Told
<1>2. QED BY <1>1, RecordsHold, PTL

-----------------------------------------------------------------------------
(* Approvals *)

LEMMA ApprovalsKept ==
  ASSUME approvals \subseteq approvals', NEW i, HasApproval(i)
  PROVE  HasApproval(i)'
BY DEF HasApproval

\* A step that approves nothing, records all it owed, and starts no CLI verb.
LEMMA NothingApproved ==
  ASSUME IInv, ApprovedInv, approvals \subseteq approvals', crashes' = crashes,
         \A i \in Items : items'[i].status = "approved" => items[i].status = "approved",
         \A i \in Items, c \in Callers :
           call[c].step = "record" /\ call[c].item = i /\ items[i].status = "approved"
             => \/ HasApproval(i)'
                \/ call'[c].step = "record" /\ call'[c].item = i,
         \A c \in Callers : call'[c].step = "move" => call'[c] = call[c]
  PROVE  ApprovedInv'
<1>1. ApprovedIsRecorded'
  <2> SUFFICES ASSUME crashes = 0, NEW i \in Items, items'[i].status = "approved"
               PROVE  \/ HasApproval(i)'
                      \/ \E c \in Callers : call'[c].step = "record" /\ call'[c].item = i
    BY DEF ApprovedIsRecorded
  <2>1. items[i].status = "approved"
    OBVIOUS
  <2>2. CASE HasApproval(i)
    BY <2>2, ApprovalsKept
  <2>3. CASE \E c \in Callers : call[c].step = "record" /\ call[c].item = i
    BY <2>1, <2>3
  <2>4. QED BY <2>1, <2>2, <2>3 DEF ApprovedInv, ApprovedIsRecorded
<1>2. QED BY <1>1, ApprovalsKept DEF ApprovedInv

\* What a step makes approved was under review.
LEMMA ApprovedFromReview ==
  ASSUME IInv, UNCHANGED items \/ LC!LifeNext, NEW i \in Items,
         items'[i].status = "approved"
  PROVE  items[i].status \in {"approved", "pending_review"}
<1>1. CASE items'[i] = items[i]
  BY <1>1
<1>2. CASE items'[i] # items[i]
  <2>1. LC!LifeNext
    BY <1>2
  <2>2. /\ LifeOf = [j \in Items |-> [status      |-> items[j].status,
                                      attempt     |-> items[j].attempt,
                                      regen_count |-> items[j].regen_count]]
        /\ LifeOf' = [j \in Items |-> [status      |-> items'[j].status,
                                       attempt     |-> items'[j].attempt,
                                       regen_count |-> items'[j].regen_count]]
    BY DEF LifeOf, View
  <2>3. LifeOf[i].status = items[i].status /\ LifeOf'[i].status = "approved"
    BY <2>2
  <2> HIDE DEF LifeOf
  <2>4. PICK k \in Items : \/ LC!Create(k)
                           \/ \E to \in LC!Statuses : LC!Advance(k, to)
                           \/ LC!Bounce(k)
    BY <2>1 DEF LC!LifeNext
  <2>5. CASE k # i
    <3>1. LifeOf'[i] = LifeOf[i]
      BY <2>2, <2>4, <2>5 DEF LC!Create, LC!Advance, LC!Bounce
    <3>2. QED BY <2>3, <3>1
  <2>6. CASE k = i
    <3>1. CASE LC!Create(i)
      BY <2>2, <2>3, <3>1 DEF LC!Create, LC!Newborn
    <3>2. ASSUME NEW to \in LC!Statuses, LC!Advance(i, to)
          PROVE  items[i].status = "pending_review"
      <4>1. to = "approved"
        BY <2>2, <2>3, <3>2 DEF LC!Advance
      <4>2. LC!canTransition(items[i].status, "approved")
        BY <2>2, <2>3, <3>2, <4>1 DEF LC!Advance
      <4>3. QED BY <4>2 DEF LC!canTransition, LC!TRANSITIONS, LC!Statuses
    <3>3. CASE LC!Bounce(i)
      BY <2>2, <2>3, <3>3 DEF LC!Bounce, LC!qaFailNext, LC!regenNext
    <3>4. QED BY <2>4, <2>6, <3>1, <3>2, <3>3
  <2>7. QED BY <2>5, <2>6
<1>3. QED BY <1>1, <1>2

LEMMA WorkerApproved ==
  ASSUME IInv, ApprovedInv, NEW w \in Workers, WorkerStep(w)
  PROVE  ApprovedInv'
<1>1. UNCHANGED <<call, approvals, crashes>>
  BY DEF WorkerStep, StartPlan, StartStage, PlanItem, PlanCheck, PlanPut,
         GenerateItem, Claim, Resume, GenerateDraft, GiveUp, RenderItem,
         RenderAssets, QaItem, QaPass, QaFail, QaBounce, QaError
<1>2. \A i \in Items : items'[i].status = "approved" => items[i].status = "approved"
  BY WorkerRefines, WorkerTouches, ApprovedFromReview
<1>3. QED BY <1>1, <1>2, NothingApproved

LEMMA CallApproved ==
  ASSUME IInv, RecordsInv, ApprovedInv, NEW c \in Callers, BeginCall(c) \/ CallStep(c)
  PROVE  ApprovedInv'
<1>1. TypeOK /\ TypeOK' /\ call[c] \in Call
  BY CallTypeStep DEF IInv, TypeOK
<1>2. \A j \in Items : items[j] \in Item /\ items'[j] \in Item
  BY <1>1 DEF TypeOK
\* Only item i changes, and call c, into a step that records an approval of it.
<1>3. ASSUME NEW i \in Items, items' = [items EXCEPT ![i] = items'[i]],
             items[i].status = "pending_review",
             approvals' = approvals, crashes' = crashes,
             call[c].step \notin {"record", "move"},
             \A d \in Callers \ {c} : call'[d] = call[d],
             call'[c].step = "record", call'[c].item = i
      PROVE  ApprovedInv'
  <2>1. ApprovedIsRecorded'
    <3> SUFFICES ASSUME crashes = 0, NEW j \in Items, items'[j].status = "approved"
                 PROVE  \/ HasApproval(j)'
                        \/ \E d \in Callers : call'[d].step = "record" /\ call'[d].item = j
      BY <1>3 DEF ApprovedIsRecorded
    <3>1. CASE j = i
      BY <1>3, <3>1
    <3>2. CASE j # i
      <4>1. items'[j] = items[j]
        BY <1>1, <1>3, <3>2 DEF TypeOK
      <4>2. \/ HasApproval(j)
            \/ \E d \in Callers : call[d].step = "record" /\ call[d].item = j
        BY <4>1 DEF ApprovedInv, ApprovedIsRecorded
      <4>3. CASE HasApproval(j)
        BY <1>3, <4>3, ApprovalsKept
      <4>4. ASSUME NEW d \in Callers, call[d].step = "record", call[d].item = j
            PROVE  call'[d].step = "record" /\ call'[d].item = j
        BY <1>3, <4>4
      <4>5. QED BY <4>2, <4>3, <4>4
    <3>3. QED BY <3>1, <3>2
  <2>2. ASSUME NEW d \in Callers, NEW j \in Items, call'[d].step = "move",
               call'[d].decision # "rejected", call'[d].item = j
        PROVE  HasApproval(j)'
    <3>1. d # c /\ call'[d] = call[d]
      BY <1>3, <2>2
    <3>2. HasApproval(j)
      BY <2>2, <3>1 DEF ApprovedInv
    <3>3. QED BY <1>3, <3>1, <3>2, ApprovalsKept
  <2>3. QED BY <2>1, <2>2 DEF ApprovedInv
<1>4. ASSUME NEW i \in Items, NEW decision \in VALID_DECISIONS, Decide(c, i, decision)
      PROVE  ApprovedInv'
  <2>1. /\ items' = [items EXCEPT ![i] = items'[i]] /\ items[i].status = "pending_review"
        /\ approvals' = approvals /\ crashes' = crashes /\ call[c] = IdleCall
        /\ \A d \in Callers \ {c} : call'[d] = call[d]
        /\ call'[c].step = "record" /\ call'[c].item = i
    BY <1>1, <1>4 DEF Decide, CasSucceeds, TypeOK
  <2>2. QED BY <1>3, <2>1 DEF IdleCall
\* The call decides nothing, and writes what it owed.
<1>5. ASSUME approvals \subseteq approvals', crashes' = crashes,
             \A i \in Items : items'[i].status = "approved" => items[i].status = "approved",
             \A d \in Callers \ {c} : call'[d] = call[d],
             call'[c].step # "move",
             \A i \in Items : call[c].step = "record" /\ call[c].item = i
                               /\ items[i].status = "approved" => HasApproval(i)'
      PROVE  ApprovedInv'
  <2>1. ASSUME NEW i \in Items, NEW d \in Callers, call[d].step = "record",
               call[d].item = i, items[i].status = "approved"
        PROVE  \/ HasApproval(i)'
               \/ call'[d].step = "record" /\ call'[d].item = i
    <3>1. CASE d = c
      BY <1>5, <2>1, <3>1
    <3>2. CASE d # c
      BY <1>5, <2>1, <3>2
    <3>3. QED BY <3>1, <3>2
  <2>2. \A d \in Callers : call'[d].step = "move" => call'[d] = call[d]
    BY <1>5
  <2>3. QED BY <1>5, <2>1, <2>2, NothingApproved
<1>6. CASE Record(c)
  <2>1. /\ call[c].step = "record" /\ c \in Reviewers
        /\ UNCHANGED <<items, crashes>>
        /\ approvals' = approvals \cup {[item     |-> call[c].item,
                                         round    |-> call[c].copy.attempt,
                                         decision |-> call[c].decision, by |-> c]}
    BY <1>6 DEF Record, AppendApproval, RecordsInv
  <2>2. /\ \A d \in Callers \ {c} : call'[d] = call[d]
        /\ call'[c].step # "move"
    <3>1. CASE Return(c)
      BY <1>1, <3>1, SkipRestFacts
    <3>2. ASSUME NEW step \in {"list", "bounce"}, call' = [call EXCEPT ![c].step = step]
          PROVE  /\ \A d \in Callers \ {c} : call'[d] = call[d]
                 /\ call'[c].step = step
      BY <1>1, <3>2 DEF TypeOK, Call
    <3>3. CASE call[c].decision \in {"approved", "edited"}
      <4>1. call' = [call EXCEPT ![c].step = "list"]
        BY <1>6, <3>3 DEF Record, Proceed
      <4>2. QED BY <3>2, <4>1
    <3>4. CASE call[c].decision = "changes_requested"
      <4>1. call' = [call EXCEPT ![c].step = "bounce"]
        BY <1>6, <3>4 DEF Record, Proceed
      <4>2. QED BY <3>2, <4>1
    <3>5. CASE call[c].decision = "rejected"
      BY <1>6, <3>1, <3>5 DEF Record
    <3>6. QED BY <1>1, <3>3, <3>4, <3>5 DEF Call, VALID_DECISIONS, STATUS_FOR_DECISION
  <2>3. CASE call[c].decision \in {"approved", "edited"}
    <3> DEFINE written == [item     |-> call[c].item, round |-> call[c].copy.attempt,
                           decision |-> call[c].decision, by |-> c]
    <3>1. written \in approvals'
      BY <2>1
    <3>2. written.item = call[c].item /\ written.decision \in {"approved", "edited"}
      BY <2>3
    <3> HIDE DEF written
    <3>3. \A i \in Items : call[c].item = i => HasApproval(i)'
      BY <3>1, <3>2 DEF HasApproval
    <3>4. QED BY <1>5, <2>1, <2>2, <3>3
  <2>4. CASE call[c].decision \notin {"approved", "edited"}
    <3>1. Told(call[c].item, call[c].copy.attempt, call[c].decision)
      <4>1. Owed(c) \in Known
        BY <2>1 DEF Known, Owes
      <4>2. /\ Owed(c).item = call[c].item /\ Owed(c).round = call[c].copy.attempt
            /\ Owed(c).decision = call[c].decision
        BY <2>1 DEF Owed
      <4>3. QED BY <4>1, <4>2 DEF RecordsInv
    <3>2. items[call[c].item].status # "approved"
      <4>1. CASE call[c].decision = "rejected"
        BY <3>1, <4>1 DEF Told
      <4>2. CASE call[c].decision = "changes_requested"
        BY <2>1, <4>2 DEF IInv, BounceInv, Bouncing
      <4>3. QED BY <2>4, <3>1, <4>1, <4>2 DEF Told
    <3>3. QED BY <1>5, <2>1, <2>2, <3>2
  <2>5. QED BY <2>3, <2>4
\* The steps between, which owe no record of this kind.
<1>7. ASSUME NEW rest, Return(c) \/ SkipRest(c, rest), approvals \subseteq approvals',
             UNCHANGED crashes, call[c].step # "record",
             \A i \in Items : items'[i].status = "approved" => items[i].status = "approved"
      PROVE  ApprovedInv'
  BY <1>1, <1>5, <1>7, SkipRestFacts
<1>8. CASE ListSiblings(c)
  <2>1. \E rest : SkipRest(c, rest)
    BY <1>8 DEF ListSiblings, SkipRest
  <2>2. UNCHANGED <<items, approvals, crashes>> /\ call[c].step = "list"
    BY <1>8 DEF ListSiblings
  <2>3. QED BY <1>7, <2>1, <2>2
<1>9. ASSUME NEW s \in Items, SkipSibling(c, s) PROVE ApprovedInv'
  <2>1. UNCHANGED <<approvals, crashes>> /\ call[c].step = "skip"
    BY <1>9 DEF SkipSibling
  <2>2. CASE CasSucceeds(s, "pending_review")
    <3>1. /\ items' = [items EXCEPT ![s] = [items[s] EXCEPT !.status = "skipped"]]
          /\ call' = [call EXCEPT ![c].step = "recordSkip", ![c].item = s,
                                  ![c].copy = [items[s] EXCEPT !.status = "skipped"]]
      BY <1>9, <2>2 DEF SkipSibling
    <3>2. \A i \in Items : items'[i].status = "approved" => items[i].status = "approved"
      BY <1>1, <1>2, <3>1 DEF TypeOK, Item
    <3>3. /\ \A d \in Callers \ {c} : call'[d] = call[d]
          /\ call'[c].step = "recordSkip"
      BY <1>1, <3>1 DEF TypeOK, Call
    <3>4. QED BY <1>5, <2>1, <3>2, <3>3
  <2>3. CASE ~CasSucceeds(s, "pending_review")
    <3>1. SkipRest(c, call[c].todo \ {s}) /\ UNCHANGED items
      BY <1>9, <2>3 DEF SkipSibling
    <3>2. QED BY <1>7, <2>1, <3>1
  <2>4. QED BY <2>2, <2>3
<1>10. CASE RecordSkip(c)
  <2>1. /\ approvals \subseteq approvals' /\ UNCHANGED <<items, crashes>>
        /\ call[c].step = "recordSkip"
        /\ SkipRest(c, call[c].todo \ {call[c].item})
    BY <1>10 DEF RecordSkip, AppendApproval
  <2>2. QED BY <1>7, <2>1
<1>11. CASE BounceCall(c)
  <2>1. UNCHANGED <<approvals, crashes>> /\ Return(c) /\ call[c].step = "bounce"
    BY <1>11 DEF BounceCall
  <2>2. \A i \in Items : items'[i].status = "approved" => items[i].status = "approved"
    <3> SUFFICES ASSUME NEW i \in Items, items'[i].status = "approved"
                 PROVE  items[i].status = "approved"
      OBVIOUS
    <3>1. /\ call[c].item \in Items
          /\ items[call[c].item].status = "changes_requested"
      BY <2>1 DEF IInv, BounceInv, Bouncing
    <3>2. items[i].status \in {"approved", "pending_review"}
      BY CallRefines, ApprovedFromReview
    <3>3. i # call[c].item
      BY <3>1, <3>2
    <3>4. items'[i] = items[i]
      BY <1>1, <1>11, <3>3 DEF BounceCall, TypeOK
    <3>5. QED BY <3>4
  <2>3. QED BY <1>7, <2>1, <2>2
<1>12. ASSUME NEW i \in Items, NEW verb \in DOMAIN Verbs, CliRecord(c, i, verb)
       PROVE  ApprovedInv'
  <2> DEFINE written == [item |-> i, round |-> items[i].attempt,
                         decision |-> Verbs[verb].decision, by |-> c]
  <2>1. /\ UNCHANGED <<items, crashes>> /\ call[c] = IdleCall
        /\ approvals' = approvals \cup {written}
        /\ \A d \in Callers \ {c} : call'[d] = call[d]
        /\ call'[c].item = i /\ call'[c].decision = Verbs[verb].decision
        /\ call'[c].step = "move"
    BY <1>1, <1>12 DEF CliRecord, TypeOK
  <2>2. written.item = i /\ written.decision = Verbs[verb].decision
    OBVIOUS
  <2>3. written \in approvals' /\ approvals \subseteq approvals'
    BY <2>1
  <2> HIDE DEF written
  <2>4. ApprovedIsRecorded'
    <3> SUFFICES ASSUME crashes = 0, NEW j \in Items, items[j].status = "approved"
                 PROVE  \/ HasApproval(j)'
                        \/ \E d \in Callers : call'[d].step = "record" /\ call'[d].item = j
      BY <2>1 DEF ApprovedIsRecorded
    <3>1. CASE HasApproval(j)
      BY <2>3, <3>1, ApprovalsKept
    <3>2. ASSUME NEW d \in Callers, call[d].step = "record", call[d].item = j
          PROVE  call'[d].step = "record" /\ call'[d].item = j
      BY <2>1, <3>2 DEF IdleCall
    <3>3. QED BY <3>1, <3>2 DEF ApprovedInv, ApprovedIsRecorded
  <2>5. ASSUME NEW d \in Callers, NEW j \in Items, call'[d].step = "move",
               call'[d].decision # "rejected", call'[d].item = j
        PROVE  HasApproval(j)'
    <3>1. CASE d = c
      <4>1. written.decision \in {"approved", "edited"}
        BY <2>1, <2>2, <2>5, <3>1 DEF Verbs
      <4>2. \E a \in approvals' : a.item = i /\ a.decision \in {"approved", "edited"}
        BY <2>2, <2>3, <4>1
      <4>3. HasApproval(i)'
        BY <4>2 DEF HasApproval
      <4>4. j = i
        BY <2>1, <2>5, <3>1
      <4>5. QED BY <4>3, <4>4
    <3>2. CASE d # c
      <4>1. HasApproval(j)
        BY <2>1, <2>5, <3>2 DEF ApprovedInv
      <4>2. QED BY <2>3, <4>1, ApprovalsKept
    <3>3. QED BY <3>1, <3>2
  <2>6. QED BY <2>4, <2>5 DEF ApprovedInv
<1>13. ASSUME NEW verb \in DOMAIN Verbs, CliMove(c, verb) PROVE ApprovedInv'
  <2>1. /\ UNCHANGED <<approvals, crashes>> /\ call[c].step = "move"
        /\ call[c].decision = Verbs[verb].decision
    BY <1>13 DEF CliMove
  <2>2. ASSUME NEW new, call' = [call EXCEPT ![c].step = "bounce", ![c].copy = new]
        PROVE  /\ \A d \in Callers \ {c} : call'[d] = call[d]
               /\ call'[c].step = "bounce"
    BY <1>1, <2>2 DEF TypeOK, Call
  <2>3. /\ \A d \in Callers \ {c} : call'[d] = call[d]
        /\ call'[c].step \in {"idle", "bounce"}
    <3>1. CASE Return(c)
      BY <1>1, <3>1, SkipRestFacts
    <3>2. CASE ~Return(c)
      BY <1>13, <2>2, <3>2 DEF CliMove
    <3>3. QED BY <3>1, <3>2
  <2>4. ASSUME NEW i \in Items, items'[i].status = "approved"
        PROVE  items[i].status = "approved" \/ HasApproval(i)
    <3>1. CASE items'[i] = items[i]
      BY <2>4, <3>1
    <3>2. CASE items'[i] # items[i]
      <4>0. items' = [items EXCEPT ![call[c].item] = Decided(items[call[c].item],
                        Verbs[verb].decision, Verbs[verb].to)]
        BY <1>13, <3>2 DEF CliMove
      <4>1. i = call[c].item /\ items'[i].status = Verbs[verb].to
        <5>1. i = call[c].item
          BY <1>1, <3>2, <4>0 DEF TypeOK
        <5>2. items'[i] = Decided(items[i], Verbs[verb].decision, Verbs[verb].to)
          BY <1>1, <4>0, <5>1 DEF TypeOK
        <5>3. QED BY <1>2, <5>1, <5>2 DEF Decided, Item
      <4>2. verb = "approve"
        BY <2>4, <4>1 DEF Verbs
      <4>3. call[c].decision # "rejected"
        BY <2>1, <4>2 DEF Verbs
      <4>4. QED BY <2>1, <4>1, <4>3 DEF ApprovedInv
    <3>3. QED BY <3>1, <3>2
  <2>5. ApprovedIsRecorded'
    <3> SUFFICES ASSUME crashes = 0, NEW j \in Items, items'[j].status = "approved"
                 PROVE  \/ HasApproval(j)'
                        \/ \E d \in Callers : call'[d].step = "record" /\ call'[d].item = j
      BY <2>1 DEF ApprovedIsRecorded
    <3>1. CASE HasApproval(j)
      BY <2>1, <3>1, ApprovalsKept
    <3>2. ASSUME NEW d \in Callers, call[d].step = "record", call[d].item = j
          PROVE  call'[d].step = "record" /\ call'[d].item = j
      BY <2>1, <2>3, <3>2
    <3>3. QED BY <2>4, <3>1, <3>2 DEF ApprovedInv, ApprovedIsRecorded
  <2>6. ASSUME NEW d \in Callers, NEW j \in Items, call'[d].step = "move",
               call'[d].decision # "rejected", call'[d].item = j
        PROVE  HasApproval(j)'
    <3>1. call'[d] = call[d]
      BY <2>3, <2>6
    <3>2. HasApproval(j)
      BY <2>6, <3>1 DEF ApprovedInv
    <3>3. QED BY <2>1, <3>1, <3>2, ApprovalsKept
  <2>7. QED BY <2>5, <2>6 DEF ApprovedInv
<1>14. QED
  BY <1>4, <1>6, <1>8, <1>9, <1>10, <1>11, <1>12, <1>13 DEF BeginCall, CallStep

\* With targets apart, as long as nothing died, an approved item has its decision
\* on record, or the call that approved it is about to write it.
THEOREM ApprovalsOnRecord == Spec /\ []TargetsApart => []ApprovedIsRecorded
<1>1. Init => ApprovedInv
  BY DEF Init, ApprovedInv, ApprovedIsRecorded, Absent, IdleCall
<1>2. IInv /\ RecordsInv /\ ApprovedInv /\ [Next]_vars => ApprovedInv'
  <2> SUFFICES ASSUME IInv, RecordsInv, ApprovedInv, [Next]_vars PROVE ApprovedInv'
    OBVIOUS
  <2>1. CASE UNCHANGED vars
    BY <2>1, NothingApproved DEF vars
  <2>2. CASE Crash
    <3>1. /\ crashes' # 0 /\ UNCHANGED approvals
          /\ \A c \in Callers : call'[c] = call[c] \/ call'[c].step = "idle"
      BY <2>2 DEF Crash, Return, IdleCall, IInv, TypeOK
    <3>2. ApprovedIsRecorded'
      BY <3>1 DEF ApprovedIsRecorded
    <3>3. ASSUME NEW d \in Callers, NEW j \in Items, call'[d].step = "move",
               call'[d].decision # "rejected", call'[d].item = j
          PROVE  HasApproval(j)'
      <4>1. call'[d] = call[d]
        BY <3>1, <3>3
      <4>2. HasApproval(j)
        BY <3>3, <4>1 DEF ApprovedInv
      <4>3. QED BY <3>1, <4>1, <4>2, ApprovalsKept
    <3>4. QED BY <3>2, <3>3 DEF ApprovedInv
  <2>3. QED BY <2>1, <2>2, WorkerApproved, CallApproved DEF Next
<1>3. ApprovedInv => ApprovedIsRecorded
  BY DEF ApprovedInv
<1>4. QED BY <1>1, <1>2, <1>3, InvariantHolds, RecordsHold, PTL DEF Spec
=============================================================================
