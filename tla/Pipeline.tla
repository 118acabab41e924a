------------------------------ MODULE Pipeline ------------------------------
(***************************************************************************)
(* The content pipeline as the code runs it: stage workers (a tick, or a   *)
(* `run <stage>` from cron or a shell) that list their targets once and    *)
(* then work through that snapshot, and callers that decide items under    *)
(* review, through decide() or through the CLI verbs.  They share only the *)
(* store, whose transition() is an atomic compare-and-swap on the status   *)
(* of one item; every other step is a separate access, and a process may   *)
(* die between any two.                                                    *)
(*                                                                         *)
(* A draft is abstracted to the round (the item's attempt) the model was   *)
(* asked to write for, assets to the draft they were rendered from, a lint *)
(* report to the draft it read, and the owner's feedback (item.feedback,   *)
(* or the CLI's regen_note) to the round it was given on: 0 is "none yet". *)
(* OwnerText is a caption the owner typed in.                              *)
(***************************************************************************)
EXTENDS StateMachine, Integers

CONSTANTS Items,        \* the shells of one slot date
          NoItem,
          Group,        \* Group[i] is item i's candidate_group
          Workers,      \* processes that run stages
          Reviewers,    \* concurrent decide() calls: station, control channel
          Operators,    \* concurrent approve/reject/regen commands
          MaxAttempts,  \* config.retry.qa_max_attempts
          MaxRegens,    \* config.retry.regen_max
          MaxCrashes    \* bound on process deaths

ASSUME ConstantsAssumption ==
  /\ NoItem \notin Items
  /\ Reviewers \cap Operators = {}
  /\ MaxAttempts \in Nat \ {0}
  /\ MaxRegens \in Nat
  /\ MaxCrashes \in Nat

VARIABLES items,      \* the content_items table
          approvals,  \* the decision records
          job,        \* what each worker is doing
          call,       \* what each decision call is doing
          crashes     \* processes that died so far

vars == <<items, approvals, job, call, crashes>>

-----------------------------------------------------------------------------
(* Items and the store's compare-and-swap *)

OwnerText == -1

Item == [status      : Statuses \cup {"absent"},
         attempt     : Nat,
         regen_count : Nat,
         caption     : Nat \cup {OwnerText},
         assets      : Nat \cup {OwnerText},
         lint        : Nat \cup {OwnerText},
         feedback    : Nat]

Absent == [status |-> "absent", attempt |-> 0, regen_count |-> 0,
           caption |-> 0, assets |-> 0, lint |-> 0, feedback |-> 0]

Shell == [status |-> "planned", attempt |-> 1, regen_count |-> 0,
          caption |-> 0, assets |-> 0, lint |-> 0, feedback |-> 0]

\* transition() throws CasConflictError unless the item's status is `from`.
CasSucceeds(i, from) == items[i].status = from

\* A policy's answer, applied as a patch.
Bounced(item, next) == [item EXCEPT !.status      = next.to,
                                    !.attempt     = next.attempt,
                                    !.regen_count = next.regen_count]

-----------------------------------------------------------------------------
(* Workers *)

Stages == {"plan", "generate", "render", "qa"}

\* Seeded fault: a target a dead worker left in rendering is not listed.
Scans_NoResume == [generate |-> {"planned", "drafting"},
                   render   |-> {"drafted"},
                   qa       |-> {"rendered"}]

\* The statuses each stage lists.
Scans == [generate |-> {"planned", "drafting"},
          render   |-> {"drafted", "rendering"},
          qa       |-> {"rendered"}]

\* todo[i] is the worker's copy of target i, Absent when i is not (or no
\* longer) a target; item is the target it is in the middle of.
Job == [stage : Stages \cup {"idle"}, item : Items \cup {NoItem},
        todo : [Items -> Item]]

NoTodo  == [i \in Items |-> Absent]
IdleJob == [stage |-> "idle", item |-> NoItem, todo |-> NoTodo]

\* Worker w is between targets of `stage` and i is still one of them.
NextTarget(w, stage, i) == /\ job[w].stage = stage
                           /\ job[w].item = NoItem
                           /\ job[w].todo[i] # Absent

\* Worker w is in the middle of target i of `stage`.
Working(w, stage, i) == /\ job[w].stage = stage
                        /\ job[w].item = i

\* Take up target i, holding `copy` of it from now on.
TakeUp(w, i, copy) ==
  job' = [job EXCEPT ![w].item = i, ![w].todo[i] = copy]

\* Done with target i, well or badly; the last target ends the stage.
PutDown(w, i) ==
  LET rest == [job[w].todo EXCEPT ![i] = Absent]
  IN  job' = [job EXCEPT ![w] = IF rest = NoTodo
                                  THEN IdleJob
                                  ELSE [@ EXCEPT !.item = NoItem,
                                                 !.todo = rest]]

\* List the targets.  A stage that finds none does nothing.
StartStage(w, stage) ==
  LET targets == [i \in Items |-> IF items[i].status \in Scans[stage]
                                    THEN items[i] ELSE Absent]
  IN  /\ job[w] = IdleJob
      /\ targets # NoTodo
      /\ job' = [job EXCEPT ![w] = [stage |-> stage, item |-> NoItem,
                                    todo |-> targets]]
      /\ UNCHANGED <<items, approvals, call, crashes>>

StartPlan(w) ==
  /\ job[w] = IdleJob
  /\ \E i \in Items : items[i] = Absent
  /\ job' = [job EXCEPT ![w] = [stage |-> "plan", item |-> NoItem,
                                todo |-> [i \in Items |-> Shell]]]
  /\ UNCHANGED <<items, approvals, call, crashes>>

\* getItem: an existing item is left alone, a missing one will be put.
PlanCheck(w, i) ==
  /\ NextTarget(w, "plan", i)
  /\ IF items[i] = Absent THEN TakeUp(w, i, Shell) ELSE PutDown(w, i)
  /\ UNCHANGED <<items, approvals, call, crashes>>

\* putItem overwrites whatever is there.
PlanPut(w, i) ==
  /\ Working(w, "plan", i)
  /\ items' = [items EXCEPT ![i] = Shell]
  /\ PutDown(w, i)
  /\ UNCHANGED <<approvals, call, crashes>>

\* Claim a target for the stage with a compare-and-swap, or give it up if
\* somebody moved it since it was listed.
Claim(w, stage, i, from, to) ==
  /\ NextTarget(w, stage, i)
  /\ job[w].todo[i].status = from
  /\ IF CasSucceeds(i, from)
       THEN LET updated == [items[i] EXCEPT !.status = to]
            IN  items' = [items EXCEPT ![i] = updated] /\ TakeUp(w, i, updated)
       ELSE UNCHANGED items /\ PutDown(w, i)
  /\ UNCHANGED <<approvals, call, crashes>>

\* A target a crash or a bounce left in the stage's own working status is
\* resumed from the listed copy, without touching the store.
Resume(w, stage, i, status) ==
  /\ NextTarget(w, stage, i)
  /\ job[w].todo[i].status = status
  /\ TakeUp(w, i, job[w].todo[i])
  /\ UNCHANGED <<items, approvals, call, crashes>>

\* The model or the renderer failed: the target stays where it is.
GiveUp(w, stage, i) ==
  /\ Working(w, stage, i)
  /\ PutDown(w, i)
  /\ UNCHANGED <<items, approvals, call, crashes>>

\* The draft answers the round of the worker's copy, whatever has happened
\* to the item while the model was writing.
GenerateDraft(w, i) ==
  /\ Working(w, "generate", i)
  /\ items' = IF CasSucceeds(i, "drafting")
                THEN [items EXCEPT ![i].status  = "drafted",
                                   ![i].caption = job[w].todo[i].attempt]
                ELSE items
  /\ PutDown(w, i)
  /\ UNCHANGED <<approvals, call, crashes>>

GenerateItem(w, i) == \/ Claim(w, "generate", i, "planned", "drafting")
                      \/ Resume(w, "generate", i, "drafting")
                      \/ GenerateDraft(w, i)
                      \/ GiveUp(w, "generate", i)

\* Seeded fault: a redraft keeps the assets of the round before.
RenderAssets_KeepsOld(w, i) ==
  /\ Working(w, "render", i)
  /\ items' = IF CasSucceeds(i, "rendering")
                THEN [items EXCEPT ![i].status = "rendered",
                                   ![i].assets = IF @ = 0
                                                   THEN job[w].todo[i].caption
                                                   ELSE @]
                ELSE items
  /\ PutDown(w, i)
  /\ UNCHANGED <<approvals, call, crashes>>

RenderAssets(w, i) ==
  /\ Working(w, "render", i)
  /\ items' = IF CasSucceeds(i, "rendering")
                THEN [items EXCEPT ![i].status = "rendered",
                                   ![i].assets = job[w].todo[i].caption]
                ELSE items
  /\ PutDown(w, i)
  /\ UNCHANGED <<approvals, call, crashes>>

RenderItem(w, i) == \/ Claim(w, "render", i, "drafted", "rendering")
                    \/ Resume(w, "render", i, "rendering")
                    \/ RenderAssets(w, i)
                    \/ GiveUp(w, "render", i)

\* Lint the listed copy; the report travels with the transition.
QaPass(w, i) ==
  /\ NextTarget(w, "qa", i)
  /\ items' = IF CasSucceeds(i, "rendered")
                THEN [items EXCEPT ![i].status = "pending_review",
                                   ![i].lint = job[w].todo[i].caption]
                ELSE items
  /\ PutDown(w, i)
  /\ UNCHANGED <<approvals, call, crashes>>

\* Seeded fault: the second transition of a failed lint is forgotten.
QaFail_NoBounce(w, i) ==
  /\ NextTarget(w, "qa", i)
  /\ items' = IF CasSucceeds(i, "rendered")
                THEN [items EXCEPT ![i].status = "qa_failed",
                                   ![i].lint = job[w].todo[i].caption]
                ELSE items
  /\ PutDown(w, i)
  /\ UNCHANGED <<approvals, call, crashes>>

\* A failed lint is two transitions: into qa_failed here, out of it in
\* QaBounce.
QaFail(w, i) ==
  /\ NextTarget(w, "qa", i)
  /\ IF CasSucceeds(i, "rendered")
       THEN LET updated == [items[i] EXCEPT !.status = "qa_failed",
                                            !.lint = job[w].todo[i].caption]
            IN  items' = [items EXCEPT ![i] = updated] /\ TakeUp(w, i, updated)
       ELSE UNCHANGED items /\ PutDown(w, i)
  /\ UNCHANGED <<approvals, call, crashes>>

QaBounce(w, i) ==
  /\ Working(w, "qa", i)
  /\ items' = IF CasSucceeds(i, "qa_failed")
                THEN [items EXCEPT ![i] =
                        Bounced(@, qaFailNext(job[w].todo[i], MaxAttempts))]
                ELSE items
  /\ PutDown(w, i)
  /\ UNCHANGED <<approvals, call, crashes>>

\* The lint engine itself threw: the target stays rendered.
QaError(w, i) ==
  /\ NextTarget(w, "qa", i)
  /\ PutDown(w, i)
  /\ UNCHANGED <<items, approvals, call, crashes>>

QaItem(w, i) == QaPass(w, i) \/ QaFail(w, i) \/ QaBounce(w, i) \/ QaError(w, i)

PlanItem(w, i) == PlanCheck(w, i) \/ PlanPut(w, i)

WorkerStep(w) ==
  \/ StartPlan(w)
  \/ \E stage \in DOMAIN Scans : StartStage(w, stage)
  \/ \E i \in Items : \/ PlanItem(w, i)
                      \/ GenerateItem(w, i)
                      \/ RenderItem(w, i)
                      \/ QaItem(w, i)

-----------------------------------------------------------------------------
(* Decisions *)

Callers == Reviewers \cup Operators

STATUS_FOR_DECISION == [approved          |-> "approved",
                        edited            |-> "approved",
                        changes_requested |-> "changes_requested",
                        rejected          |-> "skipped"]

VALID_DECISIONS == DOMAIN STATUS_FOR_DECISION

\* A decision record.  round and by stand for decided_at and via: which
\* draft of the item was decided, and in which call.
Approval == [item : Items, round : Nat, decision : VALID_DECISIONS,
             by : Callers]

\* item and copy are the item the call is deciding (or auto-skipping) and
\* the copy transition() returned; todo holds siblings still to be skipped.
Call == [step : {"idle", "move", "record", "list", "skip", "recordSkip",
                 "bounce"},
         item : Items \cup {NoItem}, copy : Item,
         decision : VALID_DECISIONS, todo : SUBSET Items]

IdleCall == [step |-> "idle", item |-> NoItem, copy |-> Absent,
             decision |-> "rejected", todo |-> {}]

Proceed(c, step) == call' = [call EXCEPT ![c].step = step]
Return(c)        == call' = [call EXCEPT ![c] = IdleCall]

\* appendApproval for the draft call c holds.
AppendApproval(c, decision) ==
  approvals' = approvals \cup {[item     |-> call[c].item,
                                round    |-> call[c].copy.attempt,
                                decision |-> decision, by |-> c]}

\* The item moved out of review by a decision, with the patch it carries: an
\* edit replaces the caption, requested changes leave the feedback.  (decide()
\* patches no caption when the edited text is the one that is there; the item
\* is then an approved one whose text OwnerText stands for as well.)
Decided(item, decision, status) ==
  [item EXCEPT
     !.status   = status,
     !.caption  = IF status = "approved" /\ decision = "edited"
                    THEN OwnerText ELSE @,
     !.feedback = IF status = "changes_requested" THEN item.attempt ELSE @]

\* decide(): the item must be under review, or the caller gets a 409 and
\* nothing changes.
Decide(c, i, decision) ==
  LET updated == Decided(items[i], decision, STATUS_FOR_DECISION[decision])
  IN  /\ c \in Reviewers
      /\ call[c] = IdleCall
      /\ CasSucceeds(i, "pending_review")
      /\ items' = [items EXCEPT ![i] = updated]
      /\ call' = [call EXCEPT ![c] =
                    [step |-> "record", item |-> i, copy |-> updated,
                     decision |-> decision, todo |-> {}]]
      /\ UNCHANGED <<approvals, job, crashes>>

\* Seeded fault: an edit is saved but not recorded as a decision.
Record_NotEdits(c) ==
  /\ call[c].step = "record"
  /\ IF call[c].decision = "edited"
       THEN UNCHANGED approvals
       ELSE AppendApproval(c, call[c].decision)
  /\ CASE call[c].decision \in {"approved", "edited"} -> Proceed(c, "list")
       [] call[c].decision = "changes_requested"      -> Proceed(c, "bounce")
       [] call[c].decision = "rejected"               -> Return(c)
  /\ UNCHANGED <<items, job, crashes>>

\* The decision record is a second write, after the transition.
Record(c) ==
  /\ call[c].step = "record"
  /\ AppendApproval(c, call[c].decision)
  /\ CASE call[c].decision \in {"approved", "edited"} -> Proceed(c, "list")
       [] call[c].decision = "changes_requested"      -> Proceed(c, "bounce")
       [] call[c].decision = "rejected"               -> Return(c)
  /\ UNCHANGED <<items, job, crashes>>

\* autoSkipSiblings: the siblings under review at this moment.
ListSiblings(c) ==
  LET siblings == {s \in Items \ {call[c].item} :
                     /\ items[s].status = "pending_review"
                     /\ Group[s] = Group[call[c].item]}
  IN  /\ call[c].step = "list"
      /\ IF siblings = {}
           THEN Return(c)
           ELSE call' = [call EXCEPT ![c].step = "skip",
                                     ![c].todo = siblings]
      /\ UNCHANGED <<items, approvals, job, crashes>>

\* The call has dealt with every sibling but those of `rest`.
SkipRest(c, rest) ==
  IF rest = {} THEN Return(c)
               ELSE call' = [call EXCEPT ![c].step = "skip", ![c].todo = rest]

\* Seeded fault: a sibling that was decided in the meantime is skipped too.
SkipSibling_Blind(c, s) ==
  /\ call[c].step = "skip"
  /\ s \in call[c].todo
  /\ LET updated == [items[s] EXCEPT !.status = "skipped"]
     IN  /\ items' = [items EXCEPT ![s] = updated]
         /\ call' = [call EXCEPT ![c].step = "recordSkip",
                                 ![c].item = s,
                                 ![c].copy = updated]
  /\ UNCHANGED <<approvals, job, crashes>>

\* Skip one sibling; one decided in the meantime is left alone.
SkipSibling(c, s) ==
  /\ call[c].step = "skip"
  /\ s \in call[c].todo
  /\ IF CasSucceeds(s, "pending_review")
       THEN LET updated == [items[s] EXCEPT !.status = "skipped"]
            IN  /\ items' = [items EXCEPT ![s] = updated]
                /\ call' = [call EXCEPT ![c].step = "recordSkip",
                                        ![c].item = s,
                                        ![c].copy = updated]
       ELSE UNCHANGED items /\ SkipRest(c, call[c].todo \ {s})
  /\ UNCHANGED <<approvals, job, crashes>>

RecordSkip(c) ==
  /\ call[c].step = "recordSkip"
  /\ AppendApproval(c, "rejected")
  /\ SkipRest(c, call[c].todo \ {call[c].item})
  /\ UNCHANGED <<items, job, crashes>>

\* Requested changes do not park the item: send it back to drafting, or
\* give it up.  A conflict means somebody else advanced it.
BounceCall(c) ==
  /\ call[c].step = "bounce"
  /\ items' = IF CasSucceeds(call[c].item, "changes_requested")
                THEN [items EXCEPT ![call[c].item] =
                        Bounced(@, regenNext(call[c].copy, MaxRegens))]
                ELSE items
  /\ Return(c)
  /\ UNCHANGED <<approvals, job, crashes>>

\* The CLI verbs check the status and append the record first.  `regen`
\* records the decision "edited".  The check and the record are two accesses,
\* taken together here: nothing the verb does depends on what happens between
\* them, and a death there leaves nothing behind.
Verbs == [approve |-> [decision |-> "approved", to |-> "approved"],
          reject  |-> [decision |-> "rejected", to |-> "skipped"],
          regen   |-> [decision |-> "edited",   to |-> "changes_requested"]]

CliRecord(c, i, verb) ==
  /\ c \in Operators
  /\ call[c] = IdleCall
  /\ items[i].status = "pending_review"
  /\ approvals' = approvals \cup {[item     |-> i,
                                   round    |-> items[i].attempt,
                                   decision |-> Verbs[verb].decision,
                                   by       |-> c]}
  /\ call' = [call EXCEPT ![c] = [step |-> "move", item |-> i,
                                  copy |-> items[i],
                                  decision |-> Verbs[verb].decision,
                                  todo |-> {}]]
  /\ UNCHANGED <<items, job, crashes>>

\* Seeded fault: the command trusts the status it checked before recording.
CliMove_Blind(c, verb) ==
  LET i       == call[c].item
      updated == Decided(items[i], Verbs[verb].decision, Verbs[verb].to)
  IN  /\ call[c].step = "move"
      /\ call[c].decision = Verbs[verb].decision
      /\ items' = [items EXCEPT ![i] = updated]
      /\ IF verb = "regen"
           THEN call' = [call EXCEPT ![c].step = "bounce",
                                     ![c].copy = updated]
           ELSE Return(c)
      /\ UNCHANGED <<approvals, job, crashes>>

\* Then the item moves, unless it is no longer under review.  cmdApprove
\* leaves the siblings alone.
CliMove(c, verb) ==
  LET i       == call[c].item
      updated == Decided(items[i], Verbs[verb].decision, Verbs[verb].to)
  IN  /\ call[c].step = "move"
      /\ call[c].decision = Verbs[verb].decision
      /\ IF CasSucceeds(i, "pending_review")
           THEN /\ items' = [items EXCEPT ![i] = updated]
                /\ IF verb = "regen"
                     THEN call' = [call EXCEPT ![c].step = "bounce",
                                               ![c].copy = updated]
                     ELSE Return(c)
           ELSE UNCHANGED items /\ Return(c)
      /\ UNCHANGED <<approvals, job, crashes>>

\* What a call does on its own once it has begun.
CallStep(c) == \/ Record(c)
               \/ ListSiblings(c)
               \/ \E s \in Items : SkipSibling(c, s)
               \/ RecordSkip(c)
               \/ BounceCall(c)
               \/ \E verb \in DOMAIN Verbs : CliMove(c, verb)

BeginCall(c) == \E i \in Items :
  \/ \E decision \in VALID_DECISIONS : Decide(c, i, decision)
  \/ \E verb \in DOMAIN Verbs : CliRecord(c, i, verb)

-----------------------------------------------------------------------------
(* The system *)

\* A process dies: what it knew is gone, what it wrote stays.
Crash ==
  /\ crashes < MaxCrashes
  /\ crashes' = crashes + 1
  /\ \/ \E w \in Workers : /\ job[w] # IdleJob
                           /\ job' = [job EXCEPT ![w] = IdleJob]
                           /\ UNCHANGED call
     \/ \E c \in Callers : /\ call[c] # IdleCall
                           /\ Return(c)
                           /\ UNCHANGED job
  /\ UNCHANGED <<items, approvals>>

Init == /\ items = [i \in Items |-> Absent]
        /\ approvals = {}
        /\ job = [w \in Workers |-> IdleJob]
        /\ call = [c \in Callers |-> IdleCall]
        /\ crashes = 0

Next == \/ \E w \in Workers : WorkerStep(w)
        \/ \E c \in Callers : BeginCall(c) \/ CallStep(c)
        \/ Crash

Spec == Init /\ [][Next]_vars

\* The statuses the tick lists, and the stage it runs for each.  Nothing but
\* the daily cron entry of an item's own date starts a planned item.
TICK_STAGE_FOR_STATUS == [drafting  |-> "generate",
                          drafted   |-> "render",
                          rendering |-> "render",
                          rendered  |-> "qa"]

\* The tick finds an item that `stage` owes work and runs it.
TickStage(w, stage) ==
  /\ \E i \in Items : /\ items[i].status \in DOMAIN TICK_STAGE_FOR_STATUS
                      /\ TICK_STAGE_FOR_STATUS[items[i].status] = stage
  /\ StartStage(w, stage)

\* The scheduling the code justifies: a stage or a decision that was begun
\* goes on; ticks keep coming and sweep every stage; the model, the renderer
\* and the lint engine do not fail for ever on an item.  Nobody has to plan,
\* to draft a new item, or to decide, and nobody has to die.
Fairness ==
  /\ \A w \in Workers :
       /\ WF_vars(\E i \in Items : PlanItem(w, i))
       /\ \A stage \in DOMAIN Scans : SF_vars(TickStage(w, stage))
       /\ \A i \in Items : /\ SF_vars(Claim(w, "generate", i, "planned", "drafting"))
                           /\ SF_vars(Resume(w, "generate", i, "drafting"))
                           /\ SF_vars(GenerateDraft(w, i))
                           /\ SF_vars(Claim(w, "render", i, "drafted", "rendering"))
                           /\ SF_vars(Resume(w, "render", i, "rendering"))
                           /\ SF_vars(RenderAssets(w, i))
                           /\ SF_vars(QaPass(w, i) \/ QaFail(w, i))
                           /\ WF_vars(QaBounce(w, i))
  /\ \A c \in Callers : WF_vars(CallStep(c))

FairSpec == Spec /\ Fairness

-----------------------------------------------------------------------------
(* Properties *)

TypeOK ==
  /\ items \in [Items -> Item]
  /\ approvals \subseteq Approval
  /\ job \in [Workers -> Job]
  /\ call \in [Callers -> Call]
  /\ crashes \in 0..MaxCrashes

LC == INSTANCE Lifecycle
        WITH life <- [i \in Items |-> [status      |-> items[i].status,
                                       attempt     |-> items[i].attempt,
                                       regen_count |-> items[i].regen_count]]

\* Whatever the interleaving of deciders, crashes and workers that share no
\* target of a stage, every item lives the life Lifecycle promises: workers acting on
\* old copies never move an item along a step the table lacks, rewind it, or
\* spend a budget twice (generate, render, qa, decide and the CLI verbs).
ImplementsLifecycle == LC!LifeSpec

\* An item is redrafted at most MaxAttempts times plus its regenerations,
\* although the two counters are patched from copies read earlier (qaFailNext
\* in qa.mjs, regenNext in decide() and cmdRegen).
AttemptBudget == LC!RedraftBudget

\* What the owner is shown under review is one piece of work: the copy
\* answers the item's current round, the assets show that copy, and the lint
\* report is about it (generate, render and qa patch them from copies of the
\* item taken at different times), as long as no two runs of one stage share a
\* target.
CardIsCoherent ==
  \A i \in Items : items[i].status = "pending_review" =>
    /\ items[i].caption = items[i].attempt
    /\ items[i].assets = items[i].attempt
    /\ items[i].lint = items[i].attempt

\* What decide() has put on record; the CLI records before it moves.
ByDecide == {a \in approvals : a.by \in Reviewers}

\* One draft is decided once: whoever taps, and however often, at most one
\* record of decide() exists for one round of an item (its compare-and-swap,
\* against doubled requests, auto-skips in flight and the CLI's verbs).
DecidedOnce ==
  \A a, b \in ByDecide : a.item = b.item /\ a.round = b.round => a = b

\* A decision record written by decide() tells what became of the draft: an
\* approval is of an item that is approved, a rejection of one that is
\* skipped, and requested changes start a new round or end the item.
RecordsTellTheTruth ==
  \A a \in ByDecide :
    CASE a.decision \in {"approved", "edited"} ->
           items[a.item].status = "approved"
      [] a.decision = "rejected" -> items[a.item].status = "skipped"
      [] a.decision = "changes_requested" ->
           \/ items[a.item].attempt > a.round
           \/ items[a.item].status \in {"changes_requested", "skipped"}

HasApproval(i) == \E a \in approvals : /\ a.item = i
                                       /\ a.decision \in {"approved", "edited"}

\* As long as nothing has died, an approved item has its decision on record,
\* except while the call that approved it is between decide()'s two writes: a
\* lost race leaves none without (decide() moves first and records then, the
\* CLI the other way).
ApprovedIsRecorded ==
  crashes = 0 => \A i \in Items : items[i].status = "approved" =>
    \/ HasApproval(i)
    \/ \E c \in Callers : call[c].step = "record" /\ call[c].item = i

\* Only one post per slot: two candidates of a group are never both approved
\* (the comment on autoSkipSiblings in decide/index.mjs).
OnePostPerSlot ==
  \A i, j \in Items : /\ Group[i] = Group[j]
                      /\ items[i].status = "approved"
                      /\ items[j].status = "approved"
                      => i = j

\* A draft that comes back to review was written for a round after the one
\* the owner's latest feedback was given on, so the model had that feedback
\* before it, as the comment on copywriterRequest in generate.mjs says.  It
\* need not with two runs of generate on one item: the draft one of them asked
\* for before the note is accepted after it.
RedraftAnswersFeedback ==
  \A i \in Items : items[i].status = "pending_review"
                      => items[i].caption > items[i].feedback

InFlight == DOMAIN TICK_STAGE_FOR_STATUS
Limbo    == {"qa_failed", "changes_requested"}

\* Work the tick lists does not stay where it is for ever, even if its worker
\* dies: it ends up under review, decided, or, when the death fell between
\* the two transitions of a bounce, in one of the states no stage lists.
InFlightWorkDrains ==
  \A i \in Items : items[i].status \in InFlight
                     ~> items[i].status \notin InFlight

\* Whoever takes an item into qa_failed or changes_requested takes it out again,
\* for QA, decide() and the CLI alike, although the second transition is a call
\* of its own.  Only a death can leave it there, and then nothing moves it; a throw
\* of the record or the audit row that is written between the two is to the item
\* what a death is, and counted as one.
BouncesComplete ==
  \A i \in Items : items[i].status \in Limbo
                     ~> items[i].status \notin Limbo \/ crashes > 0
=============================================================================
