---------------------------- MODULE StateMachine ----------------------------
(***************************************************************************)
(* The content-pipeline state machine as data: the table of legal status   *)
(* changes and the policies that choose what follows a failed QA pass or   *)
(* an owner's "request changes".  Nothing here has state; Lifecycle and    *)
(* Pipeline use these definitions the way the stages use machine.mjs.      *)
(***************************************************************************)
EXTENDS Naturals

\* TRANSITIONS[s] is the set of statuses an item may move to from s.
TRANSITIONS ==
  [ planned           |-> {"drafting", "skipped"},
    drafting          |-> {"drafted", "skipped"},
    drafted           |-> {"rendering", "skipped"},
    rendering         |-> {"rendered", "skipped"},
    rendered          |-> {"pending_review", "qa_failed"},
    qa_failed         |-> {"drafting", "skipped"},
    pending_review    |-> {"approved", "changes_requested", "skipped"},
    changes_requested |-> {"drafting", "skipped"},
    approved          |-> {"scheduled", "skipped"},
    scheduled         |-> {"publishing", "skipped"},
    publishing        |-> {"published", "publish_failed"},
    publish_failed    |-> {"publishing", "skipped"},
    published         |-> {"measured"},
    measured          |-> {"archived"},
    skipped           |-> {},
    archived          |-> {} ]

Statuses ==
  {"planned", "drafting", "drafted", "rendering", "rendered", "qa_failed",
   "pending_review", "changes_requested", "approved", "scheduled",
   "publishing", "publish_failed", "published", "measured", "skipped",
   "archived"}

canTransition(from, to) == from \in Statuses /\ to \in TRANSITIONS[from]

(***************************************************************************)
(* A policy reads an item's counters and answers with the status to move   *)
(* to and the counters the patch carries.                                  *)
(***************************************************************************)

\* Out of qa_failed: redraft while attempts remain, otherwise give up.
qaFailNext(item, maxAttempts) ==
  IF item.attempt < maxAttempts
    THEN [to |-> "drafting", attempt |-> item.attempt + 1,
          regen_count |-> item.regen_count]
    ELSE [to |-> "skipped", attempt |-> item.attempt,
          regen_count |-> item.regen_count]

\* Seeded fault: the regeneration is not counted as an attempt.
regenNext_SameRound(item, maxRegens) ==
  IF item.regen_count < maxRegens
    THEN [to |-> "drafting", attempt |-> item.attempt,
          regen_count |-> item.regen_count + 1]
    ELSE [to |-> "skipped", attempt |-> item.attempt,
          regen_count |-> item.regen_count]

\* Seeded fault: the regeneration is not counted as one.
regenNext_Uncounted(item, maxRegens) ==
  IF item.regen_count < maxRegens
    THEN [to |-> "drafting", attempt |-> item.attempt + 1,
          regen_count |-> item.regen_count]
    ELSE [to |-> "skipped", attempt |-> item.attempt,
          regen_count |-> item.regen_count]

\* Out of changes_requested: redraft while regenerations remain.  A
\* regeneration also counts as a draft attempt.
regenNext(item, maxRegens) ==
  IF item.regen_count < maxRegens
    THEN [to |-> "drafting", attempt |-> item.attempt + 1,
          regen_count |-> item.regen_count + 1]
    ELSE [to |-> "skipped", attempt |-> item.attempt,
          regen_count |-> item.regen_count]
=============================================================================
