---------------------------- MODULE PipelineInv ----------------------------
(***************************************************************************)
(* The inductive invariant behind Pipeline's safety properties as long as  *)
(* no two runs of one stage share a target.  It says why compare-and-swap  *)
(* on the status alone is then enough, however many runs overlap: the      *)
(* statuses of a stage are in the hands of that stage only, so the copies  *)
(* a worker holds never go stale, and an item between the two transitions  *)
(* of an owner's redo belongs to one call only.                            *)
(***************************************************************************)
EXTENDS Pipeline

Holds(w, i) == job[w].todo[i] # Absent

\* No two runs of one stage have the same item among their targets.  Runs of
\* different stages, and of one stage on different items, may overlap.
TargetsApart == \A v, w \in Workers, i \in Items :
  job[v].stage = job[w].stage /\ Holds(v, i) /\ Holds(w, i) => v = w

\* A planner puts only items that are missing.
PlannerInv == \A w \in Workers, i \in Items :
  job[w].stage = "plan" /\ Holds(w, i) =>
    /\ job[w].todo[i] = Shell
    /\ job[w].item = i => items[i] = Absent

\* The copy worker w holds of target i is current, and the item is in a
\* status the worker's stage may hold it in.
Current(w, i) ==
  /\ items[i] = job[w].todo[i]
  /\ job[w].stage = "generate" =>
       /\ items[i].status \in {"planned", "drafting"}
       /\ job[w].item = i => items[i].status = "drafting"
  /\ job[w].stage = "render" =>
       /\ items[i].status \in {"drafted", "rendering"}
       /\ job[w].item = i => items[i].status = "rendering"
  /\ job[w].stage = "qa" =>
       IF job[w].item = i THEN items[i].status = "qa_failed"
                          ELSE items[i].status = "rendered"

CopiesInv == \A w \in Workers, i \in Items :
  Holds(w, i) /\ job[w].stage \in {"generate", "render", "qa"} => Current(w, i)

\* The target a worker is in the middle of is one it holds.
MiddleInv == \A w \in Workers :
  job[w].item \in Items => Holds(w, job[w].item)

\* The call is between the transition to changes_requested and the bounce.
Bouncing(c) == \/ call[c].step = "bounce"
               \/ call[c].step = "record" /\ call[c].decision = "changes_requested"

\* An item a call is bouncing is as the call knows it, and no other call's.
BounceInv ==
  /\ \A c \in Callers : Bouncing(c) =>
       /\ call[c].item \in Items
       /\ items[call[c].item] = call[c].copy
       /\ call[c].copy.status = "changes_requested"
  /\ \A c, d \in Callers :
       Bouncing(c) /\ Bouncing(d) /\ call[c].item = call[d].item => c = d

\* A step that carries an item carries a real one.
CallInv == \A c \in Callers :
  call[c].step # "idle" => call[c].item \in Items

\* The attempts an item has had are within its budget.
Budgeted(item) == /\ item.regen_count <= MaxRegens
                  /\ item.attempt <= MaxAttempts + item.regen_count

BudgetInv == \A i \in Items : Budgeted(items[i])

\* The work on an item agrees with itself as far as the stages have come, and
\* answers the owner's last feedback as long as it goes on.
Coherent(item) ==
  /\ item.feedback <= item.attempt
  /\ item.status \notin {"absent", "changes_requested", "skipped"}
       => item.feedback < item.attempt
  /\ item.status \in {"drafted", "rendering", "rendered", "pending_review"}
       => item.caption = item.attempt
  /\ item.status \in {"rendered", "pending_review"}
       => item.assets = item.attempt
  /\ item.status = "pending_review" => item.lint = item.attempt

CoherenceInv == \A i \in Items : Coherent(items[i])

IInv == /\ TypeOK
        /\ PlannerInv
        /\ CopiesInv
        /\ MiddleInv
        /\ BounceInv
        /\ CallInv
        /\ BudgetInv
        /\ CoherenceInv
=============================================================================
