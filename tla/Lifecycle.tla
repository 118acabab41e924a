------------------------------ MODULE Lifecycle ------------------------------
(***************************************************************************)
(* What the pipeline promises about every content item, whoever works on   *)
(* it: an item is created once as a planned shell, moves one legal step at *)
(* a time, returns to drafting only by spending an attempt (after a failed *)
(* QA pass) or a regeneration (after the owner asked for changes), and is  *)
(* given up from those two states only when that budget is spent.          *)
(***************************************************************************)
EXTENDS StateMachine

CONSTANTS Items,        \* content items (planner shells)
          MaxAttempts,  \* config.retry.qa_max_attempts
          MaxRegens     \* config.retry.regen_max

BudgetsAreNatural == MaxAttempts \in Nat \ {0} /\ MaxRegens \in Nat

VARIABLE life           \* life[i]: status and counters of item i

Life == [status : Statuses \cup {"absent"}, attempt : Nat, regen_count : Nat]

\* No store row exists for the item yet.
NotBorn == [status |-> "absent", attempt |-> 0, regen_count |-> 0]

\* The shell a planning run writes.
Newborn == [status |-> "planned", attempt |-> 1, regen_count |-> 0]

LifeInit == life = [i \in Items |-> NotBorn]

Create(i) ==
  /\ life[i].status = "absent"
  /\ life' = [life EXCEPT ![i] = Newborn]

\* One step of the table that leaves the counters alone.
Advance(i, to) ==
  /\ life[i].status \notin {"qa_failed", "changes_requested"}
  /\ canTransition(life[i].status, to)
  /\ life' = [life EXCEPT ![i].status = to]

\* The step out of qa_failed or changes_requested, chosen by its policy.
Bounce(i) ==
  LET next == IF life[i].status = "qa_failed"
                THEN qaFailNext(life[i], MaxAttempts)
                ELSE regenNext(life[i], MaxRegens)
  IN  /\ life[i].status \in {"qa_failed", "changes_requested"}
      /\ life' = [life EXCEPT ![i] = [status      |-> next.to,
                                      attempt     |-> next.attempt,
                                      regen_count |-> next.regen_count]]

LifeNext == \E i \in Items : \/ Create(i)
                             \/ \E to \in Statuses : Advance(i, to)
                             \/ Bounce(i)

LifeSpec == LifeInit /\ [][LifeNext]_life

-----------------------------------------------------------------------------

LifeTypeOK == life \in [Items -> Life]

\* An item is never redrafted beyond its budget: QA retries stop at
\* MaxAttempts and only regenerations, themselves at most MaxRegens, may add
\* rounds on top (qaFailNext and regenNext share the attempt counter).
RedraftBudget ==
  \A i \in Items : /\ life[i].regen_count <= MaxRegens
                   /\ life[i].attempt <= MaxAttempts + life[i].regen_count
=============================================================================
