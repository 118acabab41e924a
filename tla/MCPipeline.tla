----------------------------- MODULE MCPipeline -----------------------------
(* Values for the constants of Pipeline, its symmetries and a bound. *)
EXTENDS PipelineInv, FiniteSets, TLC

CONSTANT slot

\* Every item is a candidate for the same slot.
OneSlot == [i \in Items |-> slot]

\* The items of the slot are interchangeable, and so are the deciders and the
\* workers.
Symmetry == Permutations(Items) \cup Permutations(Reviewers)
              \cup Permutations(Workers)

\* The callers with a call under way or a decision on record.
Acted == {c \in Callers : call[c] # IdleCall \/ \E a \in approvals : a.by = c}

Running == {w \in Workers : job[w] # IdleJob}

\* Where the CLI takes part, one decide() call races it, nothing dies and no
\* item goes beyond its second attempt.  Where two runs overlap, they share no
\* target of a stage, one call races them, and no item goes beyond its second
\* attempt.
Bounded ==
  /\ \/ Acted \cap Operators = {}
     \/ /\ crashes = 0
        /\ Cardinality(Acted) <= 2
        /\ \A i \in Items : items[i].attempt <= 2
  /\ \/ Cardinality(Running) <= 1
     \/ /\ TargetsApart
        /\ Cardinality(Acted) <= 1
        /\ \A i \in Items : items[i].attempt <= 2
=============================================================================
