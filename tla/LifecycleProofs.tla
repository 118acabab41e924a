--------------------------- MODULE LifecycleProofs ---------------------------
(* Lifecycle's invariants, for every set of items and every budget. *)
EXTENDS Lifecycle, TLAPS

\* Every step keeps every item a status and two counters.
THEOREM LifeTypeCorrect == LifeSpec => []LifeTypeOK
<1>1. LifeInit => LifeTypeOK
  BY DEF LifeInit, LifeTypeOK, NotBorn, Life
<1>2. LifeTypeOK /\ [LifeNext]_life => LifeTypeOK'
  <2> SUFFICES ASSUME LifeTypeOK, [LifeNext]_life
               PROVE  LifeTypeOK'
    OBVIOUS
  <2> USE DEF LifeTypeOK
  <2>1. CASE UNCHANGED life
    BY <2>1
  <2>2. ASSUME NEW i \in Items, Create(i)
        PROVE  LifeTypeOK'
    BY <2>2 DEF Create, Newborn, Life, Statuses
  <2>3. ASSUME NEW i \in Items, NEW to \in Statuses, Advance(i, to)
        PROVE  LifeTypeOK'
    BY <2>3 DEF Advance, Life
  <2>4. ASSUME NEW i \in Items, Bounce(i)
        PROVE  LifeTypeOK'
    BY <2>4 DEF Bounce, qaFailNext, regenNext, Life, Statuses
  <2>5. QED BY <2>1, <2>2, <2>3, <2>4 DEF LifeNext
<1>3. QED BY <1>1, <1>2, PTL DEF LifeSpec

\* No item is ever redrafted beyond its budget, however often QA fails and
\* the owner asks for changes (qaFailNext, regenNext).
THEOREM BudgetHolds ==
  ASSUME BudgetsAreNatural
  PROVE  LifeSpec => []RedraftBudget
<1> USE BudgetsAreNatural DEF BudgetsAreNatural, RedraftBudget
<1>1. LifeInit => RedraftBudget
  BY DEF LifeInit, NotBorn
<1>2. LifeTypeOK /\ RedraftBudget /\ [LifeNext]_life => RedraftBudget'
  <2> SUFFICES ASSUME LifeTypeOK, RedraftBudget, [LifeNext]_life
               PROVE  RedraftBudget'
    OBVIOUS
  <2> USE DEF LifeTypeOK, Life
  <2>1. CASE UNCHANGED life
    BY <2>1
  <2>2. ASSUME NEW i \in Items, Create(i)
        PROVE  RedraftBudget'
    BY <2>2 DEF Create, Newborn
  <2>3. ASSUME NEW i \in Items, NEW to \in Statuses, Advance(i, to)
        PROVE  RedraftBudget'
    BY <2>3 DEF Advance
  <2>4. ASSUME NEW i \in Items, Bounce(i)
        PROVE  RedraftBudget'
    BY <2>4 DEF Bounce, qaFailNext, regenNext
  <2>5. QED BY <2>1, <2>2, <2>3, <2>4 DEF LifeNext
<1>3. QED BY <1>1, <1>2, LifeTypeCorrect, PTL DEF LifeSpec
=============================================================================
