----------------------------- MODULE Contract -----------------------------
(***************************************************************************)
(* The contract gate of the tick: before every sweep the inputs of the     *)
(* renders (templates, mascots, studio comps, brand guide, catalog) are    *)
(* checked, and when the set of critical failures is another than at the   *)
(* last check, one failed run row tells the owner.  The fingerprint of     *)
(* that set is a setting, which a tick reads and writes without a lock: a  *)
(* second tick is about only when one has outlived its lock (TickLock).    *)
(* Errors of the store do not stop the sweep: a read of the setting that   *)
(* fails is taken for an empty one, a write that fails ends the gate.      *)
(***************************************************************************)
EXTENDS Integers, Sequences, FiniteSets

CONSTANTS Parts,        \* the critical checks of contractChecks
          GateTicks,    \* processes that run a sweep
          MaxDrifts,    \* bound on parts that break or are mended
          MaxGates,     \* bound on gates entered
          MaxCuts,      \* bound on gates cut short
          MaxMisreads   \* bound on reads of the setting that fail

ASSUME ContractAssumption == IsFiniteSet(GateTicks)

VARIABLES drifted,       \* the parts that would fail their check now
          contractState, \* settings.contract_state: the failures it stands for
          gate,          \* gate[t]: "out", "checked", "changed" or "noted"
          found,         \* found[t]: the failures tick t has found
          drifts,        \* history: changes of drifted
          told,          \* history: the failures in doctor:contract rows, in order
          overlaps,      \* history: gates entered while another was open
          cuts,          \* history: gates cut short, by a death or a failed write
          misreads,      \* history: reads of the setting that failed
          gates

contractVars == <<drifted, contractState, gate, found, drifts, told, overlaps,
                  gates, cuts, misreads>>

\* A template is deleted, a comp renamed, the catalog mended, ...
Drift(c) ==
  /\ drifts < MaxDrifts
  /\ drifts' = drifts + 1
  /\ drifted' = IF c \in drifted THEN drifted \ {c} ELSE drifted \cup {c}
  /\ UNCHANGED <<contractState, gate, found, told, overlaps, gates, cuts, misreads>>

\* contractChecks, and the fingerprint of what it found.
contractChecks(t) ==
  /\ gate[t] = "out" /\ gates < MaxGates
  /\ gate' = [gate EXCEPT ![t] = "checked"]
  /\ found' = [found EXCEPT ![t] = drifted]
  /\ gates' = gates + 1
  /\ overlaps' = IF \E u \in GateTicks : gate[u] # "out" THEN overlaps + 1 ELSE overlaps
  /\ UNCHANGED <<drifted, contractState, drifts, told, cuts, misreads>>

\* The setting is read, or the read fails and counts as no failures remembered;
\* the same failures as last time end the gate.
Compare(t) ==
  /\ gate[t] = "checked"
  /\ \E prev \in {contractState, {}} :
       /\ gate' = [gate EXCEPT ![t] = IF prev = found[t] THEN "out" ELSE "changed"]
       /\ prev # contractState => misreads < MaxMisreads
       /\ misreads' = IF prev = contractState THEN misreads ELSE misreads + 1
  /\ UNCHANGED <<drifted, contractState, found, drifts, told, overlaps, gates, cuts>>

\* Seeded fault: only the first of the failures is told, not a change of them.
NoteState_FirstOnly(t) ==
  /\ gate[t] = "changed"
  /\ contractState' = found[t]
  /\ gate' = [gate EXCEPT ![t] =
       IF found[t] = {} \/ contractState # {} THEN "out" ELSE "noted"]
  /\ UNCHANGED <<drifted, found, drifts, told, overlaps, gates, cuts, misreads>>

\* The setting is written, and only then the alert: a recovery is not told.
NoteState(t) ==
  /\ gate[t] = "changed"
  /\ contractState' = found[t]
  /\ gate' = [gate EXCEPT ![t] = IF found[t] = {} THEN "out" ELSE "noted"]
  /\ UNCHANGED <<drifted, found, drifts, told, overlaps, gates, cuts, misreads>>

\* The failed doctor:contract row.
Tell(t) ==
  /\ gate[t] = "noted"
  /\ told' = Append(told, found[t])
  /\ gate' = [gate EXCEPT ![t] = "out"]
  /\ UNCHANGED <<drifted, contractState, found, drifts, overlaps, gates, cuts, misreads>>

\* The tick dies, or the write it is at fails and its sweep goes on without it.
CutShort(t) ==
  /\ gate[t] # "out" /\ cuts < MaxCuts
  /\ gate' = [gate EXCEPT ![t] = "out"]
  /\ cuts' = cuts + 1
  /\ UNCHANGED <<drifted, contractState, found, drifts, told, overlaps, gates, misreads>>

ContractInit ==
  /\ drifted = {} /\ contractState = {} /\ told = <<>>
  /\ gate = [t \in GateTicks |-> "out"] /\ found = [t \in GateTicks |-> {}]
  /\ drifts = 0 /\ overlaps = 0 /\ gates = 0 /\ cuts = 0 /\ misreads = 0

ContractNext ==
  \/ \E c \in Parts : Drift(c)
  \/ \E t \in GateTicks :
       contractChecks(t) \/ Compare(t) \/ NoteState(t) \/ Tell(t) \/ CutShort(t)

ContractSpec == ContractInit /\ [][ContractNext]_contractVars

-----------------------------------------------------------------------------

\* What contract_state remembers has been told, or is about to be, unless a gate
\* was cut short between noting it and telling it.
NotedIsTold ==
  contractState # {} /\ cuts = 0 =>
    \/ contractState \in {told[i] : i \in DOMAIN told}
    \/ \E t \in GateTicks : gate[t] = "noted" /\ found[t] = contractState

\* A drift is told once, not once per tick (contractGate): there are never more
\* alerts than changes of what is broken, but for two with every tick that enters
\* while another is inside and one with every failed read of the setting, which
\* forgets what was told; and a state that is remembered has been told.
DriftIsToldOnce == Len(told) <= drifts + 2 * overlaps + misreads /\ NotedIsTold
=============================================================================
