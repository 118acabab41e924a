---------------------------- MODULE MCTickParts ----------------------------
(***************************************************************************)
(* What a tick process does below the level of Tick, for TLC: it takes its *)
(* lock, it calls the file store beside other processes, it drafts.  The   *)
(* three machines share no variable, so a behaviour is one of the machine  *)
(* that was chosen in the initial state, while the others rest.            *)
(***************************************************************************)
EXTENDS FileStore, TickLock, Drafting

CONSTANTS p1, p2, a

VARIABLE part   \* the machine that runs

-----------------------------------------------------------------------------
(* Two processes on one item, two settings and one ledger key.  Playbook   *)
(* and notes calls have the shape of these, and the proofs cover them.     *)

MCCreator == [i \in Items |-> p1]

MCCalls ==
  {[kind |-> "createItem", doc |-> a, to |-> "planned"],
   [kind |-> "transition", doc |-> a, from |-> "planned", to |-> "drafting"],
   [kind |-> "transition", doc |-> a, from |-> "drafting", to |-> "rendering"],
   [kind |-> "setSetting", doc |-> "settings", key |-> "k1", to |-> "on"],
   [kind |-> "setSetting", doc |-> "settings", key |-> "k2", to |-> "on"],
   [kind |-> "tgClaim", doc |-> "telegram", key |-> "k1", to |-> "claimed"],
   [kind |-> "tgMarkSent", doc |-> "telegram", key |-> "k1", to |-> "sent"]}

-----------------------------------------------------------------------------

TickPartsInit == /\ part \in {"store", "tick lock", "drafting"}
                 /\ Init /\ LockInit /\ DraftingInit

\* A step of the machine that runs; every other one rests.
Runs(p, step) == /\ part = p /\ part' = p
                 /\ step
                 /\ p # "store"     => UNCHANGED vars
                 /\ p # "tick lock" => UNCHANGED lockVars
                 /\ p # "drafting"  => UNCHANGED draftingVars

TickPartsNext == \/ Runs("store", Next)
                 \/ Runs("tick lock", LockNext)
                 \/ Runs("drafting", DraftingNext)

\* Fairness, LockFairness and DraftingFairness, each of its own machine.
TickPartsFairness ==
  /\ \A p \in Procs : WF_vars(part = "store" /\ Proceed(p))
  /\ WF_lockVars(part = "tick lock" /\ \E p \in Ticks : Start(p))
  /\ \A p \in Ticks : WF_lockVars(part = "tick lock" /\ Continue(p))
  /\ WF_lockVars(part = "tick lock" /\ Age)
  /\ WF_draftingVars(part = "drafting" /\ DraftingStep)

TickPartsSpec == /\ TickPartsInit
                 /\ [][TickPartsNext]_<<part, vars, lockVars, draftingVars>>
                 /\ TickPartsFairness

-----------------------------------------------------------------------------

\* SweepsComeBack of TickLock: no death stops the ticks for good, not even one
\* that leaves a lock with nothing in it.
SweepsResume == part = "tick lock" => SweepsComeBack

\* DraftingEnds of Drafting: whatever the CLI answers, the stage ends.
DraftingStops == part = "drafting" => DraftingEnds
=============================================================================
