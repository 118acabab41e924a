------------------------------- MODULE MCBox -------------------------------
(***************************************************************************)
(* What runs on the box beside the sweep, and what the sweep's stages are  *)
(* made of, machine by machine: a request to Discord, the contract gate,   *)
(* the planner, rendering, the hook gate, the backup, an item on either    *)
(* store, the review station.  The machines share no variable, so a        *)
(* behaviour is one of the machine that was chosen in the initial state,   *)
(* while the others rest in theirs.                                        *)
(***************************************************************************)
EXTENDS Request, Contract, Planner, Media, HookGate, Backup, Parity, Station, TLC

CONSTANTS i1, i2, i3, s1, s2, w1

VARIABLE part   \* the machine that runs

boxVars == <<part, requestVars, contractVars, plannerVars, mediaVars, gateVars,
             backupVars, parityVars, stationVars>>

-----------------------------------------------------------------------------
(* Values for the constants of Planner, Media, HookGate and Station *)

\* Four ideas on every mix of platforms; the second scores best, the third is small.
FourIdeas == {[i \in 1..4 |-> [platform |-> p[i], score |-> IF i = 2 THEN 3 ELSE 2,
                               small |-> i = 3]]
                : p \in [1..4 -> {"both", "ig-carousel", "tiktok"}]}

\* A carousel and a reel, of the same world.
DeckAndReel == (i1 :> "carousel") @@ (i2 :> "reel")
SameWorld   == (i1 :> w1) @@ (i2 :> w1)

\* Two candidates of one slot and one of another; two hooks that are too alike.
TwoSlots   == (i1 :> s1) @@ (i2 :> s1) @@ (i3 :> s2)
AlikeHooks == {<<1, 2, 3, 4, 5, 6>>, <<1, 2, 3, 4, 5, 7>>}

\* A queue of two candidates of one slot in a tab, the second of them sensitive.
TwoItems == <<i1, i2>>
OneSlot  == (i1 :> i1) @@ (i2 :> i1)

-----------------------------------------------------------------------------

\* What a machine chooses in its initial state matters only if it runs.
BoxInit ==
  /\ part \in {"request", "contract", "planner", "media", "hook gate", "backup", "stores",
               "station"}
  /\ RequestInit /\ ContractInit /\ PlannerInit /\ MediaInit /\ GateInit /\ BackupInit
  /\ ParityInit /\ StationInit
  /\ part # "planner" => ideas = CHOOSE list \in IdeaLists : TRUE
  /\ part # "media" => \A i \in Pieces : \A n \in BeatCounts : beats[i] <= n
  /\ part # "stores" => ~database

\* A step of the machine that runs; every other one rests.
Runs(p, step) == /\ part = p /\ part' = p
                 /\ step
                 /\ p # "request"   => UNCHANGED requestVars
                 /\ p # "contract"  => UNCHANGED contractVars
                 /\ p # "planner"   => UNCHANGED plannerVars
                 /\ p # "media"     => UNCHANGED mediaVars
                 /\ p # "hook gate" => UNCHANGED gateVars
                 /\ p # "backup"    => UNCHANGED backupVars
                 /\ p # "stores"    => UNCHANGED parityVars
                 /\ p # "station"   => UNCHANGED stationVars

BoxNext == \/ Runs("request", RequestStep)
           \/ Runs("contract", ContractNext)
           \/ Runs("planner", PlannerNext)
           \/ Runs("media", MediaNext)
           \/ Runs("hook gate", GateNext)
           \/ Runs("backup", BackupNext)
           \/ Runs("stores", ParityNext)
           \/ Runs("station", StationNext)

BoxSpec == BoxInit /\ [][BoxNext]_boxVars

\* Once two workers were on one item, or two linters at work, nothing is claimed
\* of media and hooks; no behaviour of another machine is cut.  In a tab the two
\* decisions, the refresh, the other decider and the fault are three in all.
Bounded == /\ ~crossed /\ ~overlap
           /\ used.posts + used.refreshes + used.others + used.faults <= 3
=============================================================================
