----------------------------- MODULE Drafting -----------------------------
(***************************************************************************)
(* One run of the generate stage over the drafts of its date, call by      *)
(* call: complete() of the claude-cli driver spawns the CLI, once more     *)
(* with a corrective note for every reply it cannot use, and once more on  *)
(* the fallback model when the pinned one cannot be had; generateStage     *)
(* adds up what the accepted replies cost and stamps the run row with it.  *)
(* What happens to the items is Pipeline's matter.                         *)
(***************************************************************************)
EXTENDS Integers, FiniteSets

CONSTANTS Drafts,        \* items of the date in planned or drafting
          maxRetries,    \* corrective retries of one call: 2
          HasFallback    \* config.fallbackModel is set and another model

ASSUME DraftingAssumption == IsFiniteSet(Drafts) /\ maxRetries \in Nat

VARIABLES targets,     \* drafts the loop has not come to
          current,     \* the draft being written, {} between two
          try,         \* attempt of complete()
          fellBack,    \* the call runs on the fallback model
          running,     \* a CLI process runs for the call
          usage,       \* usage.costUsd of the stage
          stamp,       \* cost_usd of the run row; -1: not stamped
          stage,       \* "loop", "stamp", then "ok", "failed" or "dead"
          errors,      \* drafts that errored
          spent,       \* history: what the CLI has charged
          wasted       \* history: charges of spawns whose reply was not used

draftingVars == <<targets, current, try, fellBack, running, usage, stamp, stage, errors,
                  spent, wasted>>

callVars == <<current, try, fellBack>>

maxAttempts == 1 + maxRetries

\* The next item: its claim may be lost to somebody else's, and then nothing is
\* asked; else complete() starts on the pinned model.
TakeDraft(d) ==
  /\ stage = "loop" /\ current = {} /\ d \in targets
  /\ targets' = targets \ {d}
  /\ \/ current' = {} /\ errors' = errors \cup {d}
     \/ current' = {d} /\ UNCHANGED errors
  /\ try' = 1 /\ fellBack' = FALSE
  /\ UNCHANGED <<running, usage, stamp, stage, spent, wasted>>

\* _spawn: the CLI is started; it ends, or is killed when timeoutMs are over.
Spawn == /\ current # {} /\ ~running
         /\ running' = TRUE
         /\ UNCHANGED <<targets, callVars, usage, stamp, stage, errors, spent, wasted>>

\* What the CLI charges, whether or not its answer can be used.
Charge(cost, used) ==
  /\ running /\ running' = FALSE
  /\ spent' = spent + cost
  /\ wasted' = IF used THEN wasted ELSE wasted + cost

\* _fail and copyFrom: the envelope has its cost, but the result is thrown away.
CallFails == /\ current' = {} /\ errors' = errors \cup current
             /\ UNCHANGED <<try, fellBack, usage>>

\* Seeded fault: the model swapped in is forgotten at the next attempt.
Unavailable_Forgets ==
  /\ Charge(0, FALSE)
  /\ IF HasFallback /\ ~fellBack
       THEN UNCHANGED <<callVars, usage, errors>>
       ELSE CallFails
  /\ UNCHANGED <<targets, stamp, stage>>

\* isModelUnavailable: one swap, which takes no attempt.
Unavailable ==
  /\ Charge(0, FALSE)
  /\ IF HasFallback /\ ~fellBack
       THEN fellBack' = TRUE /\ UNCHANGED <<current, try, usage, errors>>
       ELSE CallFails
  /\ UNCHANGED <<targets, stamp, stage>>

\* Exit code, timeout, unreadable or error envelope: no retry.
SpawnError(cost) ==
  /\ Charge(cost, FALSE)
  /\ CallFails
  /\ UNCHANGED <<targets, stamp, stage>>

\* No JSON in the reply, or not the schema's: asked again, maxAttempts in all.
InvalidOutput ==
  /\ Charge(1, FALSE)
  /\ IF try < maxAttempts
       THEN try' = try + 1 /\ UNCHANGED <<current, fellBack, usage, errors>>
       ELSE CallFails
  /\ UNCHANGED <<targets, stamp, stage>>

\* Seeded fault: the run is stamped with the cost of its last draft.
Accepted_LastOnly ==
  /\ Charge(1, TRUE)
  /\ usage' = 1 /\ current' = {}
  /\ UNCHANGED <<targets, try, fellBack, stamp, stage, errors>>

\* The result carries the cost of this reply alone, not of those before it; it
\* counts although the draft's transition may then be refused.
Accepted ==
  /\ Charge(1, TRUE)
  /\ usage' = usage + 1 /\ current' = {}
  /\ errors' \in {errors, errors \cup current}
  /\ UNCHANGED <<targets, try, fellBack, stamp, stage>>

\* updateRun, best effort, when some reply was accepted.
StampRun ==
  /\ stage = "loop" /\ targets = {} /\ current = {}
  /\ stage' = IF errors = {} THEN "ok" ELSE "failed"
  /\ \/ usage > 0 /\ stamp' = usage
     \/ UNCHANGED stamp
  /\ UNCHANGED <<targets, callVars, running, usage, errors, spent, wasted>>

\* The process dies: what the run has spent stays unwritten.
DraftingDeath ==
  /\ stage = "loop" /\ stage' = "dead" /\ current' = {} /\ running' = FALSE
  /\ UNCHANGED <<targets, try, fellBack, usage, stamp, errors, spent, wasted>>

DraftingInit ==
  /\ targets = Drafts /\ current = {} /\ try = 1 /\ fellBack = FALSE /\ running = FALSE
  /\ usage = 0 /\ stamp = -1 /\ stage = "loop" /\ errors = {}
  /\ spent = 0 /\ wasted = 0

DraftingStep ==
  \/ \E d \in Drafts : TakeDraft(d)
  \/ Spawn \/ Unavailable \/ InvalidOutput \/ Accepted
  \/ \E cost \in 0..1 : SpawnError(cost)
  \/ StampRun

DraftingNext == DraftingStep \/ DraftingDeath

\* The stage goes on as long as its process lives.
DraftingFairness == WF_draftingVars(DraftingStep)

DraftingSpec == DraftingInit /\ [][DraftingNext]_draftingVars /\ DraftingFairness

-----------------------------------------------------------------------------

\* The cost a run is stamped with, which the spend cap adds up, is what was
\* spent on it but for the replies that could not be used, of which there are no
\* more than attempts (usageFrom, complete).
StampIsSpentButWaste ==
  /\ stamp # -1 => stamp = spent - wasted
  /\ wasted <= maxAttempts * Cardinality(Drafts)

\* Whatever the CLI answers, the stage ends: the swap of models, which gives an
\* attempt back, happens once in a call (the loop of complete).
DraftingEnds == <>(stage # "loop")
=============================================================================
