------------------------------ MODULE HookGate ------------------------------
(***************************************************************************)
(* The dedupe gate of QA across the slots of a week.  brandLint lists the  *)
(* items whose hooks count one status after the other, while decisions     *)
(* move them; computeDedupe compares hooks by their word 4-grams.  Rules   *)
(* on the text of a single item (gate 1) are a choice made by the draft.   *)
(***************************************************************************)
EXTENDS Integers, FiniteSets, Sequences

CONSTANTS Posts,     \* items of several slots
          SlotOf,    \* post -> its candidate_group
          Hooks,     \* hooks a draft may have: sequences of words
          N,         \* words to a gram: 4
          Linters,   \* processes that run the qa stage
          MaxHooks   \* bound on the drafts of a post

VARIABLES state,   \* state[p]: the status of p, as far as it matters here
          hook,    \* hook[p]: overlays.hook of its current draft
          drafts,  \* drafts[p]: how often it was drafted
          linting, \* linting[q]: the post process q lints, <<>> if none
          toList,  \*   the statuses it has not listed yet,
          corpus,  \*   and the hooks it has found
          overlap  \* history: two processes were linting at once

gateVars == <<state, hook, drafts, linting, toList, corpus, overlap>>

\* Seeded fault: what was published first comes first.
CorpusStatuses_Backwards == <<"approved", "pending_review">>

\* CORPUS_STATUSES, as far as anything moves an item yet.
CorpusStatuses == <<"pending_review", "approved">>

Grams(words) == IF words = <<>> THEN {}
                ELSE IF Len(words) < N THEN {words}
                ELSE {SubSeq(words, k, k + N - 1) : k \in 1..(Len(words) - N + 1)}

\* jaccard > dedupeBlock, 0.55; two hooks without a gram are not alike.
TooAlike(a, b) ==
  LET both == Cardinality(Grams(a) \cap Grams(b))
      any == Cardinality(Grams(a) \cup Grams(b))
  IN 100 * both > 55 * any

\* The linter takes a rendered item.
StartLint(q, p) ==
  /\ linting[q] = <<>> /\ state[p] = "rendered"
  /\ linting' = [linting EXCEPT ![q] = <<p>>]
  /\ toList' = [toList EXCEPT ![q] = CorpusStatuses]
  /\ corpus' = [corpus EXCEPT ![q] = {}]
  /\ overlap' = (overlap \/ \E r \in Linters : linting[r] # <<>>)
  /\ UNCHANGED <<state, hook, drafts>>

\* buildCorpus: one status is listed; siblings of the slot are left out.
ListStatus(q) ==
  /\ linting[q] # <<>> /\ toList[q] # <<>>
  /\ LET p == linting[q][1]
         found == {o \in Posts \ {p} : state[o] = Head(toList[q]) /\ SlotOf[o] # SlotOf[p]}
     IN corpus' = [corpus EXCEPT ![q] = @ \cup {hook[o] : o \in found}]
  /\ toList' = [toList EXCEPT ![q] = Tail(@)]
  /\ UNCHANGED <<state, hook, drafts, linting, overlap>>

\* The linter is done with its item.
Idle(q) == /\ linting' = [linting EXCEPT ![q] = <<>>]
           /\ corpus' = [corpus EXCEPT ![q] = {}]

\* computeDedupe and the verdict of qaStage; lawful is what gate 1 says.
Verdict(q, lawful) ==
  /\ linting[q] # <<>> /\ toList[q] = <<>>
  /\ LET p == linting[q][1]
         passed == lawful /\ \A h \in corpus[q] : ~TooAlike(hook[p], h)
     IN IF state[p] = "rendered"
          THEN state' = [state EXCEPT ![p] = IF passed THEN "pending_review" ELSE "drafting"]
          ELSE UNCHANGED state
  /\ Idle(q)
  /\ UNCHANGED <<hook, drafts, toList, overlap>>

\* The linting process dies.
LintDeath(q) == /\ linting[q] # <<>>
                /\ Idle(q)
                /\ toList' = [toList EXCEPT ![q] = <<>>]
                /\ UNCHANGED <<state, hook, drafts, overlap>>

\* generate and render: a new hook, or no more attempts.
NewDraft(p, h) ==
  /\ state[p] = "drafting" /\ drafts[p] < MaxHooks
  /\ hook' = [hook EXCEPT ![p] = h]
  /\ drafts' = [drafts EXCEPT ![p] = @ + 1]
  /\ state' = [state EXCEPT ![p] = "rendered"]
  /\ UNCHANGED <<linting, toList, corpus, overlap>>

\* approveItem, and autoSkipSiblings: the siblings in review are skipped.
Approve(p) ==
  /\ state[p] = "pending_review"
  /\ state' = [o \in Posts |->
       IF o = p THEN "approved"
       ELSE IF SlotOf[o] = SlotOf[p] /\ state[o] = "pending_review" THEN "skipped"
       ELSE state[o]]
  /\ UNCHANGED <<hook, drafts, linting, toList, corpus, overlap>>

\* Changes requested, or an item skipped by a decision or a command.
Reject(p, to) == /\ state[p] = "pending_review" \/ (state[p] = "approved" /\ to = "skipped")
                 /\ state' = [state EXCEPT ![p] = to]
                 /\ UNCHANGED <<hook, drafts, linting, toList, corpus, overlap>>

GateInit ==
  /\ state = [p \in Posts |-> "drafting"]
  /\ hook = [p \in Posts |-> <<>>]
  /\ drafts = [p \in Posts |-> 0]
  /\ linting = [q \in Linters |-> <<>>]
  /\ toList = [q \in Linters |-> <<>>] /\ corpus = [q \in Linters |-> {}]
  /\ overlap = FALSE

GateNext ==
  \/ \E q \in Linters :
       \/ \E p \in Posts : StartLint(q, p)
       \/ ListStatus(q) \/ LintDeath(q)
       \/ \E lawful \in BOOLEAN : Verdict(q, lawful)
  \/ \E p \in Posts :
       \/ \E h \in Hooks : NewDraft(p, h)
       \/ Approve(p)
       \/ \E to \in {"drafting", "skipped"} : Reject(p, to)

GateSpec == GateInit /\ [][GateNext]_gateVars

-----------------------------------------------------------------------------

\* Whatever the owner decides while a corpus is being listed, no two posts of
\* different slots that are in review or approved have hooks the gate calls alike,
\* as long as no two processes lint at once (buildCorpus, computeDedupe).
HooksStayApart ==
  \A p, o \in Posts :
    /\ p # o /\ SlotOf[p] # SlotOf[o] /\ ~overlap
    /\ {state[p], state[o]} \subseteq {"pending_review", "approved"}
    => ~TooAlike(hook[p], hook[o])
=============================================================================
