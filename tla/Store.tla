------------------------------- MODULE Store -------------------------------
(***************************************************************************)
(* What the Store contract promises its callers: every call reads and      *)
(* writes its document in one step.  In PostgresStore each of these calls  *)
(* is one SQL statement; FileStore has to get there with files.            *)
(***************************************************************************)
CONSTANTS Procs,      \* processes that call the store
          Items,      \* content items, one document each
          Keys,       \* settings, ledger keys, rule ids, note ids
          Statuses,   \* item statuses
          Values,     \* values of settings
          Calls,      \* the calls that are made
          Absent      \* stands for the content of an item that does not exist

Unset == "unset"      \* a key with nothing under it

SharedDocs == {"settings", "telegram", "playbook", "notes"}
Docs       == Items \cup SharedDocs
Marks      == Values \cup {Unset, "claimed", "sent", "active", "retired", "noted"}

\* An item is known by its status here, a shared document by what is under
\* each key.
Contents(d) == IF d \in Items THEN Statuses \cup {Absent} ELSE [Keys -> Marks]

AllCalls ==
       [kind : {"transition"}, doc : Items, from : Statuses, to : Statuses]
  \cup [kind : {"createItem"}, doc : Items, to : Statuses]
  \cup [kind : {"setSetting"}, doc : {"settings"}, key : Keys, to : Values]
  \cup [kind : {"tgClaim"}, doc : {"telegram"}, key : Keys, to : {"claimed"}]
  \cup [kind : {"tgMarkSent"}, doc : {"telegram"}, key : Keys, to : {"sent"}]
  \cup [kind : {"insertPlaybookRule"}, doc : {"playbook"}, key : Keys,
        to : {"active"}]
  \cup [kind : {"setPlaybookRuleStatus"}, doc : {"playbook"}, key : Keys,
        to : {"active", "retired"}]
  \cup [kind : {"insertOwnerNote"}, doc : {"notes"}, key : Keys, to : {"noted"}]

\* What the constants have to satisfy.
StoreConstants == /\ Items \cap SharedDocs = {}
                  /\ Absent \notin Statuses
                  /\ Unset \notin Values
                  /\ Calls \subseteq AllCalls

VARIABLES docs,    \* docs[d]: the content of document d
          answer   \* answer[p]: what the call of process p has come to

vars == <<docs, answer>>

Writes  == {"ok", "claimed", "existing", "unknown"}
Answers == Writes \cup {"none", "missing", "conflict", "skipped", "timeout"}

\* What a call answers when it finds its document as x.
Outcome(c, x) ==
  CASE c.kind = "transition" -> IF x = Absent THEN "missing"
                                ELSE IF x = c.from THEN "ok" ELSE "conflict"
    [] c.kind = "createItem" -> IF x = Absent THEN "ok" ELSE "skipped"
    [] c.kind = "tgClaim" -> IF x[c.key] = Unset THEN "claimed" ELSE "existing"
    [] c.kind \in {"tgMarkSent", "setPlaybookRuleStatus"} ->
         IF x[c.key] = Unset THEN "unknown" ELSE "ok"
    [] OTHER -> "ok"

\* What the document is after it.
After(c, x) ==
  IF Outcome(c, x) \notin {"ok", "claimed"} THEN x
  ELSE IF c.doc \in Items THEN c.to ELSE [x EXCEPT ![c.key] = c.to]

-----------------------------------------------------------------------------

Empty(d) == IF d \in Items THEN Absent ELSE [k \in Keys |-> Unset]

Init == /\ docs = [d \in Docs |-> Empty(d)]
        /\ answer = [p \in Procs |-> "none"]

Perform(p, c) ==
  /\ answer[p] = "none"
  /\ docs' = [docs EXCEPT ![c.doc] = After(c, docs[c.doc])]
  /\ answer' = [answer EXCEPT ![p] = Outcome(c, docs[c.doc])]

\* A call may fail without having done anything.
Refuse(p) == /\ answer[p] = "none"
             /\ answer' = [answer EXCEPT ![p] = "timeout"]
             /\ UNCHANGED docs

\* The process makes another call, or is started again.
Forget(p) == /\ answer' = [answer EXCEPT ![p] = "none"]
             /\ UNCHANGED docs

StoreNext == \E p \in Procs : Refuse(p) \/ Forget(p) \/ \E c \in Calls : Perform(p, c)

StoreSpec == Init /\ [][StoreNext]_vars
=============================================================================
