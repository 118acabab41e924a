----------------------------- MODULE FileStore -----------------------------
(***************************************************************************)
(* FileStore: documents are JSON files, replaced by renaming a temporary   *)
(* file over them, and a call that reads before it writes does so under a  *)
(* lock file next to the document, created with O_EXCL.  Creating an item  *)
(* takes no lock.  A process that dies inside leaves its lock behind.      *)
(***************************************************************************)
EXTENDS Integers

CONSTANTS Procs, Items, Keys, Statuses, Values, Calls, Absent,
          Creator,     \* Creator[i]: the process that may create item i
          Retries,     \* attempts at a lock file before the call gives up
          MaxCrashes   \* bound on process deaths

VARIABLES docs,     \* docs[d]: what the file of document d holds
          lock,     \* lock[d]: the lock file of document d exists
          pc,       \* pc[p]: how far process p is in its call
          call,     \* call[p]: the call p is making, or made last
          temp,     \* temp[p]: the temporary file p has written
          tries,    \* tries[p]: times p has found the lock file there
          answer,   \* answer[p]: what the call of p has come to
          crashes   \* processes that died so far

vars == <<docs, lock, pc, call, temp, tries, answer, crashes>>

ST == INSTANCE Store

ASSUME FileStoreAssumption == /\ ST!StoreConstants
                              /\ Creator \in [Items -> Procs]
                              /\ Retries \in Nat \ {0}
                              /\ MaxCrashes \in Nat

Docs == ST!Docs
NoCall == [kind |-> "none"]
NoTemp == Absent

Locked(c) == c.kind # "createItem"
Holding(p) == pc[p] \in {"read", "rename", "release"} /\ Locked(call[p])

-----------------------------------------------------------------------------

Init == /\ docs = [d \in Docs |-> ST!Empty(d)]
        /\ lock = [d \in Docs |-> FALSE]
        /\ pc = [p \in Procs |-> "idle"]
        /\ call = [p \in Procs |-> NoCall]
        /\ temp = [p \in Procs |-> NoTemp]
        /\ tries = [p \in Procs |-> 0]
        /\ answer = [p \in Procs |-> "none"]
        /\ crashes = 0

\* The call is over; answer[p] is what it answered.
Return(p) == /\ pc' = [pc EXCEPT ![p] = "idle"]
             /\ call' = [call EXCEPT ![p] = NoCall]
             /\ tries' = [tries EXCEPT ![p] = 0]

Goto(p, step) == /\ pc' = [pc EXCEPT ![p] = step]
                 /\ UNCHANGED <<call, tries>>

\* Both insert under an id drawn at random.
Fresh(c) == /\ docs[c.doc][c.key] = ST!Unset
            /\ \A q \in Procs : call[q] # c

\* A transition looks for its item before it asks for the lock, and a creator
\* before it puts his own; the others go for the lock at once.
Begin(p, c) ==
  /\ pc[p] = "idle"
  /\ c.kind = "createItem" => Creator[c.doc] = p
  /\ c.kind \in {"insertPlaybookRule", "insertOwnerNote"} => Fresh(c)
  /\ call' = [call EXCEPT ![p] = c]
  /\ pc' = [pc EXCEPT ![p] = IF c.doc \in Items THEN "exists" ELSE "acquire"]
  /\ answer' = [answer EXCEPT ![p] = "none"]
  /\ UNCHANGED <<docs, lock, temp, tries, crashes>>

\* transition: the item must be there.
Exists(p) ==
  /\ pc[p] = "exists"
  /\ call[p].kind = "transition"
  /\ IF docs[call[p].doc] = Absent
       THEN /\ answer' = [answer EXCEPT ![p] = "missing"]
            /\ Return(p)
       ELSE /\ Goto(p, "acquire")
            /\ UNCHANGED answer
  /\ UNCHANGED <<docs, lock, temp, crashes>>

\* planStage: an item that is there is left alone; else the shell is written
\* to a temporary file.
CreateCheck(p) ==
  /\ pc[p] = "exists"
  /\ call[p].kind = "createItem"
  /\ IF docs[call[p].doc] = Absent
       THEN /\ temp' = [temp EXCEPT ![p] = call[p].to]
            /\ Goto(p, "rename")
            /\ UNCHANGED answer
       ELSE /\ answer' = [answer EXCEPT ![p] = "skipped"]
            /\ Return(p)
            /\ UNCHANGED temp
  /\ UNCHANGED <<docs, lock, crashes>>

\* Seeded fault: the lock file is opened whether or not it is there.
Acquire_NotExclusive(p) ==
  /\ pc[p] = "acquire"
  /\ lock' = [lock EXCEPT ![call[p].doc] = TRUE]
  /\ Goto(p, "read")
  /\ UNCHANGED <<docs, temp, answer, crashes>>

Acquire(p) ==
  /\ pc[p] = "acquire"
  /\ ~lock[call[p].doc]
  /\ lock' = [lock EXCEPT ![call[p].doc] = TRUE]
  /\ Goto(p, "read")
  /\ UNCHANGED <<docs, temp, answer, crashes>>

\* Seeded fault: the attempts are not counted.
Busy_ForEver(p) ==
  /\ pc[p] = "acquire"
  /\ lock[call[p].doc]
  /\ UNCHANGED vars

\* EEXIST: sleep and try again, the last time give up.
Busy(p) ==
  /\ pc[p] = "acquire"
  /\ lock[call[p].doc]
  /\ IF tries[p] + 1 = Retries
       THEN /\ answer' = [answer EXCEPT ![p] = "timeout"]
            /\ Return(p)
       ELSE /\ tries' = [tries EXCEPT ![p] = @ + 1]
            /\ UNCHANGED <<pc, call, answer>>
  /\ UNCHANGED <<docs, lock, temp, crashes>>

\* Seeded fault: the status found under the lock is not compared.
Read_NoCompare(p) ==
  /\ pc[p] = "read"
  /\ temp' = [temp EXCEPT ![p] =
       IF call[p].doc \in Items THEN call[p].to
                                ELSE ST!After(call[p], docs[call[p].doc])]
  /\ Goto(p, "rename")
  /\ UNCHANGED <<docs, lock, answer, crashes>>

\* Under the lock: read the document again, and either fail or write the
\* changed copy to a temporary file.
Read(p) ==
  LET x == docs[call[p].doc]
      o == ST!Outcome(call[p], x)
  IN /\ pc[p] = "read"
     /\ IF o \in ST!Writes
          THEN /\ temp' = [temp EXCEPT ![p] = ST!After(call[p], x)]
               /\ Goto(p, "rename")
               /\ UNCHANGED answer
          ELSE /\ answer' = [answer EXCEPT ![p] = o]
               /\ Goto(p, "release")
               /\ UNCHANGED temp
     /\ UNCHANGED <<docs, lock, crashes>>

\* rename(tmp, path) replaces the document in one step.  From here on the
\* call has come to what it will answer.
Rename(p) ==
  /\ pc[p] = "rename"
  /\ docs' = [docs EXCEPT ![call[p].doc] = temp[p]]
  /\ temp' = [temp EXCEPT ![p] = NoTemp]
  /\ answer' = [answer EXCEPT ![p] = ST!Outcome(call[p], docs[call[p].doc])]
  /\ IF Locked(call[p]) THEN Goto(p, "release") ELSE Return(p)
  /\ UNCHANGED <<lock, crashes>>

\* finally: rm(lockPath, {force}).
Release(p) ==
  /\ pc[p] = "release"
  /\ lock' = [lock EXCEPT ![call[p].doc] = FALSE]
  /\ Return(p)
  /\ UNCHANGED <<docs, temp, answer, crashes>>

\* The process dies in a call: nothing removes its lock file.
Crash(p) ==
  /\ pc[p] # "idle"
  /\ crashes < MaxCrashes
  /\ crashes' = crashes + 1
  /\ Return(p)
  /\ temp' = [temp EXCEPT ![p] = NoTemp]
  /\ answer' = [answer EXCEPT ![p] = "none"]
  /\ UNCHANGED <<docs, lock>>

Proceed(p) == \/ Exists(p) \/ CreateCheck(p) \/ Acquire(p) \/ Busy(p)
              \/ Read(p) \/ Rename(p) \/ Release(p)

Next == \E p \in Procs : \/ Proceed(p)
                         \/ Crash(p)
                         \/ \E c \in Calls : Begin(p, c)

Fairness == \A p \in Procs : WF_vars(Proceed(p))

Spec     == Init /\ [][Next]_vars
FairSpec == Spec /\ Fairness

-----------------------------------------------------------------------------

\* Types: in particular, a file holds one whole document at every moment, and
\* an attempt at a lock is one of the Retries that file-store.mjs allows.
TypeOK ==
  /\ DOMAIN docs = Docs
  /\ \A d \in Docs : docs[d] \in ST!Contents(d)
  /\ lock \in [Docs -> BOOLEAN]
  /\ pc \in [Procs -> {"idle", "exists", "acquire", "read", "rename", "release"}]
  /\ call \in [Procs -> Calls \cup {NoCall}]
  /\ DOMAIN temp = Procs
  /\ \A p \in Procs : temp[p] \in IF pc[p] = "rename"
                                     THEN ST!Contents(call[p].doc) ELSE {NoTemp}
  /\ tries \in [Procs -> 0..Retries]
  /\ answer \in [Procs -> ST!Answers]
  /\ crashes \in 0..MaxCrashes

\* A lock file has at most one live holder, who alone is between reading the
\* document and removing the lock (file-store.mjs:9-10, "O_EXCL lockfile
\* guarding CAS transitions").
OneHolder ==
  \A p, q \in Procs : Holding(p) /\ Holding(q) /\ call[p].doc = call[q].doc
                        => p = q

\* FileStore does what one statement of PostgresStore does: whatever the
\* interleaving and whoever dies, each call takes effect at once or not at
\* all, and answers what it then found (postgres-store.mjs:4-6, "behaviourally
\* identical").
ImplementsStore == ST!StoreSpec

\* Every call returns, though a dead process holds the lock for ever
\* (file-store.mjs:54, "bounded wait so a wedged lock still errors").
EveryCallReturns == \A p \in Procs : pc[p] # "idle" ~> pc[p] = "idle"
=============================================================================
