-------------------------- MODULE FileStoreProofs --------------------------
(***************************************************************************)
(* FileStore implements Store, for any number of callers, documents and    *)
(* deaths.  The invariant behind it says that a temporary file about to be *)
(* renamed is what Store would make of the document as it is now: whoever  *)
(* could change that document in between is kept out by the lock file, or  *)
(* is about to find the item there or missing.                             *)
(***************************************************************************)
EXTENDS FileStore, TLAPS

Steps == {"idle", "exists", "acquire", "read", "rename", "release"}

Typed == /\ docs = [d \in Docs |-> docs[d]]
         /\ \A d \in Docs : docs[d] \in ST!Contents(d)
         /\ lock \in [Docs -> BOOLEAN]
         /\ pc \in [Procs -> Steps]
         /\ call \in [Procs -> Calls \cup {NoCall}]
         /\ temp = [p \in Procs |-> temp[p]]
         /\ tries \in [Procs -> 0..(Retries - 1)]
         /\ answer \in [Procs -> ST!Answers]
         /\ crashes \in 0..MaxCrashes

\* What a process is about while it is in a call.
InCall == \A p \in Procs :
            /\ pc[p] = "idle" \/ call[p] \in Calls
            /\ pc[p] \in {"acquire", "read", "release"} => Locked(call[p])
            /\ pc[p] \in {"exists", "acquire", "read", "rename"}
                 => answer[p] = "none"

Creators == \A p \in Procs : ~Locked(call[p]) /\ pc[p] # "idle"
                               => Creator[call[p].doc] = p

HoldersLock == \A p \in Procs : Holding(p) => lock[call[p].doc]

\* The temporary file is what Store would make of the document as it is now.
Ready == \A p \in Procs :
           IF pc[p] = "rename"
             THEN /\ ST!Outcome(call[p], docs[call[p].doc]) \in ST!Writes
                  /\ temp[p] = ST!After(call[p], docs[call[p].doc])
             ELSE temp[p] = NoTemp

StoreInv == Typed /\ InCall /\ Creators /\ HoldersLock /\ OneHolder /\ Ready

-----------------------------------------------------------------------------
(* The calls *)

\* Items are created and moved, and nothing else is done to them.
LEMMA CallsOfItems ==
  ASSUME NEW c \in Calls
  PROVE  /\ c.doc \in Docs
         /\ c.kind \in {"transition", "createItem"} <=> c.doc \in Items
BY FileStoreAssumption
   DEF ST!StoreConstants, ST!AllCalls, Docs, ST!Docs, ST!SharedDocs

\* A call leaves a document that is one.
LEMMA AfterTyped ==
  ASSUME NEW c \in Calls, NEW x \in ST!Contents(c.doc)
  PROVE  /\ ST!After(c, x) \in ST!Contents(c.doc)
         /\ ST!Outcome(c, x) \in ST!Answers
<1>1. ST!Outcome(c, x) \in ST!Answers
  BY DEF ST!Outcome, ST!Answers, ST!Writes
<1>2. CASE c.doc \in Items
  <2>1. c.to \in Statuses
    BY <1>2, FileStoreAssumption
       DEF ST!StoreConstants, ST!AllCalls, ST!SharedDocs
  <2>2. QED BY <1>1, <1>2, <2>1 DEF ST!After, ST!Contents
<1>3. CASE c.doc \notin Items
  <2>1. c.key \in Keys /\ c.to \in ST!Marks
    BY <1>3, FileStoreAssumption
       DEF ST!StoreConstants, ST!AllCalls, ST!Marks
  <2>2. QED BY <1>1, <1>3, <2>1 DEF ST!After, ST!Contents
<1>4. QED BY <1>2, <1>3

\* A call that writes an item finds it missing if it creates it, and there if
\* it moves it.
LEMMA WritesWhatItFinds ==
  ASSUME NEW c \in Calls, NEW x, c.doc \in Items,
         ST!Outcome(c, x) \in ST!Writes
  PROVE  x = Absent <=> ~Locked(c)
BY CallsOfItems DEF ST!Outcome, ST!Writes, Locked

\* A call that is refused changes nothing.
LEMMA FailsUnchanged ==
  ASSUME NEW c, NEW x, ST!Outcome(c, x) \notin ST!Writes
  PROVE  ST!After(c, x) = x
BY DEF ST!After, ST!Writes

\* Nobody else is about to replace a document that somebody is about to.
LEMMA OneWriter ==
  ASSUME StoreInv, NEW p \in Procs, NEW q \in Procs,
         pc[p] = "rename", pc[q] = "rename", call[p].doc = call[q].doc
  PROVE  p = q
<1>1. call[p] \in Calls /\ call[q] \in Calls
  BY DEF StoreInv, InCall
<1>2. CASE Locked(call[p]) /\ Locked(call[q])
  BY <1>2 DEF StoreInv, OneHolder, Holding
<1>3. CASE ~Locked(call[p]) /\ ~Locked(call[q])
  BY <1>3 DEF StoreInv, Creators
<1>4. CASE Locked(call[p]) # Locked(call[q])
  <2>1. call[p].doc \in Items
    BY <1>1, <1>4, CallsOfItems DEF Locked
  <2>2. /\ ST!Outcome(call[p], docs[call[p].doc]) \in ST!Writes
        /\ ST!Outcome(call[q], docs[call[q].doc]) \in ST!Writes
    BY DEF StoreInv, Ready
  <2>3. /\ docs[call[p].doc] = Absent <=> ~Locked(call[p])
        /\ docs[call[p].doc] = Absent <=> ~Locked(call[q])
    BY <1>1, <2>1, <2>2, WritesWhatItFinds
  <2>4. QED BY <1>4, <2>3 DEF Locked
<1>5. QED BY <1>2, <1>3, <1>4 DEF Locked

-----------------------------------------------------------------------------
(* The invariant *)

LEMMA InitInv == Init => StoreInv
<1> SUFFICES ASSUME Init PROVE StoreInv
  OBVIOUS
<1>1. Typed
  BY FileStoreAssumption
     DEF Init, Typed, Steps, ST!Contents, ST!Empty, ST!Marks, ST!Answers
<1>2. InCall /\ Creators /\ HoldersLock /\ OneHolder /\ Ready
  BY DEF Init, InCall, Creators, HoldersLock, OneHolder, Ready, Holding
<1>3. QED BY <1>1, <1>2 DEF StoreInv

LEMMA BeginInv ==
  ASSUME StoreInv, NEW p \in Procs, NEW c \in Calls, Begin(p, c)
  PROVE  StoreInv'
<1>1. Typed'
  BY DEF StoreInv, Begin, Typed, Steps, ST!Answers
<1>2. /\ \A q \in Procs : q # p => pc'[q] = pc[q] /\ call'[q] = call[q]
                                   /\ answer'[q] = answer[q]
      /\ pc'[p] \in {"exists", "acquire"} /\ call'[p] = c
      /\ answer'[p] = "none" /\ pc[p] = "idle"
      /\ UNCHANGED <<docs, lock, temp>>
  BY DEF StoreInv, Begin, Typed
<1>3. pc'[p] = "acquire" => Locked(c)
  BY CallsOfItems DEF StoreInv, Typed, Begin, Locked
<1>4. InCall'
  BY <1>2, <1>3 DEF StoreInv, InCall, Locked
<1>5. Creators'
  BY <1>2 DEF StoreInv, Creators, Begin, Locked
<1>6. HoldersLock' /\ OneHolder'
  BY <1>2 DEF StoreInv, HoldersLock, OneHolder, Holding, Locked
<1>7. Ready'
  BY <1>2 DEF StoreInv, Ready
<1>8. QED BY <1>1, <1>4, <1>5, <1>6, <1>7 DEF StoreInv

LEMMA ReturnCounts ==
  ASSUME Typed, NEW p \in Procs, Return(p)
  PROVE  tries' \in [Procs -> 0..(Retries - 1)]
<1>1. 0 \in 0..(Retries - 1)
  BY FileStoreAssumption
<1>2. QED BY <1>1 DEF Typed, Return

\* A process that is out of its call keeps no claim on anything.
LEMMA ReturnInv ==
  ASSUME StoreInv, NEW p \in Procs, Return(p), Typed',
         \A q \in Procs : q # p => answer'[q] = answer[q],
         temp' = [temp EXCEPT ![p] = NoTemp], UNCHANGED docs,
         \A q \in Procs \ {p} : Holding(q) => lock'[call[q].doc]
  PROVE  StoreInv'
<1>1. /\ \A q \in Procs : q # p => pc'[q] = pc[q] /\ call'[q] = call[q]
                                   /\ temp'[q] = temp[q]
      /\ pc'[p] = "idle" /\ temp'[p] = NoTemp
  BY DEF StoreInv, Return, Typed
<1>2. InCall'
  BY <1>1 DEF StoreInv, InCall, Locked
<1>3. Creators'
  BY <1>1 DEF StoreInv, Creators, Locked
<1>4. HoldersLock' /\ OneHolder'
  BY <1>1 DEF StoreInv, HoldersLock, OneHolder, Holding, Locked
<1>5. Ready'
  BY <1>1 DEF StoreInv, Ready
<1>6. QED BY <1>2, <1>3, <1>4, <1>5 DEF StoreInv

LEMMA ExistsInv ==
  ASSUME StoreInv, NEW p \in Procs, Exists(p)
  PROVE  StoreInv'
<1>1. Typed'
  BY FileStoreAssumption
     DEF StoreInv, Exists, Typed, Steps, Return, Goto, ST!Answers
<1>2. CASE docs[call[p].doc] = Absent
  <2>1. temp' = [temp EXCEPT ![p] = NoTemp]
    BY DEF StoreInv, Typed, Ready, Exists
  <2>2. QED BY <1>1, <1>2, <2>1, ReturnInv
            DEF StoreInv, Typed, HoldersLock, Exists
<1>3. CASE docs[call[p].doc] # Absent
  <2>1. /\ \A q \in Procs : q # p => pc'[q] = pc[q]
        /\ pc'[p] = "acquire" /\ Locked(call[p])
        /\ UNCHANGED <<docs, lock, call, temp, answer>>
    BY <1>3 DEF StoreInv, Typed, Exists, Goto, Locked
  <2>2. InCall' /\ Creators'
    BY <2>1 DEF StoreInv, InCall, Creators, Locked, Exists
  <2>3. HoldersLock' /\ OneHolder' /\ Ready'
    BY <2>1 DEF StoreInv, HoldersLock, OneHolder, Ready, Holding, Locked, Exists
  <2>4. QED BY <1>1, <2>2, <2>3 DEF StoreInv
<1>4. QED BY <1>2, <1>3

LEMMA CreateCheckInv ==
  ASSUME StoreInv, NEW p \in Procs, CreateCheck(p)
  PROVE  StoreInv'
<1>1. Typed'
  BY FileStoreAssumption
     DEF StoreInv, CreateCheck, Typed, Steps, Return, Goto, ST!Answers
<1>2. CASE docs[call[p].doc] # Absent
  <2>1. temp' = [temp EXCEPT ![p] = NoTemp]
    BY <1>2 DEF StoreInv, Typed, Ready, CreateCheck
  <2>2. QED BY <1>1, <1>2, <2>1, ReturnInv
            DEF StoreInv, Typed, HoldersLock, CreateCheck
<1>3. CASE docs[call[p].doc] = Absent
  <2>1. /\ \A q \in Procs : q # p => pc'[q] = pc[q] /\ temp'[q] = temp[q]
        /\ pc'[p] = "rename" /\ ~Locked(call[p]) /\ temp'[p] = call[p].to
        /\ UNCHANGED <<docs, lock, call, answer>>
    BY <1>3 DEF StoreInv, Typed, CreateCheck, Goto, Locked
  <2>2. InCall' /\ Creators'
    BY <2>1 DEF StoreInv, InCall, Creators, Locked, CreateCheck
  <2>3. HoldersLock' /\ OneHolder'
    BY <2>1 DEF StoreInv, HoldersLock, OneHolder, Holding, Locked
  <2>4. call[p] \in Calls /\ call[p].doc \in Items
    BY CallsOfItems DEF StoreInv, InCall, CreateCheck
  <2>5. /\ ST!Outcome(call[p], docs[call[p].doc]) = "ok"
        /\ ST!After(call[p], docs[call[p].doc]) = call[p].to
    BY <1>3, <2>4 DEF CreateCheck, ST!Outcome, ST!After
  <2>6. Ready'
    BY <2>1, <2>5 DEF StoreInv, Ready, ST!Writes
  <2>7. QED BY <1>1, <2>2, <2>3, <2>6 DEF StoreInv
<1>4. QED BY <1>2, <1>3

LEMMA AcquireInv ==
  ASSUME StoreInv, NEW p \in Procs, Acquire(p)
  PROVE  StoreInv'
<1>1. call[p].doc \in Docs /\ Locked(call[p])
  BY CallsOfItems DEF StoreInv, InCall, Acquire
<1>2. Typed'
  BY DEF StoreInv, Acquire, Typed, Steps, Goto
<1>3. /\ \A q \in Procs : q # p => pc'[q] = pc[q]
      /\ pc'[p] = "read" /\ ~lock[call[p].doc]
      /\ lock' = [lock EXCEPT ![call[p].doc] = TRUE]
      /\ UNCHANGED <<docs, call, temp, answer>>
  BY DEF StoreInv, Typed, Acquire, Goto
<1>4. InCall' /\ Creators'
  BY <1>1, <1>3 DEF StoreInv, InCall, Creators, Locked, Acquire
<1>5. \A q \in Procs : Holding(q) => call[q].doc # call[p].doc
  BY <1>3 DEF StoreInv, HoldersLock
<1>6. \A q \in Procs : q # p => (Holding(q)' <=> Holding(q))
  BY <1>3 DEF Holding, Locked
<1>7. HoldersLock'
  <2> SUFFICES ASSUME NEW q \in Procs, Holding(q)' PROVE (lock[call[q].doc])'
    BY DEF HoldersLock
  <2>1. CASE q = p
    BY <1>1, <1>3, <2>1 DEF StoreInv, Typed
  <2>2. CASE q # p
    <3>1. lock[call[q].doc] /\ call[q].doc # call[p].doc
      BY <1>5, <1>6, <2>2 DEF StoreInv, HoldersLock
    <3>2. QED BY <1>3, <3>1, CallsOfItems
              DEF StoreInv, Typed, InCall, Holding, Locked
  <2>3. QED BY <2>1, <2>2
<1>8. OneHolder'
  BY <1>3, <1>5, <1>6 DEF StoreInv, OneHolder
<1>9. Ready'
  BY <1>3 DEF StoreInv, Ready, Acquire
<1>10. QED BY <1>2, <1>4, <1>7, <1>8, <1>9 DEF StoreInv

LEMMA BusyInv ==
  ASSUME StoreInv, NEW p \in Procs, Busy(p)
  PROVE  StoreInv'
<1>1. Typed'
  BY FileStoreAssumption
     DEF StoreInv, Busy, Typed, Steps, Return, ST!Answers
<1>2. CASE tries[p] + 1 = Retries
  <2>1. temp' = [temp EXCEPT ![p] = NoTemp]
    BY DEF StoreInv, Typed, Ready, Busy
  <2>2. QED BY <1>1, <1>2, <2>1, ReturnInv
            DEF StoreInv, Typed, HoldersLock, Busy
<1>3. CASE tries[p] + 1 # Retries
  <2>1. UNCHANGED <<docs, lock, pc, call, temp, answer>>
    BY <1>3 DEF Busy
  <2>2. InCall' /\ Creators' /\ HoldersLock' /\ OneHolder' /\ Ready'
    BY <2>1 DEF StoreInv, InCall, Creators, HoldersLock, OneHolder, Ready,
                Holding, Locked
  <2>3. QED BY <1>1, <2>2 DEF StoreInv
<1>4. QED BY <1>2, <1>3

LEMMA ReadInv ==
  ASSUME StoreInv, NEW p \in Procs, Read(p)
  PROVE  StoreInv'
<1> DEFINE x == docs[call[p].doc]
           o == ST!Outcome(call[p], x)
<1>1. /\ call[p] \in Calls /\ call[p].doc \in Docs
      /\ Locked(call[p]) /\ Holding(p)
  BY CallsOfItems DEF StoreInv, InCall, Read, Holding
<1>2. o \in ST!Answers
  BY <1>1, AfterTyped DEF StoreInv, Typed
<1>3. Typed'
  BY <1>2 DEF StoreInv, Read, Typed, Steps, Goto
<1>4. /\ \A q \in Procs : q # p => pc'[q] = pc[q] /\ temp'[q] = temp[q]
                                   /\ answer'[q] = answer[q]
      /\ pc[p] = "read"
      /\ IF o \in ST!Writes
           THEN /\ pc'[p] = "rename" /\ temp'[p] = ST!After(call[p], x)
                /\ answer'[p] = answer[p]
           ELSE pc'[p] = "release" /\ temp'[p] = temp[p]
      /\ UNCHANGED <<docs, lock, call>>
  BY DEF StoreInv, Typed, Read, Goto
<1>5. InCall' /\ Creators'
  BY <1>1, <1>4 DEF StoreInv, InCall, Creators, Locked
<1>6. HoldersLock' /\ OneHolder'
  BY <1>1, <1>4 DEF StoreInv, HoldersLock, OneHolder, Holding, Locked
<1>7. Ready'
  BY <1>4 DEF StoreInv, Ready
<1>8. QED BY <1>3, <1>5, <1>6, <1>7 DEF StoreInv

LEMMA RenameInv ==
  ASSUME StoreInv, NEW p \in Procs, Rename(p)
  PROVE  StoreInv'
<1>1. /\ call[p] \in Calls /\ call[p].doc \in Docs
      /\ temp[p] = ST!After(call[p], docs[call[p].doc])
  BY CallsOfItems DEF StoreInv, InCall, Rename, Ready
<1>2. /\ temp[p] \in ST!Contents(call[p].doc)
      /\ ST!Outcome(call[p], docs[call[p].doc]) \in ST!Answers
  BY <1>1, AfterTyped DEF StoreInv, Typed
<1>3. Typed'
  <2>1. /\ docs' = [d \in Docs |-> docs'[d]]
        /\ \A d \in Docs : docs'[d] \in ST!Contents(d)
    BY <1>1, <1>2 DEF StoreInv, Typed, Rename
  <2>2. /\ lock' \in [Docs -> BOOLEAN]
        /\ pc' \in [Procs -> Steps]
        /\ call' \in [Procs -> Calls \cup {NoCall}]
        /\ answer' \in [Procs -> ST!Answers]
        /\ temp' = [q \in Procs |-> temp'[q]]
    BY <1>2 DEF StoreInv, Typed, Rename, Steps, Goto, Return
  <2>3. tries' \in [Procs -> 0..(Retries - 1)] /\ crashes' \in 0..MaxCrashes
    BY ReturnCounts DEF StoreInv, Typed, Rename, Goto
  <2>4. QED BY <2>1, <2>2, <2>3 DEF Typed
<1>4. /\ \A q \in Procs : q # p => pc'[q] = pc[q] /\ temp'[q] = temp[q]
                                   /\ call'[q] = call[q]
                                   /\ answer'[q] = answer[q]
      /\ pc[p] = "rename" /\ temp'[p] = NoTemp
      /\ IF Locked(call[p]) THEN pc'[p] = "release" /\ call'[p] = call[p]
                            ELSE pc'[p] = "idle"
      /\ UNCHANGED lock
  BY DEF StoreInv, Typed, Rename, Goto, Return
<1>5. InCall' /\ Creators'
  BY <1>1, <1>4 DEF StoreInv, InCall, Creators, Locked
<1>6. \A q \in Procs : Holding(q)' => Holding(q) /\ call'[q] = call[q]
  BY <1>4 DEF Holding, Locked
<1>7. HoldersLock' /\ OneHolder'
  BY <1>4, <1>6 DEF StoreInv, HoldersLock, OneHolder
<1>8. Ready'
  <2> SUFFICES ASSUME NEW q \in Procs
               PROVE  (IF pc[q] = "rename"
                         THEN /\ ST!Outcome(call[q], docs[call[q].doc]) \in ST!Writes
                              /\ temp[q] = ST!After(call[q], docs[call[q].doc])
                         ELSE temp[q] = NoTemp)'
    BY DEF Ready
  <2>1. CASE q = p
    BY <1>4, <2>1
  <2>2. CASE q # p /\ pc[q] = "rename"
    <3>1. call[q].doc # call[p].doc
      BY <1>4, <2>2, OneWriter
    <3>2. docs'[call[q].doc] = docs[call[q].doc]
      BY <3>1, <2>2, CallsOfItems DEF StoreInv, Typed, InCall, Rename
    <3>3. QED BY <1>4, <2>2, <3>2 DEF StoreInv, Ready
  <2>3. CASE q # p /\ pc[q] # "rename"
    BY <1>4, <2>3 DEF StoreInv, Ready
  <2>4. QED BY <2>1, <2>2, <2>3
<1>9. QED BY <1>3, <1>5, <1>7, <1>8 DEF StoreInv

LEMMA ReleaseInv ==
  ASSUME StoreInv, NEW p \in Procs, Release(p)
  PROVE  StoreInv'
<1>1. call[p].doc \in Docs /\ Holding(p)
  BY CallsOfItems DEF StoreInv, InCall, Release, Holding
<1>2. Typed'
  <2>1. /\ lock' \in [Docs -> BOOLEAN]
        /\ pc' \in [Procs -> Steps]
        /\ call' \in [Procs -> Calls \cup {NoCall}]
    BY <1>1 DEF StoreInv, Typed, Release, Steps, Return
  <2>2. QED BY <2>1, ReturnCounts DEF StoreInv, Typed, Release
<1>3. temp' = [temp EXCEPT ![p] = NoTemp]
  BY DEF StoreInv, Typed, Ready, Release
<1>4. \A q \in Procs \ {p} : Holding(q) => lock'[call[q].doc]
  <2> SUFFICES ASSUME NEW q \in Procs \ {p}, Holding(q)
               PROVE  lock'[call[q].doc]
    OBVIOUS
  <2>1. lock[call[q].doc] /\ call[q].doc # call[p].doc
    BY <1>1 DEF StoreInv, HoldersLock, OneHolder
  <2>2. call[q].doc \in Docs
    BY CallsOfItems DEF StoreInv, InCall, Holding
  <2>3. QED BY <2>1, <2>2 DEF StoreInv, Typed, Release
<1>5. QED BY <1>2, <1>3, <1>4, ReturnInv DEF Release

LEMMA CrashInv ==
  ASSUME StoreInv, NEW p \in Procs, Crash(p)
  PROVE  StoreInv'
<1>1. Typed'
  <2>1. /\ pc' \in [Procs -> Steps]
        /\ call' \in [Procs -> Calls \cup {NoCall}]
        /\ temp' = [q \in Procs |-> temp'[q]]
        /\ answer' \in [Procs -> ST!Answers]
    BY DEF StoreInv, Typed, Crash, Steps, Return, ST!Answers
  <2>2. crashes' \in 0..MaxCrashes
    BY FileStoreAssumption DEF StoreInv, Typed, Crash
  <2>3. QED BY <2>1, <2>2, ReturnCounts DEF StoreInv, Typed, Crash
<1>2. QED BY <1>1, ReturnInv DEF StoreInv, Typed, HoldersLock, Crash

LEMMA NextInv == StoreInv /\ [Next]_vars => StoreInv'
<1> SUFFICES ASSUME StoreInv, [Next]_vars PROVE StoreInv'
  OBVIOUS
<1>1. CASE UNCHANGED vars
  BY <1>1 DEF vars, StoreInv, Typed, InCall, Creators, HoldersLock, OneHolder,
              Ready, Holding, Locked
<1>2. ASSUME NEW p \in Procs, Proceed(p) PROVE StoreInv'
  BY <1>2, ExistsInv, CreateCheckInv, AcquireInv, BusyInv, ReadInv, RenameInv,
     ReleaseInv DEF Proceed
<1>3. ASSUME NEW p \in Procs, Crash(p) PROVE StoreInv'
  BY <1>3, CrashInv
<1>4. ASSUME NEW p \in Procs, NEW c \in Calls, Begin(p, c) PROVE StoreInv'
  BY <1>4, BeginInv
<1>5. QED BY <1>1, <1>2, <1>3, <1>4 DEF Next

\* The invariant holds in every reachable state.
THEOREM StoreInvHolds == Spec => []StoreInv
BY InitInv, NextInv, PTL DEF Spec

\* However callers and deaths interleave, a lock file has at most one live
\* holder (FileStore.#acquireLock).
THEOREM LocksExclude == Spec => []OneHolder
<1>1. StoreInv => OneHolder
  BY DEF StoreInv
<1>2. QED BY <1>1, StoreInvHolds, PTL

\* Every document is whole at every moment, and every variable of its type
\* (FileStore.#writeJsonAtomic).
THEOREM FileStoreTyped == Spec => []TypeOK
<1>1. StoreInv => TypeOK
  <2> SUFFICES ASSUME StoreInv PROVE TypeOK
    OBVIOUS
  <2>1. ASSUME NEW p \in Procs
        PROVE  temp[p] \in IF pc[p] = "rename"
                             THEN ST!Contents(call[p].doc) ELSE {NoTemp}
    <3>1. CASE pc[p] = "rename"
      <4>1. call[p] \in Calls /\ call[p].doc \in Docs
        BY <3>1, CallsOfItems DEF StoreInv, InCall
      <4>2. QED BY <3>1, <4>1, AfterTyped DEF StoreInv, Typed, Ready
    <3>2. CASE pc[p] # "rename"
      BY <3>2 DEF StoreInv, Ready
    <3>3. QED BY <3>1, <3>2
  <2>2. tries \in [Procs -> 0..Retries]
    BY FileStoreAssumption DEF StoreInv, Typed
  <2>3. DOMAIN docs = Docs /\ DOMAIN temp = Procs
    BY DEF StoreInv, Typed
  <2>4. QED BY <2>1, <2>2, <2>3 DEF StoreInv, Typed, TypeOK, Steps
<1>2. QED BY <1>1, StoreInvHolds, PTL

-----------------------------------------------------------------------------
(* The refinement *)

LEMMA InitRefines == Init => ST!Init
BY DEF Init, ST!Init, Docs

\* A call that is refused after looking is a step of Store's that changes no
\* document.
LEMMA Refusal ==
  ASSUME StoreInv, NEW p \in Procs, pc[p] # "idle", answer[p] = "none",
         ST!Outcome(call[p], docs[call[p].doc]) \notin ST!Writes,
         answer' = [answer EXCEPT ![p] =
                      ST!Outcome(call[p], docs[call[p].doc])],
         UNCHANGED docs
  PROVE  ST!StoreNext
<1>1. call[p] \in Calls /\ call[p].doc \in Docs
  BY CallsOfItems DEF StoreInv, InCall
<1>2. docs' = [docs EXCEPT ![call[p].doc] =
                 ST!After(call[p], docs[call[p].doc])]
  BY <1>1, FailsUnchanged DEF StoreInv, Typed
<1>3. ST!Perform(p, call[p])
  BY <1>2 DEF ST!Perform
<1>4. QED BY <1>1, <1>3 DEF ST!StoreNext

LEMMA ProceedRefines ==
  ASSUME StoreInv, NEW p \in Procs, Proceed(p)
  PROVE  [ST!StoreNext]_(ST!vars)
<1>1. CASE Exists(p)
  <2>1. CASE docs[call[p].doc] = Absent
    <3>1. ST!Outcome(call[p], docs[call[p].doc]) = "missing"
      BY <1>1, <2>1 DEF Exists, ST!Outcome
    <3>2. pc[p] # "idle" /\ answer[p] = "none"
      BY <1>1 DEF StoreInv, InCall, Exists
    <3>3. QED BY <1>1, <2>1, <3>1, <3>2, Refusal DEF Exists, ST!Writes
  <2>2. CASE docs[call[p].doc] # Absent
    BY <1>1, <2>2 DEF Exists, ST!vars
  <2>3. QED BY <2>1, <2>2
<1>2. CASE CreateCheck(p)
  <2>1. CASE docs[call[p].doc] # Absent
    <3>1. ST!Outcome(call[p], docs[call[p].doc]) = "skipped"
      BY <1>2, <2>1 DEF CreateCheck, ST!Outcome
    <3>2. pc[p] # "idle" /\ answer[p] = "none"
      BY <1>2 DEF StoreInv, InCall, CreateCheck
    <3>3. QED BY <1>2, <2>1, <3>1, <3>2, Refusal DEF CreateCheck, ST!Writes
  <2>2. CASE docs[call[p].doc] = Absent
    BY <1>2, <2>2 DEF CreateCheck, ST!vars
  <2>3. QED BY <2>1, <2>2
<1>3. CASE Acquire(p)
  BY <1>3 DEF Acquire, ST!vars
<1>4. CASE Busy(p)
  BY <1>4 DEF StoreInv, InCall, Busy, ST!StoreNext, ST!Refuse, ST!vars
<1>5. CASE Read(p)
  <2>1. pc[p] # "idle" /\ answer[p] = "none"
    BY <1>5 DEF StoreInv, InCall, Read
  <2>2. CASE ST!Outcome(call[p], docs[call[p].doc]) \in ST!Writes
    BY <1>5, <2>2 DEF Read, ST!vars
  <2>3. CASE ST!Outcome(call[p], docs[call[p].doc]) \notin ST!Writes
    BY <1>5, <2>1, <2>3, Refusal DEF Read
  <2>4. QED BY <2>2, <2>3
<1>6. CASE Rename(p)
  <2>1. /\ call[p] \in Calls /\ answer[p] = "none"
        /\ temp[p] = ST!After(call[p], docs[call[p].doc])
    BY <1>6 DEF StoreInv, InCall, Ready, Rename
  <2>2. ST!Perform(p, call[p])
    BY <1>6, <2>1 DEF Rename, ST!Perform
  <2>3. QED BY <2>1, <2>2 DEF ST!StoreNext
<1>7. CASE Release(p)
  BY <1>7 DEF Release, ST!vars
<1>8. QED BY <1>1, <1>2, <1>3, <1>4, <1>5, <1>6, <1>7 DEF Proceed

LEMMA NextRefines == StoreInv /\ [Next]_vars => [ST!StoreNext]_(ST!vars)
<1> SUFFICES ASSUME StoreInv, [Next]_vars PROVE [ST!StoreNext]_(ST!vars)
  OBVIOUS
<1>1. CASE UNCHANGED vars
  BY <1>1 DEF vars, ST!vars
<1>2. ASSUME NEW p \in Procs, Proceed(p) PROVE [ST!StoreNext]_(ST!vars)
  BY <1>2, ProceedRefines
<1>3. ASSUME NEW p \in Procs, Crash(p) PROVE [ST!StoreNext]_(ST!vars)
  BY <1>3 DEF Crash, ST!StoreNext, ST!Forget
<1>4. ASSUME NEW p \in Procs, NEW c \in Calls, Begin(p, c)
      PROVE  [ST!StoreNext]_(ST!vars)
  BY <1>4 DEF Begin, ST!StoreNext, ST!Forget
<1>5. QED BY <1>1, <1>2, <1>3, <1>4 DEF Next

\* A store of files does to its callers what one SQL statement per call does,
\* for any number of callers, documents, attempts and deaths (file-store.mjs,
\* postgres-store.mjs).
THEOREM FileStoreImplementsStore == Spec => ImplementsStore
BY InitRefines, NextRefines, StoreInvHolds, PTL
   DEF Spec, ImplementsStore, ST!StoreSpec
=============================================================================
