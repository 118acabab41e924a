----------------------------- MODULE BoxProofs -----------------------------
(***************************************************************************)
(* The small machines of the box, for every value of their constants: the  *)
(* lock of the ticks and the one of the daemons, a request to Discord, the *)
(* calls of a generate run, the contract gate, the dedupe gate, the backup,*)
(* the two stores behind the stages, the files of the render stage, and    *)
(* the planner.                                                            *)
(***************************************************************************)
EXTENDS TickLock, Bot, Request, Drafting, Contract, HookGate, Backup, Parity,
        Media, Planner, FiniteSetTheorems, SequenceTheorems,
        WellFoundedInduction, TLAPS

-----------------------------------------------------------------------------
(* TickLock, for any number of ticks, overruns and deaths.  The argument   *)
(* counts the processes that hold the lock without a lock file of their    *)
(* own that keeps others out.  An overrun makes one of them; one that ends *)
(* its sweep may turn another into one, but is none any more itself;       *)
(* nothing else makes one while ticks start apart.                         *)

Holders == {p \in Ticks : tickAt[p] \in {"write", "sweep"}}

\* Whose lock file it is, while it keeps others out or is about to.
Guarded == IF file.text \in {"blank", "stamped"} THEN {file.by} ELSE {}

Unguarded == Holders \ Guarded

\* What a process knows of the file it created.
OwnText == \A p \in Ticks : file.by = p =>
             /\ tickAt[p] = "write" => file.text = "blank"
             /\ tickAt[p] = "sweep" => file.text # "blank"

Alone == \A p, q \in Acquiring : p = q

\* A lock that is about to be broken keeps nobody out.
BreaksStale == \A p \in Ticks : tickAt[p] = "break" => file.text # "stamped"

\* tickAt, broken and file; broken needs to be known as little as tickDeaths.
Typed == /\ file \in Files
         /\ tickAt \in [Ticks -> {"idle", "create", "write", "read", "break",
                                 "sweep"}]
         /\ overruns \in Nat

LockInv == /\ Typed
           /\ OwnText
           /\ ~contended => /\ Alone
                            /\ BreaksStale
                            /\ Cardinality(Unguarded) <= overruns

-----------------------------------------------------------------------------

\* Unguarded is a finite set.
LEMMA UnguardedFinite == IsFiniteSet(Unguarded)
  BY TickLockAssumption, FS_Subset DEF Unguarded, Holders

\* A subset of a finite set is no larger, nor is one that trades a member.
LEMMA Fewer ==
  ASSUME NEW S, IsFiniteSet(S), NEW R, R \subseteq S
  PROVE  IsFiniteSet(R) /\ Cardinality(R) <= Cardinality(S)
  BY FS_Subset, FS_CardinalityType

LEMMA Trade ==
  ASSUME NEW S, IsFiniteSet(S), NEW a \in S, NEW b, NEW R,
         R \subseteq (S \ {a}) \cup {b}
  PROVE  Cardinality(R) <= Cardinality(S)
<1>1. /\ IsFiniteSet(S \ {a})
      /\ Cardinality(S \ {a}) = Cardinality(S) - 1
  BY FS_RemoveElement
<1>2. /\ IsFiniteSet((S \ {a}) \cup {b})
      /\ Cardinality((S \ {a}) \cup {b}) <= Cardinality(S \ {a}) + 1
  BY <1>1, FS_AddElement, FS_CardinalityType
<1>3. Cardinality(R) <= Cardinality((S \ {a}) \cup {b})
  BY <1>2, Fewer
<1>. QED
  BY <1>1, <1>2, <1>3, FS_CardinalityType, FS_Subset

LEMMA OneMore ==
  ASSUME NEW S, IsFiniteSet(S), NEW b, NEW R, R \subseteq S \cup {b}
  PROVE  Cardinality(R) <= Cardinality(S) + 1
<1>1. /\ IsFiniteSet(S \cup {b})
      /\ Cardinality(S \cup {b}) <= Cardinality(S) + 1
  <2>1. Cardinality(S) \in Nat
    BY FS_CardinalityType
  <2>2. /\ IsFiniteSet(S \cup {b})
        /\ Cardinality(S \cup {b}) =
             IF b \in S THEN Cardinality(S) ELSE Cardinality(S) + 1
    BY FS_AddElement
  <2>. QED
    BY <2>1, <2>2
<1>2. Cardinality(R) <= Cardinality(S \cup {b})
  BY <1>1, Fewer
<1>. QED
  BY <1>1, <1>2, FS_CardinalityType, FS_Subset

-----------------------------------------------------------------------------

LEMMA InitInv == LockInit => LockInv
<1>. SUFFICES ASSUME LockInit PROVE LockInv
  OBVIOUS
<1>1. Unguarded = {} /\ Acquiring = {}
  BY DEF LockInit, Unguarded, Holders, Acquiring
<1>2. Cardinality({}) = 0
  BY FS_EmptySet
<1>. QED
  BY <1>1, <1>2, TickLockAssumption
     DEF LockInit, LockInv, Typed, OwnText, Alone, BreaksStale, NoFile, Files

\* The types and what a process knows of its own file.
LEMMA StepTyped ==
  ASSUME LockInv, [LockNext]_lockVars
  PROVE  Typed' /\ OwnText'
<1>. USE TickLockAssumption DEF LockInv, Typed, OwnText, Files, NoFile
<1>1. ASSUME NEW p \in Ticks, Start(p) PROVE Typed' /\ OwnText'
  BY <1>1 DEF Start
<1>2. ASSUME NEW p \in Ticks, Create(p) PROVE Typed' /\ OwnText'
  BY <1>2 DEF Create
<1>3. ASSUME NEW p \in Ticks, Write(p) PROVE Typed' /\ OwnText'
  BY <1>3 DEF Write
<1>4. ASSUME NEW p \in Ticks, FindLock(p) PROVE Typed' /\ OwnText'
  BY <1>4 DEF FindLock
<1>5. ASSUME NEW p \in Ticks, Break(p) PROVE Typed' /\ OwnText'
  BY <1>5 DEF Break
<1>6. ASSUME NEW p \in Ticks, ReleaseLock(p) PROVE Typed' /\ OwnText'
  BY <1>6 DEF ReleaseLock
<1>7. ASSUME Age PROVE Typed' /\ OwnText'
  BY <1>7 DEF Age
<1>8. ASSUME NEW p \in Ticks, DieInTick(p) PROVE Typed' /\ OwnText'
  BY <1>8 DEF DieInTick
<1>9. CASE UNCHANGED lockVars
  BY <1>9 DEF lockVars
<1>. QED
  BY <1>1, <1>2, <1>3, <1>4, <1>5, <1>6, <1>7, <1>8, <1>9
     DEF LockNext, Continue

\* While ticks start apart, one process at a time acquires the lock, and it
\* breaks only what keeps nobody out.
LEMMA StepAlone ==
  ASSUME LockInv, [LockNext]_lockVars, ~contended'
  PROVE  ~contended /\ Alone' /\ BreaksStale'
<1>. USE TickLockAssumption
     DEF LockInv, Typed, OwnText, Files, NoFile, Alone, BreaksStale, Acquiring
<1>1. ASSUME NEW p \in Ticks, Start(p)
      PROVE  ~contended /\ Alone' /\ BreaksStale'
  BY <1>1 DEF Start
<1>2. ASSUME NEW p \in Ticks, Create(p)
      PROVE  ~contended /\ Alone' /\ BreaksStale'
  BY <1>2 DEF Create
<1>3. ASSUME NEW p \in Ticks, Write(p)
      PROVE  ~contended /\ Alone' /\ BreaksStale'
  BY <1>3 DEF Write
<1>4. ASSUME NEW p \in Ticks, FindLock(p)
      PROVE  ~contended /\ Alone' /\ BreaksStale'
  BY <1>4 DEF FindLock
<1>5. ASSUME NEW p \in Ticks, Break(p)
      PROVE  ~contended /\ Alone' /\ BreaksStale'
  BY <1>5 DEF Break
<1>6. ASSUME NEW p \in Ticks, ReleaseLock(p)
      PROVE  ~contended /\ Alone' /\ BreaksStale'
  BY <1>6 DEF ReleaseLock
<1>7. ASSUME Age PROVE ~contended /\ Alone' /\ BreaksStale'
  BY <1>7 DEF Age
<1>8. ASSUME NEW p \in Ticks, DieInTick(p)
      PROVE  ~contended /\ Alone' /\ BreaksStale'
  BY <1>8 DEF DieInTick
<1>9. CASE UNCHANGED lockVars
  BY <1>9 DEF lockVars
<1>. QED
  BY <1>1, <1>2, <1>3, <1>4, <1>5, <1>6, <1>7, <1>8, <1>9
     DEF LockNext, Continue

\* While ticks start apart, only an overrun adds to the unguarded.
LEMMA StepCount ==
  ASSUME LockInv, [LockNext]_lockVars, ~contended, Typed'
  PROVE  Cardinality(Unguarded') <= overruns'
<1>. DEFINE Kept == Unguarded' \subseteq Unguarded /\ overruns' = overruns
<1>. USE TickLockAssumption, UnguardedFinite
     DEF LockInv, Typed, OwnText, Files, NoFile
<1>0. Kept => Cardinality(Unguarded') <= overruns'
  BY Fewer, FS_CardinalityType
<1>1. ASSUME NEW p \in Ticks, Start(p) PROVE Kept
  BY <1>1 DEF Start, Unguarded, Holders, Guarded
<1>2. ASSUME NEW p \in Ticks, Create(p) PROVE Kept
  BY <1>2 DEF Create, Unguarded, Holders, Guarded
<1>3. ASSUME NEW p \in Ticks, Write(p) PROVE Kept
  BY <1>3 DEF Write, Unguarded, Holders, Guarded
<1>4. ASSUME NEW p \in Ticks, FindLock(p) PROVE Kept
  BY <1>4 DEF FindLock, Unguarded, Holders, Guarded
<1>5. ASSUME NEW p \in Ticks, Break(p) PROVE Kept
  <2>1. file.text # "stamped" /\ tickAt[p] = "break"
    BY <1>5 DEF Break, BreaksStale
  <2>2. ASSUME NEW h \in Holders PROVE h \notin Guarded
    <3>1. CASE tickAt[h] = "write"
      BY <3>1, <2>1 DEF Alone, Acquiring, Holders
    <3>2. CASE tickAt[h] = "sweep"
      BY <3>2, <2>1 DEF Guarded, Holders
    <3>. QED
      BY <3>1, <3>2 DEF Holders
  <2>3. Holders' \subseteq Holders /\ overruns' = overruns
    BY <1>5 DEF Break, Holders
  <2>. QED
    BY <2>2, <2>3 DEF Unguarded
<1>6. ASSUME NEW p \in Ticks, ReleaseLock(p)
      PROVE  Cardinality(Unguarded') <= overruns'
  <2>1. overruns' = overruns /\ Unguarded' = Holders \ {p} /\ p \in Holders
    BY <1>6 DEF ReleaseLock, Unguarded, Holders, Guarded
  <2>2. CASE p \in Guarded
    BY <2>1, <2>2, <1>0 DEF Unguarded, Guarded
  <2>3. CASE p \notin Guarded
    <3>1. p \in Unguarded
      BY <2>1, <2>3 DEF Unguarded
    <3>2. Unguarded' \subseteq (Unguarded \ {p}) \cup {file.by}
      BY <2>1 DEF Unguarded, Guarded
    <3>3. Cardinality(Unguarded') <= Cardinality(Unguarded)
      BY <3>1, <3>2, Trade
    <3>4. IsFiniteSet(Unguarded')
      BY <2>1, FS_Subset DEF Holders
    <3>. QED
      BY <2>1, <3>3, <3>4, FS_CardinalityType
  <2>. QED
    BY <2>2, <2>3
<1>7. ASSUME Age PROVE Cardinality(Unguarded') <= overruns'
  <2>1. CASE file.by \in Sweepers
    <3>1. overruns' = overruns + 1
      BY <1>7, <2>1 DEF Age
    <3>2. Unguarded' \subseteq Unguarded \cup {file.by}
      BY <1>7 DEF Age, Unguarded, Holders, Guarded
    <3>3. Cardinality(Unguarded') <= Cardinality(Unguarded) + 1
      BY <3>2, OneMore
    <3>4. IsFiniteSet(Unguarded')
      BY <3>2, FS_AddElement, FS_Subset
    <3>. QED
      BY <3>1, <3>3, <3>4, FS_CardinalityType
  <2>2. CASE file.by \notin Sweepers
    <3>1. Kept
      BY <1>7, <2>2 DEF Age, Unguarded, Holders, Guarded, Sweepers
    <3>. QED
      BY <3>1, <1>0
  <2>. QED
    BY <2>1, <2>2
<1>8. ASSUME NEW p \in Ticks, DieInTick(p) PROVE Kept
  BY <1>8 DEF DieInTick, Unguarded, Holders, Guarded
<1>9. CASE UNCHANGED lockVars
  <2>1. Kept
    BY <1>9 DEF lockVars, Unguarded, Holders, Guarded
  <2>. QED
    BY <2>1, <1>0
<1>. QED
  BY <1>0, <1>1, <1>2, <1>3, <1>4, <1>5, <1>6, <1>7, <1>8, <1>9
     DEF LockNext, Continue

LEMMA InvHolds == LockSpec => []LockInv
<1>1. ASSUME LockInv, [LockNext]_lockVars PROVE LockInv'
  BY <1>1, StepTyped, StepAlone, StepCount DEF LockInv
<1>. QED
  BY InitInv, <1>1, PTL DEF LockSpec

\* Sweeps run beside each other only as overruns allow, for any number of
\* ticks, overruns and deaths, while ticks start apart.
THEOREM OneMorePerOverrunHolds == LockSpec => []OneMorePerOverrun
<1>1. ASSUME LockInv PROVE OneMorePerOverrun
  <2>. SUFFICES ASSUME ~contended PROVE Cardinality(Sweepers) <= 1 + overruns
    BY DEF OneMorePerOverrun
  <2>1. Sweepers \subseteq Unguarded \cup {file.by}
    BY DEF Sweepers, Unguarded, Holders, Guarded
  <2>2. Cardinality(Sweepers) <= Cardinality(Unguarded) + 1
    BY <2>1, OneMore, UnguardedFinite
  <2>3. IsFiniteSet(Sweepers)
    BY TickLockAssumption, FS_Subset DEF Sweepers
  <2>. QED
    BY <1>1, <2>2, <2>3, UnguardedFinite, FS_CardinalityType
       DEF LockInv, Typed
<1>. QED
  BY InvHolds, <1>1, PTL

-----------------------------------------------------------------------------
(* Request *)

\* As long as the caller waits, every posted message went unheard.
RequestInv == /\ accepted \in Nat /\ unheard \in Nat
              /\ outcome = "pending" => accepted = unheard
              /\ PostedOncePerLostAnswer

LEMMA RequestStepInv == ASSUME RequestInv, [RequestStep]_requestVars PROVE RequestInv'
<1> USE DEF RequestInv, PostedOncePerLostAnswer
<1>1. ASSUME outcome = "pending", Posted PROVE RequestInv'
  BY <1>1 DEF Posted
<1>2. ASSUME outcome = "pending", NEW kind \in {"again", "error"}, Answer(kind) PROVE RequestInv'
  BY <1>2 DEF Answer, AskAgain
<1>3. ASSUME outcome = "pending", NEW after \in BOOLEAN, Broken(after) PROVE RequestInv'
  BY <1>3 DEF Broken, AskAgain
<1>4. CASE UNCHANGED requestVars
  BY <1>4 DEF requestVars
<1> QED BY <1>1, <1>2, <1>3, <1>4 DEF RequestStep

\* However often a call is tried again, it posts one message, and one more for
\* each answer that got lost.
THEOREM CallsPostOnce == RequestSpec => []PostedOncePerLostAnswer
<1>1. RequestInit => RequestInv
  BY DEF RequestInit, RequestInv, PostedOncePerLostAnswer
<1>2. RequestInv => PostedOncePerLostAnswer
  BY DEF RequestInv
<1> QED BY <1>1, <1>2, RequestStepInv, PTL DEF RequestSpec

-----------------------------------------------------------------------------
(* Drafting: what calls may waste is counted call by call. *)

\* Drafts the loop is done with.
Done == Drafts \ (targets \cup current)

\* What the calls so far may have wasted.
Allowed == maxAttempts * Cardinality(Done) + (IF current = {} THEN 0 ELSE try - 1)

DraftingInv ==
  /\ targets \subseteq Drafts
  /\ current = {} \/ \E d \in Drafts \ targets : current = {d}
  /\ try \in 1..maxAttempts
  /\ spent \in Nat /\ wasted \in Nat /\ usage \in Nat
  /\ usage = spent - wasted
  /\ stage = "loop" => stamp = -1
  /\ stamp # -1 => stamp = usage
  /\ current # {} => stage = "loop"
  /\ running => current # {}
  /\ wasted <= Allowed

LEMMA DoneFinite == IsFiniteSet(Done) /\ Cardinality(Done) \in Nat
  BY DraftingAssumption, FS_Subset, FS_CardinalityType DEF Done

LEMMA OneMoreDone ==
  ASSUME NEW d, d \in Drafts, d \notin Done
  PROVE  /\ Cardinality(Done \cup {d}) = Cardinality(Done) + 1
         /\ maxAttempts * Cardinality(Done \cup {d}) = maxAttempts * Cardinality(Done) + maxAttempts
<1>1. Cardinality(Done \cup {d}) = Cardinality(Done) + 1
  BY DoneFinite, FS_AddElement
<1>2. ASSUME NEW m \in Nat, NEW a \in Nat PROVE m * (a + 1) = m * a + m
  OBVIOUS
<1>3. maxAttempts \in Nat
  BY DraftingAssumption DEF maxAttempts
<1> HIDE DEF maxAttempts
<1> QED BY <1>1, <1>2, <1>3, DoneFinite

\* A call that is over leaves room for what its attempts wasted.
LEMMA CallOver ==
  ASSUME DraftingInv, current # {}, current' = {}, targets' = targets
  PROVE  Allowed' = Allowed - (try - 1) + maxAttempts
<1>1. PICK d \in Drafts \ targets : current = {d}
  BY DEF DraftingInv
<1>2. Done' = Done \cup {d} /\ d \notin Done
  BY <1>1 DEF Done, DraftingInv
<1>3. maxAttempts * Cardinality(Done \cup {d}) = maxAttempts * Cardinality(Done) + maxAttempts
  BY <1>1, <1>2, OneMoreDone
<1>4. Allowed' = maxAttempts * Cardinality(Done') + 0
  BY DEF Allowed, maxAttempts
<1>5. Allowed = maxAttempts * Cardinality(Done) + (try - 1)
  BY DEF Allowed
<1>6. /\ try \in Int /\ maxAttempts \in Int /\ maxAttempts * Cardinality(Done) \in Int
  BY DoneFinite, DraftingAssumption DEF DraftingInv, maxAttempts
<1> HIDE DEF maxAttempts
<1> QED BY <1>2, <1>3, <1>4, <1>5, <1>6

LEMMA AllowedInt == DraftingInv => Allowed \in Int
  BY DoneFinite, DraftingAssumption DEF DraftingInv, maxAttempts, Allowed

LEMMA TakeDraftInv == ASSUME DraftingInv, NEW d \in Drafts, TakeDraft(d) PROVE DraftingInv'
<1> USE DEF DraftingInv
<1>1. /\ stage = "loop" /\ current = {} /\ d \in targets /\ targets' = targets \ {d}
      /\ try' = 1
      /\ UNCHANGED <<running, usage, stamp, stage, spent, wasted>>
  BY DEF TakeDraft
<1>2. 1 \in 1..maxAttempts
  BY DraftingAssumption DEF maxAttempts
<1>3. wasted <= maxAttempts * Cardinality(Done)
  BY <1>1, DoneFinite, DraftingAssumption DEF Allowed, maxAttempts
<1>4. CASE current' = {}
  <2>1. Done' = Done \cup {d} /\ d \notin Done
    BY <1>1, <1>4 DEF Done
  <2>2. Allowed' = maxAttempts * Cardinality(Done \cup {d})
    <3>1. Allowed' = maxAttempts * Cardinality(Done') + 0
      BY <1>4 DEF Allowed, maxAttempts
    <3>2. maxAttempts * Cardinality(Done \cup {d}) \in Int
      BY <2>1, OneMoreDone, DoneFinite, DraftingAssumption DEF maxAttempts
    <3> HIDE DEF maxAttempts
    <3> QED BY <3>1, <3>2, <2>1
  <2>3. wasted' <= Allowed'
    BY <1>1, <1>3, <2>1, <2>2, OneMoreDone, DoneFinite, DraftingAssumption DEF maxAttempts
  <2> QED BY <1>1, <1>2, <1>4, <2>3 DEF maxAttempts
<1>5. CASE current' = {d}
  <2>1. Done' = Done
    BY <1>1, <1>5 DEF Done
  <2>2. Allowed' = maxAttempts * Cardinality(Done)
    <3>1. Allowed' = maxAttempts * Cardinality(Done') + 0
      BY <1>1, <1>5 DEF Allowed, maxAttempts
    <3> QED BY <3>1, <2>1, DoneFinite, DraftingAssumption DEF maxAttempts
  <2>3. wasted' <= Allowed'
    BY <1>1, <1>3, <2>2
  <2> QED BY <1>1, <1>2, <1>5, <2>3 DEF maxAttempts
<1> QED BY <1>4, <1>5 DEF TakeDraft

\* Whatever ends a call: what it wasted is allowed for.
LEMMA CallOverInv ==
  ASSUME DraftingInv, current # {}, current' = {}, targets' = targets, try' = try,
         running' = FALSE, wasted' \in {wasted, wasted + 1},
         spent' \in Nat, usage' \in Nat, usage' = spent' - wasted', stamp' = stamp
  PROVE  DraftingInv'
<1> USE DEF DraftingInv
<1>1. Allowed' = Allowed - (try - 1) + maxAttempts
  BY CallOver
<1>2. wasted' <= Allowed'
  BY <1>1, AllowedInt, DraftingAssumption DEF maxAttempts
<1>3. stamp = -1
  OBVIOUS
<1>4. wasted' \in Nat
  OBVIOUS
<1>5. try' \in 1..maxAttempts'
  BY DEF maxAttempts
<1> QED BY <1>2, <1>3, <1>4, <1>5

LEMMA DraftingStepInv == ASSUME DraftingInv, [DraftingNext]_draftingVars PROVE DraftingInv'
<1> USE DEF DraftingInv
<1>1. ASSUME NEW d \in Drafts, TakeDraft(d) PROVE DraftingInv'
  BY <1>1, TakeDraftInv
<1>2. CASE Spawn
  <2>1. Allowed' = Allowed /\ maxAttempts' = maxAttempts
    BY <1>2 DEF Spawn, callVars, Allowed, Done, maxAttempts
  <2> QED BY <1>2, <2>1 DEF Spawn, callVars
<1>3. CASE Unavailable
  <2>1. running /\ running' = FALSE /\ spent' = spent /\ wasted' = wasted /\ usage' = usage
        /\ targets' = targets /\ stamp' = stamp /\ stage' = stage /\ try' = try
    BY <1>3 DEF Unavailable, Charge, CallFails, callVars
  <2>2. CASE current' = {}
    <3>1. /\ current # {} /\ wasted' \in {wasted, wasted + 1}
          /\ spent' \in Nat /\ usage' \in Nat /\ usage' = spent' - wasted'
      BY <2>1
    <3> HIDE DEF DraftingInv
    <3> QED BY <2>1, <2>2, <3>1, CallOverInv
  <2>3. CASE current' = current
    <3>1. Allowed' = Allowed /\ maxAttempts' = maxAttempts
      BY <2>1, <2>3 DEF Allowed, Done, maxAttempts
    <3> QED BY <2>1, <2>3, <3>1
  <2> QED BY <1>3, <2>2, <2>3 DEF Unavailable, CallFails
<1>4. CASE InvalidOutput
  <2>1. running /\ running' = FALSE /\ spent' = spent + 1 /\ wasted' = wasted + 1 /\ usage' = usage
        /\ targets' = targets /\ stamp' = stamp /\ stage' = stage
    BY <1>4 DEF InvalidOutput, Charge, CallFails
  <2>2. CASE try < maxAttempts
    <3>1. try' = try + 1 /\ current' = current
      BY <1>4, <2>2 DEF InvalidOutput
    <3>2. Allowed' = Allowed + 1
      <4>1. Done' = Done BY <2>1, <3>1 DEF Done
      <4>2. /\ Allowed = maxAttempts * Cardinality(Done) + (try - 1)
            /\ Allowed' = maxAttempts * Cardinality(Done) + (try' - 1)
        BY <2>1, <3>1, <4>1 DEF Allowed, maxAttempts
      <4>3. maxAttempts * Cardinality(Done) \in Int
        BY DoneFinite, DraftingAssumption DEF maxAttempts
      <4> HIDE DEF maxAttempts
      <4> QED BY <3>1, <4>2, <4>3
    <3>3. try' \in 1..maxAttempts'
      BY <2>2, <3>1, DraftingAssumption DEF maxAttempts
    <3>4. wasted' <= Allowed'
      BY <2>1, <3>2, AllowedInt
    <3> QED BY <2>1, <3>1, <3>3, <3>4
  <2>3. CASE ~(try < maxAttempts)
    <3>1. current' = {} /\ try' = try
      BY <1>4, <2>3 DEF InvalidOutput, CallFails
    <3>2. /\ current # {} /\ wasted' \in {wasted, wasted + 1}
          /\ spent' \in Nat /\ usage' \in Nat /\ usage' = spent' - wasted'
      BY <2>1
    <3> HIDE DEF DraftingInv
    <3> QED BY <2>1, <3>1, <3>2, CallOverInv
  <2> QED BY <2>2, <2>3
<1>5. CASE Accepted
  <2>1. running /\ running' = FALSE /\ spent' = spent + 1 /\ wasted' = wasted
        /\ usage' = usage + 1 /\ current' = {} /\ targets' = targets /\ stamp' = stamp /\ try' = try
    BY <1>5 DEF Accepted, Charge
  <2>2. /\ current # {} /\ wasted' \in {wasted, wasted + 1}
        /\ spent' \in Nat /\ usage' \in Nat /\ usage' = spent' - wasted'
    BY <2>1
  <2> HIDE DEF DraftingInv
  <2> QED BY <2>1, <2>2, CallOverInv
<1>6. ASSUME NEW cost \in 0..1, SpawnError(cost) PROVE DraftingInv'
  <2>1. running /\ running' = FALSE /\ spent' = spent + cost /\ wasted' = wasted + cost
        /\ usage' = usage /\ current' = {} /\ targets' = targets /\ stamp' = stamp /\ try' = try
    BY <1>6 DEF SpawnError, Charge, CallFails
  <2>2. /\ current # {} /\ wasted' \in {wasted, wasted + 1}
        /\ spent' \in Nat /\ usage' \in Nat /\ usage' = spent' - wasted'
    BY <2>1
  <2> HIDE DEF DraftingInv
  <2> QED BY <2>1, <2>2, CallOverInv
<1>7. CASE StampRun
  <2>1. Allowed' = Allowed /\ maxAttempts' = maxAttempts
    BY <1>7 DEF StampRun, callVars, Allowed, Done, maxAttempts
  <2> QED BY <1>7, <2>1 DEF StampRun, callVars
<1>8. CASE DraftingDeath
  <2>1. running' = FALSE /\ UNCHANGED <<targets, try, usage, stamp, spent, wasted>> /\ current' = {}
        /\ stage = "loop" /\ stage' = "dead"
    BY <1>8 DEF DraftingDeath
  <2>2. CASE current = {}
    <3>1. Allowed' = Allowed /\ maxAttempts' = maxAttempts
      BY <2>1, <2>2 DEF Allowed, Done, maxAttempts
    <3> QED BY <2>1, <2>2, <3>1
  <2>3. CASE current # {}
    <3>1. /\ wasted' \in {wasted, wasted + 1}
          /\ spent' \in Nat /\ usage' \in Nat /\ usage' = spent' - wasted'
      BY <2>1
    <3> HIDE DEF DraftingInv
    <3> QED BY <2>1, <2>3, <3>1, CallOverInv
  <2> QED BY <2>2, <2>3
<1>9. CASE UNCHANGED draftingVars
  <2>1. Allowed' = Allowed /\ maxAttempts' = maxAttempts
    BY <1>9 DEF draftingVars, Allowed, Done, maxAttempts
  <2> QED BY <1>9, <2>1 DEF draftingVars
<1> QED BY <1>1, <1>2, <1>3, <1>4, <1>5, <1>6, <1>7, <1>8, <1>9 DEF DraftingNext, DraftingStep

\* Whatever the model answers, for any drafts and retries: the stamped cost is
\* short of the charged one by the wasted replies, at most one per attempt.
THEOREM StampsTell == DraftingSpec => []StampIsSpentButWaste
<1>1. DraftingInit => DraftingInv
  <2> SUFFICES ASSUME DraftingInit PROVE DraftingInv OBVIOUS
  <2>1. Done = {} BY DEF DraftingInit, Done
  <2>2. Cardinality(Done) = 0 BY <2>1, FS_EmptySet
  <2>3. Allowed = 0
    BY <2>2, DraftingAssumption DEF Allowed, DraftingInit, maxAttempts
  <2> QED BY <2>3, DraftingAssumption DEF DraftingInit, DraftingInv, maxAttempts
<1>2. DraftingInv => StampIsSpentButWaste
  <2> SUFFICES ASSUME DraftingInv PROVE StampIsSpentButWaste OBVIOUS
  <2>1. Done \cup current \subseteq Drafts
    BY DEF Done, DraftingInv
  <2>2. maxAttempts * Cardinality(Drafts) >= Allowed
    <3>1. Cardinality(Drafts) \in Nat
      BY DraftingAssumption, FS_CardinalityType
    <3>2. maxAttempts \in Nat
      BY DraftingAssumption DEF maxAttempts
    <3>3. ASSUME NEW m \in Nat, NEW a \in Nat, NEW b \in Nat, a <= b PROVE m * a <= m * b
      <4>1. PICK k \in Nat : b = a + k
        BY <3>3
      <4>2. m * k \in Nat OBVIOUS
      <4>3. m * b = m * a + m * k BY <4>1
      <4> QED BY <4>2, <4>3
    <3>4. CASE current = {}
      <4>1. Cardinality(Done) <= Cardinality(Drafts)
        BY DraftingAssumption, FS_Subset DEF Done
      <4>2. maxAttempts * Cardinality(Done) <= maxAttempts * Cardinality(Drafts)
        BY <3>1, <3>2, <3>3, <4>1, DoneFinite
      <4>3. Allowed = maxAttempts * Cardinality(Done) + 0
        BY <3>4 DEF Allowed
      <4>4. maxAttempts * Cardinality(Done) \in Int
        BY <3>2, DoneFinite
      <4> HIDE DEF maxAttempts
      <4> QED BY <4>2, <4>3, <4>4
    <3>5. CASE current # {}
      <4>1. PICK d \in Drafts \ targets : current = {d}
        BY <3>5 DEF DraftingInv
      <4>2. d \in Drafts /\ d \notin Done /\ Done \cup {d} \subseteq Drafts
        BY <4>1 DEF Done
      <4>3. Cardinality(Done) + 1 <= Cardinality(Drafts)
        <5>1. Cardinality(Done \cup {d}) = Cardinality(Done) + 1
          BY <4>2, OneMoreDone
        <5>2. Cardinality(Done \cup {d}) <= Cardinality(Drafts)
          BY <4>2, DraftingAssumption, FS_Subset
        <5> QED BY <5>1, <5>2
      <4>4. maxAttempts * (Cardinality(Done) + 1) <= maxAttempts * Cardinality(Drafts)
        BY <3>1, <3>2, <3>3, <4>3, DoneFinite
      <4>5. maxAttempts * (Cardinality(Done) + 1) = maxAttempts * Cardinality(Done) + maxAttempts
        BY <4>2, OneMoreDone
      <4>6. Allowed = maxAttempts * Cardinality(Done) + (try - 1)
        BY <3>5 DEF Allowed
      <4>7. maxAttempts * Cardinality(Done) \in Int /\ maxAttempts * Cardinality(Drafts) \in Int
        BY <3>1, <3>2, DoneFinite
      <4>8. try \in Int /\ try <= maxAttempts
        BY <3>2 DEF DraftingInv
      <4> HIDE DEF maxAttempts
      <4> QED BY <3>2, <4>4, <4>5, <4>6, <4>7, <4>8
    <3> QED BY <3>4, <3>5
  <2>3. maxAttempts * Cardinality(Drafts) \in Int
    BY DraftingAssumption, FS_CardinalityType DEF maxAttempts
  <2>4. wasted <= maxAttempts * Cardinality(Drafts)
    BY <2>2, <2>3, AllowedInt DEF DraftingInv
  <2> QED BY <2>4 DEF StampIsSpentButWaste, DraftingInv
<1> QED BY <1>1, <1>2, DraftingStepInv, PTL DEF DraftingSpec

-----------------------------------------------------------------------------
(* HookGate: what a linter has listed contains every hook that counts. *)

PostStates == {"drafting", "rendered", "pending_review", "approved", "skipped"}

InReview == {"pending_review", "approved"}

GateTyped ==
  /\ state \in [Posts -> PostStates]
  /\ hook = [p \in Posts |-> hook[p]]
  /\ linting = [q \in Linters |-> linting[q]]
  /\ \A q \in Linters : linting[q] = <<>> \/ \E p \in Posts : linting[q] = <<p>>
  /\ toList = [q \in Linters |-> toList[q]]
  /\ \A q \in Linters : toList[q] \in {CorpusStatuses, <<"approved">>, <<>>}
  /\ corpus = [q \in Linters |-> corpus[q]]

\* The hooks that count are in the corpus once their status was listed.
Listed(q, p) ==
  \A o \in Posts : SlotOf[o] # SlotOf[p] =>
    /\ state[o] = "pending_review" /\ toList[q] # CorpusStatuses => hook[o] \in corpus[q]
    /\ state[o] = "approved" /\ toList[q] = <<>> => hook[o] \in corpus[q]

OneLinter == \A q, r \in Linters : linting[q] # <<>> /\ linting[r] # <<>> => q = r

GateInv ==
  /\ GateTyped
  /\ HooksStayApart
  /\ ~overlap =>
       /\ OneLinter
       /\ \A q \in Linters, p \in Posts :
            linting[q] = <<p>> => state[p] = "rendered" /\ Listed(q, p)

LEMMA AlikeBothWays == ASSUME NEW a, NEW b, TooAlike(a, b) PROVE TooAlike(b, a)
<1>1. /\ Grams(a) \cap Grams(b) = Grams(b) \cap Grams(a)
      /\ Grams(a) \cup Grams(b) = Grams(b) \cup Grams(a)
  OBVIOUS
<1> QED BY <1>1 DEF TooAlike

LEMMA Tuples ==
  /\ CorpusStatuses # <<"approved">> /\ CorpusStatuses # <<>> /\ <<"approved">> # <<>>
  /\ Head(CorpusStatuses) = "pending_review" /\ Tail(CorpusStatuses) = <<"approved">>
  /\ Head(<<"approved">>) = "approved" /\ Tail(<<"approved">>) = <<>>
  /\ \A p : <<p>> # <<>> /\ <<p>>[1] = p
  /\ \A p, o : <<p>> = <<o>> => p = o
  BY DEF CorpusStatuses

LEMMA StartLintInv ==
  ASSUME GateInv, NEW q \in Linters, NEW p \in Posts, StartLint(q, p)
  PROVE  GateInv'
<1> USE Tuples DEF GateInv, GateTyped, StartLint
<1>1. GateTyped'
  OBVIOUS
<1>2. HooksStayApart'
  BY DEF HooksStayApart
<1>3. ASSUME ~overlap' PROVE OneLinter'
  BY <1>3 DEF OneLinter
<1>4. ASSUME ~overlap', NEW r \in Linters, NEW o \in Posts, linting'[r] = <<o>>
      PROVE  state'[o] = "rendered" /\ Listed(r, o)'
  <2>1. r = q /\ o = p
    BY <1>4
  <2> QED BY <2>1 DEF Listed
<1> HIDE DEF GateTyped, StartLint
<1> QED BY <1>1, <1>2, <1>3, <1>4

LEMMA ListStatusInv ==
  ASSUME GateInv, NEW q \in Linters, ListStatus(q)
  PROVE  GateInv'
<1> USE Tuples DEF GateInv
<1>1. PICK p \in Posts : linting[q] = <<p>>
  BY DEF ListStatus, GateTyped
<1>2. linting[q][1] = p
  BY <1>1
<1> DEFINE entered == {o \in Posts \ {p} : state[o] = Head(toList[q]) /\ SlotOf[o] # SlotOf[p]}
<1>3. /\ corpus' = [corpus EXCEPT ![q] = @ \cup {hook[o] : o \in entered}]
      /\ toList' = [toList EXCEPT ![q] = Tail(@)]
      /\ toList[q] # <<>>
      /\ UNCHANGED <<state, hook, drafts, linting, overlap>>
  BY <1>2 DEF ListStatus
<1> HIDE DEF entered
<1>4. GateTyped'
  BY <1>3 DEF GateTyped
<1>5. HooksStayApart'
  BY <1>3 DEF HooksStayApart
<1>6. OneLinter => OneLinter'
  BY <1>3 DEF OneLinter
<1>7. ASSUME ~overlap, NEW r \in Linters, NEW b \in Posts, linting[r] = <<b>>
      PROVE  Listed(r, b)'
  <2>1. r = q
    BY <1>1, <1>7 DEF OneLinter
  <2>2. b = p
    BY <1>1, <1>7, <2>1
  <2>3. corpus'[q] = corpus[q] \cup {hook[o] : o \in entered} /\ toList'[q] = Tail(toList[q])
    BY <1>3 DEF GateTyped
  <2>4. Listed(q, p)
    BY <1>1, <1>7
  <2>5. CASE toList[q] = CorpusStatuses
    <3>1. toList'[q] = <<"approved">>
      BY <2>3, <2>5
    <3>2. ASSUME NEW o \in Posts, SlotOf[o] # SlotOf[p], state[o] = "pending_review"
          PROVE  o \in entered
      BY <2>5, <3>2 DEF entered
    <3> QED BY <1>3, <2>1, <2>2, <2>3, <3>1, <3>2 DEF Listed
  <2>6. CASE toList[q] = <<"approved">>
    <3>1. toList'[q] = <<>>
      BY <2>3, <2>6
    <3>2. ASSUME NEW o \in Posts, SlotOf[o] # SlotOf[p], state[o] = "approved"
          PROVE  o \in entered
      BY <2>6, <3>2 DEF entered
    <3>3. ASSUME NEW o \in Posts, SlotOf[o] # SlotOf[p], state[o] = "pending_review"
          PROVE  hook[o] \in corpus[q]
      BY <2>4, <2>6, <3>3 DEF Listed
    <3> QED BY <1>3, <2>1, <2>2, <2>3, <3>1, <3>2, <3>3 DEF Listed
  <2> QED BY <1>3, <2>5, <2>6 DEF GateTyped
<1> QED BY <1>3, <1>4, <1>5, <1>6, <1>7

LEMMA IdleInv ==
  ASSUME GateInv, NEW q \in Linters, Idle(q), toList' \in {toList, [toList EXCEPT ![q] = <<>>]},
         UNCHANGED <<state, hook, overlap>>
  PROVE  GateInv'
<1> USE Tuples DEF GateInv, Idle
<1>1. GateTyped'
  BY DEF GateTyped
<1>2. HooksStayApart'
  BY DEF HooksStayApart
<1>3. OneLinter => OneLinter'
  BY DEF OneLinter, GateTyped
<1>4. ASSUME ~overlap, NEW r \in Linters, NEW o \in Posts, linting'[r] = <<o>>
      PROVE  state'[o] = "rendered" /\ Listed(r, o)'
  <2>1. r # q /\ linting[r] = <<o>> /\ corpus'[r] = corpus[r] /\ toList'[r] = toList[r]
    BY <1>4 DEF GateTyped
  <2> QED BY <1>4, <2>1 DEF Listed
<1> QED BY <1>1, <1>2, <1>3, <1>4

LEMMA VerdictInv ==
  ASSUME GateInv, NEW q \in Linters, NEW lawful \in BOOLEAN, Verdict(q, lawful)
  PROVE  GateInv'
<1> USE Tuples DEF GateInv
<1>1. PICK p \in Posts : linting[q] = <<p>>
  BY DEF Verdict, GateTyped
<1>2. linting[q][1] = p
  BY <1>1
<1>3. /\ toList[q] = <<>> /\ Idle(q)
      /\ UNCHANGED <<hook, drafts, toList, overlap>>
  BY DEF Verdict
<1>4. CASE state' = state
  BY <1>3, <1>4, IdleInv
<1>5. CASE state[p] = "rendered" /\ state' = [state EXCEPT ![p] = "drafting"]
  <2>1. GateTyped'
    BY <1>3, <1>5 DEF GateTyped, Idle, PostStates
  <2>2. HooksStayApart'
    BY <1>3, <1>5 DEF HooksStayApart, GateTyped
  <2>3. ASSUME ~overlap PROVE \A r \in Linters : linting'[r] = <<>>
    BY <1>1, <1>3, <2>3 DEF OneLinter, GateTyped, Idle
  <2> QED BY <1>3, <2>1, <2>2, <2>3 DEF OneLinter
<1>6. CASE /\ state[p] = "rendered" /\ state' = [state EXCEPT ![p] = "pending_review"]
           /\ \A h \in corpus[q] : ~TooAlike(hook[p], h)
  <2>1. GateTyped'
    BY <1>3, <1>6 DEF GateTyped, Idle, PostStates
  <2>2. ASSUME ~overlap, NEW o \in Posts, SlotOf[o] # SlotOf[p], state[o] \in InReview
        PROVE  ~TooAlike(hook[p], hook[o]) /\ ~TooAlike(hook[o], hook[p])
    <3>1. hook[o] \in corpus[q]
      BY <1>1, <1>3, <2>2 DEF Listed, InReview
    <3> QED BY <1>6, <3>1, AlikeBothWays
  <2>3. HooksStayApart'
    <3> SUFFICES ASSUME NEW a \in Posts, NEW b \in Posts, a # b, SlotOf[a] # SlotOf[b], ~overlap,
                        state'[a] \in InReview, state'[b] \in InReview
                 PROVE  ~TooAlike(hook[a], hook[b])
      BY <1>3 DEF HooksStayApart, InReview
    <3>1. CASE a = p
      <4>1. state[b] \in InReview
        BY <1>6, <3>1 DEF GateTyped
      <4> QED BY <2>2, <3>1, <4>1
    <3>2. CASE b = p
      <4>1. state[a] \in InReview
        BY <1>6, <3>2 DEF GateTyped
      <4> QED BY <2>2, <3>2, <4>1
    <3>3. CASE a # p /\ b # p
      <4>1. state[a] \in InReview /\ state[b] \in InReview
        BY <1>6, <3>3 DEF GateTyped
      <4> QED BY <4>1 DEF HooksStayApart, InReview
    <3> QED BY <3>1, <3>2, <3>3
  <2>4. ASSUME ~overlap PROVE \A r \in Linters : linting'[r] = <<>>
    BY <1>1, <1>3, <2>4 DEF OneLinter, GateTyped, Idle
  <2> QED BY <1>3, <2>1, <2>3, <2>4 DEF OneLinter
<1> QED BY <1>2, <1>4, <1>5, <1>6 DEF Verdict

\* What moves an item that nobody lints, and puts none into review.
LEMMA MovedInv ==
  ASSUME GateInv, state' \in [Posts -> PostStates],
         hook' = [p \in Posts |-> hook'[p]],
         \A p \in Posts : state'[p] \in InReview => hook'[p] = hook[p],
         \A p \in Posts : state[p] = "rendered" => state'[p] = "rendered",
         \A p \in Posts : state'[p] = "pending_review" => state[p] = "pending_review",
         \A p \in Posts : state'[p] = "approved" => state[p] \in InReview,
         UNCHANGED <<linting, toList, corpus, overlap>>
  PROVE  GateInv'
<1> USE Tuples DEF GateInv
<1>1. GateTyped'
  BY DEF GateTyped
<1>2. HooksStayApart'
  BY DEF HooksStayApart, InReview
<1>3. OneLinter => OneLinter'
  BY DEF OneLinter
<1>4. ASSUME ~overlap, NEW q \in Linters, NEW p \in Posts, linting[q] = <<p>>
      PROVE  state'[p] = "rendered" /\ Listed(q, p)'
  <2>1. state[p] = "rendered" /\ Listed(q, p)
    BY <1>4
  <2>2. toList[q] = <<>> => toList[q] # CorpusStatuses
    OBVIOUS
  <2> QED BY <2>1, <2>2 DEF Listed, InReview
<1> QED BY <1>1, <1>2, <1>3, <1>4

LEMMA GateStepInv == ASSUME GateInv, [GateNext]_gateVars PROVE GateInv'
<1>1. ASSUME NEW q \in Linters, NEW p \in Posts, StartLint(q, p) PROVE GateInv'
  BY <1>1, StartLintInv
<1>2. ASSUME NEW q \in Linters, ListStatus(q) PROVE GateInv'
  BY <1>2, ListStatusInv
<1>3. ASSUME NEW q \in Linters, LintDeath(q) PROVE GateInv'
  BY <1>3, IdleInv DEF LintDeath
<1>4. ASSUME NEW q \in Linters, NEW lawful \in BOOLEAN, Verdict(q, lawful) PROVE GateInv'
  BY <1>4, VerdictInv
<1>5. ASSUME NEW p \in Posts, NEW h \in Hooks, NewDraft(p, h) PROVE GateInv'
  BY <1>5, MovedInv DEF NewDraft, GateInv, GateTyped, PostStates, InReview
<1>6. ASSUME NEW p \in Posts, Approve(p) PROVE GateInv'
  BY <1>6, MovedInv DEF Approve, GateInv, GateTyped, PostStates, InReview
<1>7. ASSUME NEW p \in Posts, NEW to \in {"drafting", "skipped"}, Reject(p, to) PROVE GateInv'
  BY <1>7, MovedInv DEF Reject, GateInv, GateTyped, PostStates, InReview
<1>8. CASE UNCHANGED gateVars
  BY <1>8, MovedInv DEF gateVars, GateInv, GateTyped, InReview
<1> QED BY <1>1, <1>2, <1>3, <1>4, <1>5, <1>6, <1>7, <1>8 DEF GateNext

\* For any posts, slots and notion of likeness: hooks that count as used stay
\* apart, unless two linters were at work at once.
THEOREM GateKeepsApart == GateSpec => []HooksStayApart
<1>1. GateInit => GateInv
  BY DEF GateInit, GateInv, GateTyped, PostStates, HooksStayApart, OneLinter
<1>2. GateInv => HooksStayApart
  BY DEF GateInv
<1> QED BY <1>1, <1>2, GateStepInv, PTL DEF GateSpec

-----------------------------------------------------------------------------
(* Backup: the dump comes before the files it lists, and rows after them. *)

\* How far the backup is: its last dump may be on its way, the bucket has one of
\* this night once it is to be pruned, and nothing lists media that are not there.
BackupInv ==
  /\ night \in Nat
  /\ backup \in 1..4
  /\ complete \in BOOLEAN
  /\ listed \subseteq outbox /\ workdir \subseteq outbox
  /\ \A d \in dumps : d.rows \subseteq outbox
  /\ backup = 3 => \E d \in dumps : d.made = night
  /\ uploads => dumps # {}
  /\ complete /\ backup = 1 => \A d \in dumps : d.rows \subseteq archive

LEMMA BackupStep == ASSUME BackupInv, BackupNext PROVE BackupInv'
<1> USE DEF BackupInv
<1>1. CASE \E i \in Medias : WriteFiles(i) \/ ListFiles(i)
  BY <1>1 DEF WriteFiles, ListFiles
<1>2. CASE Command
  <2>0. /\ backup' = (backup % 4) + 1 /\ complete' = (complete \/ backup = 4)
        /\ night' = night /\ outbox' = outbox /\ listed' = listed
    BY <1>2 DEF Command, Commands
  <2>1. CASE Dump
    <3>1. backup = 1 BY <2>1 DEF Dump, Commands
    <3> QED BY <2>0, <2>1, <3>1 DEF Dump
  <2>2. CASE Upload
    <3>1. backup = 2 BY <2>2 DEF Upload, Commands
    <3>2. backup' = 3 BY <2>0, <3>1
    <3>3. dumps' = dumps \cup {[made |-> night, rows |-> workdir]}
      BY <2>2 DEF Upload
    <3>4. \A d \in dumps' : d.rows \subseteq outbox
      BY <3>3
    <3>5. \E d \in dumps' : d.made = night
      <4>1. [made |-> night, rows |-> workdir] \in dumps'
        BY <3>3
      <4>2. [made |-> night, rows |-> workdir].made = night
        OBVIOUS
      <4> QED BY <4>1, <4>2
    <3>6. dumps' # {}
      BY <3>3
    <3>7. workdir' = workdir BY <2>2 DEF Upload
    <3>8. complete' \in BOOLEAN BY <2>0
    <3> QED BY <2>0, <3>2, <3>4, <3>5, <3>6, <3>7, <3>8
  <2>3. CASE Prune
    <3>1. backup = 3 BY <2>3 DEF Prune, Commands
    <3>2. backup' = 4 BY <2>0, <3>1
    <3>3. dumps' \subseteq dumps BY <2>3 DEF Prune
    <3>4. dumps' # {}
      <4>1. PICK d \in dumps : d.made = night BY <3>1
      <4>2. night - d.made < RETENTION_DAYS BY <4>1, RetentionAssumption
      <4> QED BY <2>3, <4>1, <4>2 DEF Prune
    <3> QED BY <2>0, <2>3, <3>1, <3>2, <3>3, <3>4 DEF Prune
  <2>4. CASE Sync
    <3>1. backup = 4 BY <2>4 DEF Sync, Commands
    <3>2. backup' = 1 BY <2>0, <3>1
    <3> QED BY <2>0, <2>4, <3>1, <3>2 DEF Sync
  <2> QED BY <1>2, <2>1, <2>2, <2>3, <2>4 DEF Command
<1>3. CASE Fails
  <2>1. /\ backup' = 1 /\ complete' = FALSE
        /\ night' = night /\ outbox' = outbox /\ listed' = listed
        /\ workdir' = workdir /\ dumps' = dumps /\ uploads' = uploads
    BY <1>3 DEF Fails
  <2>2. backup' \in 1..4 BY <2>1
  <2>3. backup' # 3 BY <2>1
  <2>4. complete' \in BOOLEAN /\ ~complete' BY <2>1
  <2> QED BY <2>1, <2>2, <2>3, <2>4
<1>4. CASE NightFalls
  BY <1>4 DEF NightFalls
<1> QED BY <1>1, <1>2, <1>3, <1>4 DEF BackupNext

\* After a complete backup every dump in the bucket finds its media in the
\* archive, for any media, days and failures.
THEOREM DumpsAlwaysRestore == BackupSpec => []DumpsRestore
<1>1. BackupInit => BackupInv
  <2> SUFFICES ASSUME BackupInit PROVE BackupInv OBVIOUS
  <2>1. /\ night = 0 /\ outbox = {} /\ listed = {} /\ backup = 1
        /\ workdir = {} /\ dumps = {} /\ uploads = FALSE /\ complete = FALSE
    BY DEF BackupInit
  <2>2. night \in Nat /\ backup \in 1..4 /\ backup # 3 BY <2>1
  <2>3. \A d \in dumps : d.rows \subseteq outbox BY <2>1
  <2>4. complete \in BOOLEAN /\ ~complete /\ ~uploads BY <2>1
  <2>5. listed \subseteq outbox /\ workdir \subseteq outbox BY <2>1
  <2> QED BY <2>2, <2>3, <2>4, <2>5 DEF BackupInv
<1>2. BackupInv /\ [BackupNext]_backupVars => BackupInv'
  <2>1. CASE BackupNext BY <2>1, BackupStep
  <2>2. CASE UNCHANGED backupVars BY <2>2 DEF backupVars, BackupInv
  <2> QED BY <2>1, <2>2
<1>3. BackupInv => DumpsRestore
  BY DEF BackupInv, DumpsRestore
<1> QED BY <1>1, <1>2, <1>3, PTL DEF BackupSpec

-----------------------------------------------------------------------------
(* Bot.  Daemons are counted that run or are about to; the lock keeps one  *)
(* of them from being an extra one for as long as it is fresh, or its      *)
(* stamp is being written.  A fresh lock ages with a daemon that runs: the *)
(* one that stamped it.  When that one is gone there is one daemon fewer,  *)
(* and when both reach their term there is one overrun more.               *)

Daemons == {b \in Bots : life[b] \in {"write", "connect", "loop", "refresh"}}

Stamping == \E b \in Bots : life[b] \in {"write", "refresh"} /\ botLock.by = handle[b]

Fresh    == botLock.age \in 0..LOCK_STALE
KeepsOut == Fresh \/ Stamping

BotTyped ==
  /\ life \in [Bots -> {"down", "create", "read", "break", "recreate", "write", "connect",
                        "loop", "refresh"}]
  /\ handle \in [Bots -> Bots \cup {"nobody"}]
  /\ since \in [Bots -> 0..Old]
  /\ botLock \in [by : Bots, age : -1..Old] \cup {NoLock}
  /\ botUsed \in [{"overruns", "losses", "deaths"} -> Nat]
  /\ \A b \in Bots : life[b] \in {"write", "refresh"} => handle[b] \in Bots

LockAlone ==
  /\ \A b, c \in AtTheLock : b = c
  /\ \A b \in Bots : life[b] \in {"break", "write", "refresh"} => ~Fresh

Counted ==
  /\ Cardinality(Daemons) <= botUsed.overruns + 1
  /\ \/ Cardinality(Daemons) <= botUsed.overruns
     \/ KeepsOut /\ (Fresh => \E b \in Running : since[b] = botLock.age)

DaemonInv == BotTyped /\ (~mixed => LockAlone /\ Counted)

LEMMA DaemonsFinite == IsFiniteSet(Daemons) /\ Cardinality(Daemons) \in Nat
  BY BotAssumption, FS_Subset, FS_CardinalityType DEF Daemons

LEMMA BotStepTyped ==
  ASSUME BotTyped, [BotNext]_botVars
  PROVE  BotTyped'
<1> USE BotAssumption DEF BotTyped, NoLock, BlankBy, Blank, LOCK_STALE, Old
<1>1. ASSUME NEW b \in Bots, StartBot(b) PROVE BotTyped'
  BY <1>1 DEF StartBot
<1>2. ASSUME NEW b \in Bots, TryCreate(b) PROVE BotTyped'
  BY <1>2 DEF TryCreate
<1>3. ASSUME NEW b \in Bots, ReadLock(b) PROVE BotTyped'
  BY <1>3 DEF ReadLock
<1>4. ASSUME NEW b \in Bots, BreakLock(b) PROVE BotTyped'
  BY <1>4 DEF BreakLock
<1>5. ASSUME NEW b \in Bots, WriteStamp(b) PROVE BotTyped'
  BY <1>5 DEF WriteStamp
<1>6. ASSUME NEW b \in Bots, RefreshLock(b) PROVE BotTyped'
  BY <1>6 DEF RefreshLock
<1>7. ASSUME NEW b \in Bots, StopBot(b) PROVE BotTyped'
  BY <1>7 DEF StopBot, Ends
<1>8. ASSUME NEW b \in Bots, Identify(b) \/ Reconnect(b) \/ Sigterm(b) PROVE BotTyped'
  BY <1>8 DEF Identify, Reconnect, Sigterm
<1>9. ASSUME NEW b \in Bots, GatewayReady(b) PROVE BotTyped'
  BY <1>9 DEF GatewayReady
<1>10. ASSUME NEW b \in Bots, Lost(b) PROVE BotTyped'
  BY <1>10 DEF Lost, SpendBot
<1>11. ASSUME NEW b \in Bots, BotDies(b) PROVE BotTyped'
  BY <1>11 DEF BotDies, SpendBot, Ends
<1>12. ASSUME FiveMinutes PROVE BotTyped'
  <2>1. Cardinality({b \in Running : since[b] = LOCK_STALE}) \in Nat
    BY FS_Subset, FS_CardinalityType DEF Running
  <2>2. botUsed' \in [{"overruns", "losses", "deaths"} -> Nat]
    BY <1>12, <2>1 DEF FiveMinutes, SpendBot
  <2>3. QED BY <1>12, <2>2 DEF FiveMinutes
<1>13. CASE UNCHANGED botVars
  BY <1>13 DEF botVars
<1>14. QED BY <1>1, <1>2, <1>3, <1>4, <1>5, <1>6, <1>7, <1>8, <1>9, <1>10, <1>11, <1>12, <1>13
           DEF BotNext, BotStep, GatewayStep

LEMMA BotStepAlone ==
  ASSUME BotTyped, ~mixed => LockAlone, [BotNext]_botVars, ~mixed'
  PROVE  ~mixed /\ LockAlone'
<1> USE BotAssumption DEF BotTyped, LockAlone, AtTheLock, Fresh, NoLock, BlankBy, Blank,
                          LOCK_STALE, Old, Approach
<1>1. ASSUME NEW b \in Bots, StartBot(b) PROVE ~mixed /\ LockAlone'
  <2>1. ~mixed /\ AtTheLock \subseteq {b}
    BY <1>1 DEF StartBot
  <2>2. AtTheLock' \subseteq {b} /\ life'[b] = "create"
    BY <1>1, <2>1 DEF StartBot
  <2>3. \A c \in Bots : life'[c] \in {"break", "write", "refresh"} => c \in AtTheLock'
    OBVIOUS
  <2> QED BY <2>1, <2>2, <2>3
<1>2. ASSUME NEW b \in Bots, TryCreate(b) PROVE ~mixed /\ LockAlone'
  BY <1>2 DEF TryCreate
<1>3. ASSUME NEW b \in Bots, ReadLock(b) PROVE ~mixed /\ LockAlone'
  BY <1>3 DEF ReadLock
<1>4. ASSUME NEW b \in Bots, BreakLock(b) PROVE ~mixed /\ LockAlone'
  BY <1>4 DEF BreakLock
<1>5. ASSUME NEW b \in Bots, WriteStamp(b) PROVE ~mixed /\ LockAlone'
  BY <1>5 DEF WriteStamp
<1>6. ASSUME NEW b \in Bots, RefreshLock(b) PROVE ~mixed /\ LockAlone'
  <2>1. ~mixed /\ AtTheLock \subseteq {b}
    BY <1>6 DEF RefreshLock
  <2>2. AtTheLock' \subseteq {b} /\ ~Fresh'
    BY <1>6, <2>1 DEF RefreshLock
  <2> QED BY <2>1, <2>2
<1>7. ASSUME NEW b \in Bots, StopBot(b) PROVE ~mixed /\ LockAlone'
  BY <1>7 DEF StopBot, Ends
<1>8. ASSUME NEW b \in Bots, Identify(b) \/ Reconnect(b) \/ Sigterm(b) PROVE ~mixed /\ LockAlone'
  BY <1>8 DEF Identify, Reconnect, Sigterm
<1>9. ASSUME NEW b \in Bots, GatewayReady(b) PROVE ~mixed /\ LockAlone'
  BY <1>9 DEF GatewayReady
<1>10. ASSUME NEW b \in Bots, Lost(b) PROVE ~mixed /\ LockAlone'
  BY <1>10 DEF Lost
<1>11. ASSUME NEW b \in Bots, BotDies(b) PROVE ~mixed /\ LockAlone'
  BY <1>11 DEF BotDies, Ends
<1>12. ASSUME FiveMinutes PROVE ~mixed /\ LockAlone'
  BY <1>12 DEF FiveMinutes
<1>13. CASE UNCHANGED botVars
  BY <1>13 DEF botVars
<1>14. QED BY <1>1, <1>2, <1>3, <1>4, <1>5, <1>6, <1>7, <1>8, <1>9, <1>10, <1>11, <1>12, <1>13
           DEF BotNext, BotStep, GatewayStep

\* What a step that takes a daemon away leaves of the count.
LEMMA OneDaemonLess ==
  ASSUME BotTyped, Counted, NEW b \in Daemons, Daemons' \subseteq Daemons \ {b},
         botUsed'.overruns = botUsed.overruns
  PROVE  Counted'
<1>1. Cardinality(Daemons \ {b}) = Cardinality(Daemons) - 1 /\ IsFiniteSet(Daemons \ {b})
  BY DaemonsFinite, FS_RemoveElement
<1>2. Cardinality(Daemons') <= Cardinality(Daemons \ {b}) /\ Cardinality(Daemons') \in Nat
  BY <1>1, Fewer, FS_CardinalityType
<1>3. QED BY <1>1, <1>2, DaemonsFinite DEF Counted, BotTyped

\* A step that keeps the daemons and the lock.
LEMMA SameCount ==
  ASSUME Counted, UNCHANGED <<life, handle, since, botLock>>, botUsed'.overruns = botUsed.overruns
  PROVE  Counted'
BY DEF Counted, Daemons, KeepsOut, Fresh, Stamping, Running

LEMMA BotStepCounted ==
  ASSUME BotTyped, LockAlone, Counted, [BotNext]_botVars, ~mixed', BotTyped', LockAlone'
  PROVE  Counted'
<1> USE BotAssumption DEF NoLock, BlankBy, Blank, LOCK_STALE, Old
<1>0. /\ Cardinality(Daemons) \in Nat /\ botUsed.overruns \in Nat
      /\ life \in [Bots -> {"down", "create", "read", "break", "recreate", "write", "connect",
                        "loop", "refresh"}]
      /\ handle \in [Bots -> Bots \cup {"nobody"}]
      /\ since \in [Bots -> 0..Old]
      /\ botLock \in [by : Bots, age : -1..Old] \cup {NoLock}
  BY DaemonsFinite DEF BotTyped
\* Nobody becomes a daemon or stops being one, the lock stays.
<1>a. ASSUME NEW b \in Bots, NEW to, b \notin Daemons,
             to \in {"down", "create", "read", "break", "recreate"},
             life' = [life EXCEPT ![b] = to], UNCHANGED <<handle, since, botLock>>,
             botUsed'.overruns = botUsed.overruns
      PROVE  Counted'
  <2>1. Daemons' = Daemons /\ Running' = Running /\ Stamping' = Stamping /\ Fresh' = Fresh
    BY <1>0, <1>a DEF Daemons, Running, Stamping, Fresh
  <2>2. QED BY <1>a, <2>1 DEF Counted, KeepsOut
<1>1. ASSUME NEW b \in Bots, StartBot(b) PROVE Counted'
  BY <1>1, <1>a DEF StartBot, Daemons
<1>2. ASSUME NEW b \in Bots, TryCreate(b) PROVE Counted'
  <2>1. CASE botLock # NoLock
    <3>1. b \notin Daemons
      BY <1>2 DEF TryCreate, Daemons
    <3>2. CASE life[b] = "create"
      BY <1>2, <2>1, <3>1, <3>2, <1>a, <1>0 DEF TryCreate
    <3>3. CASE life[b] = "recreate"
      BY <1>2, <2>1, <3>1, <3>3, <1>a, <1>0 DEF TryCreate
    <3>4. QED BY <1>2, <3>2, <3>3 DEF TryCreate
  <2>2. CASE botLock = NoLock
    <3>1. ~Fresh /\ ~Stamping /\ Cardinality(Daemons) <= botUsed.overruns
      <4>1. ~Fresh
        BY <2>2 DEF Fresh
      <4>2. ~Stamping
        BY <1>2, <2>2 DEF Stamping, TryCreate, LockAlone, AtTheLock
      <4>3. QED BY <4>1, <4>2 DEF Counted, KeepsOut
    <3>2. /\ life' = [life EXCEPT ![b] = "write"] /\ handle' = [handle EXCEPT ![b] = b]
          /\ botLock' = BlankBy(b) /\ botUsed' = botUsed
      BY <1>2, <2>2 DEF TryCreate
    <3>3. Daemons' = Daemons \cup {b}
      BY <1>0, <3>2 DEF Daemons
    <3>4. Cardinality(Daemons') <= Cardinality(Daemons) + 1
      BY <3>3, DaemonsFinite, OneMore
    <3>5. Stamping' /\ ~Fresh'
      BY <1>0, <3>2 DEF Stamping, Fresh
    <3>6. Cardinality(Daemons') \in Nat
      BY <3>3, DaemonsFinite, FS_AddElement, FS_CardinalityType
    <3>7. Cardinality(Daemons') <= botUsed'.overruns + 1
      BY <1>0, <3>1, <3>2, <3>4, <3>6
    <3>8. QED BY <3>5, <3>7 DEF Counted, KeepsOut
  <2>3. QED BY <2>1, <2>2
<1>3. ASSUME NEW b \in Bots, ReadLock(b) PROVE Counted'
  <2>1. b \notin Daemons
    BY <1>3 DEF ReadLock, Daemons
  <2>2. QED BY <1>3, <2>1, <1>a DEF ReadLock
<1>4. ASSUME NEW b \in Bots, BreakLock(b) PROVE Counted'
  <2>1. ~Fresh /\ ~Stamping /\ Cardinality(Daemons) <= botUsed.overruns
    <3>1. ~Fresh
      BY <1>4 DEF BreakLock, LockAlone
    <3>2. ~Stamping
      BY <1>4 DEF Stamping, BreakLock, LockAlone, AtTheLock
    <3>3. QED BY <3>1, <3>2 DEF Counted, KeepsOut
  <2>2. Daemons' = Daemons /\ botUsed' = botUsed
    BY <1>0, <1>4 DEF BreakLock, Daemons
  <2>3. QED BY <1>0, <2>1, <2>2 DEF Counted
<1>5. ASSUME NEW b \in Bots, WriteStamp(b) PROVE Counted'
  <2>1. Daemons' = Daemons /\ botUsed' = botUsed /\ b \in Running' /\ since'[b] = 0
    BY <1>0, <1>5 DEF WriteStamp, Daemons, Running
  <2>2. CASE botLock.by = handle[b]
    <3>1. botLock'.age = 0
      BY <1>0, <1>5, <2>2 DEF WriteStamp
    <3>2. QED BY <2>1, <3>1 DEF Counted, KeepsOut, Fresh
  <2>3. CASE botLock.by # handle[b]
    <3>1. ~Stamping /\ botLock' = botLock /\ ~Stamping'
      BY <1>0, <1>5, <2>3 DEF Stamping, WriteStamp, LockAlone, AtTheLock
    <3>2. CASE Cardinality(Daemons) <= botUsed.overruns
      BY <1>0, <2>1, <3>2 DEF Counted
    <3>3. ~Fresh
      BY <1>5 DEF WriteStamp, LockAlone
    <3>4. QED BY <3>1, <3>2, <3>3 DEF Counted, KeepsOut
  <2>4. QED BY <2>2, <2>3
<1>6. ASSUME NEW b \in Bots, RefreshLock(b) PROVE Counted'
  <2>1. /\ life[b] = "loop" /\ life' = [life EXCEPT ![b] = "refresh"]
        /\ botLock' = IF botLock = NoLock THEN BlankBy(b) ELSE [botLock EXCEPT !.age = Blank]
        /\ handle' = [handle EXCEPT ![b] = botLock'.by] /\ botUsed' = botUsed
    BY <1>6 DEF RefreshLock
  <2>2. Daemons' = Daemons
    BY <1>0, <2>1 DEF Daemons
  <2>3. Stamping'
    BY <1>0, <2>1 DEF Stamping
  <2>4. ~Fresh'
    BY <1>0, <2>1 DEF Fresh
  <2>5. QED BY <2>1, <2>2, <2>3, <2>4 DEF Counted, KeepsOut
<1>7. ASSUME NEW b \in Bots, StopBot(b) PROVE Counted'
  <2>1. b \in Daemons /\ Daemons' \subseteq Daemons \ {b} /\ botUsed' = botUsed
    BY <1>0, <1>7 DEF StopBot, Ends, Daemons
  <2>2. QED BY <2>1, OneDaemonLess
<1>8. ASSUME NEW b \in Bots, Identify(b) \/ Reconnect(b) \/ Sigterm(b) PROVE Counted'
  BY <1>8, SameCount DEF Identify, Reconnect, Sigterm
<1>9. ASSUME NEW b \in Bots, GatewayReady(b) PROVE Counted'
  <2>1. /\ life' = [life EXCEPT ![b] = IF @ = "connect" THEN "loop" ELSE @]
        /\ UNCHANGED <<botLock, handle, since, botUsed>>
    BY <1>9 DEF GatewayReady
  <2>2. Daemons' = Daemons /\ Running' = Running /\ Stamping' = Stamping
    BY <1>0, <2>1 DEF Daemons, Running, Stamping
  <2>3. QED BY <2>1, <2>2 DEF Counted, KeepsOut, Fresh
<1>10. ASSUME NEW b \in Bots, Lost(b) PROVE Counted'
  <2>1. botUsed'.overruns = botUsed.overruns
    BY <1>10 DEF Lost, SpendBot, BotTyped
  <2>2. QED BY <1>10, <2>1, SameCount DEF Lost
<1>11. ASSUME NEW b \in Bots, BotDies(b) PROVE Counted'
  <2>1. /\ botUsed'.overruns = botUsed.overruns /\ life' = [life EXCEPT ![b] = "down"]
        /\ UNCHANGED <<botLock, handle, since>>
    BY <1>11 DEF BotDies, SpendBot, Ends, BotTyped
  <2>2. CASE b \in Daemons
    <3>1. Daemons' \subseteq Daemons \ {b}
      BY <1>0, <2>1 DEF Daemons
    <3>2. QED BY <2>1, <2>2, <3>1, OneDaemonLess
  <2>3. CASE b \notin Daemons
    BY <2>1, <2>3, <1>a
  <2>4. QED BY <2>2, <2>3
<1>12. ASSUME FiveMinutes PROVE Counted'
  <2> DEFINE Late == {b \in Running : since[b] = LOCK_STALE}
  <2>1. /\ UNCHANGED <<life, handle>>
        /\ botUsed' = [botUsed EXCEPT !["overruns"] = @ + Cardinality(Late)]
        /\ botLock' = IF botLock.age \in 0..LOCK_STALE THEN [botLock EXCEPT !.age = @ + 1] ELSE botLock
        /\ since' = [b \in Bots |-> IF b \in Running /\ since[b] # Old THEN since[b] + 1 ELSE since[b]]
    BY <1>12 DEF FiveMinutes, SpendBot
  <2>2. IsFiniteSet(Late) /\ Cardinality(Late) \in Nat
        /\ (Late # {} => Cardinality(Late) >= 1)
    <3>1. IsFiniteSet(Late)
      BY FS_Subset DEF Running
    <3>2. QED BY <3>1, FS_CardinalityType, FS_EmptySet
  <2>3. botUsed'.overruns = botUsed.overruns + Cardinality(Late)
    BY <2>1 DEF BotTyped
  <2>4. Daemons' = Daemons /\ Running' = Running
    BY <2>1 DEF Daemons, Running
  <2> HIDE DEF Late
  <2>5. CASE Cardinality(Daemons) <= botUsed.overruns
    BY <1>0, <2>2, <2>3, <2>4, <2>5 DEF Counted
  <2>6. CASE Stamping /\ ~Fresh
    <3>1. botLock' = botLock
      BY <2>1, <2>6 DEF Fresh
    <3>2. Stamping' /\ ~Fresh'
      BY <2>1, <2>6, <3>1 DEF Stamping, Fresh
    <3>3. QED BY <1>0, <2>2, <2>3, <2>4, <3>2 DEF Counted, KeepsOut
  <2>7. CASE Fresh /\ \E b \in Running : since[b] = botLock.age
    <3>1. PICK b \in Running : since[b] = botLock.age
      BY <2>7
    <3>2. b \in Bots /\ since[b] \in 0..LOCK_STALE
      BY <2>7, <3>1 DEF Running, Fresh
    <3>3. CASE since[b] = LOCK_STALE
      <4>1. b \in Late
        BY <3>1, <3>3 DEF Late
      <4>2. Cardinality(Daemons') <= botUsed'.overruns
        BY <1>0, <2>2, <2>3, <2>4, <4>1 DEF Counted
      <4>3. QED BY <1>0, <2>2, <2>3, <4>2, <2>4 DEF Counted
    <3>4. CASE since[b] # LOCK_STALE
      <4>1. since'[b] = since[b] + 1 /\ botLock'.age = botLock.age + 1
        BY <1>0, <2>1, <2>7, <3>1, <3>2, <3>4 DEF Fresh
      <4>2. b \in Running' /\ since'[b] = botLock'.age /\ Fresh'
        BY <2>4, <3>1, <3>2, <3>4, <4>1 DEF Fresh
      <4>3. QED BY <1>0, <2>2, <2>3, <2>4, <4>2 DEF Counted, KeepsOut
    <3>5. QED BY <3>3, <3>4
  <2>8. QED BY <2>5, <2>6, <2>7 DEF Counted, KeepsOut
<1>13. CASE UNCHANGED botVars
  BY <1>13, SameCount DEF botVars
<1>14. QED BY <1>1, <1>2, <1>3, <1>4, <1>5, <1>6, <1>7, <1>8, <1>9, <1>10, <1>11, <1>12, <1>13
           DEF BotNext, BotStep, GatewayStep

\* Daemons run beside each other only as overruns allow, for any number of
\* daemons, hangs, deaths and lost connections, while they come to the lock
\* one at a time (acquireLock, its refresh and its release).
THEOREM OneDaemonPerOverrunHolds == BotSpec => []OneDaemonPerOverrun
<1>1. BotInit => DaemonInv
  <2> SUFFICES ASSUME BotInit PROVE DaemonInv
    OBVIOUS
  <2>1. BotTyped
    BY DEF BotInit, BotTyped, NoLock, Blank, Old, LOCK_STALE
  <2>2. Daemons = {} /\ AtTheLock = {} /\ LockAlone
    BY DEF BotInit, Daemons, AtTheLock, LockAlone
  <2>3. Counted
    BY <2>1, <2>2, FS_EmptySet DEF BotInit, Counted
  <2>4. QED BY <2>1, <2>2, <2>3 DEF DaemonInv
<1>2. DaemonInv /\ [BotNext]_botVars => DaemonInv'
  <2> SUFFICES ASSUME DaemonInv, [BotNext]_botVars PROVE DaemonInv'
    OBVIOUS
  <2>1. BotTyped /\ BotTyped'
    BY BotStepTyped DEF DaemonInv
  <2>2. ASSUME ~mixed' PROVE LockAlone' /\ Counted'
    BY <2>1, <2>2, BotStepAlone, BotStepCounted DEF DaemonInv
  <2>3. QED BY <2>1, <2>2 DEF DaemonInv
<1>3. DaemonInv => OneDaemonPerOverrun
  <2> SUFFICES ASSUME DaemonInv, ~mixed PROVE Cardinality(Running) <= 1 + botUsed.overruns
    BY DEF OneDaemonPerOverrun
  <2>1. Running \subseteq Daemons
    BY DEF Running, Daemons
  <2>2. Cardinality(Running) <= Cardinality(Daemons) /\ Cardinality(Running) \in Nat
    BY <2>1, DaemonsFinite, Fewer, FS_CardinalityType
  <2>3. Cardinality(Daemons) <= botUsed.overruns + 1 /\ botUsed.overruns \in Nat
    BY DEF DaemonInv, BotTyped, Counted
  <2>4. QED BY <2>2, <2>3, DaemonsFinite
<1>4. QED BY <1>1, <1>2, <1>3, PTL DEF BotSpec

-----------------------------------------------------------------------------
(* Contract.  What the ticks in the gate may still tell is paid for: one   *)
(* alert by the drift that set it off, two with every tick that entered    *)
(* while another was inside, one with every failed read of the setting.    *)

Away(x, y) == IF x = y THEN 0 ELSE 1

Pending == {t \in GateTicks : gate[t] \in {"checked", "changed"}}
Noted   == {t \in GateTicks : gate[t] = "noted"}

\* Alerts on the way from what is remembered over what t has found to what is.
Toward(t) == (IF gate[t] = "changed" THEN 1 ELSE Away(contractState, found[t]))
               + Away(found[t], drifted)

Alerts == Len(told) + Cardinality(Noted)
Paid   == drifts + 2 * overlaps + misreads

Owed == IF Pending = {} THEN Alerts + Away(contractState, drifted) <= Paid
        ELSE \E m \in Pending : Alerts + Toward(m) + 2 * (Cardinality(Pending) - 1) <= Paid

ContractTypes ==
  /\ gate \in [GateTicks -> {"out", "checked", "changed", "noted"}]
  /\ found \in [GateTicks -> SUBSET Parts]
  /\ drifted \in SUBSET Parts /\ contractState \in SUBSET Parts
  /\ told \in Seq(SUBSET Parts)
  /\ drifts \in Nat /\ overlaps \in Nat /\ misreads \in Nat /\ cuts \in Nat

ContractInv == ContractTypes /\ Owed /\ NotedIsTold

LEMMA GateSetsFinite ==
  /\ IsFiniteSet(Pending) /\ Cardinality(Pending) \in Nat
  /\ IsFiniteSet(Noted) /\ Cardinality(Noted) \in Nat
  BY ContractAssumption, FS_Subset, FS_CardinalityType DEF Pending, Noted

LEMMA AwayRange == \A x, y, z : /\ Away(x, y) \in 0..1 /\ Away(x, x) = 0
                                /\ Away(x, z) <= Away(x, y) + Away(y, z)
  BY DEF Away

LEMMA TowardRange == \A t : Toward(t) \in 0..2
  BY DEF Toward, Away

LEMMA ContractTyped == ASSUME ContractTypes, [ContractNext]_contractVars PROVE ContractTypes'
<1> USE DEF ContractTypes
<1>1. ASSUME NEW c \in Parts, Drift(c) PROVE ContractTypes'
  BY <1>1 DEF Drift
<1>2. ASSUME NEW t \in GateTicks, contractChecks(t) PROVE ContractTypes'
  BY <1>2 DEF contractChecks
<1>3. ASSUME NEW t \in GateTicks, Compare(t) PROVE ContractTypes'
  BY <1>3 DEF Compare
<1>4. ASSUME NEW t \in GateTicks, NoteState(t) PROVE ContractTypes'
  BY <1>4 DEF NoteState
<1>5. ASSUME NEW t \in GateTicks, Tell(t) PROVE ContractTypes'
  BY <1>5 DEF Tell
<1>6. ASSUME NEW t \in GateTicks, CutShort(t) PROVE ContractTypes'
  BY <1>6 DEF CutShort
<1>7. CASE UNCHANGED contractVars
  BY <1>7 DEF contractVars
<1>8. QED BY <1>1, <1>2, <1>3, <1>4, <1>5, <1>6, <1>7 DEF ContractNext

\* A note is told, or about to be.
LEMMA NotesAreTold == ASSUME ContractTypes, NotedIsTold, [ContractNext]_contractVars PROVE NotedIsTold'
<1> USE DEF ContractTypes, NotedIsTold
<1>1. ASSUME NEW c \in Parts, Drift(c) PROVE NotedIsTold'
  BY <1>1 DEF Drift
<1>2. ASSUME NEW t \in GateTicks, contractChecks(t) PROVE NotedIsTold'
  BY <1>2 DEF contractChecks
<1>3. ASSUME NEW t \in GateTicks, Compare(t) PROVE NotedIsTold'
  BY <1>3 DEF Compare
<1>4. ASSUME NEW t \in GateTicks, NoteState(t) PROVE NotedIsTold'
  BY <1>4 DEF NoteState
<1>5. ASSUME NEW t \in GateTicks, Tell(t) PROVE NotedIsTold'
  <2>1. /\ \A i \in DOMAIN told : i \in DOMAIN told' /\ told'[i] = told[i]
        /\ Len(told) + 1 \in DOMAIN told' /\ told'[Len(told) + 1] = found[t]
    BY <1>5 DEF Tell
  <2>2. /\ UNCHANGED <<contractState, found, cuts>>
        /\ \A u \in GateTicks \ {t} : gate'[u] = gate[u]
    BY <1>5 DEF Tell
  <2>3. QED BY <2>1, <2>2
<1>6. ASSUME NEW t \in GateTicks, CutShort(t) PROVE NotedIsTold'
  BY <1>6 DEF CutShort
<1>7. CASE UNCHANGED contractVars
  BY <1>7 DEF contractVars
<1>8. QED BY <1>1, <1>2, <1>3, <1>4, <1>5, <1>6, <1>7 DEF ContractNext

LEMMA SumGrows ==
  ASSUME NEW a \in Nat, NEW b \in Nat, NEW c \in Nat, NEW d \in Nat, d >= c
  PROVE  /\ a + 2 * b + c \in Nat /\ a + 2 * b + d \in Nat
         /\ a + 2 * b + d >= a + 2 * b + c
  OBVIOUS

\* A tick leaves the gate, or goes on to tell: what it was allowed is spent.
LEMMA PendingLeaves ==
  ASSUME ContractTypes, ContractTypes', Owed, NEW t \in Pending, Pending' = Pending \ {t},
         UNCHANGED <<drifted, found, drifts, overlaps>>,
         misreads' = misreads \/ misreads' = misreads + 1,
         \A u \in GateTicks \ {t} : gate'[u] = gate[u],
         \/ contractState' = contractState /\ Alerts' = Alerts
         \/ contractState' = found[t] /\ gate[t] = "changed" /\ Alerts' <= Alerts + 1,
         Alerts' \in Nat
  PROVE  Owed'
<1>0. /\ Alerts \in Nat /\ Alerts' \in Nat /\ Paid \in Nat /\ Paid' \in Nat /\ Paid' >= Paid
      /\ Cardinality(Pending) \in Nat
  <2>1. Alerts \in Nat /\ Cardinality(Pending) \in Nat
    BY GateSetsFinite DEF ContractTypes, Alerts
  <2>2. Paid \in Nat /\ Paid' \in Nat /\ Paid' >= Paid
    <3>1. drifts \in Nat /\ overlaps \in Nat /\ misreads \in Nat
      BY DEF ContractTypes
    <3>2. drifts' = drifts /\ overlaps' = overlaps
      OBVIOUS
    <3>3. misreads' \in Nat /\ misreads' >= misreads
      BY <3>1
    <3>4. Paid = drifts + 2 * overlaps + misreads /\ Paid' = drifts + 2 * overlaps + misreads'
      BY <3>2 DEF Paid
    <3>5. QED BY <3>1, <3>3, <3>4, SumGrows, Zenon
  <2>3. QED BY <2>1, <2>2
<1>1. PICK m \in Pending : Alerts + Toward(m) + 2 * (Cardinality(Pending) - 1) <= Paid
  BY DEF Owed
<1>2. Cardinality(Pending') = Cardinality(Pending) - 1 /\ Cardinality(Pending') \in Nat
      /\ (Pending' = {} => Cardinality(Pending') = 0)
  <2>1. Cardinality(Pending \ {t}) = Cardinality(Pending) - 1 /\ IsFiniteSet(Pending \ {t})
    BY GateSetsFinite, FS_RemoveElement
  <2>2. Cardinality(Pending \ {t}) \in Nat /\ Cardinality({}) = 0
    BY <2>1, FS_CardinalityType, FS_EmptySet
  <2>3. QED BY <2>1, <2>2
<1>3. CASE Pending' = {}
  <2>1. m = t /\ Alerts + Toward(t) <= Paid
    BY <1>0, <1>1, <1>2, <1>3, TowardRange
  <2>2. Alerts' + Away(contractState', drifted) <= Alerts + Toward(t)
    <3>1. CASE contractState' = contractState /\ Alerts' = Alerts
      BY <3>1, <1>0, AwayRange DEF Toward, Away
    <3>2. CASE contractState' = found[t] /\ gate[t] = "changed" /\ Alerts' <= Alerts + 1
      BY <3>2, <1>0, AwayRange DEF Toward
    <3>3. QED BY <3>1, <3>2
  <2>3. Alerts' + Away(contractState', drifted') <= Paid'
    BY <1>0, <2>1, <2>2, AwayRange, TowardRange
  <2>4. QED BY <1>3, <2>3 DEF Owed, Away
<1>4. CASE Pending' # {}
  <2>1. CASE m = t
    <3>1. PICK n \in Pending' : TRUE
      BY <1>4
    <3>2. Toward(n)' \in 0..2
      BY DEF Toward, Away
    <3>3. Alerts' <= Alerts + Toward(t)
      BY <1>0, TowardRange, AwayRange DEF Toward
    <3>4. Alerts' + Toward(n)' + 2 * (Cardinality(Pending') - 1) <= Paid'
      BY <1>0, <1>1, <1>2, <2>1, <3>2, <3>3, TowardRange
    <3>5. QED BY <1>4, <3>1, <3>4 DEF Owed
  <2>2. CASE m # t
    <3>1. m \in Pending' /\ m \in GateTicks \ {t}
      BY <2>2 DEF Pending
    <3>2. Toward(m)' <= Toward(m) + 1 /\ Toward(m)' \in 0..2
          /\ (contractState' = contractState => Toward(m)' = Toward(m))
      BY <3>1 DEF Toward, Away
    <3>3. Alerts' + Toward(m)' <= Alerts + Toward(m) + 2
      BY <1>0, <3>2, TowardRange
    <3>4. Alerts' + Toward(m)' + 2 * (Cardinality(Pending') - 1) <= Paid'
      BY <1>0, <1>1, <1>2, <3>2, <3>3, TowardRange
    <3>5. QED BY <1>4, <3>1, <3>4 DEF Owed
  <2>3. QED BY <2>1, <2>2
<1>5. QED BY <1>3, <1>4

LEMMA ContractOwed ==
  ASSUME ContractTypes, ContractTypes', Owed, [ContractNext]_contractVars
  PROVE  Owed'
<1>0. /\ Alerts \in Nat /\ Paid \in Nat
      /\ Cardinality(Pending) \in Nat /\ Cardinality(Noted) \in Nat
  BY GateSetsFinite DEF ContractTypes, Alerts, Paid
<1>1. ASSUME NEW c \in Parts, Drift(c) PROVE Owed'
  <2>1. /\ Pending' = Pending /\ Alerts' = Alerts /\ Paid' = Paid + 1
        /\ UNCHANGED <<gate, found, contractState>>
    BY <1>1 DEF Drift, Pending, Noted, Alerts, Paid, ContractTypes
  <2>2. CASE Pending = {}
    <3>1. Alerts + Away(contractState, drifted) <= Paid
      BY <2>2 DEF Owed
    <3>2. Away(contractState, drifted)' <= Away(contractState, drifted) + 1
      BY DEF Away
    <3>3. Alerts' + Away(contractState, drifted)' <= Paid'
      BY <1>0, <2>1, <3>1, <3>2, AwayRange DEF Away
    <3>4. QED BY <2>1, <2>2, <3>3 DEF Owed
  <2>3. CASE Pending # {}
    <3>1. PICK m \in Pending : Alerts + Toward(m) + 2 * (Cardinality(Pending) - 1) <= Paid
      BY <2>3 DEF Owed
    <3>2. Toward(m)' <= Toward(m) + 1 /\ Toward(m)' \in 0..2
      BY <2>1 DEF Toward, Away
    <3>3. Alerts' + Toward(m)' + 2 * (Cardinality(Pending') - 1) <= Paid'
      BY <1>0, <2>1, <3>1, <3>2, TowardRange
    <3>4. QED BY <2>1, <2>3, <3>1, <3>3 DEF Owed
  <2>4. QED BY <2>2, <2>3
<1>2. ASSUME NEW t \in GateTicks, contractChecks(t) PROVE Owed'
  <2>1. /\ gate[t] = "out" /\ gate' = [gate EXCEPT ![t] = "checked"]
        /\ found' = [found EXCEPT ![t] = drifted]
        /\ overlaps' = IF \E u \in GateTicks : gate[u] # "out" THEN overlaps + 1 ELSE overlaps
        /\ UNCHANGED <<drifted, contractState, drifts, told, misreads>>
    BY <1>2 DEF contractChecks
  <2>2. Pending' = Pending \cup {t} /\ t \notin Pending /\ Noted' = Noted /\ Alerts' = Alerts
    BY <2>1 DEF Pending, Noted, Alerts, ContractTypes
  <2>3. Cardinality(Pending \cup {t}) = Cardinality(Pending) + 1
    BY <2>2, GateSetsFinite, FS_AddElement
  <2>4. CASE Pending = {}
    <3>1. Alerts + Away(contractState, drifted) <= Paid
      BY <2>4 DEF Owed
    <3>2. Cardinality(Pending') = 1
      <4>1. Cardinality({}) = 0
        BY FS_EmptySet
      <4>2. QED BY <2>2, <2>3, <2>4, <4>1
    <3>3. Toward(t)' = Away(contractState, drifted)
      BY <2>1 DEF Toward, Away, ContractTypes
    <3>4. Paid' \in Nat /\ Paid' >= Paid
      BY <2>1 DEF Paid, ContractTypes
    <3>5. Alerts' + Toward(t)' + 2 * (Cardinality(Pending') - 1) <= Paid'
      BY <1>0, <2>2, <3>1, <3>2, <3>3, <3>4, AwayRange
    <3>6. t \in Pending'
      BY <2>2
    <3>7. QED BY <3>5, <3>6 DEF Owed
  <2>5. CASE Pending # {}
    <3>1. PICK m \in Pending : Alerts + Toward(m) + 2 * (Cardinality(Pending) - 1) <= Paid
      BY <2>5 DEF Owed
    <3>2. m # t /\ m \in GateTicks /\ m \in Pending'
      BY <2>2 DEF Pending
    <3>3. Toward(m)' = Toward(m)
      BY <2>1, <3>2 DEF Toward, Away, ContractTypes
    <3>4. gate[m] # "out"
      BY DEF Pending
    <3>5. Paid' = Paid + 2
      BY <2>1, <3>2, <3>4 DEF Paid, ContractTypes
    <3>6. Alerts' + Toward(m)' + 2 * (Cardinality(Pending') - 1) <= Paid'
      BY <1>0, <2>2, <2>3, <3>1, <3>3, <3>5, TowardRange
    <3>7. QED BY <3>2, <3>6 DEF Owed
  <2>6. QED BY <2>4, <2>5
<1>3. ASSUME NEW t \in GateTicks, Compare(t) PROVE Owed'
  <2>1. PICK prev \in {contractState, {}} :
          /\ gate[t] = "checked"
          /\ gate' = [gate EXCEPT ![t] = IF prev = found[t] THEN "out" ELSE "changed"]
          /\ misreads' = IF prev = contractState THEN misreads ELSE misreads + 1
          /\ UNCHANGED <<drifted, contractState, found, drifts, told, overlaps>>
    BY <1>3 DEF Compare
  <2>2. Noted' = Noted /\ Alerts' = Alerts
    BY <2>1 DEF Noted, Alerts, ContractTypes
  <2>9. (misreads' = misreads \/ misreads' = misreads + 1) /\ Paid' = Paid + (misreads' - misreads)
    BY <2>1 DEF Paid, ContractTypes
  <2>3. CASE prev = found[t]
    <3>1. t \in Pending /\ Pending' = Pending \ {t} /\ \A u \in GateTicks \ {t} : gate'[u] = gate[u]
      BY <2>1, <2>3 DEF Pending, ContractTypes
    <3>2. QED BY <1>0, <2>1, <2>2, <2>9, <3>1, PendingLeaves
  <2>4. CASE prev # found[t]
    <3>1. Pending' = Pending
      BY <2>1, <2>4 DEF Pending, ContractTypes
    <3>2. \A m \in GateTicks : Toward(m)' <= Toward(m) + (misreads' - misreads)
      BY <2>1, <2>4 DEF Toward, Away, ContractTypes
    <3>6. \A m \in GateTicks : Toward(m)' \in 0..2
      BY DEF Toward, Away
    <3>3. t \in Pending
      BY <2>1 DEF Pending
    <3>4. PICK m \in Pending : Alerts + Toward(m) + 2 * (Cardinality(Pending) - 1) <= Paid
      BY <3>3 DEF Owed
    <3>5. Alerts' + Toward(m)' + 2 * (Cardinality(Pending') - 1) <= Paid'
      <4>1. m \in GateTicks /\ misreads \in Nat
        BY DEF Pending, ContractTypes
      <4>2. QED BY <1>0, <2>2, <2>9, <3>1, <3>2, <3>4, <3>6, <4>1, TowardRange
    <3>7. QED BY <3>1, <3>4, <3>5 DEF Owed
  <2>5. QED BY <2>3, <2>4
<1>4. ASSUME NEW t \in GateTicks, NoteState(t) PROVE Owed'
  <2>1. /\ gate[t] = "changed" /\ contractState' = found[t]
        /\ gate' = [gate EXCEPT ![t] = IF found[t] = {} THEN "out" ELSE "noted"]
        /\ UNCHANGED <<drifted, found, drifts, told, overlaps, misreads>>
    BY <1>4 DEF NoteState
  <2>2. /\ t \in Pending /\ Pending' = Pending \ {t}
        /\ \A u \in GateTicks \ {t} : gate'[u] = gate[u]
        /\ Noted' \subseteq Noted \cup {t}
    BY <2>1 DEF Pending, Noted, ContractTypes
  <2>3. Cardinality(Noted') <= Cardinality(Noted) + 1 /\ Cardinality(Noted') \in Nat
    <3>1. IsFiniteSet(Noted \cup {t})
      BY GateSetsFinite, FS_AddElement
    <3>2. ASSUME NEW R, R \subseteq Noted \cup {t}
          PROVE  Cardinality(R) <= Cardinality(Noted) + 1 /\ Cardinality(R) \in Nat
      <4>1. IsFiniteSet(R) /\ Cardinality(R) \in Nat
        BY <3>1, <3>2, FS_Subset, FS_CardinalityType
      <4>2. Cardinality(R) <= Cardinality(Noted) + 1
        BY <3>2, GateSetsFinite, OneMore
      <4>3. QED BY <4>1, <4>2
    <3>3. QED BY <2>2, <3>2
  <2>4. Alerts' <= Alerts + 1 /\ Alerts' \in Nat
    BY <1>0, <2>1, <2>3 DEF Alerts, ContractTypes
  <2>5. misreads' = misreads \/ misreads' = misreads + 1
    BY <2>1 DEF ContractTypes
  <2>6. QED BY <2>1, <2>2, <2>4, <2>5, PendingLeaves
\* An alert is written down, or lost.
<1>a. ASSUME NEW t \in Noted, gate' = [gate EXCEPT ![t] = "out"],
             told' = told \/ told' = Append(told, found[t]),
             UNCHANGED <<drifted, contractState, found, drifts, overlaps, misreads>>
      PROVE  Owed'
  <2>1. t \in GateTicks /\ Pending' = Pending /\ Noted' = Noted \ {t} /\ Paid' = Paid
    BY <1>a DEF Pending, Noted, Paid, ContractTypes
  <2>2. Cardinality(Noted') = Cardinality(Noted) - 1
    BY <2>1, GateSetsFinite, FS_RemoveElement
  <2>3. Len(told') <= Len(told) + 1 /\ Len(told') \in Nat
    BY <1>a, <2>1 DEF ContractTypes
  <2>4. Alerts' <= Alerts /\ Alerts' \in Int
    BY <1>0, <2>2, <2>3 DEF Alerts, ContractTypes
  <2>5. \A m \in Pending : Toward(m)' = Toward(m)
    BY <1>a DEF Pending, Noted, Toward, Away, ContractTypes
  <2>6. CASE Pending = {}
    <3>1. Alerts + Away(contractState, drifted) <= Paid
      BY <2>6 DEF Owed
    <3>2. Away(contractState, drifted)' = Away(contractState, drifted)
      BY <1>a DEF Away
    <3>3. Alerts' + Away(contractState, drifted)' <= Paid'
      BY <1>0, <2>1, <2>4, <3>1, <3>2, AwayRange
    <3>4. QED BY <2>1, <2>6, <3>3 DEF Owed
  <2>7. CASE Pending # {}
    <3>1. PICK m \in Pending : Alerts + Toward(m) + 2 * (Cardinality(Pending) - 1) <= Paid
      BY <2>7 DEF Owed
    <3>2. Alerts' + Toward(m)' + 2 * (Cardinality(Pending') - 1) <= Paid'
      BY <1>0, <2>1, <2>4, <2>5, <3>1, TowardRange
    <3>3. QED BY <2>1, <3>1, <3>2 DEF Owed
  <2>8. QED BY <2>6, <2>7
<1>5. ASSUME NEW t \in GateTicks, Tell(t) PROVE Owed'
  BY <1>5, <1>a DEF Tell, Noted
<1>6. ASSUME NEW t \in GateTicks, CutShort(t) PROVE Owed'
  <2>1. /\ gate[t] # "out" /\ gate' = [gate EXCEPT ![t] = "out"]
        /\ UNCHANGED <<drifted, contractState, found, drifts, told, overlaps, misreads>>
    BY <1>6 DEF CutShort
  <2>2. CASE t \in Noted
    BY <1>a, <2>1, <2>2
  <2>3. CASE t \notin Noted
    <3>1. t \in Pending /\ Pending' = Pending \ {t} /\ Noted' = Noted
          /\ \A u \in GateTicks \ {t} : gate'[u] = gate[u]
      BY <2>1, <2>3 DEF Pending, Noted, ContractTypes
    <3>2. Alerts' = Alerts
      BY <2>1, <3>1 DEF Alerts
    <3>3. misreads' = misreads \/ misreads' = misreads + 1
      BY <2>1 DEF ContractTypes
    <3>4. QED BY <1>0, <2>1, <3>1, <3>2, <3>3, PendingLeaves
  <2>4. QED BY <2>2, <2>3
<1>7. CASE UNCHANGED contractVars
  <2>1. Pending' = Pending /\ Noted' = Noted /\ Alerts' = Alerts /\ Paid' = Paid
    BY <1>7 DEF contractVars, Pending, Noted, Alerts, Paid
  <2>2. QED BY <1>7, <2>1 DEF contractVars, Owed, Toward, Away
<1>8. QED BY <1>1, <1>2, <1>3, <1>4, <1>5, <1>6, <1>7 DEF ContractNext

\* A drift is told once, and told: for any number of parts, ticks, deaths and
\* failed reads and writes of the store, whichever way the ticks interleave in the
\* gate (contractGate).
THEOREM DriftsAreToldOnce == ContractSpec => []DriftIsToldOnce
<1>1. ContractInit => ContractInv
  <2> SUFFICES ASSUME ContractInit PROVE ContractInv
    OBVIOUS
  <2>1. Pending = {} /\ Noted = {} /\ Cardinality({}) = 0
    BY FS_EmptySet DEF ContractInit, Pending, Noted
  <2>2. ContractTypes /\ NotedIsTold
    BY DEF ContractInit, ContractTypes, NotedIsTold
  <2>3. Owed
    BY <2>1 DEF ContractInit, Owed, Alerts, Paid, Away
  <2>4. QED BY <2>2, <2>3 DEF ContractInv
<1>2. ContractInv /\ [ContractNext]_contractVars => ContractInv'
  <2> SUFFICES ASSUME ContractInv, [ContractNext]_contractVars PROVE ContractInv'
    OBVIOUS
  <2>1. ContractTypes /\ ContractTypes'
    BY ContractTyped DEF ContractInv
  <2>2. Owed' /\ NotedIsTold'
    BY <2>1, ContractOwed, NotesAreTold DEF ContractInv
  <2>3. QED BY <2>1, <2>2 DEF ContractInv
<1>3. ContractInv => DriftIsToldOnce
  <2> SUFFICES ASSUME ContractInv PROVE Len(told) <= Paid
    BY DEF ContractInv, DriftIsToldOnce, Paid
  <2>1. Len(told) \in Nat /\ Len(told) <= Alerts /\ Alerts \in Nat /\ Paid \in Nat
    BY GateSetsFinite DEF Alerts, ContractInv, ContractTypes, Paid
  <2>2. CASE Pending = {}
    BY <2>1, <2>2, AwayRange DEF ContractInv, Owed
  <2>3. CASE Pending # {}
    <3>1. PICK m \in Pending : Alerts + Toward(m) + 2 * (Cardinality(Pending) - 1) <= Paid
      BY <2>3 DEF ContractInv, Owed
    <3>2. Cardinality(Pending) \in Nat /\ Cardinality(Pending) # 0
      BY <2>3, GateSetsFinite, FS_EmptySet
    <3>3. QED BY <2>1, <3>1, <3>2, TowardRange
  <2>4. QED BY <2>2, <2>3
<1>4. QED BY <1>1, <1>2, <1>3, PTL DEF ContractSpec

-----------------------------------------------------------------------------
(* Parity.  What the stores are told of an item is told in patches: a row  *)
(* goes on telling the same as its item because every patch changes the    *)
(* same keys in both, and keeps the envelope of ids inside the overlays.   *)

\* A label goes to the database as it is, or as the label of an audit row.
LEMMA StageOrAudit ==
  ASSUME NEW S, NEW label \in Seq(S), Len(label) >= 1
  PROVE  \/ normalizeStage(label) = <<"transition">>
         \/ normalizeStage(label) = label /\ "transition" \notin ToSet(label)
<1>1. CASE Len(label) = 1 /\ label[1] \in RUN_STAGES /\ label # <<"transition">>
  <2>1. label = <<label[1]>> /\ DOMAIN label = {1}
    BY <1>1
  <2>2. ToSet(label) = {label[1]} /\ label[1] # "transition"
    BY <1>1, <2>1 DEF ToSet
  <2>3. QED BY <1>1, <2>2 DEF normalizeStage
<1>2. CASE ~(Len(label) = 1 /\ label[1] \in RUN_STAGES) \/ label = <<"transition">>
  BY <1>2 DEF normalizeStage, RUN_STAGES
<1>3. QED BY <1>1, <1>2

LEMMA AppendKeepsFeed ==
  ASSUME FeedIsOfStages, NEW S, NEW label \in Seq(S), Len(label) >= 1, NEW status,
         AppendRun(label, status)
  PROVE  FeedIsOfStages'
<1> DEFINE entry == [stage |-> label, status |-> status]
           db    == [stage |-> normalizeStage(label), status |-> status]
<1>1. fileRuns' = fileRuns \cup {entry} /\ runRows' \subseteq runRows \cup {db}
  BY DEF AppendRun
<1>2. db.stage = <<"transition">> \/ (db = entry /\ "transition" \notin ToSet(entry.stage))
  BY StageOrAudit
<1> HIDE DEF entry, db
<1>3. QED BY <1>1, <1>2 DEF FeedIsOfStages, DbFeed, FileFeed

\* No audit row of a single item passes for a run of a stage, whatever labels
\* the program writes (normalizeStage).
THEOREM FeedListsStages == ParitySpec => []FeedIsOfStages
<1>1. ParityInit => FeedIsOfStages
  BY DEF ParityInit, FeedIsOfStages, DbFeed
<1>2. FeedIsOfStages /\ [ParityNext]_parityVars => FeedIsOfStages'
  <2> SUFFICES ASSUME FeedIsOfStages, [ParityNext]_parityVars PROVE FeedIsOfStages'
    OBVIOUS
  <2>1. ASSUME UNCHANGED <<fileRuns, runRows>> PROVE FeedIsOfStages'
    BY <2>1 DEF FeedIsOfStages, DbFeed, FileFeed
  <2>2. ASSUME NEW name, Audited(name) PROVE FeedIsOfStages'
    <3>1. <<name, "transition">> \in Seq({name, "transition"}) /\ Len(<<name, "transition">>) >= 1
      OBVIOUS
    <3>2. QED BY <2>2, <3>1, AppendKeepsFeed DEF Audited
  <2>3. CASE planStage \/ commissionItem \/ Decide \/ BounceAfter \/ ImportItems
             \/ (\E t \in 1..MaxDecisions : ReplayDecision(t)) \/ UNCHANGED parityVars
    BY <2>1, <2>3 DEF planStage, commissionItem, Decide, BounceAfter, ImportItems,
                      ReplayDecision, parityVars
  <2>4. CASE Claim \/ Draft \/ Render \/ Qa \/ cmdRegen
    <3>1. \E name : Audited(name)
      <4>1. CASE Claim
        BY <4>1 DEF Claim, StageMove
      <4>2. CASE Draft
        BY <4>2 DEF Draft, StageMove
      <4>3. CASE Render
        BY <4>3 DEF Render, StageMove
      <4>4. CASE Qa
        BY <4>4 DEF Qa, StageMove
      <4>5. CASE cmdRegen
        BY <4>5 DEF cmdRegen
      <4>6. QED BY <2>4, <4>1, <4>2, <4>3, <4>4, <4>5
    <3>2. QED BY <2>2, <3>1
  <2>5. ASSUME NEW name, NEW status, BeginRun(name, status)
        PROVE  FeedIsOfStages'
    <3>1. <<name>> \in Seq({name}) /\ Len(<<name>>) >= 1
      OBVIOUS
    <3>2. QED BY <2>5, <3>1, AppendKeepsFeed DEF BeginRun
  <2>6. CASE ContractDrift
    <3>1. <<"doctor", "contract">> \in Seq({"doctor", "contract"}) /\ Len(<<"doctor", "contract">>) >= 1
      OBVIOUS
    <3>2. QED BY <2>6, <3>1, AppendKeepsFeed DEF ContractDrift
  <2>7. QED BY <2>3, <2>4, <2>5, <2>6 DEF ParityNext
<1>3. QED BY <1>1, <1>2, PTL DEF ParitySpec

RowKeys == {"status", "attempt", "regen_count", "chosen", "caption", "candidate_group",
            "produced_by", "overlays"}
Shared  == {"status", "attempt", "regen_count", "chosen", "caption"}

\* A row tells of its item what the columns and the overlays hold of it.
Tells(r, i) ==
  /\ DOMAIN r = RowKeys
  /\ \A k \in Shared : r[k] = i[k]
  /\ \E feedback, producer :
       /\ r.overlays = [text |-> i.overlays, feedback |-> feedback,
                        ids |-> [id |-> i.id, candidate_group |-> i.candidate_group,
                                 produced_by |-> producer]]
       /\ producer \notin {DbRun(n) : n \in Nat}
  /\ \A n \in Nat : r.produced_by = DbRun(n) => i.produced_by = FileRun(n)

\* What both stores are asked to change.
Plain(patch) ==
  /\ DOMAIN patch \subseteq ItemKeys \ {"id", "candidate_group", "produced_by"}
  /\ ~({"feedback", "overlays"} \subseteq DOMAIN patch)

Paired(filePatch, dbPatch) ==
  /\ DOMAIN filePatch \subseteq ItemKeys \ {"id", "candidate_group"}
  /\ DOMAIN dbPatch = DOMAIN filePatch
  /\ ~({"feedback", "overlays"} \subseteq DOMAIN filePatch)
  /\ \A k \in DOMAIN filePatch \ {"produced_by"} : dbPatch[k] = filePatch[k]
  /\ "produced_by" \in DOMAIN filePatch =>
       \E n \in Nat : filePatch.produced_by = FileRun(n) /\ dbPatch.produced_by = DbRun(n)

LEMMA RunsAreIds ==
  ASSUME NEW n \in Nat
  PROVE  /\ FileRun(n) \in Ids /\ DbRun(n) \in Ids
         /\ FileRun(n) # Null /\ DbRun(n) # Null
         /\ toPk(DbRun(n)) = DbRun(n)
<1>1. FileRun(n) \in Ids /\ DbRun(n) \in Ids
  BY DEF FileRun, DbRun, Slug, Ids
<1>2. DbRun(n).kind = "uuid"
  BY DEF DbRun
<1>3. QED BY <1>1, <1>2, ParityAssumption DEF toPk, isUuid

LEMMA RunsDiffer ==
  ASSUME NEW m \in Nat, NEW n \in Nat, DbRun(m) = DbRun(n)
  PROVE  m = n
<1>1. DbRun(m).name = <<"run", m>> /\ DbRun(n).name = <<"run", n>>
  BY DEF DbRun
<1>2. <<"run", m>> = <<"run", n>>
  BY <1>1
<1>3. QED BY <1>2

LEMMA SignedIsPaired ==
  ASSUME NEW name, NEW patch, Plain(patch), NEW n \in Nat
  PROVE  Paired(Signed(name, patch, FileRun(n)), Signed(name, patch, DbRun(n)))
<1>1. CASE name = "qa"
  BY <1>1 DEF Paired, Plain, Signed
<1>2. CASE name # "qa"
  BY <1>2 DEF Paired, Plain, Signed, ItemKeys
<1>3. QED BY <1>1, <1>2

LEMMA PlainIsPaired ==
  ASSUME NEW patch, Plain(patch)
  PROVE  Paired(patch, patch)
BY DEF Paired, Plain

\* Neither store's patch parts a row from its item.
LEMMA PatchTells ==
  ASSUME NEW r, NEW i, DOMAIN i = ItemKeys, Tells(r, i),
         NEW filePatch, NEW dbPatch, Paired(filePatch, dbPatch)
  PROVE  Tells(Updated(r, dbPatch), Patched(i, filePatch))
<1> DEFINE i2 == Patched(i, filePatch)
           r2 == Updated(r, dbPatch)
<1>1. /\ DOMAIN i2 = ItemKeys
      /\ \A k \in ItemKeys : i2[k] = IF k \in DOMAIN filePatch THEN filePatch[k] ELSE i[k]
  BY DEF Patched
<1>2. /\ DOMAIN r2 = RowKeys
      /\ r2.overlays = Overlays(r.overlays, dbPatch)
      /\ \A k \in RowKeys \ {"overlays"} :
           r2[k] = IF k \in DOMAIN dbPatch \cap UPDATABLE THEN Column(k, dbPatch[k]) ELSE r[k]
  BY DEF Updated, Tells, RowKeys
<1> HIDE DEF i2, r2
<1>3. \A k \in Shared : r2[k] = i2[k]
  <2>1. Shared \subseteq ItemKeys /\ Shared \subseteq RowKeys \ {"overlays"} /\ Shared \subseteq UPDATABLE
        /\ \A k \in Shared : k \notin UUID_COLS /\ k # "produced_by"
    BY DEF Shared, ItemKeys, RowKeys, UPDATABLE, UUID_COLS
  <2>2. QED BY <1>1, <1>2, <2>1 DEF Paired, Tells, Column
<1>4. \E feedback, producer :
       /\ r2.overlays = [text |-> i2.overlays, feedback |-> feedback,
                        ids |-> [id |-> i2.id, candidate_group |-> i2.candidate_group,
                                 produced_by |-> producer]]
       /\ producer \notin {DbRun(n) : n \in Nat}
  <2>0. i2.id = i.id /\ i2.candidate_group = i.candidate_group
    BY <1>1 DEF Paired, ItemKeys
  <2>1. PICK feedback, producer :
       /\ r.overlays = [text |-> i.overlays, feedback |-> feedback,
                        ids |-> [id |-> i.id, candidate_group |-> i.candidate_group,
                                 produced_by |-> producer]]
       /\ producer \notin {DbRun(n) : n \in Nat}
    BY DEF Tells
  <2>2. CASE "feedback" \in DOMAIN dbPatch
    <3>1. r2.overlays = [r.overlays EXCEPT !.feedback = dbPatch.feedback]
      BY <1>2, <2>2 DEF Overlays
    <3>2. r2.overlays = [text |-> i.overlays, feedback |-> dbPatch.feedback,
                        ids |-> [id |-> i.id, candidate_group |-> i.candidate_group,
                                 produced_by |-> producer]]
      BY <2>1, <3>1
    <3>3. i2.overlays = i.overlays
      BY <1>1, <2>2 DEF Paired, ItemKeys
    <3>4. QED BY <2>0, <2>1, <3>2, <3>3
  <2>3. CASE "overlays" \in DOMAIN dbPatch
    <3>1. r2.overlays = [text |-> dbPatch.overlays, ids |-> r.overlays.ids, feedback |-> Null]
      BY <1>2, <2>3 DEF Overlays, Paired
    <3>2. r.overlays.ids = [id |-> i.id, candidate_group |-> i.candidate_group,
                                 produced_by |-> producer]
      BY <2>1
    <3>3. i2.overlays = dbPatch.overlays
      BY <1>1, <2>3 DEF Paired, ItemKeys
    <3>4. QED BY <2>0, <2>1, <3>1, <3>2, <3>3
  <2>4. CASE "feedback" \notin DOMAIN dbPatch /\ "overlays" \notin DOMAIN dbPatch
    <3>1. r2.overlays = r.overlays
      BY <1>2, <2>4 DEF Overlays
    <3>2. i2.overlays = i.overlays
      BY <1>1, <2>4 DEF Paired, ItemKeys
    <3>3. QED BY <2>0, <2>1, <3>1, <3>2
  <2>5. QED BY <2>2, <2>3, <2>4
<1>5. ASSUME NEW n \in Nat, r2.produced_by = DbRun(n) PROVE i2.produced_by = FileRun(n)
  <2>1. CASE "produced_by" \in DOMAIN filePatch
    <3>1. PICK m \in Nat : filePatch.produced_by = FileRun(m) /\ dbPatch.produced_by = DbRun(m)
      BY <2>1 DEF Paired
    <3>2. r2.produced_by = DbRun(m)
      BY <1>2, <2>1, <3>1, RunsAreIds DEF Paired, Column, UPDATABLE, UUID_COLS, RowKeys
    <3>3. m = n
      BY <1>5, <3>2, RunsDiffer
    <3>4. QED BY <1>1, <2>1, <3>1, <3>3 DEF ItemKeys
  <2>2. CASE "produced_by" \notin DOMAIN filePatch
    <3>1. r2.produced_by = r.produced_by /\ i2.produced_by = i.produced_by
      BY <1>1, <1>2, <2>2 DEF Paired, RowKeys, ItemKeys
    <3>2. QED BY <1>5, <3>1 DEF Tells
  <2>3. QED BY <2>1, <2>2
<1>6. Tells(r2, i2)
  BY <1>2, <1>3, <1>4, <1>5 DEF Tells
<1>7. QED BY <1>6 DEF i2, r2

\* An item written to the database whole.
LEMMA RowTells ==
  ASSUME NEW i, i.produced_by = Commissioned \/ \E n \in Nat : i.produced_by = FileRun(n)
  PROVE  Tells(RowOf(i), i)
<1> DEFINE r == RowOf(i)
<1>1. Commissioned \in Ids /\ ~isUuid(i.produced_by) /\ i.produced_by # Null
      /\ i.produced_by.kind = "slug"
  <2>1. Commissioned \in Ids /\ Commissioned.kind = "slug"
    BY DEF Commissioned, Slug, Ids
  <2>2. \A n \in Nat : FileRun(n).kind = "slug"
    BY DEF FileRun, Slug
  <2>3. QED BY <2>1, <2>2, RunsAreIds, ParityAssumption DEF isUuid
<1>2. /\ DOMAIN r = RowKeys
      /\ \A k \in Shared : r[k] = i[k]
      /\ r.produced_by = Null
      /\ r.overlays = [text |-> i.overlays, feedback |-> i.feedback,
                        ids |-> [id |-> i.id, candidate_group |-> i.candidate_group,
                                 produced_by |-> i.produced_by]]
  BY <1>1 DEF RowOf, RowKeys, Shared
<1>3. \A n \in Nat : DbRun(n) # Null /\ i.produced_by # DbRun(n)
  <2>1. \A n \in Nat : DbRun(n).kind = "uuid"
    BY DEF DbRun
  <2>2. QED BY <1>1, <2>1, RunsAreIds
<1> HIDE DEF r
<1>4. Tells(r, i)
  BY <1>2, <1>3 DEF Tells
<1>5. QED BY <1>4 DEF r

\* An idea planned with a database: its row names the run by the run's uuid.
LEMMA PlannedTells ==
  ASSUME NEW n \in Nat
  PROVE  Tells(RowOf(Shell(DbRun(n))), Shell(FileRun(n)))
<1> DEFINE i == Shell(FileRun(n))
           d == Shell(DbRun(n))
           r == RowOf(d)
<1>1. /\ d.produced_by = DbRun(n) /\ i.produced_by = FileRun(n)
      /\ \A k \in Shared : d[k] = i[k]
      /\ d.id = i.id /\ d.candidate_group = i.candidate_group
      /\ d.overlays = i.overlays /\ d.feedback = i.feedback
  BY DEF Shell, Shared
<1>2. isUuid(DbRun(n))
  <2>1. DbRun(n).kind = "uuid"
    BY DEF DbRun
  <2>2. QED BY <2>1, RunsAreIds DEF isUuid
<1>3. /\ DOMAIN r = RowKeys
      /\ \A k \in Shared : r[k] = d[k]
      /\ r.produced_by = DbRun(n)
      /\ r.overlays = [text |-> d.overlays, feedback |-> d.feedback,
                        ids |-> [id |-> d.id, candidate_group |-> d.candidate_group,
                                 produced_by |-> Null]]
  BY <1>1, <1>2 DEF RowOf, RowKeys, Shared
<1>4. \A m \in Nat : Null # DbRun(m) /\ (DbRun(n) = DbRun(m) => m = n)
  BY RunsAreIds, RunsDiffer
<1> HIDE DEF r, i, d
<1>5. /\ r.overlays = [text |-> i.overlays, feedback |-> i.feedback,
                        ids |-> [id |-> i.id, candidate_group |-> i.candidate_group,
                                 produced_by |-> Null]]
      /\ \A k \in Shared : r[k] = i[k]
      /\ \A m \in Nat : r.produced_by = DbRun(m) => i.produced_by = FileRun(m)
      /\ Null \notin {DbRun(m) : m \in Nat}
  BY <1>1, <1>3, <1>4
<1>6. Tells(r, i)
  BY <1>3, <1>5 DEF Tells
<1>7. QED BY <1>6 DEF r, i, d

-----------------------------------------------------------------------------
\* The item as the program keeps it, and as it left it in the files.
ItemInv ==
  item # Absent =>
    /\ DOMAIN item = ItemKeys
    /\ item.id = Slug(<<"ci", 0>>) /\ item.candidate_group = Slug(<<"cg", 0>>)
    /\ item.produced_by = Commissioned \/ \E n \in 0..runNo : item.produced_by = FileRun(n)

OutboxInv ==
  oldItem # Absent =>
    /\ DOMAIN oldItem = ItemKeys
    /\ oldItem.id = Slug(<<"ci", 0>>) /\ oldItem.candidate_group = Slug(<<"cg", 0>>)
    /\ oldItem.produced_by = Commissioned
         \/ \E n \in 0..runNo : oldItem.produced_by = FileRun(n)

DecidedOnce ==
  /\ decisions \in Nat
  /\ approvals \in [1..MaxDecisions -> Nat]
  /\ \A t \in 1..MaxDecisions : approvals[t] <= 1 /\ (t > decisions => approvals[t] = 0)

AgreeInv == /\ runNo \in Nat
            /\ ItemInv /\ OutboxInv
            /\ Both => Tells(row, item)
            /\ DecidedOnce

LEMMA AgreeInvReads == AgreeInv => StoresAgree
<1> SUFFICES ASSUME AgreeInv, Both PROVE StoresAgree
  BY DEF StoresAgree
<1> DEFINE read == rowToItem(row)
<1>1. Tells(row, item) /\ item # Absent /\ ItemInv /\ runNo \in Nat
  BY DEF AgreeInv, Both
<1>2. PICK feedback, producer :
       /\ row.overlays = [text |-> item.overlays, feedback |-> feedback,
                        ids |-> [id |-> item.id, candidate_group |-> item.candidate_group,
                                 produced_by |-> producer]]
       /\ producer \notin {DbRun(n) : n \in Nat}
  BY <1>1 DEF Tells
<1>3. row.overlays.ids = [id |-> item.id, candidate_group |-> item.candidate_group,
                                 produced_by |-> producer]
      /\ row.overlays.text = item.overlays
  BY <1>2
<1>4. item.id # Null /\ item.candidate_group # Null
  <2>1. Slug(<<"ci", 0>>) \in Ids /\ Slug(<<"cg", 0>>) \in Ids
    BY DEF Slug, Ids
  <2>2. QED BY <1>1, <2>1, ParityAssumption DEF ItemInv
<1>5. /\ read.id = item.id /\ read.candidate_group = item.candidate_group
      /\ read.produced_by = IF producer # Null THEN producer ELSE row.produced_by
      /\ \A k \in Shared : read[k] = row[k]
      /\ read.overlays = item.overlays
  BY <1>3, <1>4 DEF rowToItem, Coalesce, Shared
<1> HIDE DEF read
<1>6. \A k \in {"id", "candidate_group", "status", "attempt", "regen_count",
                "chosen", "caption", "overlays"} : read[k] = item[k]
  BY <1>1, <1>5 DEF Tells, Shared
<1>7. Provenance(read, InRows) \in {Provenance(item, InFiles), Null}
  <2>1. CASE read.produced_by \notin InRows
    BY <2>1 DEF Provenance
  <2>2. CASE read.produced_by \in InRows
    <3>1. PICK n \in 0..runNo : read.produced_by = DbRun(n)
      BY <2>2 DEF InRows
    <3>2. n \in Nat /\ row.produced_by = DbRun(n)
      BY <1>1, <1>2, <1>5, <3>1
    <3>3. item.produced_by = FileRun(n) /\ item.produced_by \in InFiles
      BY <1>1, <3>1, <3>2 DEF Tells, InFiles
    <3>4. DbRun(n).name = FileRun(n).name
      BY DEF DbRun, FileRun, Slug
    <3>5. QED BY <2>2, <3>1, <3>3, <3>4 DEF Provenance
  <2>3. QED BY <2>1, <2>2
<1>8. \A t \in 1..MaxDecisions : approvals[t] <= 1
  BY DEF AgreeInv, DecidedOnce
<1>9. QED BY <1>6, <1>7, <1>8 DEF StoresAgree, read

\* What a move leaves of an item, and of its row.
LEMMA MoveAgrees ==
  ASSUME AgreeInv, NEW from, NEW filePatch, NEW dbPatch, Paired(filePatch, dbPatch),
         Transition(from, filePatch, dbPatch), runNo' = runNo,
         "produced_by" \in DOMAIN filePatch => filePatch.produced_by = FileRun(runNo)
  PROVE  runNo' \in Nat /\ ItemInv' /\ (Both => Tells(row, item))'
<1>1. /\ item # Absent /\ item' = Patched(item, filePatch)
      /\ row' = IF row # Absent /\ row.status = from THEN Updated(row, dbPatch) ELSE row
      /\ item.status = from
  BY DEF Transition
<1>2. /\ runNo \in Nat
      /\ DOMAIN item = ItemKeys
      /\ item.id = Slug(<<"ci", 0>>) /\ item.candidate_group = Slug(<<"cg", 0>>)
      /\ item.produced_by = Commissioned \/ \E n \in 0..runNo : item.produced_by = FileRun(n)
  BY <1>1 DEF AgreeInv, ItemInv
<1>3. /\ DOMAIN item' = ItemKeys
      /\ item'.id = item.id /\ item'.candidate_group = item.candidate_group
      /\ item'.produced_by = IF "produced_by" \in DOMAIN filePatch THEN filePatch.produced_by
                                                                   ELSE item.produced_by
  BY <1>1, <1>2 DEF Patched, Paired, ItemKeys
<1>4. ItemInv'
  BY <1>2, <1>3 DEF ItemInv
<1>5. ASSUME Both' PROVE Tells(row, item)'
  <2>1. CASE row = Absent
    BY <1>1, <1>5, <2>1 DEF Both
  <2>2. CASE row # Absent
    <3>1. Tells(row, item)
      BY <1>1, <2>2 DEF AgreeInv, Both
    <3>2. row.status = item.status
      BY <3>1 DEF Tells, Shared
    <3>3. Tells(Updated(row, dbPatch), Patched(item, filePatch))
      BY <1>2, <3>1, PatchTells
    <3>4. row' = Updated(row, dbPatch)
      BY <1>1, <2>2, <3>2
    <3>5. Tells(row', item')
      BY <1>1, <3>3, <3>4
    <3>6. QED BY <3>5 DEF Tells
  <2>3. QED BY <2>1, <2>2
<1>6. QED BY <1>2, <1>4, <1>5

LEMMA PatchDomains ==
  /\ \A a : Plain([status |-> a])
  /\ \A a, b : Plain([status |-> a, attempt |-> b])
  /\ \A a, b : Plain([status |-> a, skip_reason |-> b])
  /\ \A a, b : Plain([status |-> a, chosen |-> b])
  /\ \A a, b : Plain([status |-> a, feedback |-> b])
  /\ \A a, b : Plain([status |-> a, regen_note |-> b])
  /\ \A a, b, c : Plain([status |-> a, caption |-> b, overlays |-> c])
  /\ \A a, b, c : Plain([status |-> a, chosen |-> b, caption |-> c])
  /\ \A a, b, c : Plain([status |-> a, regen_count |-> b, attempt |-> c])
BY DEF Plain, ItemKeys

\* A move of a stage leaves an item and its row in agreement.
LEMMA StageMoveAgrees ==
  ASSUME AgreeInv, NEW name, NEW from, NEW patch, Plain(patch),
         StageMove(name, from, patch)
  PROVE  AgreeInv'
<1> DEFINE filePatch == Signed(name, patch, FileRun(runNo))
           dbPatch   == Signed(name, patch, DbRun(runNo))
<1>1. runNo \in Nat /\ runNo' = runNo
  BY DEF AgreeInv, StageMove
<1>2. Paired(filePatch, dbPatch)
  BY <1>1, SignedIsPaired
<1>3. "produced_by" \in DOMAIN filePatch => filePatch.produced_by = FileRun(runNo)
  BY DEF Signed, Plain
<1>4. Transition(from, filePatch, dbPatch)
  BY DEF StageMove
<1> HIDE DEF filePatch, dbPatch
<1>5. runNo' \in Nat /\ ItemInv' /\ (Both => Tells(row, item))'
  BY <1>1, <1>2, <1>3, <1>4, MoveAgrees
<1>6. DecidedOnce'
  BY DEF AgreeInv, DecidedOnce, StageMove
<1>7. OutboxInv'
  BY DEF AgreeInv, OutboxInv, StageMove, moved
<1>8. QED BY <1>5, <1>6, <1>7 DEF AgreeInv

\* So does a decision, a bounce or a note.
LEMMA PlainMoveAgrees ==
  ASSUME AgreeInv, NEW from, NEW patch, Plain(patch),
         Transition(from, patch, patch), runNo' = runNo
  PROVE  runNo' \in Nat /\ ItemInv' /\ (Both => Tells(row, item))'
<1>1. Paired(patch, patch) /\ "produced_by" \notin DOMAIN patch
  BY PlainIsPaired DEF Plain
<1>2. QED BY <1>1, MoveAgrees

LEMMA ApprovalOnce ==
  ASSUME DecidedOnce, AppendApproval
  PROVE  DecidedOnce'
<1>1. MaxDecisions \in Int
  BY ParityAssumption
<1>2. decisions \in Nat /\ decisions' = decisions + 1
  BY DEF DecidedOnce, AppendApproval
<1>3. approvals' = approvals \/ approvals' = [approvals EXCEPT ![decisions + 1] = @ + 1]
  BY DEF AppendApproval
<1>4. approvals \in [1..MaxDecisions -> Nat]
      /\ \A t \in 1..MaxDecisions : approvals[t] <= 1 /\ (t > decisions => approvals[t] = 0)
  BY DEF DecidedOnce
<1>5. QED BY <1>1, <1>2, <1>3, <1>4 DEF DecidedOnce

LEMMA AgreesFirst == ParityInit => AgreeInv
<1> SUFFICES ASSUME ParityInit PROVE AgreeInv
  OBVIOUS
<1>1. MaxDecisions \in Int
  BY ParityAssumption
<1>2. QED BY <1>1 DEF ParityInit, AgreeInv, ItemInv, OutboxInv, Both, DecidedOnce

\* The files are left as they are, but for the import that moves the program.
LEMMA OutboxStep ==
  ASSUME runNo \in Nat, ItemInv, OutboxInv, [ParityNext]_parityVars
  PROVE  OutboxInv'
<1>1. ASSUME oldItem' = oldItem, runNo' = runNo \/ runNo' = runNo + 1
      PROVE  OutboxInv'
  <2>1. \A n \in 0..runNo : n \in 0..runNo'
    BY <1>1
  <2>2. QED BY <1>1, <2>1 DEF OutboxInv
<1>2. ASSUME NEW name, NEW from, NEW patch, StageMove(name, from, patch)
      PROVE  OutboxInv'
  BY <1>1, <1>2 DEF StageMove, moved
<1>3. CASE planStage \/ commissionItem
  BY <1>1, <1>3 DEF planStage, commissionItem, moved
<1>4. CASE Claim \/ Draft \/ Render \/ Qa
  BY <1>2, <1>4 DEF Claim, Draft, Render, Qa
<1>5. CASE Decide \/ cmdRegen \/ BounceAfter
  BY <1>1, <1>5 DEF Decide, cmdRegen, BounceAfter, moved
<1>6. ASSUME NEW name, NEW status, BeginRun(name, status)
      PROVE  OutboxInv'
  BY <1>1, <1>6 DEF BeginRun, moved
<1>7. CASE ImportItems
  <2>1. (oldItem' = oldItem \/ oldItem' = item) /\ runNo' = runNo
    BY <1>7 DEF ImportItems
  <2>2. QED BY <2>1 DEF OutboxInv, ItemInv
<1>8. CASE ContractDrift \/ (\E t \in 1..MaxDecisions : ReplayDecision(t))
             \/ UNCHANGED parityVars
  BY <1>1, <1>8 DEF ContractDrift, ReplayDecision, parityVars, moved
<1>9. QED BY <1>3, <1>4, <1>5, <1>6, <1>7, <1>8 DEF ParityNext

LEMMA AgreeStep == AgreeInv /\ [ParityNext]_parityVars => AgreeInv'
<1> SUFFICES ASSUME AgreeInv, [ParityNext]_parityVars PROVE AgreeInv'
  OBVIOUS
<1>0. OutboxInv'
  BY OutboxStep DEF AgreeInv
<1>1. ASSUME UNCHANGED <<item, row, decisions, approvals>>, runNo' = runNo \/ runNo' = runNo + 1
      PROVE  AgreeInv'
  <2>1. runNo \in Nat /\ runNo' \in Nat /\ \A n \in 0..runNo : n \in 0..runNo'
    BY <1>1 DEF AgreeInv
  <2>2. ItemInv'
    BY <1>1, <2>1 DEF AgreeInv, ItemInv
  <2>3. DecidedOnce'
    BY <1>1 DEF AgreeInv, DecidedOnce
  <2>4. (Both => Tells(row, item))'
    BY <1>1 DEF AgreeInv, Both, Tells
  <2>5. QED BY <1>0, <2>1, <2>2, <2>3, <2>4 DEF AgreeInv
<1>2. CASE planStage
  <2> DEFINE i == Shell(FileRun(runNo))
  <2>1. runNo \in Nat /\ runNo' = runNo /\ UNCHANGED <<decisions, approvals>> /\ item' = i
        /\ row' = IF database THEN RowOf(Shell(DbRun(runNo))) ELSE Absent
    BY <1>2 DEF AgreeInv, planStage
  <2>2. DOMAIN i = ItemKeys /\ i.id = Slug(<<"ci", 0>>) /\ i.candidate_group = Slug(<<"cg", 0>>)
        /\ i.produced_by = FileRun(runNo)
    BY DEF Shell, ItemKeys
  <2>3. Tells(RowOf(Shell(DbRun(runNo))), i)
    BY <2>1, PlannedTells
  <2> HIDE DEF i
  <2>4. ItemInv'
    BY <2>1, <2>2 DEF ItemInv
  <2>5. Both' => Tells(row', item')
    BY <2>1, <2>3 DEF Both
  <2>6. DecidedOnce'
    BY <2>1 DEF AgreeInv, DecidedOnce
  <2>7. QED BY <1>0, <2>1, <2>4, <2>5, <2>6 DEF AgreeInv, Tells
<1>3. CASE commissionItem
  <2> DEFINE i     == Shell(Commissioned)
             patch == [status |-> "drafting", feedback |-> <<"brief", 1>>]
  <2>1. runNo \in Nat /\ runNo' = runNo /\ UNCHANGED <<decisions, approvals>>
        /\ item' = Patched(i, patch)
        /\ row' = IF database THEN Updated(RowOf(i), patch) ELSE Absent
    BY <1>3 DEF AgreeInv, commissionItem
  <2>2. DOMAIN i = ItemKeys /\ i.id = Slug(<<"ci", 0>>) /\ i.candidate_group = Slug(<<"cg", 0>>)
        /\ i.produced_by = Commissioned
    BY DEF Shell, ItemKeys
  <2>3. Plain(patch) /\ DOMAIN patch = {"status", "feedback"}
    BY PatchDomains
  <2> HIDE DEF i, patch
  <2>4. Tells(RowOf(i), i)
    BY <2>2, RowTells
  <2>5. Paired(patch, patch)
    BY <2>3, PlainIsPaired
  <2>6. Tells(Updated(RowOf(i), patch), Patched(i, patch))
    BY <2>2, <2>4, <2>5, PatchTells
  <2>7. ItemInv'
    BY <2>1, <2>2, <2>3 DEF ItemInv, Patched, ItemKeys
  <2>8. Both' => Tells(row', item')
    BY <2>1, <2>6 DEF Both
  <2>9. DecidedOnce'
    BY <2>1 DEF AgreeInv, DecidedOnce
  <2>10. QED BY <1>0, <2>1, <2>7, <2>8, <2>9 DEF AgreeInv, Tells
<1>4. CASE Claim
  BY <1>4, PatchDomains, StageMoveAgrees DEF Claim
<1>5. CASE Draft
  BY <1>5, PatchDomains, StageMoveAgrees DEF Draft
<1>6. CASE Render
  BY <1>6, PatchDomains, StageMoveAgrees DEF Render
<1>7. CASE Qa
  BY <1>7, PatchDomains, StageMoveAgrees DEF Qa
<1>8. CASE Decide
  <2>1. PICK patch \in {[status |-> "approved", chosen |-> TRUE],
                        [status |-> "approved", chosen |-> TRUE, caption |-> -1],
                        [status |-> "skipped"],
                        [status |-> "changes_requested", feedback |-> <<"note", item.attempt>>]} :
          Transition("pending_review", patch, patch)
    BY <1>8 DEF Decide
  <2>2. Plain(patch)
    BY PatchDomains
  <2>3. runNo' \in Nat /\ ItemInv' /\ (Both => Tells(row, item))'
    BY <1>8, <2>1, <2>2, PlainMoveAgrees DEF Decide
  <2>4. DecidedOnce'
    BY <1>8, ApprovalOnce DEF Decide, AgreeInv
  <2>5. QED BY <1>0, <2>3, <2>4 DEF AgreeInv
<1>9. CASE cmdRegen
  <2>1. /\ Plain([status |-> "changes_requested", regen_note |-> <<"regen_note", item.attempt>>])
        /\ runNo' = runNo /\ AppendApproval
        /\ \E patch : Plain(patch) /\ Transition("pending_review", patch, patch)
    BY <1>9, PatchDomains DEF cmdRegen
  <2>2. runNo' \in Nat /\ ItemInv' /\ (Both => Tells(row, item))'
    BY <2>1, PlainMoveAgrees
  <2>3. DecidedOnce'
    BY <2>1, ApprovalOnce DEF AgreeInv
  <2>4. QED BY <1>0, <2>2, <2>3 DEF AgreeInv
<1>10. CASE BounceAfter
  <2>1. \E patch : Plain(patch) /\ Transition("changes_requested", patch, patch)
    <3>1. CASE item.regen_count < MaxRegens
      BY <1>10, <3>1, PatchDomains DEF BounceAfter, Bounce
    <3>2. CASE ~(item.regen_count < MaxRegens)
      BY <1>10, <3>2, PatchDomains DEF BounceAfter, Bounce
    <3>3. QED BY <3>1, <3>2
  <2>2. runNo' = runNo /\ UNCHANGED <<decisions, approvals>>
    BY <1>10 DEF BounceAfter
  <2>3. runNo' \in Nat /\ ItemInv' /\ (Both => Tells(row, item))'
    BY <2>1, <2>2, PlainMoveAgrees
  <2>4. DecidedOnce'
    BY <2>2 DEF AgreeInv, DecidedOnce
  <2>5. QED BY <1>0, <2>3, <2>4 DEF AgreeInv
<1>11. ASSUME NEW name, NEW status, BeginRun(name, status)
       PROVE  AgreeInv'
  BY <1>1, <1>11 DEF BeginRun
<1>12. CASE ContractDrift \/ UNCHANGED parityVars
  BY <1>1, <1>12 DEF ContractDrift, parityVars
<1>13. CASE ImportItems
  <2>1. /\ UNCHANGED <<runNo, decisions, approvals>>
        /\ \/ UNCHANGED <<item, row>>
           \/ /\ item' \in {item, oldItem} /\ item' # Absent
              /\ row' = RowOf(item')
    BY <1>13 DEF ImportItems
  <2>2. runNo' \in Nat /\ ItemInv' /\ DecidedOnce'
    BY <2>1 DEF AgreeInv, ItemInv, OutboxInv, DecidedOnce
  <2>3. ASSUME item' # Absent PROVE Tells(RowOf(item'), item')
    <3>1. item'.produced_by = Commissioned \/ \E n \in Nat : item'.produced_by = FileRun(n)
      BY <2>1, <2>2, <2>3 DEF AgreeInv, ItemInv
    <3>2. QED BY <3>1, RowTells
  <2>4. Both' => Tells(row', item')
    BY <2>1, <2>3 DEF Both, AgreeInv
  <2>5. QED BY <1>0, <2>2, <2>4 DEF AgreeInv, Tells
<1>14. ASSUME NEW t \in 1..MaxDecisions, ReplayDecision(t)
       PROVE  AgreeInv'
  <2>1. UNCHANGED <<item, row, runNo, decisions>>
        /\ t \in 1..decisions /\ approvals[t] = 0
        /\ approvals' = [approvals EXCEPT ![t] = @ + 1]
    BY <1>14 DEF ReplayDecision
  <2>2. MaxDecisions \in Int
    BY ParityAssumption
  <2>3. DecidedOnce'
    BY <2>1, <2>2 DEF AgreeInv, DecidedOnce
  <2>4. runNo' \in Nat /\ ItemInv' /\ (Both => Tells(row, item))'
    BY <2>1 DEF AgreeInv, ItemInv, Both, Tells
  <2>5. QED BY <1>0, <2>3, <2>4 DEF AgreeInv
<1>15. QED BY <1>2, <1>3, <1>4, <1>5, <1>6, <1>7, <1>8, <1>9, <1>10, <1>11, <1>12, <1>13,
              <1>14 DEF ParityNext

\* An item reads from Postgres what the same calls would have left in item.json
\* since the last import, for every budget and any number of runs and imports
\* (transition and putItem of postgres-store.mjs, importOutbox).
THEOREM StoresTellTheSame == ParitySpec => []StoresAgree
BY AgreesFirst, AgreeStep, AgreeInvReads, PTL DEF ParitySpec

Valued(patch) ==
  \A k \in DOMAIN patch : /\ patch[k] \in ItemValues
                          /\ k \in {"attempt", "regen_count"} => patch[k] \in Nat

ItemTyped == item # Absent => /\ item \in [ItemKeys -> ItemValues]
                              /\ item.attempt \in Nat /\ item.regen_count \in Nat

OutboxTyped == oldItem # Absent => /\ oldItem \in [ItemKeys -> ItemValues]
                                  /\ oldItem.attempt \in Nat /\ oldItem.regen_count \in Nat

\* A note or a brief stays where the next draft is asked from.
Hears ==
  /\ item = Absent => asked = Null
  /\ item # Absent /\ asked # Null /\ asked[1] \in {"note", "brief"} /\ ~rewound =>
       /\ item.feedback = asked
       /\ row # Absent => row.overlays.feedback = asked

HearInv == AgreeInv /\ ItemTyped /\ OutboxTyped /\ Hears

LEMMA HearInvHeard == HearInv => OwnerIsHeard
<1> SUFFICES ASSUME HearInv, item # Absent, asked # Null, asked[1] \in {"note", "brief"}, ~rewound
             PROVE  asked \in Feedback(item) /\ (row # Absent => asked \in Feedback(rowToItem(row)))
  BY DEF OwnerIsHeard
<1>1. item.feedback = asked /\ (row # Absent => row.overlays.feedback = asked)
  BY DEF HearInv, Hears
<1>2. rowToItem(row).feedback = row.overlays.feedback
  BY DEF rowToItem
<1>3. QED BY <1>1, <1>2 DEF Feedback

LEMMA ValuesOfPatches ==
  /\ \A v \in Int \cup Ids \cup ({"brief", "note", "regen_note"} \X Nat) : v \in ItemValues
  /\ \A v \in {"planned", "drafting", "drafted", "rendering", "rendered", "qa_failed",
            "pending_review", "changes_requested", "approved", "skipped",
            "qa_attempts_exhausted", "regen_exhausted", Null} : v \in ItemValues
  /\ TRUE \in ItemValues /\ FALSE \in ItemValues
BY DEF ItemValues

LEMMA PatchValues ==
  /\ \A a : a \in ItemValues => Valued([status |-> a])
  /\ \A a, b : a \in ItemValues /\ b \in Nat => Valued([status |-> a, attempt |-> b])
  /\ \A a, b : a \in ItemValues /\ b \in ItemValues => 
       /\ Valued([status |-> a, skip_reason |-> b])
       /\ Valued([status |-> a, chosen |-> b])
       /\ Valued([status |-> a, feedback |-> b])
       /\ Valued([status |-> a, regen_note |-> b])
  /\ \A a, b, c : a \in ItemValues /\ b \in ItemValues /\ c \in ItemValues =>
       /\ Valued([status |-> a, caption |-> b, overlays |-> c])
       /\ Valued([status |-> a, chosen |-> b, caption |-> c])
  /\ \A a, b, c : a \in ItemValues /\ b \in Nat /\ c \in Nat =>
       Valued([status |-> a, regen_count |-> b, attempt |-> c])
<1>1. \A n \in Nat : n \in ItemValues
  BY ValuesOfPatches
<1>2. QED BY <1>1 DEF Valued

LEMMA MoveTyped ==
  ASSUME item # Absent, ItemTyped, NEW patch, DOMAIN patch \subseteq ItemKeys, Valued(patch),
         item' = Patched(item, patch)
  PROVE  ItemTyped' /\ item' # Absent
<1>1. item \in [ItemKeys -> ItemValues] /\ item.attempt \in Nat /\ item.regen_count \in Nat
  BY DEF ItemTyped
<1>2. item' \in [ItemKeys -> ItemValues]
  BY <1>1 DEF Patched, Valued
<1>3. item'.attempt \in Nat /\ item'.regen_count \in Nat
  <2>1. "attempt" \in ItemKeys /\ "regen_count" \in ItemKeys
    BY DEF ItemKeys
  <2>2. QED BY <1>1, <2>1 DEF Patched, Valued
<1>4. QED BY <1>2, <1>3, ParityAssumption DEF ItemTyped

LEMMA SignedIsValued ==
  ASSUME NEW name, NEW patch, Plain(patch), Valued(patch), runNo \in Nat
  PROVE  /\ Valued(Signed(name, patch, FileRun(runNo)))
         /\ DOMAIN Signed(name, patch, FileRun(runNo)) \subseteq ItemKeys
<1>1. FileRun(runNo) \in ItemValues
  BY RunsAreIds, ValuesOfPatches
<1>2. DOMAIN patch \subseteq ItemKeys /\ "produced_by" \in ItemKeys
  BY DEF Plain, ItemKeys
<1> DEFINE run == FileRun(runNo)
<1> HIDE DEF run
<1>3. CASE name = "qa"
  BY <1>2, <1>3 DEF Signed
<1>4. CASE name # "qa"
  BY <1>1, <1>2, <1>4 DEF Signed, Valued, run
<1>5. QED BY <1>3, <1>4

\* What a patch makes of the feedback, in either store.
LEMMA PatchFeedback ==
  ASSUME NEW r, NEW i, Tells(r, i), DOMAIN i = ItemKeys,
         NEW filePatch, NEW dbPatch, Paired(filePatch, dbPatch)
  PROVE  /\ "feedback" \in DOMAIN filePatch =>
              /\ Patched(i, filePatch).feedback = filePatch.feedback
              /\ Updated(r, dbPatch).overlays.feedback = filePatch.feedback
         /\ {"feedback", "overlays"} \cap DOMAIN filePatch = {} =>
              /\ Patched(i, filePatch).feedback = i.feedback
              /\ Updated(r, dbPatch).overlays.feedback = r.overlays.feedback
<1>1. DOMAIN r = RowKeys /\ "overlays" \in RowKeys /\ "feedback" \in ItemKeys
  BY DEF Tells, RowKeys, ItemKeys
<1>2. Updated(r, dbPatch).overlays = Overlays(r.overlays, dbPatch)
  BY <1>1 DEF Updated
<1>3. "feedback" \in DOMAIN r.overlays
  BY DEF Tells
<1>4. CASE "feedback" \in DOMAIN filePatch
  <2>1. dbPatch.feedback = filePatch.feedback /\ "feedback" \in DOMAIN dbPatch
    BY <1>4 DEF Paired
  <2>2. Updated(r, dbPatch).overlays = [r.overlays EXCEPT !.feedback = filePatch.feedback]
    BY <1>2, <2>1 DEF Overlays
  <2>3. Updated(r, dbPatch).overlays.feedback = filePatch.feedback
    BY <1>3, <2>2
  <2>4. QED BY <1>1, <1>4, <2>3 DEF Patched
<1>5. CASE "feedback" \notin DOMAIN filePatch
  <2>1. Patched(i, filePatch).feedback = i.feedback
    BY <1>1, <1>5 DEF Patched
  <2>2. {"feedback", "overlays"} \cap DOMAIN filePatch = {} =>
          Updated(r, dbPatch).overlays = r.overlays
    BY <1>2, <1>5 DEF Overlays, Paired
  <2>3. QED BY <1>5, <2>1, <2>2
<1>6. QED BY <1>4, <1>5

\* A move leaves what was asked where it was.
LEMMA QuietMoveHears ==
  ASSUME HearInv, NEW from, NEW filePatch, NEW dbPatch, Paired(filePatch, dbPatch),
         Valued(filePatch), {"feedback", "overlays"} \cap DOMAIN filePatch = {},
         Transition(from, filePatch, dbPatch), asked' = asked, rewound => rewound'
  PROVE  ItemTyped' /\ Hears'
<1>1. /\ item # Absent /\ item' = Patched(item, filePatch)
      /\ row' = IF row # Absent /\ row.status = from THEN Updated(row, dbPatch) ELSE row
      /\ DOMAIN item = ItemKeys
  BY DEF Transition, HearInv, AgreeInv, ItemInv
<1>2. ItemTyped' /\ item' # Absent
  BY <1>1, MoveTyped DEF HearInv, Paired
<1>3. item'.feedback = item.feedback
  BY <1>1 DEF Patched, ItemKeys
<1>4. row' # Absent => row # Absent /\ row'.overlays.feedback = row.overlays.feedback
  <2>1. CASE row # Absent /\ row.status = from
    <3>1. Tells(row, item)
      BY <1>1, <2>1 DEF HearInv, AgreeInv, Both
    <3>2. Updated(row, dbPatch).overlays.feedback = row.overlays.feedback
      BY <1>1, <3>1, PatchFeedback
    <3>3. QED BY <1>1, <2>1, <3>2
  <2>2. CASE ~(row # Absent /\ row.status = from)
    BY <1>1, <2>2
  <2>3. QED BY <2>1, <2>2
<1>5. QED BY <1>1, <1>2, <1>3, <1>4 DEF HearInv, Hears

\* A decision with a note puts it in both stores.
LEMMA NoteHears ==
  ASSUME HearInv, NEW from, NEW a, NEW note, a \in ItemValues, note \in ItemValues,
         Transition(from, [status |-> a, feedback |-> note], [status |-> a, feedback |-> note]),
         asked' = note
  PROVE  ItemTyped' /\ Hears'
<1> DEFINE patch == [status |-> a, feedback |-> note]
<1>1. /\ Plain(patch) /\ Valued(patch) /\ "feedback" \in DOMAIN patch
      /\ patch.feedback = note
  BY PatchDomains, PatchValues
<1>2. Transition(from, patch, patch)
  OBVIOUS
<1> HIDE DEF patch
<1>3. /\ item # Absent /\ item' = Patched(item, patch)
      /\ row' = IF row # Absent /\ row.status = from THEN Updated(row, patch) ELSE row
      /\ item.status = from
      /\ DOMAIN item = ItemKeys
  BY <1>2 DEF Transition, HearInv, AgreeInv, ItemInv
<1>4. ItemTyped' /\ item' # Absent
  BY <1>1, <1>3, MoveTyped DEF HearInv, Plain
<1>5. Paired(patch, patch)
  BY <1>1, PlainIsPaired
<1>6. item'.feedback = note
  BY <1>1, <1>3 DEF Patched, ItemKeys
<1>7. row' # Absent => row'.overlays.feedback = note
  <2>1. CASE row # Absent
    <3>1. Tells(row, item)
      BY <1>3, <2>1 DEF HearInv, AgreeInv, Both
    <3>2. Updated(row, patch).overlays.feedback = note
      BY <1>1, <1>3, <1>5, <3>1, PatchFeedback
    <3>3. row.status = from
      BY <1>3, <3>1 DEF Tells, Shared
    <3>4. QED BY <1>3, <2>1, <3>2, <3>3
  <2>2. CASE row = Absent
    BY <1>3, <2>2
  <2>3. QED BY <2>1, <2>2
<1>8. QED BY <1>4, <1>6, <1>7 DEF Hears

LEMMA StageHears ==
  ASSUME HearInv, NEW name, NEW from, NEW patch, Plain(patch), Valued(patch),
         "feedback" \notin DOMAIN patch, "overlays" \notin DOMAIN patch,
         StageMove(name, from, patch), asked' = asked
  PROVE  HearInv'
<1> DEFINE filePatch == Signed(name, patch, FileRun(runNo))
           dbPatch   == Signed(name, patch, DbRun(runNo))
<1>1. runNo \in Nat /\ AgreeInv
  BY DEF HearInv, AgreeInv
<1>2. Paired(filePatch, dbPatch) /\ Valued(filePatch)
  BY <1>1, SignedIsPaired, SignedIsValued
<1>3. {"feedback", "overlays"} \cap DOMAIN filePatch = {}
  BY DEF Signed
<1>4. Transition(from, filePatch, dbPatch)
  BY DEF StageMove
<1> HIDE DEF filePatch, dbPatch
<1>5. ItemTyped' /\ Hears'
  <2>1. rewound' = rewound
    BY DEF StageMove
  <2>2. QED BY <1>2, <1>3, <1>4, <2>1, QuietMoveHears
<1>6. AgreeInv'
  BY <1>1, StageMoveAgrees
<1>7. OutboxTyped'
  BY DEF HearInv, OutboxTyped, StageMove, moved
<1>8. QED BY <1>5, <1>6, <1>7 DEF HearInv

\* The files keep what they hold.
LEMMA OutboxStays ==
  ASSUME HearInv, [ParityNext]_parityVars
  PROVE  OutboxTyped'
<1>1. ASSUME oldItem' = oldItem
      PROVE  OutboxTyped'
  BY <1>1 DEF HearInv, OutboxTyped
<1>2. ASSUME NEW name, NEW from, NEW patch, StageMove(name, from, patch)
      PROVE  OutboxTyped'
  BY <1>1, <1>2 DEF StageMove, moved
<1>3. CASE planStage \/ commissionItem
  BY <1>1, <1>3 DEF planStage, commissionItem, moved
<1>4. CASE Claim \/ Draft \/ Render \/ Qa
  BY <1>2, <1>4 DEF Claim, Draft, Render, Qa
<1>5. CASE Decide \/ cmdRegen \/ BounceAfter
  BY <1>1, <1>5 DEF Decide, cmdRegen, BounceAfter, moved
<1>6. ASSUME NEW name, NEW status, BeginRun(name, status)
      PROVE  OutboxTyped'
  BY <1>1, <1>6 DEF BeginRun, moved
<1>7. CASE ImportItems
  <2>1. oldItem' = oldItem \/ oldItem' = item
    BY <1>7 DEF ImportItems
  <2>2. QED BY <2>1 DEF HearInv, OutboxTyped, ItemTyped
<1>8. CASE ContractDrift \/ (\E t \in 1..MaxDecisions : ReplayDecision(t))
             \/ UNCHANGED parityVars
  BY <1>1, <1>8 DEF ContractDrift, ReplayDecision, parityVars, moved
<1>9. QED BY <1>3, <1>4, <1>5, <1>6, <1>7, <1>8 DEF ParityNext

\* The redraft is asked for with the note of the decision or the brief of
\* /new, in either store, until it is drafted (AP-815) or an import takes the item
\* back.
THEOREM OwnersNoteIsKept == ParitySpec => []OwnerIsHeard
<1>1. ParityInit => HearInv
  <2> SUFFICES ASSUME ParityInit PROVE HearInv
    OBVIOUS
  <2>1. AgreeInv
    BY AgreesFirst
  <2>2. QED BY <2>1 DEF ParityInit, HearInv, ItemTyped, OutboxTyped, Hears
<1>2. HearInv /\ [ParityNext]_parityVars => HearInv'
  <2> SUFFICES ASSUME HearInv, [ParityNext]_parityVars PROVE HearInv'
    OBVIOUS
  <2>0. /\ AgreeInv /\ AgreeInv' /\ runNo \in Nat /\ OutboxTyped'
        /\ item # Absent => item.attempt \in Nat /\ item.attempt + 1 \in Nat
                             /\ item.regen_count \in Nat /\ item.regen_count + 1 \in Nat
    BY AgreeStep, OutboxStays DEF HearInv, AgreeInv, ItemTyped
  <2>1. ASSUME UNCHANGED <<item, row, asked, rewound>>
        PROVE  HearInv'
    BY <2>0, <2>1 DEF HearInv, ItemTyped, Hears
  <2>3. ASSUME NEW producer \in Ids
        PROVE  /\ Shell(producer) \in [ItemKeys -> ItemValues]
               /\ Shell(producer).attempt \in Nat /\ Shell(producer).regen_count \in Nat
    <3>1. Slug(<<"ci", 0>>) \in ItemValues /\ Slug(<<"cg", 0>>) \in ItemValues
      <4>1. Slug(<<"ci", 0>>) \in Ids /\ Slug(<<"cg", 0>>) \in Ids
        BY DEF Slug, Ids
      <4>2. QED BY <4>1, ValuesOfPatches
    <3>2. 1 \in ItemValues /\ 0 \in ItemValues
      BY ValuesOfPatches
    <3>3. producer \in ItemValues /\ "planned" \in ItemValues /\ Null \in ItemValues
      BY ValuesOfPatches
    <3>4. FALSE \in ItemValues
      BY ValuesOfPatches
    <3>5. \A k \in ItemKeys : Shell(producer)[k] \in ItemValues
      <4>1. \A k \in ItemKeys \ {"chosen"} : Shell(producer)[k] \in ItemValues
        BY <3>1, <3>2, <3>3 DEF Shell, ItemKeys
      <4>2. Shell(producer).chosen = FALSE
        BY DEF Shell
      <4>3. Shell(producer).chosen \in ItemValues
        BY <3>4, <4>2, Zenon
      <4>4. QED BY <4>1, <4>3
    <3>6. /\ Shell(producer) = [k \in ItemKeys |-> Shell(producer)[k]]
          /\ Shell(producer).attempt = 1 /\ Shell(producer).regen_count = 0
      BY DEF Shell, ItemKeys
    <3>7. QED BY <3>5, <3>6
  <2>4. CASE planStage
    <3>1. FileRun(runNo) \in Ids
      BY <2>0, RunsAreIds
    <3>2. item = Absent /\ item' = Shell(FileRun(runNo)) /\ asked' = asked
      BY <2>4 DEF planStage
    <3>3. item' # Absent /\ ItemTyped'
      BY <2>3, <3>1, <3>2, ParityAssumption DEF ItemTyped
    <3>4. Hears'
      BY <3>2, <3>3 DEF HearInv, Hears
    <3>5. QED BY <2>0, <3>3, <3>4 DEF HearInv
  <2>5. CASE commissionItem
    <3> DEFINE i     == Shell(Commissioned)
               brief == <<"brief", 1>>
               patch == [status |-> "drafting", feedback |-> brief]
    <3>1. Commissioned \in Ids
      BY DEF Commissioned, Slug, Ids
    <3>2. i \in [ItemKeys -> ItemValues] /\ i.attempt \in Nat /\ i.regen_count \in Nat
          /\ i.produced_by = Commissioned
      BY <2>3, <3>1 DEF Shell
    <3>3. brief \in ItemValues /\ "drafting" \in ItemValues
      BY ValuesOfPatches
    <3>4. Plain(patch) /\ Valued(patch) /\ "feedback" \in DOMAIN patch /\ patch.feedback = brief
      BY <3>3, PatchDomains, PatchValues
    <3>5. item' = Patched(i, patch) /\ asked' = patch.feedback
          /\ row' = IF database THEN Updated(RowOf(i), patch) ELSE Absent
      BY <2>5 DEF commissionItem
    <3> HIDE DEF i, brief, patch
    <3>6. item' \in [ItemKeys -> ItemValues]
      BY <3>2, <3>4, <3>5 DEF Patched, Valued
    <3>7. item'.attempt \in Nat /\ item'.regen_count \in Nat
      BY <3>2, <3>4, <3>5 DEF Patched, Valued, ItemKeys
    <3>8. item' # Absent /\ ItemTyped'
      BY <3>6, <3>7, ParityAssumption DEF ItemTyped
    <3>9. item'.feedback = brief
      BY <3>2, <3>4, <3>5 DEF Patched, ItemKeys
    <3>10. Updated(RowOf(i), patch).overlays.feedback = brief
      <4>1. Tells(RowOf(i), i)
        BY <3>2, RowTells
      <4>2. QED BY <3>2, <3>4, <4>1, PatchFeedback, PlainIsPaired
    <3>11. Hears'
      BY <3>4, <3>5, <3>8, <3>9, <3>10 DEF Hears
    <3>12. QED BY <2>0, <3>8, <3>11 DEF HearInv
  <2>6. CASE item # Absent /\ Claim
    <3> DEFINE patch == [status |-> "drafting"]
    <3>1. Plain(patch) /\ Valued(patch) /\ DOMAIN patch = {"status"}
      BY PatchDomains, PatchValues, ValuesOfPatches
    <3>2. StageMove("generate", "planned", patch) /\ asked' = asked
      BY <2>6 DEF Claim
    <3> HIDE DEF patch
    <3>3. QED BY <3>1, <3>2, StageHears
  <2>7. CASE item # Absent /\ Draft
    <3> DEFINE patch == [status |-> "drafted", caption |-> item.attempt, overlays |-> item.attempt]
               filePatch == Signed("generate", patch, FileRun(runNo))
    <3>1. Plain(patch) /\ Valued(patch)
      <4>1. item.attempt \in ItemValues /\ "drafted" \in ItemValues
        BY <2>0, <2>7, ValuesOfPatches
      <4>2. Valued(patch)
        BY <4>1, PatchValues
      <4>3. QED BY <4>2, PatchDomains
    <3>2. item' = Patched(item, filePatch) /\ asked' = Null
      BY <2>7 DEF Draft, StageMove, Transition
    <3> HIDE DEF patch
    <3>3. Valued(filePatch) /\ DOMAIN filePatch \subseteq ItemKeys
      BY <2>0, <3>1, SignedIsValued
    <3> HIDE DEF filePatch
    <3>4. ItemTyped' /\ item' # Absent
      BY <2>7, <3>2, <3>3, MoveTyped DEF HearInv
    <3>5. QED BY <2>0, <3>2, <3>4 DEF HearInv, Hears
  <2>8. CASE item # Absent /\ Render
    <3> DEFINE begun == [status |-> "rendering"]
               done  == [status |-> "rendered"]
    <3>1. /\ Plain(begun) /\ Valued(begun) /\ DOMAIN begun = {"status"}
          /\ Plain(done) /\ Valued(done) /\ DOMAIN done = {"status"}
      BY PatchDomains, PatchValues, ValuesOfPatches
    <3>2. /\ asked' = asked
          /\ StageMove("render", "drafted", begun) \/ StageMove("render", "rendering", done)
      BY <2>8 DEF Render
    <3> HIDE DEF begun, done
    <3>3. QED BY <3>1, <3>2, StageHears
  <2>9. CASE item # Absent /\ Qa
    <3>1. asked' = asked
          /\ \E from, patch : /\ StageMove("qa", from, patch)
                             /\ Plain(patch) /\ Valued(patch)
                             /\ "feedback" \notin DOMAIN patch /\ "overlays" \notin DOMAIN patch
      <4>1. /\ \A a \in {"pending_review", "qa_failed"} : Plain([status |-> a]) /\ Valued([status |-> a])
            /\ Plain([status |-> "drafting", attempt |-> item.attempt + 1])
            /\ Valued([status |-> "drafting", attempt |-> item.attempt + 1])
            /\ Plain([status |-> "skipped", skip_reason |-> "qa_attempts_exhausted"])
            /\ Valued([status |-> "skipped", skip_reason |-> "qa_attempts_exhausted"])
        BY <2>0, <2>9, PatchDomains, PatchValues, ValuesOfPatches
      <4>2. CASE item.attempt < MaxAttempts
        BY <2>9, <4>1, <4>2 DEF Qa
      <4>3. CASE ~(item.attempt < MaxAttempts)
        BY <2>9, <4>1, <4>3 DEF Qa
      <4>4. QED BY <4>2, <4>3
    <3>2. QED BY <3>1, StageHears
  <2>10. ASSUME item # Absent, NEW from, NEW patch, Plain(patch), Valued(patch),
               "feedback" \notin DOMAIN patch, "overlays" \notin DOMAIN patch,
               Transition(from, patch, patch), asked' = asked, rewound => rewound'
         PROVE  HearInv'
    BY <2>0, <2>10, PlainIsPaired, QuietMoveHears DEF HearInv
  <2>11. CASE item # Absent /\ Decide
    <3> DEFINE note == <<"note", item.attempt>>
    <3>0. note \in ItemValues
      BY <2>0, <2>11, ValuesOfPatches
    <3>1. PICK patch \in {[status |-> "approved", chosen |-> TRUE],
                          [status |-> "approved", chosen |-> TRUE, caption |-> -1],
                          [status |-> "skipped"],
                          [status |-> "changes_requested", feedback |-> note]} :
            /\ Transition("pending_review", patch, patch)
            /\ asked' = IF patch.status = "changes_requested" THEN note ELSE asked
            /\ rewound' = (rewound /\ patch.status # "changes_requested")
      BY <2>11 DEF Decide
    <3>2. CASE patch = [status |-> "changes_requested", feedback |-> note]
      <4>1. asked' = note /\ "changes_requested" \in ItemValues
        BY <3>1, <3>2, ValuesOfPatches
      <4>2. ItemTyped' /\ Hears'
        BY <3>0, <3>1, <3>2, <4>1, NoteHears
      <4>3. QED BY <2>0, <4>2 DEF HearInv
    <3>3. CASE patch # [status |-> "changes_requested", feedback |-> note]
      <4>1. patch.status # "changes_requested" /\ "feedback" \notin DOMAIN patch
            /\ "overlays" \notin DOMAIN patch /\ Plain(patch)
        BY <3>1, <3>3, PatchDomains
      <4>2. Valued(patch)
        <5>1. -1 \in ItemValues /\ "approved" \in ItemValues /\ "skipped" \in ItemValues
          <6>1. -1 \in Int
            OBVIOUS
          <6>2. QED BY <6>1, ValuesOfPatches
        <5>2. TRUE \in ItemValues
          BY ValuesOfPatches
        <5>3. Valued([status |-> "approved", chosen |-> TRUE])
          BY <5>1, <5>2, PatchValues, Zenon
        <5>4. Valued([status |-> "approved", chosen |-> TRUE, caption |-> -1])
          BY <5>1, <5>2, PatchValues, Zenon
        <5>5. Valued([status |-> "skipped"])
          BY <5>1, PatchValues
        <5>6. QED BY <3>1, <3>3, <5>3, <5>4, <5>5, Zenon
      <4>3. asked' = asked /\ (rewound => rewound')
        BY <3>1, <4>1
      <4>4. QED BY <2>10, <2>11, <3>1, <4>1, <4>2, <4>3
    <3>4. QED BY <3>2, <3>3
  <2>12. CASE item # Absent /\ cmdRegen
    <3> DEFINE note  == <<"regen_note", item.attempt>>
               patch == [status |-> "changes_requested", regen_note |-> note]
    <3>1. note \in ItemValues /\ "changes_requested" \in ItemValues /\ note[1] = "regen_note"
      BY <2>0, <2>12, ValuesOfPatches
    <3>2. Plain(patch) /\ Valued(patch)
      BY <3>1, PatchDomains, PatchValues
    <3>3. item' = Patched(item, patch) /\ asked' = note
      BY <2>12 DEF cmdRegen, Transition
    <3> HIDE DEF note, patch
    <3>4. ItemTyped' /\ item' # Absent
      BY <2>12, <3>2, <3>3, MoveTyped DEF HearInv, Plain
    <3>5. Hears'
      BY <3>1, <3>3, <3>4 DEF Hears
    <3>6. QED BY <2>0, <3>4, <3>5 DEF HearInv
  <2>13. CASE item # Absent /\ BounceAfter
    <3>1. asked' = asked /\ rewound' = rewound
          /\ \E from, patch : /\ Transition(from, patch, patch)
                             /\ Plain(patch) /\ Valued(patch)
                             /\ "feedback" \notin DOMAIN patch /\ "overlays" \notin DOMAIN patch
      <4> DEFINE more == [status |-> "drafting", regen_count |-> item.regen_count + 1,
                          attempt |-> item.attempt + 1]
                 done == [status |-> "skipped", skip_reason |-> "regen_exhausted"]
      <4>1. /\ Plain(more) /\ Valued(more) /\ DOMAIN more = {"status", "regen_count", "attempt"}
            /\ Plain(done) /\ Valued(done) /\ DOMAIN done = {"status", "skip_reason"}
        BY <2>0, <2>13, PatchDomains, PatchValues, ValuesOfPatches
      <4>2. asked' = asked /\ rewound' = rewound
            /\ \/ Transition("changes_requested", more, more)
               \/ Transition("changes_requested", done, done)
        BY <2>13 DEF BounceAfter, Bounce
      <4> HIDE DEF more, done
      <4>3. QED BY <4>1, <4>2
    <3>2. QED BY <2>10, <2>13, <3>1
  <2>14. ASSUME NEW name, NEW status, BeginRun(name, status)
         PROVE  HearInv'
    BY <2>1, <2>14 DEF BeginRun
  <2>15. CASE ContractDrift \/ UNCHANGED parityVars
              \/ (\E t \in 1..MaxDecisions : ReplayDecision(t))
    BY <2>1, <2>15 DEF ContractDrift, ReplayDecision, parityVars
  <2>16. CASE ImportItems
    <3>1. /\ asked' = asked
          /\ \/ UNCHANGED <<item, row, rewound>>
             \/ /\ item' \in {item, oldItem} /\ item' # Absent
                /\ row' = RowOf(item')
                /\ rewound' = (rewound \/ item' # item)
      BY <2>16 DEF ImportItems
    <3>2. RowOf(item').overlays.feedback = item'.feedback
      BY DEF RowOf
    <3>3. ItemTyped'
      BY <3>1 DEF HearInv, ItemTyped, OutboxTyped
    <3>4. Hears'
      BY <3>1, <3>2 DEF HearInv, Hears
    <3>5. QED BY <2>0, <3>3, <3>4 DEF HearInv
  <2>17. QED BY <2>4, <2>5, <2>6, <2>7, <2>8, <2>9, <2>11, <2>12, <2>13, <2>14, <2>15, <2>16
         DEF ParityNext
<1>3. QED BY <1>1, <1>2, HearInvHeard, PTL DEF ParitySpec

-----------------------------------------------------------------------------
(* Media, for any pieces, workers and drafts.  While no two workers are on *)
(* one piece, the files still to write are the end of the draft's route,   *)
(* those before them are on disk and show the current draft, and the names *)
(* noted are theirs.  No two files of a route have one name.               *)

\* What a file can show, and the names files can have.
Roles == {"hook", "world", "body", "cta", "image", "clip", "still", "opening", "middle", "end", "final"}
MediaNames == {FileOf(f) : f \in Roles \X Nat}

\* What a plan of slides is, whatever the beats and the world.
LEMMA SlidesMakeADeck ==
  ASSUME NEW n \in Nat, NEW world
  PROVE  /\ planCarouselJobs(n, world) \in Seq({"hook", "world", "body", "cta"})
         /\ IsDeck(planCarouselJobs(n, world))
<1> DEFINE len    == IF n > 2 THEN n - 2 ELSE 0
           middle == [k \in 1..len |-> "body"]
           slide  == IF world = NoWorld THEN <<>> ELSE <<"world">>
           specs  == <<"hook">> \o slide \o middle \o <<"cta">>
           inner  == slide \o middle
           S      == {"hook", "world", "body", "cta"}
<1>1. len \in Nat /\ middle \in Seq({"body"}) /\ Len(middle) = len
  OBVIOUS
<1>2. slide \in Seq({"world"}) /\ Len(slide) \in 0..1
  <2>1. CASE world = NoWorld
    BY <2>1
  <2>2. CASE world # NoWorld
    BY <2>2
  <2>3. QED BY <2>1, <2>2
<1> HIDE DEF len, middle, slide
<1>3. /\ specs \in Seq(S) /\ Len(specs) \in Nat /\ Len(specs) >= 2
      /\ specs[1] = "hook" /\ specs[Len(specs)] = "cta"
      /\ \A k \in 2..(Len(specs) - 1) : specs[k] \in {"world", "body"}
  <2>1. Len(specs) = 1 + Len(slide) + len + 1
    BY <1>1, <1>2
  <2>2. specs \in Seq(S)
    BY <1>1, <1>2
  <2>3. specs[1] = "hook" /\ specs[Len(specs)] = "cta"
    BY <1>1, <1>2, <2>1
  <2>4. ASSUME NEW k \in 2..(Len(specs) - 1) PROVE specs[k] \in {"world", "body"}
    <3>1. CASE k <= 1 + Len(slide)
      BY <1>1, <1>2, <2>1, <3>1
    <3>2. CASE k > 1 + Len(slide)
      BY <1>1, <1>2, <2>1, <3>2
    <3>3. QED BY <1>2, <3>1, <3>2
  <2>5. QED BY <1>1, <1>2, <2>1, <2>2, <2>3, <2>4
<1>4. planCarouselJobs(n, world) = Clamped(specs)
  BY DEF planCarouselJobs, len, middle, slide
<1> HIDE DEF specs, S
<1>5. CASE Len(specs) > IG_MAX_SLIDES
  <2> DEFINE kept == SubSeq(specs, 1, IG_MAX_SLIDES - 1)
  <2>1. /\ kept \in Seq(S) /\ Len(kept) = IG_MAX_SLIDES - 1
        /\ \A k \in 1..(IG_MAX_SLIDES - 1) : kept[k] = specs[k]
    BY <1>3, <1>5, MediaAssumption
  <2>2. Clamped(specs) = Append(kept, "cta")
    BY <1>3, <1>5 DEF Clamped
  <2> HIDE DEF kept
  <2> DEFINE deck == Append(kept, "cta")
  <2>3. /\ deck \in Seq(S) /\ Len(deck) = IG_MAX_SLIDES
        /\ \A k \in 1..(IG_MAX_SLIDES - 1) : deck[k] = specs[k]
        /\ deck[IG_MAX_SLIDES] = "cta"
    BY <2>1, MediaAssumption DEF S
  <2>4. Clamped(specs) = deck
    BY <2>2
  <2> HIDE DEF deck
  <2>5. DOMAIN deck = 1..IG_MAX_SLIDES
    BY <2>3
  <2>6. \A k \in 2..(IG_MAX_SLIDES - 1) : deck[k] \in {"world", "body"}
    BY <1>3, <1>5, <2>3, MediaAssumption
  <2>7. deck[1] = "hook"
    BY <1>3, <2>3, MediaAssumption
  <2>8. ASSUME NEW k \in DOMAIN deck
        PROVE  (deck[k] = "hook") = (k = 1) /\ (deck[k] = "cta") = (k = Len(deck))
    <3>1. k = 1 \/ k = IG_MAX_SLIDES \/ k \in 2..(IG_MAX_SLIDES - 1)
      BY <2>5, MediaAssumption
    <3>2. QED BY <2>3, <2>6, <2>7, <3>1, MediaAssumption
  <2>9. IsDeck(deck)
    BY <2>3, <2>8, MediaAssumption DEF IsDeck
  <2>10. QED BY <1>4, <2>3, <2>4, <2>9 DEF S
<1>6. CASE Len(specs) <= IG_MAX_SLIDES
  <2>1. IsDeck(specs) /\ Clamped(specs) = specs
    BY <1>3, <1>6, MediaAssumption DEF IsDeck, Clamped
  <2>2. QED BY <1>3, <1>4, <2>1 DEF S
<1>7. QED BY <1>3, <1>5, <1>6, MediaAssumption

\* Four pieces of a sequence, end to end, the second of one entry and the last of two.
FourPieces(p, one, q, two) == p \o one \o q \o two

\* Where the pieces are found in the whole.
Joins(s, p, one, q, two) ==
  /\ Len(s) = Len(p) + Len(q) + 3
  /\ \A k \in 1..Len(p) : s[k] = p[k]
  /\ s[Len(p) + 1] = one[1]
  /\ \A k \in 1..Len(q) : s[Len(p) + 1 + k] = q[k]
  /\ s[Len(p) + Len(q) + 2] = two[1]
  /\ s[Len(p) + Len(q) + 3] = two[2]

\* Where each piece is found again (the parts of planVideo's reel).
LEMMA Joined ==
  ASSUME NEW S, NEW p \in Seq(S), NEW one \in Seq(S), NEW q \in Seq(S), NEW two \in Seq(S),
         Len(one) = 1, Len(two) = 2
  PROVE  /\ FourPieces(p, one, q, two) \in Seq(S)
         /\ Joins(FourPieces(p, one, q, two), p, one, q, two)
<1> DEFINE a == p \o one
           c == a \o q
           s == c \o two
<1>0. Len(p) \in Nat /\ Len(q) \in Nat /\ Len(one) = 1 /\ Len(two) = 2
  OBVIOUS
<1>1. /\ a \in Seq(S)
      /\ Len(a) = Len(p) + Len(one)
      /\ \A k \in 1..Len(p) + Len(one) : a[k] = IF k <= Len(p) THEN p[k] ELSE one[k - Len(p)]
  BY ConcatProperties
<1>a. a \in Seq(S)
  BY <1>1
<1> HIDE DEF a
<1>2. /\ c \in Seq(S)
      /\ Len(c) = Len(a) + Len(q)
      /\ \A k \in 1..Len(a) + Len(q) : c[k] = IF k <= Len(a) THEN a[k] ELSE q[k - Len(a)]
  BY <1>a, ConcatProperties
<1>c. c \in Seq(S)
  BY <1>2
<1> HIDE DEF c
<1>3. /\ s \in Seq(S)
      /\ Len(s) = Len(c) + Len(two)
      /\ \A k \in 1..Len(c) + Len(two) : s[k] = IF k <= Len(c) THEN c[k] ELSE two[k - Len(c)]
  BY <1>c, ConcatProperties
<1>4. FourPieces(p, one, q, two) = s
  BY DEF FourPieces, s, c, a
<1> HIDE DEF s
<1>5. Joins(s, p, one, q, two)
  <2>1. Len(a) = Len(p) + 1 /\ Len(c) = Len(p) + 1 + Len(q) /\ Len(s) = Len(p) + Len(q) + 3
    BY <1>0, <1>1, <1>2, <1>3
  <2>2. \A k \in 1..Len(p) + 1 + Len(q) : s[k] = c[k]
    BY <1>0, <1>3, <2>1
  <2>3. \A k \in 1..Len(p) + 1 : s[k] = a[k]
    BY <1>0, <1>2, <2>1, <2>2
  <2>4. \A k \in 1..Len(p) : s[k] = p[k]
    BY <1>0, <1>1, <2>1, <2>3
  <2>9. s[Len(p) + 1] = one[1]
    <3>1. /\ Len(p) + 1 \in 1..Len(p) + 1 /\ Len(p) + 1 \in 1..Len(p) + Len(one)
          /\ ~(Len(p) + 1 <= Len(p)) /\ (Len(p) + 1) - Len(p) = 1
      BY <1>0
    <3>2. QED BY <1>1, <2>3, <3>1
  <2>5. ASSUME NEW k \in 1..Len(q) PROVE s[Len(p) + 1 + k] = q[k]
    <3>1. /\ Len(p) + 1 + k \in 1..Len(p) + 1 + Len(q)
          /\ Len(p) + 1 + k \in 1..Len(a) + Len(q)
          /\ ~(Len(p) + 1 + k <= Len(a))
          /\ (Len(p) + 1 + k) - Len(a) = k
      BY <1>0, <2>1
    <3>2. c[Len(p) + 1 + k] = q[k]
      BY <1>2, <3>1
    <3>3. QED BY <2>2, <3>1, <3>2
  <2>6. s[Len(p) + Len(q) + 2] = two[1]
    <3>1. /\ Len(p) + Len(q) + 2 \in 1..Len(c) + Len(two)
          /\ ~(Len(p) + Len(q) + 2 <= Len(c))
          /\ (Len(p) + Len(q) + 2) - Len(c) = 1
      BY <1>0, <2>1
    <3>2. QED BY <1>3, <3>1
  <2>7. s[Len(p) + Len(q) + 3] = two[2]
    <3>1. /\ Len(p) + Len(q) + 3 \in 1..Len(c) + Len(two)
          /\ ~(Len(p) + Len(q) + 3 <= Len(c))
          /\ (Len(p) + Len(q) + 3) - Len(c) = 2
      BY <1>0, <2>1
    <3>2. QED BY <1>3, <3>1
  <2>8. QED BY <2>1, <2>4, <2>5, <2>6, <2>7, <2>9 DEF Joins
<1>6. QED BY <1>3, <1>4, <1>5, Zenon

\* What the properties ask of the files of a render, in the order of writing.
Routed(i, R) ==
  /\ R \in Seq(Roles \X Nat) /\ Len(R) >= 1
  /\ Shape[i] # "reel" =>
       \A k \in 1..Len(R) : R[k] = <<R[k][1], k>> /\ R[k][1] \notin {"still", "final"}
  /\ Shape[i] = "reel" =>
       /\ R[Len(R)] = <<"final", 1>>
       /\ \A k \in 1..(Len(R) - 1) : R[k] = <<R[k][1], 0>> /\ R[k][1] # "final"
       /\ \E k \in 1..(Len(R) - 1) : R[k] = <<"opening", 0>>
       /\ \A j, k \in 1..Len(R) : R[j][1] = R[k][1] => j = k
  /\ Shape[i] = "carousel" => IsDeck([k \in DOMAIN R |-> R[k][1]])

\* Every route of the adapters is such a one, for any draft.
LEMMA RoutesAreRouted ==
  ASSUME NEW i \in Pieces, NEW n \in Nat
  PROVE  Routed(i, routeAdapter(i, n))
<1>0. Shape[i] \in {"carousel", "image", "reel", "capture"}
  BY MediaAssumption
<1>1. CASE Shape[i] = "carousel"
  <2> DEFINE slides == planCarouselJobs(n, World[i])
             R == [k \in DOMAIN slides |-> <<slides[k], k>>]
  <2>1. slides \in Seq({"hook", "world", "body", "cta"}) /\ IsDeck(slides)
    BY SlidesMakeADeck
  <2>2. routeAdapter(i, n) = R
    BY <1>1 DEF routeAdapter
  <2> HIDE DEF slides
  <2>3. DOMAIN slides = 1..Len(slides) /\ Len(slides) \in Nat /\ Len(slides) >= 2
        /\ \A k \in 1..Len(slides) : slides[k] \in {"hook", "world", "body", "cta"}
    BY <2>1, MediaAssumption DEF IsDeck
  <2>4. /\ R \in Seq(Roles \X Nat) /\ Len(R) = Len(slides)
        /\ \A k \in 1..Len(slides) : R[k] = <<slides[k], k>>
    BY <2>3 DEF Roles
  <2> HIDE DEF R
  <2>5. DOMAIN R = DOMAIN slides /\ slides = [k \in DOMAIN slides |-> slides[k]]
    BY <2>1, <2>3, <2>4
  <2>6. [k \in DOMAIN R |-> R[k][1]] = slides
    BY <2>3, <2>4, <2>5
  <2>7. Len(R) >= 1 /\ \A k \in 1..Len(R) : R[k] = <<R[k][1], k>> /\ R[k][1] \notin {"still", "final"}
    BY <2>3, <2>4
  <2>8. Routed(i, R)
    BY <1>1, <2>1, <2>4, <2>6, <2>7 DEF Routed
  <2>9. QED BY <2>2, <2>8
<1>2. CASE Shape[i] = "image"
  <2>1. routeAdapter(i, n) = <<<<"image", 1>>>>
    BY <1>2 DEF routeAdapter
  <2>2. QED BY <1>2, <2>1 DEF Routed, Roles
<1>3. CASE Shape[i] = "capture"
  <2>1. routeAdapter(i, n) = <<<<"clip", 1>>>>
    BY <1>3 DEF routeAdapter
  <2>2. QED BY <1>3, <2>1 DEF Routed, Roles
<1>4. CASE Shape[i] = "reel"
  <2> DEFINE S     == Roles \X Nat
             route == planVideo(World[i])
             p     == IF route = "showcase" THEN <<<<"still", 0>>>> ELSE <<>>
             q     == IF route = "hook" THEN <<>> ELSE <<<<"middle", 0>>>>
             R     == routeAdapter(i, n)
             o     == <<"opening", 0>>
             e     == <<"end", 0>>
             f     == <<"final", 1>>
  <2>1. R = p \o <<o>> \o q \o <<e, f>>
    BY <1>4 DEF routeAdapter
  <2>2. <<"still", 0>> \in S /\ o \in S /\ <<"middle", 0>> \in S /\ e \in S /\ f \in S
    BY DEF Roles
  <2>3. p \in Seq(S) /\ Len(p) \in 0..1 /\ \A k \in 1..Len(p) : p[k] = <<"still", 0>>
    <3>1. CASE route = "showcase"
      BY <2>2, <3>1
    <3>2. CASE route # "showcase"
      BY <3>2
    <3>3. QED BY <3>1, <3>2
  <2>4. q \in Seq(S) /\ Len(q) \in 0..1 /\ \A k \in 1..Len(q) : q[k] = <<"middle", 0>>
    <3>1. CASE route = "hook"
      BY <3>1
    <3>2. CASE route # "hook"
      BY <2>2, <3>2
    <3>3. QED BY <3>1, <3>2
  <2> DEFINE one == <<o>>
             two == <<e, f>>
  <2>one. one \in Seq(S) /\ Len(one) = 1 /\ one[1] = o
    BY <2>2
  <2>two. two \in Seq(S) /\ Len(two) = 2 /\ two[1] = e /\ two[2] = f
    BY <2>2
  <2>all. R = FourPieces(p, one, q, two)
    BY <2>1 DEF FourPieces
  <2> HIDE DEF route, p, q, R, S, o, e, f, one, two
  <2>5. /\ R \in Seq(S) /\ Len(R) = Len(p) + Len(q) + 3
        /\ \A k \in 1..Len(p) : R[k] = p[k]
        /\ R[Len(p) + 1] = o
        /\ \A k \in 1..Len(q) : R[Len(p) + 1 + k] = q[k]
        /\ R[Len(R) - 1] = e /\ R[Len(R)] = f
    <3>1. /\ p \in Seq(S) /\ q \in Seq(S) /\ one \in Seq(S) /\ two \in Seq(S)
          /\ Len(one) = 1 /\ Len(two) = 2
      BY <2>3, <2>4, <2>one, <2>two
    <3>2. R \in Seq(S) /\ Joins(R, p, one, q, two)
      BY <2>all, <3>1, Joined
    <3>3. Len(p) \in Nat /\ Len(q) \in Nat
      BY <2>3, <2>4
    <3>4. /\ Len(R) = Len(p) + Len(q) + 3
          /\ R[Len(p) + Len(q) + 2] = e /\ R[Len(p) + Len(q) + 3] = f
          /\ R[Len(p) + 1] = o
      BY <2>one, <2>two, <3>2 DEF Joins
    <3>5. R[Len(R) - 1] = e /\ R[Len(R)] = f
      BY <3>3, <3>4
    <3>6. QED BY <3>2, <3>4, <3>5 DEF Joins
  <2> USE DEF o, e, f
  <2>6. ASSUME NEW k \in 1..Len(R)
        PROVE  \/ R[k] = <<"still", 0>> /\ k = 1
               \/ R[k] = <<"opening", 0>> /\ k = Len(p) + 1
               \/ R[k] = <<"middle", 0>> /\ k = Len(p) + 2
               \/ R[k] = <<"end", 0>> /\ k = Len(R) - 1
               \/ R[k] = <<"final", 1>> /\ k = Len(R)
    <3>1. CASE k <= Len(p)
      BY <2>3, <2>5, <3>1
    <3>2. CASE k = Len(p) + 1
      BY <2>5, <3>2
    <3>3. CASE k > Len(p) + 1 /\ k < Len(R) - 1
      <4>1. k = Len(p) + 1 + 1 /\ 1 \in 1..Len(q)
        BY <2>3, <2>4, <2>5, <3>3
      <4>2. QED BY <2>4, <2>5, <4>1
    <3>4. CASE k = Len(R) - 1
      BY <2>5, <3>4
    <3>5. CASE k = Len(R)
      BY <2>5, <3>5
    <3>6. QED BY <2>3, <2>4, <2>5, <3>1, <3>2, <3>3, <3>4, <3>5
  <2>7. /\ Len(R) \in Nat /\ Len(R) >= 3 /\ Len(p) + 1 \in 1..(Len(R) - 1)
        /\ Len(p) + 2 < Len(R)
    BY <2>3, <2>4, <2>5
  <2>8. ASSUME NEW j \in 1..Len(R), NEW k \in 1..Len(R), R[j][1] = R[k][1]
        PROVE  j = k
    <3>1. \/ R[j][1] = "still" /\ j = 1
          \/ R[j][1] = "opening" /\ j = Len(p) + 1
          \/ R[j][1] = "middle" /\ j = Len(p) + 2
          \/ R[j][1] = "end" /\ j = Len(R) - 1
          \/ R[j][1] = "final" /\ j = Len(R)
      BY <2>6
    <3>2. \/ R[k][1] = "still" /\ k = 1
          \/ R[k][1] = "opening" /\ k = Len(p) + 1
          \/ R[k][1] = "middle" /\ k = Len(p) + 2
          \/ R[k][1] = "end" /\ k = Len(R) - 1
          \/ R[k][1] = "final" /\ k = Len(R)
      BY <2>6
    <3>3. QED BY <2>8, <3>1, <3>2
  <2>9. \A k \in 1..(Len(R) - 1) : R[k] = <<R[k][1], 0>> /\ R[k][1] # "final"
    <3>1. ASSUME NEW k \in 1..(Len(R) - 1) PROVE R[k] = <<R[k][1], 0>> /\ R[k][1] # "final"
      BY <2>6, <2>7
    <3>2. QED BY <3>1
  <2>10. Routed(i, R)
    <3>1. \E k \in 1..(Len(R) - 1) : R[k] = <<"opening", 0>>
      BY <2>5, <2>7
    <3>2. R \in Seq(Roles \X Nat) /\ R[Len(R)] = <<"final", 1>> /\ Len(R) >= 1
      BY <2>5, <2>7 DEF S
    <3> HIDE DEF o, e, f
    <3>3. QED BY <1>4, <2>8, <2>9, <3>1, <3>2 DEF Routed
  <2>11. QED BY <2>10 DEF R
<1>5. QED BY <1>0, <1>1, <1>2, <1>3, <1>4

\* No two files of a render have one name.
LEMMA NamesDiffer ==
  ASSUME NEW i, NEW R, Routed(i, R),
         NEW j \in 1..Len(R), NEW k \in 1..Len(R), FileOf(R[j]) = FileOf(R[k])
  PROVE  j = k
<1>1. /\ \A m \in 1..Len(R) : R[m] \in Roles \X Nat
      /\ Len(R) \in Nat
  BY DEF Routed
<1>2. CASE Shape[i] # "reel"
  <2>1. \A m \in 1..Len(R) : FileOf(R[m]) = <<"numbered", m>>
    <3>1. ASSUME NEW m \in 1..Len(R) PROVE FileOf(R[m]) = <<"numbered", m>>
      <4>1. R[m][2] = m /\ R[m][1] # "final" /\ m # 0
        BY <1>2 DEF Routed
      <4>2. QED BY <4>1 DEF FileOf
    <3>2. QED BY <3>1
  <2>2. QED BY <2>1
<1>3. CASE Shape[i] = "reel"
  <2>1. \A m \in 1..Len(R) : FileOf(R[m]) = <<R[m][1], 0>>
    <3>1. ASSUME NEW m \in 1..Len(R) PROVE FileOf(R[m]) = <<R[m][1], 0>>
      <4>1. R[m][2] = 0 \/ R[m][1] = "final"
        <5>1. m = Len(R) \/ m \in 1..(Len(R) - 1)
          BY <1>1
        <5>2. R[Len(R)][1] = "final"
          BY <1>3 DEF Routed
        <5>3. m \in 1..(Len(R) - 1) => R[m][2] = 0
          <6>1. m \in 1..(Len(R) - 1) => R[m] = <<R[m][1], 0>>
            BY <1>3 DEF Routed
          <6>2. QED BY <6>1
        <5>4. QED BY <5>1, <5>2, <5>3
      <4>2. QED BY <4>1 DEF FileOf
    <3>2. QED BY <3>1
  <2>2. R[j][1] = R[k][1]
    BY <2>1
  <2>3. QED BY <1>3, <2>2 DEF Routed
<1>4. QED BY <1>2, <1>3


\* The files of a piece's current draft, in the order of writing.
Route(i) == routeAdapter(i, beats[i])

\* File j of the current draft is on disk (a still is on the shared shelf).
OnDisk(i, j) ==
  Route(i)[j][1] # "still" =>
    /\ <<i, FileOf(Route(i)[j])>> \in DOMAIN disk
    /\ disk[<<i, FileOf(Route(i)[j])>>] = [draft |-> version[i], role |-> Route(i)[j][1]]

\* What a worker has noted when k of the files are written: a reel only its
\* joined file.
Lists(i, names, k) ==
  /\ names \in Seq(MediaNames)
  /\ Shape[i] # "reel" => /\ Len(names) = k
                          /\ \A j \in 1..k : names[j] = FileOf(Route(i)[j])
  /\ Shape[i] = "reel" => /\ Len(names) = IF k = Len(Route(i)) THEN 1 ELSE 0
                          /\ k = Len(Route(i)) => names[1] = FileOf(Route(i)[k])

\* How far a worker on piece i has come.
Written(r, i) == Len(Route(i)) - Len(todo[r])

\* A worker is on its way through the current draft's files.
Renders(r, i) ==
  /\ progress[i] = "rendering" /\ seen[r] = version[i]
  /\ Len(todo[r]) <= Len(Route(i))
  /\ \A j \in 1..Len(todo[r]) : todo[r][j] = Route(i)[Written(r, i) + j]
  /\ \A j \in 1..Written(r, i) : OnDisk(i, j)
  /\ Lists(i, wrote[r], Written(r, i))

\* All of them are written and listed.
Rendered(i) == /\ \A j \in 1..Len(Route(i)) : OnDisk(i, j)
               /\ Lists(i, assets[i], Len(Route(i)))

\* clips is not needed: nothing proved here depends on the shared shelf.
MediaTyped == /\ version \in [Pieces -> Nat] /\ beats \in [Pieces -> Nat]
              /\ progress \in [Pieces -> {"drafted", "rendering", "rendered"}]
              /\ DOMAIN assets = Pieces /\ disk = [x \in DOMAIN disk |-> disk[x]]
              /\ job \in [Renderers -> Pieces \cup {NoPiece}]
              /\ todo \in [Renderers -> Seq(Roles \X Nat)]
              /\ seen \in [Renderers -> Nat]
              /\ wrote \in [Renderers -> Seq(MediaNames)]
              /\ crossed \in BOOLEAN

\* What holds until two workers are on one piece.
MediaSound ==
  /\ \A q, r \in Renderers : job[q] = job[r] /\ job[r] # NoPiece => q = r
  /\ \A r \in Renderers : \A i \in Pieces : job[r] = i => Renders(r, i)
  /\ \A i \in Pieces : progress[i] = "rendered" => Rendered(i)

MediaInv == MediaTyped /\ (~crossed => MediaSound)

\* That of the draft at hand, too.
LEMMA RouteOfTheDraft ==
  ASSUME MediaTyped, NEW i \in Pieces
  PROVE  /\ Routed(i, Route(i))
         /\ Route(i) \in Seq(Roles \X Nat)
         /\ Len(Route(i)) \in Nat
  <1>1. beats[i] \in Nat
    BY DEF MediaTyped
  <1>2. Routed(i, Route(i))
    BY <1>1, RoutesAreRouted DEF Route
  <1>3. QED BY <1>2 DEF Routed

\* Every step of the render stage keeps the types.
LEMMA TypedSteps ==
  ASSUME MediaTyped, [MediaNext]_mediaVars
  PROVE  MediaTyped'
<1> USE DEF MediaTyped
<1>1. ASSUME NEW r \in Renderers, NEW i \in Pieces, StartRender(r, i)
      PROVE  MediaTyped'
  <2>1. routeAdapter(i, beats[i]) \in Seq(Roles \X Nat)
    BY RouteOfTheDraft DEF Route
  <2>2. todo' \in [Renderers -> Seq(Roles \X Nat)]
    BY <1>1, <2>1 DEF StartRender
  <2>3. crossed' \in BOOLEAN
    BY <1>1 DEF StartRender
  <2>4. wrote' \in [Renderers -> Seq(MediaNames)]
    BY <1>1 DEF StartRender
  <2>5. QED BY <1>1, <2>2, <2>3, <2>4 DEF StartRender
<1>2. ASSUME NEW r \in Renderers, StageStill(r)
      PROVE  MediaTyped'
  BY <1>2 DEF StageStill
<1>3. ASSUME NEW r \in Renderers, WriteFile(r)
      PROVE  MediaTyped'
  <2>1. Head(todo[r]) \in Roles \X Nat /\ Tail(todo[r]) \in Seq(Roles \X Nat)
    BY <1>3 DEF WriteFile
  <2>2. FileOf(Head(todo[r])) \in MediaNames
    BY <2>1 DEF MediaNames
  <2>3. wrote' \in [Renderers -> Seq(MediaNames)]
    BY <1>3, <2>2 DEF WriteFile
  <2>4. todo' \in [Renderers -> Seq(Roles \X Nat)]
    BY <1>3, <2>1 DEF WriteFile
  <2>5. disk' = [x \in DOMAIN disk' |-> disk'[x]]
    BY <1>3 DEF WriteFile
  <2>6. QED BY <1>3, <2>3, <2>4, <2>5 DEF WriteFile
<1>4. ASSUME NEW r \in Renderers, RenderFails(r)
      PROVE  MediaTyped'
  BY <1>4 DEF RenderFails, LeaveRender
<1>5. ASSUME NEW r \in Renderers, FinishRender(r)
      PROVE  MediaTyped'
  BY <1>5 DEF FinishRender, LeaveRender
<1>6. ASSUME NEW i \in Pieces, NEW n \in Drafted(i), DraftAgain(i, n)
      PROVE  MediaTyped'
  <2>1. n \in Nat
    BY MediaAssumption DEF Drafted
  <2>2. QED BY <1>6, <2>1 DEF DraftAgain
<1>7. CASE UNCHANGED mediaVars
  BY <1>7 DEF mediaVars
<1>8. QED BY <1>1, <1>2, <1>3, <1>4, <1>5, <1>6, <1>7 DEF MediaNext

\* A file that a step neither overwrites nor redrafts stays the draft's.
LEMMA FileStays ==
  ASSUME NEW i \in Pieces, NEW j, OnDisk(i, j),
         version'[i] = version[i], beats'[i] = beats[i],
         LET x == <<i, FileOf(Route(i)[j])>>
         IN x \in DOMAIN disk => x \in DOMAIN disk' /\ disk'[x] = disk[x]
  PROVE  OnDisk(i, j)'
<1>1. Route(i)' = Route(i)
  BY DEF Route
<1>2. QED BY <1>1 DEF OnDisk

\* A step that leaves the files of a piece alone leaves what is known of it.
LEMMA PieceStays ==
  ASSUME MediaTyped, NEW i \in Pieces,
         version'[i] = version[i], beats'[i] = beats[i],
         \A x \in DOMAIN disk : x[1] = i => x \in DOMAIN disk' /\ disk'[x] = disk[x]
  PROVE  /\ Route(i)' = Route(i)
         /\ \A j \in 1..Len(Route(i)) : OnDisk(i, j) => OnDisk(i, j)'
         /\ assets'[i] = assets[i] /\ Rendered(i) => Rendered(i)'
         /\ \A r \in Renderers :
              /\ Renders(r, i) /\ progress'[i] = progress[i] /\ seen'[r] = seen[r]
              /\ todo'[r] = todo[r] /\ wrote'[r] = wrote[r]
              => Renders(r, i)'
<1>1. Route(i)' = Route(i)
  BY DEF Route
<1>2. ASSUME NEW j \in 1..Len(Route(i)), OnDisk(i, j) PROVE OnDisk(i, j)'
  <2> DEFINE x == <<i, FileOf(Route(i)[j])>>
  <2>1. x[1] = i
    OBVIOUS
  <2>2. x \in DOMAIN disk => x \in DOMAIN disk' /\ disk'[x] = disk[x]
    BY <2>1
  <2>3. QED BY <1>2, <2>2, FileStays
<1>3. ASSUME assets'[i] = assets[i], Rendered(i) PROVE Rendered(i)'
  BY <1>1, <1>2, <1>3 DEF Rendered, Lists
<1>4. ASSUME NEW r \in Renderers, Renders(r, i), progress'[i] = progress[i],
             seen'[r] = seen[r], todo'[r] = todo[r], wrote'[r] = wrote[r]
      PROVE  Renders(r, i)'
  <2>1. Written(r, i)' = Written(r, i) /\ Len(Route(i)) \in Nat /\ Len(todo[r]) \in Nat
    BY <1>1, <1>4, RouteOfTheDraft DEF Written, MediaTyped
  <2>2. \A j \in 1..Written(r, i) : OnDisk(i, j)'
    BY <1>2, <1>4, <2>1 DEF Renders, Written
  <2>3. Lists(i, wrote[r], Written(r, i))'
    BY <1>1, <1>4, <2>1 DEF Renders, Lists
  <2>4. QED BY <1>1, <1>4, <2>1, <2>2, <2>3 DEF Renders
<1>5. QED BY <1>1, <1>2, <1>3, <1>4

\* The next file a worker writes is the next of the draft's.
LEMMA NextFile ==
  ASSUME MediaTyped, NEW r \in Renderers, NEW i \in Pieces, Renders(r, i), todo[r] # <<>>
  PROVE  /\ Written(r, i) \in Nat /\ Written(r, i) + 1 \in 1..Len(Route(i))
         /\ Head(todo[r]) = Route(i)[Written(r, i) + 1]
         /\ Len(Tail(todo[r])) = Len(todo[r]) - 1
         /\ \A j \in 1..Len(Tail(todo[r])) : Tail(todo[r])[j] = Route(i)[Written(r, i) + 1 + j]
<1> DEFINE left == todo[r]
           w == Written(r, i)
<1>1. left \in Seq(Roles \X Nat) /\ left # <<>> /\ Len(Route(i)) \in Nat
  BY RouteOfTheDraft DEF MediaTyped
<1>2. w = Len(Route(i)) - Len(left) /\ Len(left) <= Len(Route(i))
      /\ \A j \in 1..Len(left) : left[j] = Route(i)[w + j]
  BY DEF Renders, Written
<1> HIDE DEF left, w
<1>3. Len(left) \in Nat /\ Len(left) >= 1 /\ Head(left) = left[1]
  BY <1>1
<1>4. w \in Nat /\ w + 1 \in 1..Len(Route(i)) /\ Head(left) = Route(i)[w + 1]
  BY <1>1, <1>2, <1>3
<1>5. Len(Tail(left)) = Len(left) - 1 /\ \A j \in 1..Len(Tail(left)) : Tail(left)[j] = left[j + 1]
  BY <1>1, <1>3
<1>6. ASSUME NEW j \in 1..Len(Tail(left)) PROVE Tail(left)[j] = Route(i)[w + 1 + j]
  <2>1. j + 1 \in 1..Len(left) /\ w + (j + 1) = w + 1 + j
    BY <1>3, <1>4, <1>5
  <2>2. QED BY <1>2, <1>5, <2>1
<1>7. QED BY <1>4, <1>5, <1>6 DEF left, w

\* One file less to write is one more written.
LEMMA OneFurther ==
  \A l, n \in Nat : l - (n - 1) = (l - n) + 1
  OBVIOUS

\* A worker starts with the whole route, and alone unless crossed.
LEMMA StartSound ==
  ASSUME MediaTyped, MediaSound, NEW r \in Renderers, NEW i \in Pieces,
         StartRender(r, i), ~crossed'
  PROVE  MediaSound'
<1>1. \A q \in Renderers : job[q] # i
  BY DEF StartRender
<1>2. /\ \A q \in Renderers : job'[q] = IF q = r THEN i ELSE job[q]
      /\ \A k \in Pieces : progress'[k] = IF k = i THEN "rendering" ELSE progress[k]
      /\ version' = version /\ beats' = beats /\ disk' = disk /\ assets' = assets
  BY DEF StartRender, MediaTyped
<1>3. ASSUME NEW q \in Renderers, NEW p \in Renderers, job'[q] = job'[p], job'[p] # NoPiece
      PROVE  q = p
  BY <1>1, <1>2, <1>3 DEF MediaSound
<1>4. ASSUME NEW q \in Renderers, NEW k \in Pieces, job'[q] = k PROVE Renders(q, k)'
  <2>1. CASE q = r
    <3>1. k = i
      BY <1>2, <1>4, <2>1
    <3>2. Route(i)' = Route(i) /\ Len(Route(i)) \in Nat /\ Len(Route(i)) >= 1
      BY <1>2, RouteOfTheDraft DEF Route, Routed
    <3>3. /\ todo'[r] = Route(i) /\ wrote'[r] = <<>> /\ seen'[r] = version[i]
          /\ progress'[i] = "rendering"
      BY <1>2 DEF StartRender, MediaTyped, Route
    <3>4. Written(r, i)' = 0
      BY <3>2, <3>3 DEF Written
    <3>5. Lists(i, wrote[r], Written(r, i))'
      BY <3>2, <3>3, <3>4 DEF Lists
    <3>6. QED BY <1>2, <2>1, <3>1, <3>2, <3>3, <3>4, <3>5 DEF Renders
  <2>2. CASE q # r
    <3>1. job[q] = k /\ k # i /\ Renders(q, k)
      BY <1>1, <1>2, <1>4, <2>2 DEF MediaSound
    <3>2. /\ progress'[k] = progress[k] /\ seen'[q] = seen[q] /\ todo'[q] = todo[q]
          /\ wrote'[q] = wrote[q]
      BY <1>2, <2>2, <3>1 DEF StartRender, MediaTyped
    <3>3. QED BY <1>2, <3>1, <3>2, PieceStays
  <2>3. QED BY <2>1, <2>2
<1>5. ASSUME NEW k \in Pieces, progress'[k] = "rendered" PROVE Rendered(k)'
  BY <1>2, <1>5, PieceStays DEF MediaSound
<1>6. QED BY <1>3, <1>4, <1>5 DEF MediaSound

\* The still is no file of the piece.
LEMMA StillSound ==
  ASSUME MediaTyped, MediaSound, NEW r \in Renderers, StageStill(r)
  PROVE  MediaSound'
<1>0. PICK i \in Pieces : i = job[r]
  BY DEF StageStill, MediaTyped
<1>w. PICK k : k = Written(r, i)
  OBVIOUS
<1>1. /\ job[r] = i /\ Renders(r, i) /\ todo[r] # <<>> /\ Head(todo[r])[1] = "still"
      /\ todo' = [todo EXCEPT ![r] = Tail(todo[r])]
      /\ UNCHANGED <<version, beats, progress, assets, disk, job, wrote, seen>>
  BY <1>0 DEF StageStill, MediaSound, MediaTyped
<1>2. ASSUME NEW q \in Renderers, NEW p \in Pieces, job'[q] = p PROVE Renders(q, p)'
  <2>1. CASE q # r
    <3>1. Renders(q, p) /\ todo'[q] = todo[q]
      BY <1>1, <1>2, <2>1 DEF MediaSound, MediaTyped
    <3>2. QED BY <1>1, <3>1, PieceStays
  <2>2. CASE q = r
    <3>1. p = i /\ todo'[r] = Tail(todo[r])
      BY <1>1, <1>2, <2>2 DEF MediaTyped
    <3>2. /\ k \in Nat /\ k + 1 \in 1..Len(Route(i)) /\ Route(i)[k + 1][1] = "still"
          /\ Len(Tail(todo[r])) = Len(todo[r]) - 1
          /\ \A j \in 1..Len(Tail(todo[r])) : Tail(todo[r])[j] = Route(i)[k + 1 + j]
      BY <1>1, <1>w, NextFile
    <3>3. Route(i)' = Route(i) /\ (\A j \in 1..Len(Route(i)) : OnDisk(i, j) => OnDisk(i, j)')
      BY <1>1, PieceStays
    <3>4. Len(todo[r]) \in Nat /\ Len(Route(i)) \in Nat /\ Routed(i, Route(i))
      <4>1. todo[r] \in Seq(Roles \X Nat)
        BY DEF MediaTyped
      <4>2. Routed(i, Route(i)) /\ Len(Route(i)) \in Nat
        BY RouteOfTheDraft
      <4>3. QED BY <4>1, <4>2
    <3>5. Written(r, i)' = k + 1 /\ Len(todo[r]) <= Len(Route(i))
      <4>1. Written(r, i)' = Len(Route(i)) - Len(Tail(todo[r]))
        BY <3>1, <3>3 DEF Written
      <4>2. k = Len(Route(i)) - Len(todo[r])
        BY <1>w DEF Written
      <4>3. Len(todo[r]) <= Len(Route(i))
        BY <1>1 DEF Renders
      <4>4. Len(Tail(todo[r])) = Len(todo[r]) - 1 /\ Len(todo[r]) \in Nat /\ Len(Route(i)) \in Nat
        BY <3>2, <3>4
      <4>5. Written(r, i)' = k + 1
        <5>1. Written(r, i)' = Len(Route(i)) - (Len(todo[r]) - 1)
          BY <4>1, <4>4, Zenon
        <5>2. Len(Route(i)) - (Len(todo[r]) - 1) = (Len(Route(i)) - Len(todo[r])) + 1
          BY <4>4, OneFurther, Zenon
        <5>3. QED BY <5>1, <5>2, <4>2, Zenon
      <4>6. QED BY <4>3, <4>5
    <3>6. Shape[i] = "reel" /\ k + 1 # Len(Route(i))
      <4>1. CASE Shape[i] # "reel"
        BY <3>2, <3>4, <4>1 DEF Routed
      <4>2. CASE Shape[i] = "reel"
        <5>1. Route(i)[Len(Route(i))] = <<"final", 1>>
          BY <3>4, <4>2 DEF Routed
        <5>2. Route(i)[Len(Route(i))][1] # "still"
          BY <5>1
        <5>3. QED BY <3>2, <4>2, <5>2
      <4>3. QED BY <4>1, <4>2
    <3>7. Lists(i, wrote[r], k + 1)'
      BY <1>1, <3>2, <3>3, <3>4, <3>6, <1>w DEF Lists, Renders
    <3>8. \A j \in 1..(k + 1) : OnDisk(i, j)'
      <4>1. ASSUME NEW j \in 1..(k + 1) PROVE OnDisk(i, j)
        <5>1. j \in 1..k \/ j = k + 1
          BY <3>2
        <5>2. QED BY <1>1, <3>2, <5>1, <1>w DEF Renders, OnDisk
      <4>2. QED BY <3>2, <3>3, <3>4, <4>1
    <3>9. Renders(r, i)'
      <4>1. progress'[i] = "rendering" /\ seen'[r] = version'[i] /\ wrote'[r] = wrote[r]
        BY <1>1 DEF Renders
      <4>2. Len(todo'[r]) <= Len(Route(i)) /\ Written(r, i)' = k + 1
        BY <3>1, <3>2, <3>4, <3>5
      <4>3. \A j \in 1..Len(todo'[r]) : todo'[r][j] = Route(i)[k + 1 + j]
        BY <3>1, <3>2
      <4>4. QED BY <3>3, <3>7, <3>8, <4>1, <4>2, <4>3 DEF Renders
    <3>10. QED BY <2>2, <3>1, <3>9
  <2>3. QED BY <2>1, <2>2
<1>3. ASSUME NEW p \in Pieces, progress'[p] = "rendered" PROVE Rendered(p)'
  BY <1>1, <1>3, PieceStays DEF MediaSound
<1>4. QED BY <1>1, <1>2, <1>3 DEF MediaSound

\* A file goes over the name it has and no other of the piece.
LEMMA WriteSound ==
  ASSUME MediaTyped, MediaSound, NEW r \in Renderers, WriteFile(r)
  PROVE  MediaSound'
<1>0. PICK i \in Pieces : i = job[r]
  BY DEF WriteFile, MediaTyped
<1>w. PICK k : k = Written(r, i)
  OBVIOUS
<1>f. PICK f : f = Head(todo[r])
  OBVIOUS
<1>x. PICK x : x = <<i, FileOf(f)>>
  OBVIOUS
<1> DEFINE R     == Route(i)
           shows == IF f[1] = "final" THEN disk[<<i, FileOf(<<"opening", 0>>)>>].draft ELSE seen[r]
<1>1. /\ Renders(r, i) /\ todo[r] # <<>> /\ f[1] # "still"
      /\ disk' = [y \in DOMAIN disk \cup {x} |->
                    IF y = x THEN [draft |-> shows, role |-> f[1]] ELSE disk[y]]
      /\ wrote' = [wrote EXCEPT ![r] = IF f[2] = 0 THEN @ ELSE Append(@, FileOf(f))]
      /\ todo' = [todo EXCEPT ![r] = Tail(todo[r])]
      /\ UNCHANGED <<version, beats, progress, assets, job, seen>>
  BY <1>0, <1>f, <1>x DEF WriteFile, MediaSound
<1>2. /\ k \in Nat /\ k + 1 \in 1..Len(R) /\ f = R[k + 1]
      /\ Len(Tail(todo[r])) = Len(todo[r]) - 1
      /\ \A j \in 1..Len(Tail(todo[r])) : Tail(todo[r])[j] = R[k + 1 + j]
  BY <1>1, <1>w, <1>f, NextFile
<1>3. Routed(i, R) /\ R \in Seq(Roles \X Nat) /\ Len(R) \in Nat /\ R' = R
  BY <1>1, RouteOfTheDraft DEF Route
<1>4. shows = version[i]
  <2>1. CASE f[1] = "final"
    <3>1. Shape[i] = "reel"
      BY <1>2, <1>3, <2>1 DEF Routed
    <3>2. k + 1 = Len(R)
      <4>1. \A j \in 1..(Len(R) - 1) : R[j][1] # "final"
        BY <1>3, <3>1 DEF Routed
      <4>2. QED BY <1>2, <1>3, <2>1, <4>1
    <3>3. PICK j \in 1..(Len(R) - 1) : R[j] = <<"opening", 0>>
      BY <1>3, <3>1 DEF Routed
    <3>4. j \in 1..k
      BY <1>2, <1>3, <3>2
    <3>5. OnDisk(i, j)
      BY <1>1, <1>w, <3>4 DEF Renders
    <3>6. R[j][1] # "still"
      BY <3>3
    <3>7. disk[<<i, FileOf(<<"opening", 0>>)>>] = [draft |-> version[i], role |-> R[j][1]]
      BY <3>3, <3>5, <3>6 DEF OnDisk
    <3>8. QED BY <2>1, <3>7
  <2>2. CASE f[1] # "final"
    BY <1>1, <2>2 DEF Renders
  <2>3. QED BY <2>1, <2>2
<1> HIDE DEF shows
<1>5. /\ x \in DOMAIN disk' /\ disk'[x] = [draft |-> version[i], role |-> f[1]]
      /\ \A y \in DOMAIN disk : y # x => y \in DOMAIN disk' /\ disk'[y] = disk[y]
  BY <1>1, <1>4
<1>6. ASSUME NEW p \in Pieces, p # i
      PROVE  \A y \in DOMAIN disk : y[1] = p => y \in DOMAIN disk' /\ disk'[y] = disk[y]
  <2>1. x[1] = i
    BY <1>x
  <2>2. QED BY <1>5, <1>6, <2>1
<1>7. \A j \in 1..(k + 1) : OnDisk(i, j)'
  <2>1. ASSUME NEW j \in 1..k PROVE OnDisk(i, j)'
    <3>1. OnDisk(i, j) /\ j \in 1..Len(R) /\ j # k + 1
      BY <1>1, <1>2, <1>3, <1>w DEF Renders
    <3>2. FileOf(R[j]) # FileOf(R[k + 1])
      BY <1>2, <1>3, <3>1, NamesDiffer
    <3>3. <<i, FileOf(R[j])>> # x
      BY <1>x, <1>2, <3>2
    <3>4. LET y == <<i, FileOf(R[j])>> IN y \in DOMAIN disk => y \in DOMAIN disk' /\ disk'[y] = disk[y]
      BY <1>5, <3>3
    <3>5. QED BY <1>1, <3>1, <3>4, FileStays
  <2>2. OnDisk(i, k + 1)'
    BY <1>1, <1>2, <1>3, <1>5, <1>x DEF OnDisk
  <2>3. QED BY <1>2, <2>1, <2>2
<1>8. Lists(i, wrote[r], k + 1)'
  <2>1. wrote[r] \in Seq(MediaNames) /\ Lists(i, wrote[r], k)
    BY <1>1, <1>w DEF MediaTyped, Renders
  <2>2. wrote'[r] = (IF f[2] = 0 THEN wrote[r] ELSE Append(wrote[r], FileOf(f)))
    BY <1>1 DEF MediaTyped
  <2>3. FileOf(f) \in MediaNames
    BY <1>2, <1>3 DEF MediaNames
  <2>4. CASE Shape[i] # "reel"
    <3>1. f[2] = k + 1 /\ f[2] # 0
      BY <1>2, <1>3, <2>4 DEF Routed
    <3>2. Len(wrote[r]) = k /\ \A j \in 1..k : wrote[r][j] = FileOf(R[j])
      BY <2>1, <2>4 DEF Lists
    <3>3. wrote'[r] = Append(wrote[r], FileOf(f))
      BY <2>2, <3>1
    <3>4. /\ wrote'[r] \in Seq(MediaNames) /\ Len(wrote'[r]) = k + 1
          /\ \A j \in 1..(k + 1) : wrote'[r][j] = FileOf(R[j])
      BY <1>2, <2>1, <2>3, <3>2, <3>3
    <3>5. QED BY <1>3, <2>4, <3>4 DEF Lists
  <2>5. CASE Shape[i] = "reel" /\ k + 1 < Len(R)
    <3>1. f[2] = 0
      <4>1. \A j \in 1..(Len(R) - 1) : R[j] = <<R[j][1], 0>>
        BY <1>3, <2>5 DEF Routed
      <4>2. k + 1 \in 1..(Len(R) - 1)
        BY <1>2, <1>3, <2>5
      <4>3. f = <<f[1], 0>>
        BY <1>2, <4>1, <4>2
      <4>4. QED BY <4>3
    <3>2. QED BY <1>2, <1>3, <2>1, <2>2, <2>5, <3>1 DEF Lists
  <2>6. CASE Shape[i] = "reel" /\ k + 1 = Len(R)
    <3>1. f = <<"final", 1>>
      BY <1>2, <1>3, <2>6 DEF Routed
    <3>2. wrote'[r] = Append(wrote[r], FileOf(f))
      BY <2>2, <3>1
    <3>3. Len(wrote[r]) = 0
      BY <1>2, <2>1, <2>6 DEF Lists
    <3>4. wrote'[r] \in Seq(MediaNames) /\ Len(wrote'[r]) = 1 /\ wrote'[r][1] = FileOf(f)
      BY <2>1, <2>3, <3>2, <3>3
    <3>5. QED BY <1>2, <1>3, <2>6, <3>4 DEF Lists
  <2>7. QED BY <1>2, <1>3, <2>4, <2>5, <2>6
<1>9. Renders(r, i)'
  <2>1. todo'[r] = Tail(todo[r]) /\ Len(todo[r]) \in Nat
    <3>1. todo[r] \in Seq(Roles \X Nat)
      BY DEF MediaTyped
    <3>2. QED BY <1>1, <3>1 DEF MediaTyped
  <2>2. Written(r, i)' = Len(R) - Len(Tail(todo[r]))
    BY <1>3, <2>1 DEF Written
  <2>3. k = Len(R) - Len(todo[r]) /\ Len(todo[r]) <= Len(R)
    BY <1>1, <1>w DEF Written, Renders
  <2>t. Len(Tail(todo[r])) = Len(todo[r]) - 1 /\ Len(R) \in Nat
    BY <1>2, <1>3
  <2>4. Written(r, i)' = k + 1 /\ Len(todo'[r]) <= Len(R)
    <3>1. Written(r, i)' = k + 1
      <4>1. Written(r, i)' = Len(R) - (Len(todo[r]) - 1)
        BY <2>2, <2>t, Zenon
      <4>2. Len(R) - (Len(todo[r]) - 1) = (Len(R) - Len(todo[r])) + 1
        BY <2>1, <2>t, OneFurther, Zenon
      <4>3. QED BY <4>1, <4>2, <2>3, Zenon
    <3>2. Len(todo'[r]) <= Len(R)
      BY <2>1, <2>3, <2>t
    <3>3. QED BY <3>1, <3>2
  <2>5. progress'[i] = "rendering" /\ seen'[r] = version'[i]
    BY <1>1 DEF Renders
  <2>6. \A j \in 1..Len(todo'[r]) : todo'[r][j] = R[k + 1 + j]
    BY <1>2, <2>1
  <2>7. QED BY <1>3, <1>7, <1>8, <2>4, <2>5, <2>6 DEF Renders
<1>10. ASSUME NEW q \in Renderers, NEW p \in Pieces, job'[q] = p PROVE Renders(q, p)'
  <2>1. CASE q = r
    BY <1>0, <1>1, <1>9, <1>10, <2>1
  <2>2. CASE q # r
    <3>1. job[q] = p /\ p # i /\ Renders(q, p)
      BY <1>0, <1>1, <1>10, <2>2, MediaAssumption DEF MediaSound
    <3>2. todo'[q] = todo[q] /\ wrote'[q] = wrote[q]
      BY <1>1, <2>2 DEF MediaTyped
    <3>3. QED BY <1>1, <1>6, <3>1, <3>2, PieceStays
  <2>3. QED BY <2>1, <2>2
<1>11. ASSUME NEW p \in Pieces, progress'[p] = "rendered" PROVE Rendered(p)'
  <2>1. p # i /\ Rendered(p)
    BY <1>1, <1>11 DEF MediaSound, Renders
  <2>2. QED BY <1>1, <1>6, <2>1, PieceStays
<1>12. QED BY <1>1, <1>10, <1>11 DEF MediaSound

\* A death or a throw leaves the files as they are.
LEMMA LeaveSound ==
  ASSUME MediaTyped, MediaSound, NEW r \in Renderers, RenderFails(r)
  PROVE  MediaSound'
<1>1. /\ \A q \in Renderers : job'[q] = IF q = r THEN NoPiece ELSE job[q]
      /\ UNCHANGED <<version, beats, progress, assets, disk, todo, wrote, seen>>
  BY DEF RenderFails, LeaveRender, MediaTyped
<1>2. ASSUME NEW q \in Renderers, NEW p \in Pieces, job'[q] = p PROVE Renders(q, p)'
  <2>1. Renders(q, p)
    BY <1>1, <1>2, MediaAssumption DEF MediaSound
  <2>2. QED BY <1>1, <2>1, PieceStays
<1>3. ASSUME NEW p \in Pieces, progress'[p] = "rendered" PROVE Rendered(p)'
  BY <1>1, <1>3, PieceStays DEF MediaSound
<1>4. ASSUME NEW q \in Renderers, NEW p \in Renderers, job'[q] = job'[p], job'[p] # NoPiece
      PROVE  q = p
  BY <1>1, <1>4 DEF MediaSound
<1>5. QED BY <1>2, <1>3, <1>4 DEF MediaSound

\* The last file is written when the item lists them.
LEMMA FinishSound ==
  ASSUME MediaTyped, MediaSound, NEW r \in Renderers, FinishRender(r)
  PROVE  MediaSound'
<1>0. PICK i \in Pieces : i = job[r]
  BY DEF FinishRender, MediaTyped
<1>1. Renders(r, i) /\ todo[r] = <<>> /\ progress[i] = "rendering"
  BY <1>0 DEF FinishRender, MediaSound, Renders
<1>2. /\ \A q \in Renderers : job'[q] = IF q = r THEN NoPiece ELSE job[q]
      /\ \A p \in Pieces : progress'[p] = IF p = i THEN "rendered" ELSE progress[p]
      /\ \A p \in Pieces : assets'[p] = IF p = i THEN wrote[r] ELSE assets[p]
      /\ UNCHANGED <<version, beats, disk, todo, wrote, seen>>
  BY <1>0, <1>1 DEF FinishRender, LeaveRender, MediaTyped
<1>3. Rendered(i)'
  <2>1. Written(r, i) = Len(Route(i)) /\ Route(i)' = Route(i)
    BY <1>1, <1>2, RouteOfTheDraft DEF Written, Route
  <2>2. \A j \in 1..Len(Route(i)) : OnDisk(i, j)'
    BY <1>1, <1>2, <2>1, PieceStays DEF Renders
  <2>3. Lists(i, wrote[r], Len(Route(i)))
    BY <1>1, <2>1 DEF Renders
  <2>4. Lists(i, assets[i], Len(Route(i)))'
    BY <1>2, <2>1, <2>3 DEF Lists
  <2>5. QED BY <2>1, <2>2, <2>4 DEF Rendered
<1>4. ASSUME NEW q \in Renderers, NEW p \in Pieces, job'[q] = p PROVE Renders(q, p)'
  <2>1. q # r /\ job[q] = p /\ p # i /\ Renders(q, p)
    BY <1>0, <1>2, <1>4, MediaAssumption DEF MediaSound
  <2>2. QED BY <1>2, <2>1, PieceStays
<1>5. ASSUME NEW p \in Pieces, progress'[p] = "rendered" PROVE Rendered(p)'
  <2>1. CASE p = i
    BY <1>3, <2>1
  <2>2. CASE p # i
    BY <1>2, <1>5, <2>2, PieceStays DEF MediaSound
  <2>3. QED BY <2>1, <2>2
<1>6. ASSUME NEW q \in Renderers, NEW p \in Renderers, job'[q] = job'[p], job'[p] # NoPiece
      PROVE  q = p
  BY <1>2, <1>6 DEF MediaSound
<1>7. QED BY <1>4, <1>5, <1>6 DEF MediaSound

\* Only a rendered piece is drafted again, and nobody is on one.
LEMMA RedraftSound ==
  ASSUME MediaTyped, MediaSound, NEW i \in Pieces, NEW n, DraftAgain(i, n)
  PROVE  MediaSound'
<1>1. progress[i] = "rendered" /\ \A q \in Renderers : job[q] # i
  BY DEF DraftAgain, MediaSound, Renders
<1>2. /\ \A p \in Pieces : p # i => version'[p] = version[p] /\ beats'[p] = beats[p]
                                     /\ progress'[p] = progress[p]
      /\ progress'[i] = "drafted"
      /\ UNCHANGED <<assets, disk, job, todo, wrote, seen>>
  BY DEF DraftAgain, MediaTyped
<1>3. ASSUME NEW q \in Renderers, NEW p \in Pieces, job'[q] = p PROVE Renders(q, p)'
  <2>1. p # i /\ Renders(q, p)
    BY <1>1, <1>2, <1>3 DEF MediaSound
  <2>2. QED BY <1>2, <2>1, PieceStays
<1>4. ASSUME NEW p \in Pieces, progress'[p] = "rendered" PROVE Rendered(p)'
  <2>1. p # i /\ Rendered(p)
    BY <1>2, <1>4 DEF MediaSound
  <2>2. QED BY <1>2, <2>1, PieceStays
<1>5. QED BY <1>2, <1>3, <1>4 DEF MediaSound

\* The files of a render and its listing, at every step.
THEOREM MediaInvariant == MediaSpec => []MediaInv
<1>1. MediaInit => MediaInv
  <2> SUFFICES ASSUME MediaInit PROVE MediaInv
    OBVIOUS
  <2>1. beats \in [Pieces -> Nat]
    <3>1. beats \in [Pieces -> BeatCounts \cup {0}]
      BY DEF MediaInit
    <3>2. BeatCounts \cup {0} \subseteq Nat
      BY MediaAssumption
    <3>3. QED BY <3>1, <3>2
  <2>2. MediaTyped
    <3>1. DOMAIN assets = Pieces /\ disk = [x \in DOMAIN disk |-> disk[x]] /\ crossed \in BOOLEAN
      BY DEF MediaInit
    <3>2. /\ version \in [Pieces -> Nat] /\ seen \in [Renderers -> Nat]
          /\ progress \in [Pieces -> {"drafted", "rendering", "rendered"}]
          /\ job \in [Renderers -> Pieces \cup {NoPiece}]
      BY DEF MediaInit
    <3>3. todo \in [Renderers -> Seq(Roles \X Nat)] /\ wrote \in [Renderers -> Seq(MediaNames)]
      BY DEF MediaInit
    <3>4. QED BY <2>1, <3>1, <3>2, <3>3 DEF MediaTyped
  <2>3. MediaSound
    BY MediaAssumption DEF MediaInit, MediaSound
  <2>4. QED BY <2>2, <2>3 DEF MediaInv
<1>2. MediaInv /\ [MediaNext]_mediaVars => MediaInv'
  <2> SUFFICES ASSUME MediaInv, [MediaNext]_mediaVars, ~crossed' PROVE MediaSound'
    BY TypedSteps DEF MediaInv
  <2>1. MediaTyped
    BY DEF MediaInv
  <2>2. ASSUME NEW r \in Renderers, NEW i \in Pieces, StartRender(r, i) PROVE MediaSound'
    <3>1. ~crossed
      BY <2>2 DEF StartRender
    <3>2. QED BY <2>1, <2>2, <3>1, StartSound DEF MediaInv
  <2>3. ASSUME NEW r \in Renderers, StageStill(r) PROVE MediaSound'
    BY <2>1, <2>3, StillSound DEF MediaInv, StageStill
  <2>4. ASSUME NEW r \in Renderers, WriteFile(r) PROVE MediaSound'
    <3>1. crossed' = crossed
      BY <2>4 DEF WriteFile
    <3>2. QED BY <2>1, <2>4, <3>1, WriteSound DEF MediaInv
  <2>5. ASSUME NEW r \in Renderers, RenderFails(r) PROVE MediaSound'
    BY <2>1, <2>5, LeaveSound DEF MediaInv, RenderFails
  <2>6. ASSUME NEW r \in Renderers, FinishRender(r) PROVE MediaSound'
    <3>1. crossed' = crossed
      BY <2>6 DEF FinishRender
    <3>2. QED BY <2>1, <2>6, <3>1, FinishSound DEF MediaInv
  <2>7. ASSUME NEW i \in Pieces, NEW n \in Drafted(i), DraftAgain(i, n) PROVE MediaSound'
    BY <2>1, <2>7, RedraftSound DEF MediaInv, DraftAgain
  <2>8. CASE UNCHANGED mediaVars
    <3>1. MediaSound /\ UNCHANGED <<version, beats, progress, assets, disk, job, todo, wrote, seen>>
      BY <2>8 DEF MediaInv, mediaVars
    <3>2. QED BY <2>1, <3>1, PieceStays DEF MediaSound
  <2>9. QED BY <2>2, <2>3, <2>4, <2>5, <2>6, <2>7, <2>8 DEF MediaNext
<1>3. QED BY <1>1, <1>2, PTL DEF MediaSpec

\* Whatever deaths, failed renders and longer earlier decks left in the assets
\* directory, a rendered item lists files of its current draft, and a carousel a
\* deck Instagram takes, unless two workers were on one item (renderStage).
THEOREM ListingsTellTheDraft == MediaSpec => []MediaIsOfTheDraft
<1>1. MediaInv => MediaIsOfTheDraft
  <2> SUFFICES ASSUME MediaInv, NEW i \in Pieces, progress[i] = "rendered", ~crossed
               PROVE  /\ assets[i] # <<>>
                      /\ \A k \in DOMAIN assets[i] : disk[<<i, assets[i][k]>>].draft = version[i]
                      /\ Shape[i] = "carousel" =>
                           IsDeck([k \in DOMAIN assets[i] |-> disk[<<i, assets[i][k]>>].role])
    BY DEF MediaIsOfTheDraft
  <2>1. /\ Rendered(i) /\ Routed(i, Route(i)) /\ Len(Route(i)) \in Nat /\ Len(Route(i)) >= 1
    BY RouteOfTheDraft DEF MediaInv, MediaSound, Routed
  <2> DEFINE names == assets[i]
             R     == Route(i)
  <2>2. names \in Seq(MediaNames)
    BY <2>1 DEF Rendered, Lists
  <2>3. ASSUME NEW k \in 1..Len(R), R[k][1] # "still"
        PROVE  disk[<<i, FileOf(R[k])>>] = [draft |-> version[i], role |-> R[k][1]]
    BY <2>1, <2>3 DEF Rendered, OnDisk
  <2>4. CASE Shape[i] = "reel"
    <3>1. R[Len(R)] = <<"final", 1>> /\ R[Len(R)][1] # "still"
      <4>1. R[Len(R)] = <<"final", 1>>
        BY <2>1, <2>4 DEF Routed
      <4>2. QED BY <4>1
    <3>2. Len(names) = 1 /\ names[1] = FileOf(R[Len(R)])
      BY <2>1, <2>4 DEF Rendered, Lists
    <3>3. Len(R) \in 1..Len(R)
      BY <2>1
    <3>4. disk[<<i, names[1]>>].draft = version[i]
      <4>1. disk[<<i, names[1]>>] = [draft |-> version[i], role |-> R[Len(R)][1]]
        BY <2>3, <3>1, <3>2, <3>3
      <4>2. QED BY <4>1
    <3> HIDE DEF names, R
    <3>5. names # <<>> /\ \A k \in DOMAIN names : k = 1
      <4>1. DOMAIN names = 1..1
        BY <2>2, <3>2
      <4>2. QED BY <3>2, <4>1
    <3>6. QED BY <2>4, <3>4, <3>5 DEF names
  <2>5. CASE Shape[i] # "reel"
    <3>1. /\ Len(names) = Len(R) /\ \A k \in 1..Len(R) : names[k] = FileOf(R[k])
          /\ \A k \in 1..Len(R) : R[k][1] # "still"
      BY <2>1, <2>5 DEF Rendered, Lists, Routed
    <3>2. \A k \in 1..Len(R) : disk[<<i, names[k]>>] = [draft |-> version[i], role |-> R[k][1]]
      BY <2>3, <3>1
    <3>3. DOMAIN names = 1..Len(R) /\ names # <<>> /\ DOMAIN R = 1..Len(R)
      <4>1. R \in Seq(Roles \X Nat)
        BY <2>1 DEF Routed
      <4> HIDE DEF names, R
      <4>2. QED BY <2>1, <2>2, <3>1, <4>1 DEF R
    <3>4. \A k \in DOMAIN names : disk[<<i, names[k]>>].draft = version[i]
      <4>1. ASSUME NEW k \in DOMAIN names PROVE disk[<<i, names[k]>>].draft = version[i]
        <5>1. disk[<<i, names[k]>>] = [draft |-> version[i], role |-> R[k][1]]
          BY <3>2, <3>3
        <5>2. QED BY <5>1
      <4>2. QED BY <4>1
    <3>5. [k \in DOMAIN names |-> disk[<<i, names[k]>>].role] = [k \in DOMAIN R |-> R[k][1]]
      <4>1. ASSUME NEW k \in DOMAIN names PROVE disk[<<i, names[k]>>].role = R[k][1]
        <5>1. disk[<<i, names[k]>>] = [draft |-> version[i], role |-> R[k][1]]
          BY <3>2, <3>3
        <5>2. QED BY <5>1
      <4>2. QED BY <3>3, <4>1
    <3>6. Shape[i] = "carousel" => IsDeck([k \in DOMAIN R |-> R[k][1]])
      BY <2>1 DEF Routed
    <3> HIDE DEF R
    <3>7. Shape[i] = "carousel" => IsDeck([k \in DOMAIN names |-> disk[<<i, names[k]>>].role])
      BY <3>5, <3>6
    <3>8. QED BY <3>3, <3>4, <3>7
  <2>6. QED BY <2>4, <2>5
<1>2. QED BY <1>1, MediaInvariant, PTL

-----------------------------------------------------------------------------
(* Planner, for any ideas, cadence and horizon.  A plan fills each slot    *)
(* that it may, day by day, so it is enough that every slot is good after  *)
(* good shells: by least counterexample, for no induction over data can be *)
(* had.  What a run stores is therefore later than all that was stored     *)
(* before, and its last shell of an idea has the latest date of it.        *)

\* The least of some naturals.
LEMMA LeastNat ==
  ASSUME NEW T, T \subseteq Nat, T # {}
  PROVE  \E x \in T : \A y \in T : x <= y
<1> DEFINE R == OpToRel(<, Nat)
<1>1. \A x, y \in Nat : <<x, y>> \in R <=> x < y
  BY DEF OpToRel
<1>2. IsWellFoundedOn(R, Nat)
  BY NatLessThanWellFounded
<1> HIDE DEF R
<1>3. PICK x \in T : \A y \in T : ~(<<y, x>> \in R)
  BY <1>2, WFMin
<1>4. ASSUME NEW y \in T PROVE x <= y
  <2>1. x \in Nat /\ y \in Nat /\ ~(y < x)
    BY <1>1, <1>3
  <2>2. QED BY <2>1
<1>5. QED BY <1>4

\* A relation that orders a finite set numbers its elements.
LEMMA Ranked ==
  ASSUME NEW S, IsFiniteSet(S), NEW R,
         \A i \in S : <<i, i>> \notin R,
         \A i, j \in S : i # j => <<i, j>> \in R \/ <<j, i>> \in R,
         \A i, j, l \in S : <<i, j>> \in R /\ <<j, l>> \in R => <<i, l>> \in R,
         NEW place, place = [i \in S |-> 1 + Cardinality({j \in S : <<j, i>> \in R})]
  PROVE  /\ place \in Bijection(S, 1..Cardinality(S))
         /\ \A i, j \in S : <<i, j>> \in R => place[i] < place[j]
<1> DEFINE Ahead(i) == {j \in S : <<j, i>> \in R}
           n == Cardinality(S)
<1>1. n \in Nat
  BY FS_CardinalityType
<1>2. ASSUME NEW i \in S PROVE place[i] \in 1..n /\ IsFiniteSet(Ahead(i)) /\ Cardinality(Ahead(i)) \in Nat
  <2>1. Ahead(i) \in SUBSET (S \ {i})
    OBVIOUS
  <2>2. IsFiniteSet(S \ {i}) /\ Cardinality(S \ {i}) = n - 1
    BY FS_RemoveElement
  <2>3. IsFiniteSet(Ahead(i)) /\ Cardinality(Ahead(i)) <= n - 1
    <3> HIDE DEF Ahead, n
    <3>1. IsFiniteSet(Ahead(i)) /\ Cardinality(Ahead(i)) <= Cardinality(S \ {i})
      BY <2>1, <2>2, FS_Subset
    <3>2. QED BY <2>2, <3>1
  <2>4. Cardinality(Ahead(i)) \in Nat
    BY <2>3, FS_CardinalityType
  <2>5. place[i] = 1 + Cardinality(Ahead(i))
    OBVIOUS
  <2> HIDE DEF Ahead, n
  <2>6. QED BY <1>1, <2>3, <2>4, <2>5
<1>3. ASSUME NEW i \in S, NEW j \in S, <<i, j>> \in R PROVE place[i] < place[j]
  <2>1. i \notin Ahead(i) /\ Ahead(i) \cup {i} \in SUBSET Ahead(j)
    BY <1>3
  <2>2. IsFiniteSet(Ahead(i)) /\ IsFiniteSet(Ahead(j)) /\ Cardinality(Ahead(i)) \in Nat
        /\ Cardinality(Ahead(j)) \in Nat
    BY <1>2
  <2>3. place[i] = 1 + Cardinality(Ahead(i)) /\ place[j] = 1 + Cardinality(Ahead(j))
    OBVIOUS
  <2> HIDE DEF Ahead
  <2>4. Cardinality(Ahead(i) \cup {i}) = Cardinality(Ahead(i)) + 1
    BY <2>1, <2>2, FS_AddElement
  <2>5. Cardinality(Ahead(i) \cup {i}) <= Cardinality(Ahead(j))
    BY <2>1, <2>2, FS_Subset
  <2>6. QED BY <2>2, <2>3, <2>4, <2>5
<1>4. place \in Injection(S, 1..n)
  <2>1. place \in [S -> 1..n]
    BY <1>2
  <2>2. ASSUME NEW i \in S, NEW j \in S, i # j PROVE place[i] # place[j]
    <3>1. place[i] \in Nat /\ place[j] \in Nat
      <4>1. place[i] \in 1..n /\ place[j] \in 1..n
        BY <1>2
      <4> HIDE DEF n
      <4>2. QED BY <1>1, <4>1
    <3>2. (<<i, j>> \in R) \/ (<<j, i>> \in R)
      BY <2>2
    <3>3. place[i] < place[j] \/ place[j] < place[i]
      BY <1>3, <3>2
    <3> HIDE DEF Ahead
    <3>4. QED BY <3>1, <3>3
  <2>3. DOMAIN place = S
    BY <2>1
  <2>4. IsInjective(place)
    BY <2>2, <2>3 DEF IsInjective
  <2>5. QED BY <2>1, <2>4 DEF Injection
<1>5. IsFiniteSet(1..n) /\ Cardinality(1..n) = n
  BY <1>1, FS_Interval
<1>6. place \in Surjection(S, 1..n)
  BY <1>4, <1>5, FS_Injection
<1>7. QED BY <1>3, <1>4, <1>6 DEF Bijection

\* The accounts a day is planned for.
Platforms == {"instagram", "tiktok"}

\* What the planner may find: a list it was given and a recency of its ideas.
IdeasRead == /\ IsFiniteSet(DOMAIN ideas) /\ DOMAIN ideas \subseteq Int
             /\ \A i \in DOMAIN ideas : ideas[i].score \in Int

\* What the run remembers of the last uses.
Dates == [DOMAIN ideas -> Nat]

\* The shells a slot gets.
Room(platform) == IF Cardinality(Pool(platform)) < candidatesPerSlot
                    THEN Cardinality(Pool(platform)) ELSE candidatesPerSlot

\* A strict order of all of a set.
Orders(S, R) == /\ \A i \in S : <<i, i>> \notin R
                /\ \A i, j \in S : i # j => <<i, j>> \in R \/ <<j, i>> \in R
                /\ \A i, j, l \in S : <<i, j>> \in R /\ <<j, l>> \in R => <<i, l>> \in R

\* The sort of a pool has no ties and no rounds.
LEMMA ScoredOrders ==
  ASSUME IdeasRead, NEW platform, NEW date \in Nat, NEW recency \in Dates
  PROVE  Orders(Pool(platform), Scored(platform, date, recency))
<1> DEFINE format  == formatForSlot(platform, isoWeekday(date))
           rank(i) == formatPreferenceRank(i, format)
           s(i)    == ideas[i].score * recencyPenalty(recency[i], date)
           P       == Pool(platform)
<1>1. ASSUME NEW i \in P PROVE rank(i) \in Int
  BY DEF formatPreferenceRank
<1>2. ASSUME NEW i \in P PROVE s(i) \in Int /\ i \in Int
  <2>1. i \in DOMAIN ideas
    BY DEF Pool
  <2>2. ideas[i].score \in Int /\ i \in Int /\ recency[i] \in Nat
    BY <2>1 DEF IdeasRead, Dates
  <2>3. recencyPenalty(recency[i], date) \in Int
    BY <2>2 DEF recencyPenalty
  <2>4. QED BY <2>2, <2>3
<1>3. \A i, j \in P : <<i, j>> \in Scored(platform, date, recency) <=>
        \/ rank(i) < rank(j)
        \/ rank(i) = rank(j) /\ s(i) > s(j)
        \/ rank(i) = rank(j) /\ s(i) = s(j) /\ i < j
  BY DEF Scored
<1> HIDE DEF format, rank, s, P
<1>4. \A i \in P : <<i, i>> \notin Scored(platform, date, recency)
  BY <1>1, <1>2, <1>3
<1>5. \A i, j \in P : i # j => \/ <<i, j>> \in Scored(platform, date, recency)
                               \/ <<j, i>> \in Scored(platform, date, recency)
  BY <1>1, <1>2, <1>3
<1>6. ASSUME NEW i \in P, NEW j \in P, NEW l \in P,
             <<i, j>> \in Scored(platform, date, recency),
             <<j, l>> \in Scored(platform, date, recency)
      PROVE  <<i, l>> \in Scored(platform, date, recency)
  BY <1>1, <1>2, <1>3, <1>6
<1>7. QED BY <1>4, <1>5, <1>6 DEF Orders, P

\* Nor has the preference for what is new to the run.
LEMMA PreferredOrders ==
  ASSUME NEW platform, NEW scored, Orders(Pool(platform), scored), NEW used
  PROVE  Orders(Pool(platform), Preferred(platform, scored, used))
<1> DEFINE P == Pool(platform)
<1>1. \A i, j \in P : <<i, j>> \in Preferred(platform, scored, used) <=>
        \/ i \notin used /\ j \in used
        \/ (i \in used <=> j \in used) /\ <<i, j>> \in scored
  BY DEF Preferred
<1> HIDE DEF P
<1>2. QED BY <1>1 DEF Orders, P

\* What a shell may be.
Shells == [date : Nat, platform : Platforms, k : Nat, idea : DOMAIN ideas, reused : BOOLEAN]

\* The candidates of one slot: one a place, of different ideas, none that the run
\* has used while one is left that it has not.
GoodSlot(chosen, platform, date, used) ==
  /\ chosen \in Seq(Shells) /\ Len(chosen) = Room(platform)
  /\ \A k \in 1..Len(chosen) :
       /\ chosen[k].date = date /\ chosen[k].platform = platform /\ chosen[k].k = k
       /\ chosen[k].idea \in Pool(platform)
       /\ chosen[k].idea \in used =>
            /\ chosen[k].reused
            /\ \A i \in Pool(platform) \ used : \E l \in 1..(k - 1) : chosen[l].idea = i
  /\ \A j, k \in 1..Len(chosen) : chosen[j].idea = chosen[k].idea => j = k

\* The places of a slot.
LEMMA RoomIsNat ==
  ASSUME IdeasRead, NEW platform
  PROVE  /\ IsFiniteSet(Pool(platform)) /\ Cardinality(Pool(platform)) \in Nat
         /\ Room(platform) \in Nat /\ Room(platform) <= Cardinality(Pool(platform))
<1>1. IsFiniteSet(Pool(platform)) /\ Cardinality(Pool(platform)) \in Nat
  BY FS_Subset, FS_CardinalityType DEF IdeasRead, Pool
<1>2. QED BY <1>1, PlannerAssumption DEF Room

\* The candidates of every slot are as they should be.
LEMMA SlotIsGood ==
  ASSUME IdeasRead, NEW platform \in Platforms, NEW date \in Nat,
         NEW week, week.recency \in Dates
  PROVE  GoodSlot(Chosen(platform, date, week), platform, date, week.used)
<1> DEFINE P      == Pool(platform)
           n      == Room(platform)
           used   == week.used
           scored == Scored(platform, date, week.recency)
           order  == Preferred(platform, scored, used)
           place  == [i \in P |-> 1 + Cardinality({j \in P : <<j, i>> \in order})]
           at(k)  == CHOOSE j \in P : place[j] = k
           chosen == Chosen(platform, date, week)
<1>1. n \in Nat /\ n <= Cardinality(P) /\ IsFiniteSet(P) /\ Cardinality(P) \in Nat
  BY RoomIsNat
<1>2. Orders(P, order)
  BY ScoredOrders, PreferredOrders
<1>3. /\ place \in Bijection(P, 1..Cardinality(P))
      /\ \A i, j \in P : <<i, j>> \in order => place[i] < place[j]
  <2> HIDE DEF order, P
  <2>1. QED BY <1>1, <1>2, Ranked DEF Orders
<1>4. \A i, j \in P : i \notin used /\ j \in used => <<i, j>> \in order
  BY DEF Preferred
<1>5. chosen = [k \in 1..n |-> [date |-> date, platform |-> platform, k |-> k,
                              idea |-> at(k), reused |-> at(k) \in used]]
  BY DEF Chosen, Picks, Room
<1> HIDE DEF place, order, chosen, n
<1>6. /\ \A k \in 1..n : \E j \in P : place[j] = k
      /\ \A i, j \in P : place[i] = place[j] => i = j
      /\ \A i \in P : place[i] \in 1..Cardinality(P)
  BY <1>1, <1>3 DEF Bijection, Injection, Surjection, IsInjective
<1>7. ASSUME NEW k \in 1..n PROVE at(k) \in P /\ place[at(k)] = k
  BY <1>6
<1> HIDE DEF at
<1>8. P \subseteq DOMAIN ideas
  BY DEF Pool
<1>9. chosen \in Seq(Shells) /\ Len(chosen) = n
  <2>1. ASSUME NEW k \in 1..n
        PROVE  [date |-> date, platform |-> platform, k |-> k,
                idea |-> at(k), reused |-> at(k) \in used] \in Shells
    <3>1. at(k) \in DOMAIN ideas /\ k \in Nat /\ (at(k) \in used) \in BOOLEAN
      BY <1>1, <1>7, <1>8
    <3>2. QED BY <3>1, Zenon DEF Shells
  <2>2. QED BY <1>1, <1>5, <2>1
<1>10. ASSUME NEW k \in 1..n
       PROVE  /\ chosen[k].date = date /\ chosen[k].platform = platform /\ chosen[k].k = k
              /\ chosen[k].idea = at(k) /\ chosen[k].reused = (at(k) \in used)
  BY <1>5, Zenon
<1>11. ASSUME NEW k \in 1..n, at(k) \in used, NEW i \in P \ used
       PROVE  \E l \in 1..(k - 1) : chosen[l].idea = i
  <2>1. place[i] < k
    BY <1>3, <1>4, <1>7, <1>11
  <2>2. place[i] \in 1..n /\ place[i] \in 1..(k - 1)
    BY <1>1, <1>6, <2>1
  <2>3. at(place[i]) = i
    BY <1>6, <1>7, <2>2
  <2>4. QED BY <1>10, <2>2, <2>3
<1>12. ASSUME NEW j \in 1..n, NEW k \in 1..n, chosen[j].idea = chosen[k].idea PROVE j = k
  BY <1>7, <1>10, <1>12
<1>13. ASSUME NEW k \in 1..n, chosen[k].idea \in used
       PROVE  /\ chosen[k].reused
              /\ \A i \in P \ used : \E l \in 1..(k - 1) : chosen[l].idea = i
  <2>1. at(k) \in used
    BY <1>10, <1>13
  <2>2. chosen[k].reused
    BY <1>10, <2>1, Zenon
  <2>3. QED BY <1>11, <2>1, <2>2
<1>14. \A k \in 1..Len(chosen) :
         /\ chosen[k].date = date /\ chosen[k].platform = platform /\ chosen[k].k = k
         /\ chosen[k].idea \in P
         /\ chosen[k].idea \in used =>
              /\ chosen[k].reused
              /\ \A i \in P \ used : \E l \in 1..(k - 1) : chosen[l].idea = i
  <2>1. ASSUME NEW k \in 1..n PROVE chosen[k].idea \in P
    BY <1>7, <1>10
  <2>2. QED BY <1>9, <1>10, <1>13, <2>1
<1>15. \A j, k \in 1..Len(chosen) : chosen[j].idea = chosen[k].idea => j = k
  BY <1>9, <1>12
<1> HIDE DEF P, used
<1>16. GoodSlot(chosen, platform, date, used)
  BY <1>9, <1>14, <1>15 DEF GoodSlot, n, P
<1>17. QED BY <1>16 DEF chosen, used

\* ReuseIsLastResort of any shells.
LastResort(shells) ==
  \A n \in 1..Len(shells) : \A m \in 1..(n - 1) :
    shells[m].idea = shells[n].idea =>
      /\ <<shells[m].date, shells[m].platform>> # <<shells[n].date, shells[n].platform>>
      /\ shells[n].reused
      /\ \A i \in Pool(shells[n].platform) : \E l \in 1..(n - 1) : shells[l].idea = i

\* Shells that fill the slots of done, in the order of their dates.
GoodShells(shells, done, last) ==
  /\ shells \in Seq(Shells)
  /\ \A n \in 1..Len(shells) : /\ <<shells[n].date, shells[n].platform>> \in done
                               /\ shells[n].date <= last
                               /\ shells[n].k \in 1..Room(shells[n].platform)
  /\ \A x \in done : \A k \in 1..Room(x[2]) : \E n \in 1..Len(shells) :
       shells[n].date = x[1] /\ shells[n].platform = x[2] /\ shells[n].k = k
  /\ \A m, n \in 1..Len(shells) : m <= n => shells[m].date <= shells[n].date
  /\ LastResort(shells)

\* The ideas of some shells.
UsedIn(shells) == {shells[n].idea : n \in 1..Len(shells)}

\* Good shells stay good with the candidates of one slot more.
LEMMA SlotAdded ==
  ASSUME IdeasRead, NEW s, NEW c, NEW done, NEW last \in Nat, NEW platform \in Platforms,
         NEW date \in Nat, NEW used,
         GoodShells(s, done, last), used = UsedIn(s),
         GoodSlot(c, platform, date, used), last <= date, <<date, platform>> \notin done
  PROVE  /\ GoodShells(s \o c, done \cup {<<date, platform>>}, date)
         /\ used \cup UsedIn(c) = UsedIn(s \o c)
<1> DEFINE t == s \o c
           L == Len(s)
           M == Len(c)
<1>1. s \in Seq(Shells) /\ c \in Seq(Shells) /\ M = Room(platform)
  BY DEF GoodShells, GoodSlot
<1>2. /\ t \in Seq(Shells) /\ Len(t) = L + M
      /\ \A n \in 1..(L + M) : t[n] = IF n <= L THEN s[n] ELSE c[n - L]
  BY <1>1, ConcatProperties
<1>3. L \in Nat /\ M \in Nat
  BY <1>1
<1> HIDE DEF t, L, M
<1>4. /\ \A n \in 1..L : t[n] = s[n] /\ n \in 1..(L + M)
      /\ \A k \in 1..M : t[L + k] = c[k] /\ L + k \in 1..(L + M)
  <2>1. ASSUME NEW k \in 1..M PROVE t[L + k] = c[k] /\ L + k \in 1..(L + M)
    <3>1. L + k \in 1..(L + M) /\ ~(L + k <= L) /\ (L + k) - L = k
      BY <1>3
    <3>2. QED BY <1>2, <3>1
  <2>2. QED BY <1>2, <1>3, <2>1
<1>5. \A n \in 1..(L + M) : n \in 1..L \/ \E k \in 1..M : n = L + k
  <2>1. ASSUME NEW n \in 1..(L + M), n \notin 1..L PROVE \E k \in 1..M : n = L + k
    <3>1. n - L \in 1..M /\ n = L + (n - L)
      BY <1>3, <2>1
    <3>2. QED BY <3>1
  <2>2. QED BY <2>1
<1>6. /\ \A n \in 1..L : /\ <<s[n].date, s[n].platform>> \in done /\ s[n].date <= last
                        /\ s[n].k \in 1..Room(s[n].platform) /\ s[n].date \in Nat
      /\ \A x \in done : \A k \in 1..Room(x[2]) : \E n \in 1..L :
           s[n].date = x[1] /\ s[n].platform = x[2] /\ s[n].k = k
      /\ \A m, n \in 1..L : m <= n => s[m].date <= s[n].date
      /\ LastResort(s)
  <2>1. ASSUME NEW n \in 1..L PROVE s[n].date \in Nat
    <3>1. s[n] \in Shells
      BY <1>1, <2>1 DEF L
    <3>2. QED BY <3>1 DEF Shells
  <2>2. QED BY <2>1 DEF GoodShells, L
<1>f. \A k \in 1..M : c[k].date = date /\ c[k].platform = platform /\ c[k].k = k
  BY Zenon DEF GoodSlot, M
<1>u. \A k \in 1..M : c[k].idea \in used => c[k].reused
  BY Zenon DEF GoodSlot, M
<1>v. \A k \in 1..M : c[k].idea \in used =>
        \A i \in Pool(platform) \ used : \E l \in 1..(k - 1) : c[l].idea = i
  BY Zenon DEF GoodSlot, M
<1>7. \A j, k \in 1..M : c[j].idea = c[k].idea => j = k
  BY Zenon DEF GoodSlot, M
<1>8. used = {s[n].idea : n \in 1..L}
  BY DEF L, UsedIn
<1>a. used \cup {c[n].idea : n \in 1..M} = {t[n].idea : n \in 1..(L + M)}
  <2>1. ASSUME NEW i \in used \cup {c[n].idea : n \in 1..M}
        PROVE  \E n \in 1..(L + M) : t[n].idea = i
    BY <1>4, <1>8
  <2>2. ASSUME NEW n \in 1..(L + M) PROVE t[n].idea \in used \cup {c[k].idea : k \in 1..M}
    <3>1. CASE n \in 1..L
      BY <1>4, <1>8, <3>1
    <3>2. CASE n \notin 1..L
      <4>1. PICK k \in 1..M : n = L + k
        BY <1>5, <3>2
      <4>2. t[n].idea = c[k].idea
        BY <1>4, <4>1
      <4>3. QED BY <4>2
    <3>3. QED BY <3>1, <3>2
  <2>3. QED BY <2>1, <2>2
<1>9. \A n \in 1..(L + M) : /\ <<t[n].date, t[n].platform>> \in done \cup {<<date, platform>>}
                           /\ t[n].date <= date
                           /\ t[n].k \in 1..Room(t[n].platform)
  <2>1. ASSUME NEW n \in 1..L
        PROVE  /\ <<t[n].date, t[n].platform>> \in done \cup {<<date, platform>>}
               /\ t[n].date <= date
               /\ t[n].k \in 1..Room(t[n].platform)
    BY <1>4, <1>6
  <2>2. ASSUME NEW k \in 1..M
        PROVE  /\ <<t[L + k].date, t[L + k].platform>> \in done \cup {<<date, platform>>}
               /\ t[L + k].date <= date
               /\ t[L + k].k \in 1..Room(t[L + k].platform)
    <3>1. t[L + k] = c[k] /\ c[k].date = date /\ c[k].platform = platform /\ c[k].k = k
      BY <1>4, <1>f
    <3>2. k \in 1..Room(platform) /\ date <= date
      BY <1>1
    <3>3. QED BY <3>1, <3>2
  <2>3. QED BY <1>5, <2>1, <2>2
<1>10. ASSUME NEW x \in done \cup {<<date, platform>>}, NEW k \in 1..Room(x[2])
       PROVE  \E n \in 1..(L + M) : t[n].date = x[1] /\ t[n].platform = x[2] /\ t[n].k = k
  <2>1. CASE x \in done
    <3>1. PICK n \in 1..L : s[n].date = x[1] /\ s[n].platform = x[2] /\ s[n].k = k
      BY <1>6, <2>1
    <3>2. QED BY <1>4, <3>1
  <2>2. CASE x = <<date, platform>>
    <3>1. x[1] = date /\ x[2] = platform
      BY <2>2
    <3>2. k \in 1..M
      BY <1>1, <3>1
    <3>3. t[L + k] = c[k] /\ L + k \in 1..(L + M)
      BY <1>4, <3>2
    <3>4. QED BY <1>f, <3>1, <3>2, <3>3
  <2>3. QED BY <2>1, <2>2
<1>11. ASSUME NEW m \in 1..(L + M), NEW n \in 1..(L + M), m <= n PROVE t[m].date <= t[n].date
  <2>1. CASE n \in 1..L
    <3>1. m \in 1..L
      BY <1>3, <1>11, <2>1
    <3>2. QED BY <1>4, <1>6, <1>11, <2>1, <3>1
  <2>2. CASE n \notin 1..L
    <3>1. t[n].date = date
      <4>1. PICK k \in 1..M : n = L + k
        BY <1>5, <2>2
      <4>2. QED BY <1>4, <1>f, <4>1
    <3>2. t[m].date <= date
      BY <1>9
    <3>3. QED BY <3>1, <3>2
  <2>3. QED BY <2>1, <2>2
<1>12. ASSUME NEW n \in 1..(L + M), NEW m \in 1..(n - 1), t[m].idea = t[n].idea
       PROVE  /\ <<t[m].date, t[m].platform>> # <<t[n].date, t[n].platform>>
              /\ t[n].reused
              /\ \A i \in Pool(t[n].platform) : \E l \in 1..(n - 1) : t[l].idea = i
  <2>1. CASE n \in 1..L
    <3>1. /\ m \in 1..L /\ \A l \in 1..(n - 1) : l \in 1..L
      BY <1>3, <2>1
    <3>2. t[n] = s[n] /\ t[m] = s[m] /\ s[m].idea = s[n].idea
      BY <1>4, <1>12, <2>1, <3>1
    <3>3. /\ <<s[m].date, s[m].platform>> # <<s[n].date, s[n].platform>>
          /\ s[n].reused
          /\ \A i \in Pool(s[n].platform) : \E l \in 1..(n - 1) : s[l].idea = i
      BY <1>6, <2>1, <3>2 DEF LastResort, L
    <3>4. \A i \in Pool(s[n].platform) : \E l \in 1..(n - 1) : t[l].idea = i
      BY <1>4, <3>1, <3>3
    <3>5. QED BY <3>2, <3>3, <3>4
  <2>2. CASE n \notin 1..L
    <3>1. PICK k \in 1..M : n = L + k
      BY <1>5, <2>2
    <3>2. t[n] = c[k]
      BY <1>4, <3>1
    <3>3. m \in 1..L
      <4>1. m \in 1..(L + M)
        BY <1>3, <3>1
      <4>2. SUFFICES ASSUME m \notin 1..L PROVE FALSE
        OBVIOUS
      <4>3. PICK j \in 1..M : m = L + j
        BY <1>5, <4>1, <4>2
      <4>4. j = k
        BY <1>4, <1>7, <1>12, <3>2, <4>3
      <4>5. QED BY <1>3, <3>1, <4>3, <4>4
    <3>4. t[m] = s[m] /\ c[k].idea \in used
      BY <1>4, <1>8, <1>12, <3>2, <3>3
    <3>5. <<s[m].date, s[m].platform>> # <<c[k].date, c[k].platform>>
      <4>1. <<s[m].date, s[m].platform>> \in done
        BY <1>6, <3>3
      <4>2. <<c[k].date, c[k].platform>> = <<date, platform>>
        BY <1>f
      <4>3. QED BY <4>1, <4>2
    <3>6. c[k].reused /\ c[k].platform = platform
      BY <1>f, <1>u, <3>4
    <3>7. ASSUME NEW i \in Pool(platform) PROVE \E l \in 1..(n - 1) : t[l].idea = i
      <4>1. CASE i \in used
        <5>1. PICK l \in 1..L : s[l].idea = i
          BY <1>8, <4>1
        <5>2. t[l] = s[l] /\ l \in 1..(n - 1)
          BY <1>3, <1>4, <3>1
        <5>3. QED BY <5>1, <5>2
      <4>2. CASE i \notin used
        <5>1. PICK l \in 1..(k - 1) : c[l].idea = i
          BY <1>v, <3>4, <4>2
        <5>2. l \in 1..M /\ L + l \in 1..(n - 1)
          BY <1>3, <3>1
        <5>3. t[L + l] = c[l]
          BY <1>4, <5>2
        <5>4. QED BY <5>1, <5>2, <5>3
      <4>3. QED BY <4>1, <4>2
    <3>8. QED BY <3>2, <3>4, <3>5, <3>6, <3>7
  <2>3. QED BY <2>1, <2>2
<1>13. LastResort(t)
  BY <1>2, <1>12 DEF LastResort
<1>14. GoodShells(t, done \cup {<<date, platform>>}, date)
  BY <1>2, <1>9, <1>10, <1>11, <1>13 DEF GoodShells
<1>15. used \cup UsedIn(c) = UsedIn(t)
  BY <1>2, <1>a DEF UsedIn, M
<1>16. QED BY <1>14, <1>15 DEF t

\* What planWeek has in hand when the slots of done are planned.
GoodWeek(week, done, last) ==
  /\ GoodShells(week.shells, done, last)
  /\ week.used = UsedIn(week.shells)
  /\ week.recency \in Dates

\* planWeek's slot ...
LEMMA PlanSlotIsGood ==
  ASSUME IdeasRead, NEW week, NEW done, NEW last \in Nat, GoodWeek(week, done, last),
         NEW platform \in Platforms, NEW date \in Nat, last <= date,
         <<date, platform>> \notin done
  PROVE  GoodWeek(PlanSlot(week, platform, date), done \cup {<<date, platform>>}, date)
<1> DEFINE c == Chosen(platform, date, week)
           picked == {c[k].idea : k \in DOMAIN c}
           next == PlanSlot(week, platform, date)
<1>1. GoodSlot(c, platform, date, week.used)
  BY SlotIsGood DEF GoodWeek
<1>2. /\ next.shells = week.shells \o c /\ next.used = week.used \cup picked
      /\ next.recency = [i \in DOMAIN ideas |-> IF i \in picked THEN date ELSE week.recency[i]]
  BY DEF PlanSlot
<1> HIDE DEF c, next
<1>3. /\ GoodShells(week.shells \o c, done \cup {<<date, platform>>}, date)
      /\ week.used \cup UsedIn(c) = UsedIn(week.shells \o c)
  BY <1>1, SlotAdded DEF GoodWeek
<1>4. picked = UsedIn(c)
  <2>1. DOMAIN c = 1..Len(c)
    BY <1>1 DEF GoodSlot
  <2>2. QED BY <2>1 DEF UsedIn
<1> HIDE DEF picked
<1>5. next.recency \in Dates
  BY <1>2 DEF GoodWeek, Dates
<1>6. next.used = UsedIn(next.shells)
  BY <1>2, <1>3, <1>4
<1>7. GoodShells(next.shells, done \cup {<<date, platform>>}, date)
  BY <1>2, <1>3
<1>8. QED BY <1>5, <1>6, <1>7 DEF GoodWeek, next

\* The slots of n days of the horizon.
SlotsOf(date, n) ==
  {x \in ((date + 1)..(date + n)) \X Platforms : isoWeekday(x[1]) \notin QuietDays}

\* ... and its day.
LEMMA PlanDayIsGood ==
  ASSUME IdeasRead, NEW week, NEW date \in Nat, NEW n \in Nat, n # 0,
         GoodWeek(week, SlotsOf(date, n - 1), date + (n - 1))
  PROVE  GoodWeek(PlanDay(week, date + n), SlotsOf(date, n), date + n)
<1> DEFINE e == date + n
           done == SlotsOf(date, n - 1)
<1>0. /\ e \in Nat /\ date + (n - 1) \in Nat /\ date + (n - 1) <= e /\ e <= e
      /\ \A d : d \in (date + 1)..e <=> d \in (date + 1)..(date + (n - 1)) \/ d = e
      /\ e \notin (date + 1)..(date + (n - 1))
  OBVIOUS
<1>1. \A x : x \in SlotsOf(date, n) <=>
        \/ x \in done
        \/ isoWeekday(e) \notin QuietDays /\ x \in {<<e, "instagram">>, <<e, "tiktok">>}
  <2> HIDE DEF e
  <2>1. ASSUME NEW x, x \in SlotsOf(date, n), x \notin done
        PROVE  isoWeekday(e) \notin QuietDays /\ x \in {<<e, "instagram">>, <<e, "tiktok">>}
    <3>1. x \in ((date + 1)..e) \X Platforms /\ isoWeekday(x[1]) \notin QuietDays
      BY <2>1 DEF SlotsOf, e
    <3>2. x[1] = e
      BY <1>0, <2>1, <3>1 DEF SlotsOf
    <3>3. QED BY <3>1, <3>2 DEF Platforms
  <2>2. ASSUME NEW x, isoWeekday(e) \notin QuietDays, x \in {<<e, "instagram">>, <<e, "tiktok">>}
        PROVE  x \in SlotsOf(date, n)
    <3>1. x \in ((date + 1)..e) \X Platforms /\ x[1] = e
      BY <1>0, <2>2 DEF Platforms
    <3>2. QED BY <2>2, <3>1 DEF SlotsOf, e
  <2>3. done \subseteq SlotsOf(date, n)
    BY <1>0 DEF SlotsOf, e
  <2>4. QED BY <2>1, <2>2, <2>3
<1>2. \A p : <<e, p>> \notin done
  BY <1>0 DEF SlotsOf
<1> HIDE DEF e, done
<1>3. CASE isoWeekday(e) \in QuietDays
  <2>1. SlotsOf(date, n) = done
    BY <1>1, <1>3
  <2>2. PlanDay(week, e) = week
    BY <1>3 DEF PlanDay
  <2>3. GoodShells(week.shells, done, e)
    <3>1. GoodShells(week.shells, done, date + (n - 1))
      BY DEF GoodWeek, done
    <3>2. \A m \in 1..Len(week.shells) : week.shells[m].date \in Nat
      <4>1. ASSUME NEW m \in 1..Len(week.shells) PROVE week.shells[m].date \in Nat
        <5>1. week.shells[m] \in Shells
          BY <3>1 DEF GoodShells
        <5>2. QED BY <5>1 DEF Shells
      <4>2. QED BY <4>1
    <3>3. \A m \in 1..Len(week.shells) : week.shells[m].date <= e
      <4>1. ASSUME NEW m \in 1..Len(week.shells) PROVE week.shells[m].date <= e
        <5>1. week.shells[m].date <= date + (n - 1)
          BY <3>1 DEF GoodShells
        <5>2. week.shells[m].date \in Nat
          BY <3>2
        <5>3. QED BY <1>0, <5>1, <5>2
      <4>2. QED BY <4>1
    <3>4. QED BY <3>1, <3>3 DEF GoodShells
  <2>4. GoodWeek(week, done, e)
    BY <2>3 DEF GoodWeek
  <2>5. QED BY <2>1, <2>2, <2>4 DEF e
<1>4. CASE isoWeekday(e) \notin QuietDays
  <2> DEFINE first == PlanSlot(week, "instagram", e)
             mid   == done \cup {<<e, "instagram">>}
  <2>1. GoodWeek(first, mid, e)
    BY <1>0, <1>2, PlanSlotIsGood DEF Platforms, done
  <2>2. <<e, "tiktok">> \notin mid
    BY <1>2
  <2>3. SlotsOf(date, n) = mid \cup {<<e, "tiktok">>}
    BY <1>1, <1>4
  <2> HIDE DEF first, mid
  <2>4. GoodWeek(PlanSlot(first, "tiktok", e), mid \cup {<<e, "tiktok">>}, e)
    BY <1>0, <2>1, <2>2, PlanSlotIsGood DEF Platforms
  <2>5. PlanDay(week, e) = PlanSlot(first, "tiktok", e)
    BY <1>4 DEF PlanDay, first
  <2>6. QED BY <2>3, <2>4, <2>5 DEF e
<1>5. QED BY <1>3, <1>4

\* The fold of planWeek: the day n of its week follows from the day before.
LEMMA PlannedDayByDay ==
  ASSUME NEW date
  PROVE  LET week == PlannedBy(date)
         IN  /\ week[0] = [shells |-> <<>>, used |-> {},
                           recency |-> [i \in DOMAIN ideas |-> journal[i].last]]
             /\ \A n \in 1..horizonDays : week[n] = PlanDay(week[n - 1], date + n)
<1> DEFINE H == horizonDays
           start == [shells |-> <<>>, used |-> {},
                     recency |-> [i \in DOMAIN ideas |-> journal[i].last]]
           Follows(f, m) == f = [n \in 0..m |->
                                   IF n = 0 THEN start ELSE PlanDay(f[n - 1], date + n)]
           Bad == {m \in Nat : ~ \E f : Follows(f, m)}
<1>0. H \in Nat
  BY PlannerAssumption
<1>1. Bad = {}
  <2> SUFFICES ASSUME Bad # {} PROVE FALSE
    OBVIOUS
  <2>1. PICK m \in Bad : \A y \in Bad : m <= y
    <3>1. Bad \subseteq Nat
      OBVIOUS
    <3> HIDE DEF Bad
    <3>2. QED BY <3>1, LeastNat
  <2> HIDE DEF start
  <2>2. CASE m = 0
    <3>1. Follows([n \in 0..0 |-> start], 0)
      OBVIOUS
    <3>2. QED BY <2>1, <2>2, <3>1
  <2>3. CASE m # 0
    <3>1. m - 1 \in Nat /\ m - 1 \notin Bad /\ m \in Nat
      <4>1. m \in Nat
        BY DEF Bad
      <4> HIDE DEF Bad
      <4>2. QED BY <2>1, <2>3, <4>1
    <3>2. PICK f : Follows(f, m - 1)
      BY <3>1
    <3> DEFINE g == [n \in 0..m |-> IF n = m THEN PlanDay(f[m - 1], date + m) ELSE f[n]]
    <3>3. ASSUME NEW n \in 0..m PROVE g[n] = IF n = 0 THEN start ELSE PlanDay(g[n - 1], date + n)
      <4>1. CASE n = m
        BY <2>3, <3>1, <4>1
      <4>2. CASE n # m
        <5>1. n \in 0..(m - 1) /\ (n # 0 => n - 1 \in 0..m /\ n - 1 # m)
          BY <3>1, <4>2
        <5>2. g[n] = f[n] /\ (n # 0 => g[n - 1] = f[n - 1])
          BY <4>2, <5>1
        <5>3. QED BY <3>2, <5>1, <5>2
      <4>3. QED BY <4>1, <4>2
    <3>4. g = [n \in 0..m |-> g[n]]
      OBVIOUS
    <3> HIDE DEF g
    <3>5. Follows(g, m)
      BY <3>3, <3>4
    <3>6. QED BY <2>1, <3>5
  <2>4. QED BY <2>2, <2>3
<1>2. PICK f : Follows(f, H)
  BY <1>0, <1>1
<1>3. PlannedBy(date) = CHOOSE g : Follows(g, H)
  BY DEF PlannedBy
<1>4. Follows(PlannedBy(date), H)
  BY <1>2, <1>3, Zenon
<1> DEFINE week == PlannedBy(date)
<1> HIDE DEF week, start
<1>5. \A n \in 0..H : week[n] = IF n = 0 THEN start ELSE PlanDay(week[n - 1], date + n)
  BY <1>4 DEF week
<1>6. week[0] = start /\ \A n \in 1..H : week[n] = PlanDay(week[n - 1], date + n)
  BY <1>0, <1>5
<1>7. QED BY <1>6 DEF week, start

\* The plan of a day fills the open slots of its horizon.
LEMMA PlanIsGood ==
  ASSUME IdeasRead, NEW date \in Nat, [i \in DOMAIN ideas |-> journal[i].last] \in Dates
  PROVE  GoodShells(planWeek(date), SlotsOf(date, horizonDays), date + horizonDays)
<1> DEFINE week == PlannedBy(date)
           Bad == {n \in 0..horizonDays : ~GoodWeek(week[n], SlotsOf(date, n), date + n)}
<1>0. horizonDays \in Nat
  BY PlannerAssumption
<1>1. /\ week[0] = [shells |-> <<>>, used |-> {},
                    recency |-> [i \in DOMAIN ideas |-> journal[i].last]]
      /\ \A n \in 1..horizonDays : week[n] = PlanDay(week[n - 1], date + n)
  BY PlannedDayByDay
<1> HIDE DEF week
<1>2. GoodWeek(week[0], SlotsOf(date, 0), date + 0)
  <2>1. SlotsOf(date, 0) = {}
    BY DEF SlotsOf
  <2>2. GoodShells(<<>>, {}, date)
    BY DEF GoodShells, LastResort
  <2>3. week[0].shells = <<>> /\ week[0].used = {} /\ week[0].recency \in Dates
    BY <1>1
  <2>4. UsedIn(<<>>) = {}
    BY DEF UsedIn
  <2>5. date + 0 = date
    OBVIOUS
  <2>6. QED BY <2>1, <2>2, <2>3, <2>4, <2>5 DEF GoodWeek
<1>3. Bad = {}
  <2> SUFFICES ASSUME Bad # {} PROVE FALSE
    OBVIOUS
  <2>1. PICK m \in Bad : \A y \in Bad : m <= y
    <3>1. Bad \subseteq Nat
      BY <1>0
    <3> HIDE DEF Bad
    <3>2. QED BY <3>1, LeastNat
  <2>2. m \in 0..horizonDays /\ m # 0 /\ ~GoodWeek(week[m], SlotsOf(date, m), date + m)
    BY <1>2
  <2>3. m \in Nat /\ m - 1 \in 0..horizonDays /\ m \in 1..horizonDays /\ ~(m <= m - 1)
    BY <1>0, <2>2
  <2>4. GoodWeek(week[m - 1], SlotsOf(date, m - 1), date + (m - 1))
    BY <2>1, <2>3
  <2>5. GoodWeek(PlanDay(week[m - 1], date + m), SlotsOf(date, m), date + m)
    BY <2>2, <2>3, <2>4, PlanDayIsGood
  <2>6. week[m] = PlanDay(week[m - 1], date + m)
    BY <1>1, <2>3
  <2>7. QED BY <2>2, <2>5, <2>6
<1>4. GoodWeek(week[horizonDays], SlotsOf(date, horizonDays), date + horizonDays)
  BY <1>0, <1>3
<1>5. QED BY <1>4 DEF GoodWeek, planWeek, week

\* The id of a shell's item.
IdOf(s) == <<s.date, s.platform, s.k>>

\* The items of this run, and the created shells and the items of an idea.
Made == {IdOf(created[n]) : n \in 1..Len(created)}
Offers(i) == {n \in 1..Len(created) : created[n].idea = i}
Items(i) == {x \in DOMAIN slots : slots[x] = i}

\* Every open slot from tomorrow to some day is stored.
FilledTo(last) ==
  \A e \in (day + 1)..last : \A p \in Platforms :
    isoWeekday(e) \notin QuietDays => \A k \in 1..Room(p) : <<e, p, k>> \in DOMAIN slots

\* The types, and ideas with scores that compare.
PlannerTyped ==
  /\ IdeasRead /\ day \in Nat /\ planDeaths \in Nat
  /\ journal \in [DOMAIN ideas -> [last : Nat, uses : Nat]]
  /\ IsFiniteSet(DOMAIN slots)
  /\ \A x \in DOMAIN slots : x[1] \in Nat
  /\ planning \in {"idle", "running", "done"}
  /\ handled \in Nat

\* Of the plan at hand.
PlanKept ==
  /\ LastResort(plan) /\ plan \in Seq(Shells) /\ created \in Seq(Shells)
  /\ planning = "running" =>
       /\ GoodShells(plan, SlotsOf(day, horizonDays), day + horizonDays)
       /\ handled <= Len(plan)

\* Between two runs: what is stored ends with a day up to which it is complete.
Settled == /\ \A i \in DOMAIN ideas :
                /\ journal[i].uses = Cardinality(Items(i))
                /\ \A x \in Items(i) : x[1] <= journal[i].last
           /\ \E last \in Nat : FilledTo(last) /\ \A x \in DOMAIN slots : x[1] <= last

\* In a run: what it has stored is later than all that was, in order.
UnderWay(last) ==
  /\ FilledTo(last)
  /\ \A x \in DOMAIN slots \ Made :
       x[1] <= last /\ \A i \in DOMAIN ideas : slots[x] = i => x[1] <= journal[i].last
  /\ \A n \in 1..Len(created) :
       /\ last < created[n].date /\ created[n].date <= day + horizonDays
       /\ IdOf(created[n]) \in DOMAIN slots /\ slots[IdOf(created[n])] = created[n].idea
       /\ \A m \in n..Len(created) : created[n].date <= created[m].date
       /\ \A m \in (handled + 1)..Len(plan) : created[n].date <= plan[m].date
  /\ \A m \in 1..handled : IdOf(plan[m]) \in DOMAIN slots
  /\ \A i \in DOMAIN ideas : journal[i].uses + Cardinality(Offers(i)) = Cardinality(Items(i))

\* Once a run has died, only the plan at hand is promised.
PlannerInv == /\ PlannerTyped /\ PlanKept
              /\ planDeaths = 0 => IF planning = "running" THEN \E last \in Nat : UnderWay(last)
                                   ELSE Settled

\* The sets that are counted are finite.
LEMMA CountsAreFinite ==
  ASSUME PlannerTyped, created \in Seq(Shells), NEW i
  PROVE  /\ IsFiniteSet(Offers(i)) /\ Cardinality(Offers(i)) \in Nat
         /\ IsFiniteSet(Items(i)) /\ Cardinality(Items(i)) \in Nat
<1>1. Len(created) \in Nat
  BY LenProperties
<1>2. IsFiniteSet(1..Len(created))
  BY <1>1, FS_Interval
<1>3. Offers(i) \in SUBSET (1..Len(created)) /\ Items(i) \in SUBSET (DOMAIN slots)
  BY DEF Offers, Items
<1>4. IsFiniteSet(Offers(i)) /\ IsFiniteSet(Items(i))
  BY <1>2, <1>3, FS_Subset DEF PlannerTyped
<1>5. QED BY <1>4, FS_CardinalityType

\* What a run leaves of an idea in the journal.
LEMMA JournalledOne ==
  ASSUME PlannerTyped, created \in Seq(Shells), NEW i \in DOMAIN ideas
  PROVE  /\ Offers(i) = {} => Journalled(created)[i] = journal[i]
         /\ Offers(i) # {} => \E n \in Offers(i) :
              /\ \A m \in Offers(i) : m <= n
              /\ Journalled(created)[i] = [last |-> created[n].date,
                                          uses |-> journal[i].uses + Cardinality(Offers(i))]
<1> DEFINE mine == {n \in DOMAIN created : created[n].idea = i}
           latest == CHOOSE n \in mine : \A m \in mine : m <= n
           L == Len(created)
<1>1. L \in Nat /\ DOMAIN created = 1..L
  BY LenProperties
<1>2. mine = Offers(i)
  BY <1>1 DEF Offers
<1>3. Journalled(created)[i] = IF mine = {} THEN journal[i]
                               ELSE [last |-> created[latest].date,
                                     uses |-> journal[i].uses + Cardinality(mine)]
  BY DEF Journalled
<1> HIDE DEF mine
<1>4. ASSUME Offers(i) # {} PROVE latest \in Offers(i) /\ \A m \in Offers(i) : m <= latest
  <2> DEFINE T == {L - n : n \in Offers(i)}
  <2>1. \A n \in Offers(i) : n \in 1..L
    BY DEF Offers
  <2>2. T \subseteq Nat /\ T # {}
    <3> HIDE DEF L
    <3>1. QED BY <1>1, <1>4, <2>1
  <2> HIDE DEF T
  <2>3. PICK x \in T : \A y \in T : x <= y
    BY <2>2, LeastNat
  <2> USE DEF T
  <2>4. PICK n \in Offers(i) : x = L - n
    OBVIOUS
  <2>5. ASSUME NEW m \in Offers(i) PROVE m <= n
    <3>1. L - n <= L - m
      BY <2>3, <2>4
    <3>2. m \in 1..L /\ n \in 1..L
      BY <2>1
    <3> HIDE DEF L
    <3>3. QED BY <1>1, <3>1, <3>2
  <2>6. QED BY <1>2, <2>5
<1> HIDE DEF latest
<1>5. QED BY <1>2, <1>3, <1>4

\* What the ideas alone decide stays with them.
LEMMA IdeasStay ==
  ASSUME UNCHANGED ideas
  PROVE  /\ Shells' = Shells /\ IdeasRead' = IdeasRead
         /\ \A p : Room(p)' = Room(p)
         /\ \A s : LastResort(s)' = LastResort(s)
         /\ \A s, done, last : GoodShells(s, done, last)' = GoodShells(s, done, last)
<1>1. \A p : Pool(p)' = Pool(p)
  BY DEF Pool, ideaEligibleFor
<1>2. Shells' = Shells /\ IdeasRead' = IdeasRead
  BY DEF Shells, IdeasRead
<1>3. \A p : Room(p)' = Room(p)
  BY <1>1 DEF Room
<1>4. \A s : LastResort(s)' = LastResort(s)
  BY <1>1 DEF LastResort
<1>5. \A s, done, last : GoodShells(s, done, last)' = GoodShells(s, done, last)
  BY <1>2, <1>3, <1>4 DEF GoodShells
<1>6. QED BY <1>2, <1>3, <1>4, <1>5

\* A run begins with a plan that fills its horizon.
LEMMA StartKeeps ==
  ASSUME PlannerInv, StartPlan
  PROVE  PlannerInv'
<1>1. /\ planning = "idle" /\ planning' = "running" /\ handled' = 0 /\ created' = <<>>
      /\ plan' = planWeek(day)
      /\ UNCHANGED <<ideas, day, journal, slots, planDeaths>>
  BY DEF StartPlan
<1>2. PlannerTyped /\ PlannerTyped'
  BY <1>1, IdeasStay DEF PlannerInv, PlannerTyped
<1>3. PICK P : P = planWeek(day)
  OBVIOUS
<1>4. GoodShells(P, SlotsOf(day, horizonDays), day + horizonDays)
  <2>1. [i \in DOMAIN ideas |-> journal[i].last] \in Dates
    <3>1. ASSUME NEW i \in DOMAIN ideas PROVE journal[i].last \in Nat
      BY <1>2 DEF PlannerTyped
    <3>2. QED BY <3>1 DEF Dates
  <2>2. QED BY <1>2, <1>3, <2>1, PlanIsGood DEF PlannerTyped
<1>5. plan' = P
  BY <1>1, <1>3
<1>6. PlanKept'
  <2>1. GoodShells(P, SlotsOf(day, horizonDays), day + horizonDays)'
    <3>1. day' = day
      BY <1>1
    <3>2. QED BY <1>1, <1>4, <3>1, IdeasStay DEF GoodShells, SlotsOf
  <2>2. LastResort(P)' /\ P \in Seq(Shells') /\ Len(P) \in Nat
    <3>1. P \in Seq(Shells) /\ LastResort(P)
      BY <1>4 DEF GoodShells
    <3>2. QED BY <1>1, <3>1, IdeasStay
  <2>3. QED BY <1>1, <1>5, <2>1, <2>2 DEF PlanKept, GoodShells, LastResort
<1>7. ASSUME planDeaths = 0 PROVE \E last \in Nat : UnderWay(last)'
  <2>1. Settled
    BY <1>1, <1>7 DEF PlannerInv
  <2>2. PICK last \in Nat : FilledTo(last) /\ \A x \in DOMAIN slots : x[1] <= last
    BY <2>1 DEF Settled
  <2>3. FilledTo(last)'
    BY <1>1, <2>2, IdeasStay DEF FilledTo
  <2>4. \A x \in DOMAIN slots : \A i \in DOMAIN ideas : slots[x] = i => x[1] <= journal[i].last
    BY <2>1 DEF Settled, Items
  <2>5. \A i \in DOMAIN ideas :
          journal'[i].uses + Cardinality(Offers(i)') = Cardinality(Items(i)')
    <3>1. ASSUME NEW i \in DOMAIN ideas
          PROVE  journal'[i].uses + Cardinality(Offers(i)') = Cardinality(Items(i)')
      <4>1. Offers(i)' = {} /\ Items(i)' = Items(i) /\ journal'[i] = journal[i]
        BY <1>1 DEF Offers, Items
      <4>2. journal[i].uses \in Nat /\ journal[i].uses = Cardinality(Items(i))
        BY <1>2, <2>1 DEF PlannerTyped, Settled
      <4>3. Cardinality({}) = 0
        BY FS_EmptySet
      <4>4. QED BY <4>1, <4>2, <4>3
    <3>2. QED BY <3>1
  <2>6. Len(created') = 0
    BY <1>1
  <2>7. UnderWay(last)'
    BY <1>1, <2>2, <2>3, <2>4, <2>5, <2>6 DEF UnderWay
  <2>8. QED BY <2>7
<1>8. QED BY <1>1, <1>2, <1>6, <1>7 DEF PlannerInv

\* A shell whose slot is free is later than all that was stored before.
LEMMA StoreKeeps ==
  ASSUME PlannerInv, StoreShell
  PROVE  PlannerInv'
<1>p. PICK s : s = plan[handled + 1]
  OBVIOUS
<1>q. PICK id : id = IdOf(s)
  OBVIOUS
<1>1. /\ planning = "running" /\ handled < Len(plan) /\ handled' = handled + 1
      /\ UNCHANGED <<ideas, day, journal, plan, planning, planDeaths>>
      /\ \/ id \in DOMAIN slots /\ UNCHANGED <<slots, created>>
         \/ /\ id \notin DOMAIN slots
            /\ slots' = [x \in DOMAIN slots \cup {id} |-> IF x = id THEN s.idea ELSE slots[x]]
            /\ created' = Append(created, s)
  BY <1>p, <1>q DEF StoreShell, IdOf
<1>2. /\ PlannerTyped /\ PlanKept /\ handled \in Nat /\ horizonDays \in Nat /\ day \in Nat
      /\ plan \in Seq(Shells) /\ created \in Seq(Shells) /\ IdeasRead
      /\ GoodShells(plan, SlotsOf(day, horizonDays), day + horizonDays)
  BY <1>1, PlannerAssumption DEF PlannerInv, PlannerTyped, PlanKept
<1>3. Len(plan) \in Nat /\ Len(created) \in Nat
  BY <1>2, LenProperties
<1>4. handled + 1 \in 1..Len(plan) /\ s \in Shells
  <2>1. handled + 1 \in 1..Len(plan)
    BY <1>1, <1>2, <1>3
  <2>2. QED BY <1>2, <1>p, <2>1
<1>5. /\ s.date \in Nat /\ s.idea \in DOMAIN ideas /\ id = <<s.date, s.platform, s.k>>
      /\ id[1] = s.date
  BY <1>4, <1>q DEF Shells, IdOf
<1>6. /\ s.date \in (day + 1)..(day + horizonDays) /\ s.platform \in Platforms
      /\ isoWeekday(s.date) \notin QuietDays /\ s.k \in 1..Room(s.platform)
  <2>1. <<s.date, s.platform>> \in SlotsOf(day, horizonDays) /\ s.k \in 1..Room(s.platform)
    BY <1>2, <1>4, <1>p DEF GoodShells
  <2>2. QED BY <2>1 DEF SlotsOf
<1>7. \A n \in 1..Len(plan) : handled + 1 <= n => s.date <= plan[n].date
  BY <1>2, <1>4, <1>p DEF GoodShells
<1>8. PlannerTyped'
  <2>1. IsFiniteSet(DOMAIN slots \cup {id})
    BY <1>2, FS_AddElement DEF PlannerTyped
  <2>2. IsFiniteSet(DOMAIN slots')
    BY <1>1, <1>2, <2>1 DEF PlannerTyped
  <2>3. \A x \in DOMAIN slots' : x[1] \in Nat
    BY <1>1, <1>2, <1>5 DEF PlannerTyped
  <2>4. QED BY <1>1, <1>2, <2>2, <2>3, IdeasStay DEF PlannerTyped
<1>9. PlanKept'
  <2>1. PICK P : P = plan
    OBVIOUS
  <2>2. plan' = P /\ day' = day
    BY <1>1, <2>1
  <2>3. GoodShells(P, SlotsOf(day, horizonDays), day + horizonDays)'
    <3>1. GoodShells(P, SlotsOf(day, horizonDays), day + horizonDays)
      BY <1>2, <2>1
    <3>2. PICK done : done = SlotsOf(day, horizonDays)
      OBVIOUS
    <3>3. PICK last : last = day + horizonDays
      OBVIOUS
    <3>4. GoodShells(P, done, last)'
      <4>1. UNCHANGED ideas
        BY <1>1
      <4>2. GoodShells(P, done, last)
        BY <3>1, <3>2, <3>3
      <4>3. QED BY <4>1, <4>2, IdeasStay
    <3>5. done = SlotsOf(day, horizonDays)' /\ last = (day + horizonDays)'
      BY <2>2, <3>2, <3>3 DEF SlotsOf
    <3>6. QED BY <3>4, <3>5
  <2>4. created' \in Seq(Shells)
    <3>1. CASE UNCHANGED created
      BY <1>2, <3>1
    <3>2. CASE created' = Append(created, s)
      BY <1>2, <1>4, <3>2, AppendProperties
    <3>3. QED BY <1>1, <3>1, <3>2
  <2>5. handled' <= Len(P)
    BY <1>1, <1>2, <1>3, <2>1
  <2>6. LastResort(P)' /\ P \in Seq(Shells')
    BY <1>1, <1>2, <2>1, IdeasStay DEF PlanKept
  <2>7. QED BY <1>1, <2>2, <2>3, <2>4, <2>5, <2>6, IdeasStay DEF PlanKept, GoodShells, LastResort
<1>10. ASSUME planDeaths = 0 PROVE \E last \in Nat : UnderWay(last)'
  <2>1. PICK last \in Nat : UnderWay(last)
    BY <1>1, <1>10 DEF PlannerInv
  <2>a. FilledTo(last)'
    <3>1. DOMAIN slots \subseteq DOMAIN slots'
      BY <1>1
    <3>2. FilledTo(last)
      BY <2>1 DEF UnderWay
    <3>3. QED BY <1>1, <3>1, <3>2, IdeasStay DEF FilledTo
  <2>b. \A m \in 1..handled' : IdOf(plan[m]) \in DOMAIN slots'
    <3>1. ASSUME NEW m \in 1..(handled + 1) PROVE IdOf(plan[m]) \in DOMAIN slots'
      <4>1. CASE m = handled + 1
        BY <1>1, <1>p, <1>q, <4>1
      <4>2. CASE m # handled + 1
        <5>1. m \in 1..handled
          BY <1>2, <4>2
        <5>2. IdOf(plan[m]) \in DOMAIN slots
          BY <2>1, <5>1 DEF UnderWay
        <5>3. QED BY <1>1, <5>2
      <4>3. QED BY <4>1, <4>2
    <3>2. QED BY <1>1, <3>1
  <2>c. \A m : m \in (handled' + 1)..Len(plan) => m \in (handled + 1)..Len(plan)
    BY <1>1, <1>2, <1>3
  <2>2. CASE id \in DOMAIN slots
    <3>1. UNCHANGED <<slots, created>>
      BY <1>1, <2>2
    <3>2. Made' = Made /\ \A i : Offers(i)' = Offers(i) /\ Items(i)' = Items(i)
      BY <3>1 DEF Made, Offers, Items, IdOf
    <3>3. \A n \in 1..Len(created') :
            /\ last < created'[n].date /\ created'[n].date <= day' + horizonDays
            /\ IdOf(created'[n]) \in DOMAIN slots' /\ slots'[IdOf(created'[n])] = created'[n].idea
            /\ \A m \in n..Len(created') : created'[n].date <= created'[m].date
            /\ \A m \in (handled' + 1)..Len(plan') : created'[n].date <= plan'[m].date
      BY <1>1, <2>1, <2>c, <3>1 DEF UnderWay
    <3>4. UnderWay(last)'
      BY <1>1, <2>1, <2>a, <2>b, <3>1, <3>2, <3>3 DEF UnderWay, IdOf
    <3>5. QED BY <3>4
  <2>3. CASE id \notin DOMAIN slots
    <3> DEFINE C == Len(created)
    <3>1. /\ slots' = [x \in DOMAIN slots \cup {id} |-> IF x = id THEN s.idea ELSE slots[x]]
          /\ created' = Append(created, s)
      BY <1>1, <2>3
    <3>2. last < s.date
      <4>1. SUFFICES ASSUME s.date <= last PROVE FALSE
        BY <1>5
      <4>2. s.date \in (day + 1)..last
        BY <1>2, <1>5, <1>6, <4>1
      <4>3. <<s.date, s.platform, s.k>> \in DOMAIN slots
        BY <1>6, <2>1, <4>2 DEF UnderWay, FilledTo
      <4>4. QED BY <1>5, <2>3, <4>3
    <3>3. /\ Len(created') = C + 1 /\ created'[C + 1] = s
          /\ \A n \in 1..C : created'[n] = created[n]
      BY <1>2, <3>1
    <3>4. C \in Nat
      BY <1>3
    <3>5. /\ DOMAIN slots' = DOMAIN slots \cup {id} /\ slots'[id] = s.idea
          /\ \A x \in DOMAIN slots : slots'[x] = slots[x]
      BY <2>3, <3>1
    <3>6. ASSUME NEW n \in 1..(C + 1)
          PROVE  /\ last < created'[n].date /\ created'[n].date <= day + horizonDays
                 /\ IdOf(created'[n]) \in DOMAIN slots'
                 /\ slots'[IdOf(created'[n])] = created'[n].idea
                 /\ \A m \in n..(C + 1) : created'[n].date <= created'[m].date
                 /\ \A m \in (handled + 1 + 1)..Len(plan) : created'[n].date <= plan[m].date
      <4>1. CASE n = C + 1
        <5>1. created'[n] = s /\ IdOf(s) = id
          BY <1>q, <3>3, <4>1
        <5>2. \A m \in n..(C + 1) : m = C + 1
          BY <3>4, <4>1
        <5>3. \A m \in (handled + 1 + 1)..Len(plan) : m \in 1..Len(plan) /\ handled + 1 <= m
          BY <1>2, <1>3
        <5>4. s.date <= day + horizonDays /\ s.date <= s.date
          BY <1>2, <1>5, <1>6
        <5>5. QED BY <1>7, <3>2, <3>3, <3>5, <5>1, <5>2, <5>3, <5>4
      <4>2. CASE n # C + 1
        <5>1. n \in 1..C /\ created'[n] = created[n]
          BY <3>3, <3>4, <4>2
        <5>2. /\ last < created[n].date /\ created[n].date <= day + horizonDays
              /\ IdOf(created[n]) \in DOMAIN slots /\ slots[IdOf(created[n])] = created[n].idea
              /\ \A m \in n..C : created[n].date <= created[m].date
              /\ \A m \in (handled + 1)..Len(plan) : created[n].date <= plan[m].date
          BY <2>1, <5>1 DEF UnderWay
        <5>3. created[n].date <= s.date
          BY <1>2, <1>4, <1>p, <5>2
        <5>4. ASSUME NEW m \in n..(C + 1) PROVE created[n].date <= created'[m].date
          <6>1. CASE m = C + 1
            BY <3>3, <5>3, <6>1
          <6>2. CASE m # C + 1
            <7>1. m \in n..C /\ m \in 1..C
              BY <3>4, <5>1, <6>2
            <7>2. QED BY <3>3, <5>2, <7>1
          <6>3. QED BY <6>1, <6>2
        <5>5. \A m \in (handled + 1 + 1)..Len(plan) : m \in (handled + 1)..Len(plan)
          BY <1>2, <1>3
        <5>6. QED BY <3>5, <5>1, <5>2, <5>4, <5>5
      <4>3. QED BY <4>1, <4>2
    <3>7. Made' = Made \cup {id}
      <4>1. \A n \in 1..C : IdOf(created'[n]) = IdOf(created[n])
        BY <3>3
      <4>2. IdOf(created'[C + 1]) = id
        BY <1>q, <3>3
      <4>3. \A n \in 1..(C + 1) : n \in 1..C \/ n = C + 1
        BY <3>4
      <4>4. Made' = {IdOf(created'[n]) : n \in 1..(C + 1)}
        BY <3>3 DEF Made, IdOf
      <4>5. C + 1 \in 1..(C + 1) /\ \A n \in 1..C : n \in 1..(C + 1)
        BY <3>4
      <4>6. QED BY <4>1, <4>2, <4>3, <4>4, <4>5 DEF Made
    <3>8. \A x \in DOMAIN slots' \ Made' :
            x[1] <= last /\ \A i \in DOMAIN ideas : slots'[x] = i => x[1] <= journal[i].last
      <4>1. ASSUME NEW x \in DOMAIN slots' \ Made' PROVE x \in DOMAIN slots \ Made /\ slots'[x] = slots[x]
        BY <3>5, <3>7
      <4>2. QED BY <2>1, <4>1 DEF UnderWay
    <3>9. ASSUME NEW i \in DOMAIN ideas
          PROVE  journal[i].uses + Cardinality(Offers(i)') = Cardinality(Items(i)')
      <4>1. /\ journal[i].uses + Cardinality(Offers(i)) = Cardinality(Items(i))
            /\ journal[i].uses \in Nat
        BY <1>2, <2>1 DEF UnderWay, PlannerTyped
      <4>2. /\ IsFiniteSet(Offers(i)) /\ Cardinality(Offers(i)) \in Nat
            /\ IsFiniteSet(Items(i)) /\ Cardinality(Items(i)) \in Nat
        BY <1>2, CountsAreFinite
      <4>3. C + 1 \notin Offers(i) /\ id \notin Items(i)
        BY <2>3, <3>4 DEF Offers, Items
      <4>4. CASE s.idea = i
        <5>1. Offers(i)' = Offers(i) \cup {C + 1}
          <6>1. Offers(i)' = {n \in 1..(C + 1) : created'[n].idea = i}
            BY <3>3 DEF Offers
          <6>2. QED BY <3>3, <3>4, <4>4, <6>1 DEF Offers
        <5>2. Items(i)' = Items(i) \cup {id}
          BY <2>3, <3>5, <4>4 DEF Items
        <5>3. /\ Cardinality(Offers(i)') = Cardinality(Offers(i)) + 1
              /\ Cardinality(Items(i)') = Cardinality(Items(i)) + 1
          BY <4>2, <4>3, <5>1, <5>2, FS_AddElement
        <5>4. QED BY <4>1, <4>2, <5>3
      <4>5. CASE s.idea # i
        <5>1. Offers(i)' = Offers(i)
          <6>1. Offers(i)' = {n \in 1..(C + 1) : created'[n].idea = i}
            BY <3>3 DEF Offers
          <6>2. QED BY <3>3, <3>4, <4>5, <6>1 DEF Offers
        <5>2. Items(i)' = Items(i)
          BY <2>3, <3>5, <4>5 DEF Items
        <5>3. QED BY <4>1, <5>1, <5>2
      <4>6. QED BY <4>4, <4>5
    <3>10. UnderWay(last)'
      BY <1>1, <2>a, <2>b, <3>3, <3>6, <3>8, <3>9 DEF UnderWay, IdOf
    <3>11. QED BY <3>10
  <2>4. QED BY <2>2, <2>3
<1>11. QED BY <1>1, <1>8, <1>9, <1>10 DEF PlannerInv

\* With the journal of the run the counts are even again.
LEMMA FinishKeeps ==
  ASSUME PlannerInv, FinishPlan
  PROVE  PlannerInv'
<1>1. /\ planning = "running" /\ handled = Len(plan) /\ planning' = "done"
      /\ journal' = Journalled(created)
      /\ UNCHANGED <<ideas, day, slots, plan, handled, created, planDeaths>>
  BY DEF FinishPlan
<1>2. /\ PlannerTyped /\ PlanKept /\ horizonDays \in Nat /\ day \in Nat
      /\ created \in Seq(Shells) /\ Len(created) \in Nat
      /\ GoodShells(plan, SlotsOf(day, horizonDays), day + horizonDays)
  BY <1>1, PlannerAssumption, LenProperties DEF PlannerInv, PlannerTyped, PlanKept
<1>3. ASSUME NEW n \in 1..Len(created) PROVE created[n].date \in Nat
  <2>1. created[n] \in Shells
    BY <1>2
  <2>2. QED BY <2>1 DEF Shells
<1>4. PlannerTyped'
  <2>1. ASSUME NEW i \in DOMAIN ideas
        PROVE  Journalled(created)[i] \in [last : Nat, uses : Nat]
    <3>1. /\ Cardinality(Offers(i)) \in Nat /\ journal[i] \in [last : Nat, uses : Nat]
          /\ journal[i].uses \in Nat
      BY <1>2, CountsAreFinite DEF PlannerTyped
    <3>2. CASE Offers(i) = {}
      BY <1>2, <3>1, <3>2, JournalledOne
    <3>3. CASE Offers(i) # {}
      <4>1. PICK n \in Offers(i) :
              Journalled(created)[i] = [last |-> created[n].date,
                                        uses |-> journal[i].uses + Cardinality(Offers(i))]
        BY <1>2, <3>3, JournalledOne
      <4>2. created[n].date \in Nat
        BY <1>3 DEF Offers
      <4>3. journal[i].uses + Cardinality(Offers(i)) \in Nat
        BY <3>1
      <4>4. QED BY <4>1, <4>2, <4>3
    <3>4. QED BY <3>2, <3>3
  <2>2. PICK J : J = Journalled(created)
    OBVIOUS
  <2>3. J \in [DOMAIN ideas -> [last : Nat, uses : Nat]]
    <3>1. J = [i \in DOMAIN ideas |-> J[i]]
      BY <2>2 DEF Journalled
    <3>2. QED BY <2>1, <2>2, <3>1
  <2>4. IdeasRead'
    BY <1>1, <1>2, IdeasStay DEF PlannerTyped
  <2>5. QED BY <1>1, <1>2, <2>2, <2>3, <2>4 DEF PlannerTyped
<1>5. PlanKept'
  <2>1. PICK P : P = plan
    OBVIOUS
  <2>2. LastResort(P)' /\ P \in Seq(Shells') /\ created \in Seq(Shells')
    BY <1>1, <1>2, <2>1, IdeasStay DEF PlanKept
  <2>3. plan' = P
    BY <1>1, <2>1
  <2>4. QED BY <1>1, <2>2, <2>3 DEF PlanKept, LastResort
<1>6. ASSUME planDeaths = 0 PROVE Settled'
  <2>1. PICK last \in Nat : UnderWay(last)
    BY <1>1, <1>6 DEF PlannerInv
  <2>2. \A n \in 1..Len(created) :
          /\ last < created[n].date /\ created[n].date <= day + horizonDays
          /\ slots[IdOf(created[n])] = created[n].idea
          /\ IdOf(created[n])[1] = created[n].date
          /\ \A m \in n..Len(created) : created[n].date <= created[m].date
    BY <2>1 DEF UnderWay, IdOf
  <2>3. \A x \in DOMAIN slots \ Made :
          x[1] <= last /\ \A i \in DOMAIN ideas : slots[x] = i => x[1] <= journal[i].last
    BY <2>1 DEF UnderWay
  <2>4. ASSUME NEW i \in DOMAIN ideas
        PROVE  /\ Journalled(created)[i].uses = Cardinality(Items(i))
               /\ \A x \in Items(i) : x[1] <= Journalled(created)[i].last
    <3>1. /\ journal[i].uses + Cardinality(Offers(i)) = Cardinality(Items(i))
          /\ journal[i].uses \in Nat
      BY <1>2, <2>1 DEF UnderWay, PlannerTyped
    <3>2. ASSUME NEW x \in Items(i), x \in Made
          PROVE  \E n \in Offers(i) : x[1] = created[n].date
      <4>1. PICK n \in 1..Len(created) : x = IdOf(created[n])
        BY <3>2 DEF Made
      <4>2. n \in Offers(i)
        BY <2>2, <4>1 DEF Items, Offers
      <4>3. QED BY <2>2, <4>1, <4>2
    <3>3. ASSUME NEW x \in Items(i), x \notin Made
          PROVE  x[1] <= last /\ x[1] <= journal[i].last /\ x[1] \in Nat
      BY <1>2, <2>3, <3>3 DEF Items, PlannerTyped
    <3>4. CASE Offers(i) = {}
      <4>1. Journalled(created)[i] = journal[i]
        BY <1>2, <3>4, JournalledOne
      <4>2. Cardinality(Offers(i)) = 0
        BY <3>4, FS_EmptySet
      <4>3. QED BY <3>1, <3>2, <3>3, <3>4, <4>1, <4>2
    <3>5. CASE Offers(i) # {}
      <4>1. PICK n \in Offers(i) :
              /\ \A m \in Offers(i) : m <= n
              /\ Journalled(created)[i] = [last |-> created[n].date,
                                          uses |-> journal[i].uses + Cardinality(Offers(i))]
        BY <1>2, <3>5, JournalledOne
      <4>2. n \in 1..Len(created) /\ last < created[n].date /\ created[n].date \in Nat
        BY <1>3, <2>2 DEF Offers
      <4>3. ASSUME NEW x \in Items(i) PROVE x[1] <= created[n].date
        <5>1. CASE x \in Made
          <6>1. PICK m \in Offers(i) : x[1] = created[m].date
            BY <3>2, <5>1
          <6>2. m \in 1..Len(created) /\ n \in m..Len(created)
            BY <1>2, <4>1, <4>2 DEF Offers
          <6>3. QED BY <2>2, <6>1, <6>2
        <5>2. CASE x \notin Made
          BY <3>3, <4>2, <5>2
        <5>3. QED BY <5>1, <5>2
      <4>4. QED BY <3>1, <4>1, <4>3
    <3>6. QED BY <3>4, <3>5
  <2> DEFINE H == IF last <= day + horizonDays THEN day + horizonDays ELSE last
  <2>5. H \in Nat /\ last <= H /\ day + horizonDays <= H
    BY <1>2
  <2>6. FilledTo(H)
    <3>1. ASSUME NEW e \in (day + 1)..H, NEW p \in Platforms, isoWeekday(e) \notin QuietDays,
                 NEW k \in 1..Room(p)
          PROVE  <<e, p, k>> \in DOMAIN slots
      <4>1. CASE e <= last
        <5>1. e \in (day + 1)..last
          BY <1>2, <2>5, <4>1
        <5>2. QED BY <2>1, <3>1, <5>1 DEF UnderWay, FilledTo
      <4>2. CASE ~(e <= last)
        <5>1. e \in (day + 1)..(day + horizonDays)
          BY <1>2, <4>2
        <5>2. <<e, p>> \in SlotsOf(day, horizonDays)
          BY <3>1, <5>1 DEF SlotsOf
        <5>3. PICK n \in 1..Len(plan) :
                plan[n].date = e /\ plan[n].platform = p /\ plan[n].k = k
          <6>1. PICK x : x = <<e, p>>
            OBVIOUS
          <6>2. x \in SlotsOf(day, horizonDays) /\ x[1] = e /\ x[2] = p
            BY <5>2, <6>1
          <6>3. QED BY <1>2, <6>2 DEF GoodShells
        <5>4. IdOf(plan[n]) \in DOMAIN slots
          BY <1>1, <2>1 DEF UnderWay
        <5>5. QED BY <5>3, <5>4 DEF IdOf
      <4>3. QED BY <4>1, <4>2
    <3>2. QED BY <3>1 DEF FilledTo
  <2>7. ASSUME NEW x \in DOMAIN slots PROVE x[1] <= H
    <3>1. CASE x \in Made
      <4>1. PICK n \in 1..Len(created) : x = IdOf(created[n])
        BY <3>1 DEF Made
      <4>2. x[1] = created[n].date /\ created[n].date <= day + horizonDays
        BY <2>2, <4>1
      <4>3. QED BY <1>2, <1>3, <2>5, <4>2
    <3>2. CASE x \notin Made
      <4>1. x[1] \in Nat /\ x[1] <= last
        BY <1>2, <2>3, <3>2 DEF PlannerTyped
      <4>2. QED BY <2>5, <4>1
    <3>3. QED BY <3>1, <3>2
  <2>8. FilledTo(H)'
    <3>1. PICK h : h = H
      OBVIOUS
    <3>2. FilledTo(h)'
      BY <1>1, <2>6, <3>1, IdeasStay DEF FilledTo
    <3>3. H' = h
      BY <1>1, <3>1
    <3>4. QED BY <3>2, <3>3
  <2>9. QED BY <1>1, <2>4, <2>5, <2>6, <2>7, <2>8, IdeasStay DEF Settled, Items, FilledTo
<1>7. QED BY <1>1, <1>4, <1>5, <1>6 DEF PlannerInv

\* A death leaves the plan's promises; the journal owes from now on.
LEMMA DeathKeeps ==
  ASSUME PlannerInv, PlanDeath
  PROVE  PlannerInv'
<1>1. /\ planning' = "idle" /\ planDeaths' = planDeaths + 1
      /\ plan' = <<>> /\ handled' = 0 /\ created' = <<>>
      /\ UNCHANGED <<ideas, day, journal, slots>>
  BY DEF PlanDeath
<1>2. PlannerTyped
  BY DEF PlannerInv
<1>3. planDeaths' # 0 /\ planDeaths' \in Nat
  BY <1>1, <1>2 DEF PlannerTyped
<1>4. PlannerTyped'
  BY <1>1, <1>2, <1>3, IdeasStay DEF PlannerTyped
<1>5. PlanKept'
  BY <1>1 DEF PlanKept, LastResort
<1>6. QED BY <1>3, <1>4, <1>5 DEF PlannerInv

\* A day less has to be filled.
LEMMA NextDayKeeps ==
  ASSUME PlannerInv, NextDay
  PROVE  PlannerInv'
<1>1. /\ planning # "running" /\ planning' = "idle" /\ day' = day + 1
      /\ plan' = <<>> /\ handled' = 0 /\ created' = <<>>
      /\ UNCHANGED <<ideas, journal, slots, planDeaths>>
  BY DEF NextDay
<1>2. PlannerTyped
  BY DEF PlannerInv
<1>3. PlannerTyped'
  BY <1>1, <1>2, IdeasStay DEF PlannerTyped
<1>4. PlanKept'
  BY <1>1 DEF PlanKept, LastResort
<1>5. ASSUME planDeaths = 0 PROVE Settled'
  <2>1. Settled
    BY <1>1, <1>5 DEF PlannerInv
  <2>2. PICK last \in Nat : FilledTo(last) /\ \A x \in DOMAIN slots : x[1] <= last
    BY <2>1 DEF Settled
  <2>3. \A e \in (day' + 1)..last : e \in (day + 1)..last
    BY <1>1, <1>2 DEF PlannerTyped
  <2>4. FilledTo(last)'
    BY <1>1, <2>2, <2>3, IdeasStay DEF FilledTo
  <2>5. QED BY <1>1, <2>1, <2>2, <2>4 DEF Settled, Items
<1>6. QED BY <1>1, <1>3, <1>4, <1>5 DEF PlannerInv

\* Nothing is stored, nothing is used.
LEMMA PlannerStarts ==
  ASSUME PlannerInit
  PROVE  PlannerInv
<1>1. /\ day = StartDate /\ journal = [i \in DOMAIN ideas |-> NeverUsed]
      /\ slots = [x \in {} |-> 0] /\ plan = <<>> /\ handled = 0 /\ created = <<>>
      /\ planning = "idle" /\ planDeaths = 0
  BY DEF PlannerInit
<1>2. IdeasRead
  BY PlannerAssumption DEF PlannerInit, IdeasRead
<1>3. DOMAIN slots = {} /\ \A i : Items(i) = {}
  BY <1>1 DEF Items
<1>4. IsFiniteSet(DOMAIN slots) /\ Cardinality({}) = 0
  BY <1>3, FS_EmptySet
<1>5. PlannerTyped
  BY <1>1, <1>2, <1>3, <1>4, PlannerAssumption DEF PlannerTyped, NeverUsed
<1>6. PlanKept
  BY <1>1 DEF PlanKept, LastResort
<1>7. FilledTo(0)
  <2>1. \A e : e \notin (day + 1)..0
    BY <1>1, PlannerAssumption
  <2>2. QED BY <2>1 DEF FilledTo
<1>8. Settled
  <2>1. ASSUME NEW i \in DOMAIN ideas
        PROVE  /\ journal[i].uses = Cardinality(Items(i))
               /\ \A x \in Items(i) : x[1] <= journal[i].last
    BY <1>1, <1>3, <1>4 DEF NeverUsed
  <2>2. 0 \in Nat /\ \A x \in DOMAIN slots : x[1] <= 0
    BY <1>3
  <2>3. QED BY <1>7, <2>1, <2>2 DEF Settled
<1>9. QED BY <1>1, <1>5, <1>6, <1>8 DEF PlannerInv

\* The other machines' steps.
LEMMA PlannerStutters ==
  ASSUME PlannerInv, UNCHANGED plannerVars
  PROVE  PlannerInv'
<1>1. UNCHANGED <<ideas, day, journal, slots, plan, handled, created, planning, planDeaths>>
  BY DEF plannerVars
<1>2. PlannerTyped'
  BY <1>1, IdeasStay DEF PlannerInv, PlannerTyped
<1>3. PlanKept'
  <2>1. PICK P : P = plan
    OBVIOUS
  <2>2. PICK D : D = SlotsOf(day, horizonDays)
    OBVIOUS
  <2>3. PICK d : d = day
    OBVIOUS
  <2>4. LastResort(P)' /\ P \in Seq(Shells') /\ created \in Seq(Shells')
    BY <1>1, <2>1, IdeasStay DEF PlannerInv, PlanKept
  <2>5. ASSUME planning = "running" PROVE GoodShells(P, D, d + horizonDays)' /\ handled <= Len(P)
    <3>1. GoodShells(P, D, d + horizonDays) /\ handled <= Len(P)
      BY <2>1, <2>2, <2>3, <2>5 DEF PlannerInv, PlanKept
    <3>2. PICK last : last = d + horizonDays
      OBVIOUS
    <3>3. UNCHANGED ideas
      BY <1>1
    <3>4. GoodShells(P, D, last)'
      BY <3>1, <3>2, <3>3, IdeasStay
    <3>5. QED BY <3>1, <3>2, <3>4
  <2>6. plan' = P /\ day' = d /\ SlotsOf(day, horizonDays)' = D
    BY <1>1, <2>1, <2>2, <2>3 DEF SlotsOf
  <2>7. QED BY <1>1, <2>4, <2>5, <2>6 DEF PlanKept
<1>4. ASSUME planDeaths = 0, planning = "running" PROVE \E last \in Nat : UnderWay(last)'
  <2>1. PICK last \in Nat : UnderWay(last)
    BY <1>4 DEF PlannerInv
  <2>2. UnderWay(last)'
    <3>1. FilledTo(last)'
      BY <1>1, <2>1, IdeasStay DEF UnderWay, FilledTo
    <3>2. Made' = Made /\ \A i : Offers(i)' = Offers(i) /\ Items(i)' = Items(i)
      BY <1>1 DEF Made, Offers, Items, IdOf
    <3>3. /\ \A x \in DOMAIN slots' \ Made' : x[1] <= last
                /\ \A i \in DOMAIN ideas' : slots'[x] = i => x[1] <= journal'[i].last
          /\ \A m \in 1..handled' : IdOf(plan'[m]) \in DOMAIN slots'
      BY <1>1, <2>1, <3>2 DEF UnderWay
    <3>4. /\ \A n \in 1..Len(created') :
             /\ last < created'[n].date /\ created'[n].date <= day' + horizonDays
             /\ IdOf(created'[n]) \in DOMAIN slots' /\ slots'[IdOf(created'[n])] = created'[n].idea
             /\ \A m \in n..Len(created') : created'[n].date <= created'[m].date
             /\ \A m \in (handled' + 1)..Len(plan') : created'[n].date <= plan'[m].date
      BY <1>1, <2>1 DEF UnderWay
    <3>5. \A i \in DOMAIN ideas' :
            journal'[i].uses + Cardinality(Offers(i)') = Cardinality(Items(i)')
      BY <1>1, <2>1, <3>2 DEF UnderWay
    <3>6. QED BY <3>1, <3>3, <3>4, <3>5 DEF UnderWay, IdOf
  <2>3. QED BY <2>2
<1>5. ASSUME planDeaths = 0, planning # "running" PROVE Settled'
  <2>1. Settled
    BY <1>5 DEF PlannerInv
  <2>2. QED BY <1>1, <2>1, IdeasStay DEF Settled, FilledTo, Items
<1>6. QED BY <1>1, <1>2, <1>3, <1>4, <1>5 DEF PlannerInv

\* All of it, at every step.
LEMMA PlannerInvariant == PlannerSpec => []PlannerInv
<1>1. PlannerInit => PlannerInv
  BY PlannerStarts
<1>2. PlannerInv /\ [PlannerNext]_plannerVars => PlannerInv'
  <2> SUFFICES ASSUME PlannerInv, [PlannerNext]_plannerVars PROVE PlannerInv'
    OBVIOUS
  <2>1. CASE StartPlan
    BY <2>1, StartKeeps
  <2>2. CASE StoreShell
    BY <2>2, StoreKeeps
  <2>3. CASE FinishPlan
    BY <2>3, FinishKeeps
  <2>4. CASE PlanDeath
    BY <2>4, DeathKeeps
  <2>5. CASE NextDay
    BY <2>5, NextDayKeeps
  <2>6. CASE UNCHANGED plannerVars
    BY <2>6, PlannerStutters
  <2>7. QED BY <2>1, <2>2, <2>3, <2>4, <2>5, <2>6 DEF PlannerNext
<1>3. QED BY <1>1, <1>2, PTL DEF PlannerSpec

\* ReuseIsLastResort of any idea list, cadence, quiet days and horizon: planWeek
\* offers an idea again only to a slot that has nothing left that is new.
THEOREM ReuseComesLast == PlannerSpec => []ReuseIsLastResort
<1>1. PlannerInv => ReuseIsLastResort
  <2> SUFFICES ASSUME PlannerInv PROVE ReuseIsLastResort
    OBVIOUS
  <2>1. LastResort(plan) /\ plan \in Seq(Shells) /\ DOMAIN plan = 1..Len(plan)
    BY LenProperties DEF PlannerInv, PlanKept
  <2>2. QED BY <2>1 DEF ReuseIsLastResort, LastResort, Pool
<1>2. QED BY <1>1, PlannerInvariant, PTL

\* JournalTellsOfItems: the journal that bumpUsage writes agrees with the stored
\* items between any two runs, for as long as no run dies.
THEOREM JournalCountsItems == PlannerSpec => []JournalTellsOfItems
<1>1. PlannerInv => JournalTellsOfItems
  BY DEF PlannerInv, Settled, Items, JournalTellsOfItems
<1>2. QED BY <1>1, PlannerInvariant, PTL
=============================================================================
