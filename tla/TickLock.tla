------------------------------ MODULE TickLock ------------------------------
(***************************************************************************)
(* state/tick.lock, which keeps ticks apart: launchd starts one every 30   *)
(* minutes, the owner starts others by hand and from Discord.  A tick      *)
(* creates the file exclusively, writes its stamp into it, sweeps, and     *)
(* removes the file.  Creating and writing are two steps, and so are       *)
(* reading a lock and breaking it, and nobody compares whose file it is    *)
(* that he removes.                                                        *)
(***************************************************************************)
EXTENDS Integers, FiniteSets

CONSTANTS Ticks,         \* tick processes
          MaxOverruns,   \* bound on sweeps that take more than 45 minutes
          MaxTickDeaths  \* bound on process deaths

ASSUME TickLockAssumption == /\ IsFiniteSet(Ticks)
                             /\ "nobody" \notin Ticks
                             /\ MaxOverruns \in Nat
                             /\ MaxTickDeaths \in Nat

VARIABLES file,       \* the lock file: who created it, and what is in it
          tickAt,     \* tickAt[p]: how far process p is in cmdTick
          broken,     \* broken[p]: locks p has broken in this acquisition
          overruns,   \* sweeps so far whose lock went stale under them
          contended,  \* two processes were acquiring the lock at once
          tickDeaths  \* processes that died so far

lockVars == <<file, tickAt, broken, overruns, contended, tickDeaths>>

\* A file is blank until its stamp is written, and old after 45 minutes.
NoFile == [by |-> "nobody", text |-> "none"]
Files  == [by : Ticks, text : {"blank", "stamped", "old"}] \cup {NoFile}

Acquiring == {p \in Ticks : tickAt[p] \in {"create", "write", "read", "break"}}
Sweepers  == {p \in Ticks : tickAt[p] = "sweep"}

-----------------------------------------------------------------------------
(* acquireTickLock *)

Start(p) ==
  /\ tickAt[p] = "idle"
  /\ tickAt' = [tickAt EXCEPT ![p] = "create"]
  /\ broken' = [broken EXCEPT ![p] = 0]
  /\ contended' = (contended \/ Acquiring # {})
  /\ UNCHANGED <<file, overruns, tickDeaths>>

\* open(path, 'wx'): fails when there is a file.
Create(p) ==
  /\ tickAt[p] = "create"
  /\ IF file = NoFile
       THEN /\ file' = [by |-> p, text |-> "blank"]
            /\ tickAt' = [tickAt EXCEPT ![p] = "write"]
       ELSE /\ tickAt' = [tickAt EXCEPT ![p] = "read"]
            /\ UNCHANGED file
  /\ UNCHANGED <<broken, overruns, contended, tickDeaths>>

\* The stamp goes into the file that was opened, even if it is removed.
Write(p) ==
  /\ tickAt[p] = "write"
  /\ tickAt' = [tickAt EXCEPT ![p] = "sweep"]
  /\ file' = IF file.by = p THEN [file EXCEPT !.text = "stamped"] ELSE file
  /\ UNCHANGED <<broken, overruns, contended, tickDeaths>>

\* Seeded fault: a lock that cannot be parsed counts as held.
FindLock_BlankIsHeld(p) ==
  /\ tickAt[p] = "read"
  /\ tickAt' = [tickAt EXCEPT ![p] =
              IF file.text \in {"stamped", "blank"} THEN "idle" ELSE "break"]
  /\ UNCHANGED <<file, broken, overruns, contended, tickDeaths>>

\* Seeded fault: every lock that is found counts as stale.
FindLock_NeverHeld(p) ==
  /\ tickAt[p] = "read"
  /\ tickAt' = [tickAt EXCEPT ![p] = "break"]
  /\ UNCHANGED <<file, broken, overruns, contended, tickDeaths>>

\* A stamp that is not old yet holds; a lock that is old, blank or gone by
\* now counts as left by a dead process.
FindLock(p) ==
  /\ tickAt[p] = "read"
  /\ tickAt' = [tickAt EXCEPT ![p] = IF file.text = "stamped" THEN "idle" ELSE "break"]
  /\ UNCHANGED <<file, broken, overruns, contended, tickDeaths>>

\* rm -f, whatever file is there now; the second time it is given up.
Break(p) ==
  /\ tickAt[p] = "break"
  /\ file' = NoFile
  /\ broken' = [broken EXCEPT ![p] = @ + 1]
  /\ tickAt' = [tickAt EXCEPT ![p] = IF broken[p] = 0 THEN "create" ELSE "idle"]
  /\ UNCHANGED <<overruns, contended, tickDeaths>>

-----------------------------------------------------------------------------
(* The sweep, and time *)

\* The finally of cmdTick, also when the sweep threw: rm -f.
ReleaseLock(p) ==
  /\ tickAt[p] = "sweep"
  /\ file' = NoFile
  /\ tickAt' = [tickAt EXCEPT ![p] = "idle"]
  /\ UNCHANGED <<broken, overruns, contended, tickDeaths>>

\* 45 minutes have passed since the stamp.
Age ==
  /\ file.text = "stamped"
  /\ file' = [file EXCEPT !.text = "old"]
  /\ IF file.by \in Sweepers
       THEN overruns < MaxOverruns /\ overruns' = overruns + 1
       ELSE UNCHANGED overruns
  /\ UNCHANGED <<tickAt, broken, contended, tickDeaths>>

DieInTick(p) ==
  /\ tickAt[p] # "idle"
  /\ tickDeaths < MaxTickDeaths
  /\ tickDeaths' = tickDeaths + 1
  /\ tickAt' = [tickAt EXCEPT ![p] = "idle"]
  /\ UNCHANGED <<file, broken, overruns, contended>>

LockInit == /\ file = NoFile
            /\ tickAt = [p \in Ticks |-> "idle"]
            /\ broken = [p \in Ticks |-> 0]
            /\ overruns = 0
            /\ contended = FALSE
            /\ tickDeaths = 0

Continue(p) == Create(p) \/ Write(p) \/ FindLock(p) \/ Break(p) \/ ReleaseLock(p)

LockNext == \/ \E p \in Ticks : Start(p) \/ Continue(p) \/ DieInTick(p)
            \/ Age

LockSpec == LockInit /\ [][LockNext]_lockVars

\* Ticks are started again and again, what was begun goes on, time passes.
LockFairness == /\ WF_lockVars(\E p \in Ticks : Start(p))
                /\ \A p \in Ticks : WF_lockVars(Continue(p))
                /\ WF_lockVars(Age)

FairLockSpec == LockSpec /\ LockFairness

-----------------------------------------------------------------------------
(* Properties *)

\* While ticks start apart from each other, a sweep that outlives its lock
\* adds one that runs beside others and never more, although it removes the
\* next one's lock when it ends, which removes the next one's; without any
\* there is one sweep at a time (acquireTickLock, and the finally of cmdTick).
OneMorePerOverrun ==
  ~contended => Cardinality(Sweepers) <= 1 + overruns

\* No death stops the ticks for good, not even one that leaves a lock with
\* nothing in it: sweeps come back (the stale break of acquireTickLock).
SweepsComeBack == []<>(Sweepers # {})
=============================================================================
