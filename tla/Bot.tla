-------------------------------- MODULE Bot --------------------------------
(***************************************************************************)
(* Daemons of the Discord bot on one box: the lock that keeps a second one *)
(* out (state/bot.lock), the gateway connection each of them keeps up, and *)
(* the loop between them that scans and refreshes the lock.  launchd or    *)
(* systemd starts a daemon again whenever one has ended.                   *)
(*                                                                         *)
(* Time passes in units of five minutes, which is how often a lock is      *)
(* refreshed; one that is more than three units old is stale.  Reading and *)
(* breaking a lock are two steps, and so are emptying the file and writing *)
(* the stamp into it, in an acquisition and in a refresh.                  *)
(***************************************************************************)
EXTENDS Integers, FiniteSets

CONSTANTS Bots,         \* daemons
          MaxHangs,     \* bound on daemons that hang for more than 15 minutes
          MaxLosses,    \* bound on connections that are lost
          MaxDeaths,    \* bound on daemons that die
          MaxMishaps    \* bound on these three in all

ASSUME BotAssumption == IsFiniteSet(Bots) /\ "nobody" \notin Bots

VARIABLES botLock,   \* the lock file: its creator, and the age of its stamp
          life,      \* life[b]: how far daemon b is in runBot
          handle,    \* handle[b]: the creator of the file b is writing
          since,     \* since[b]: units since b last took or refreshed the lock
          session,   \* session[b]: its connection to the gateway
          stopped,   \* daemons that were sent a SIGTERM
          mixed,     \* two daemons were at the lock file at once
          botUsed    \* how much of each bound is used up

botVars == <<botLock, life, handle, since, session, stopped, mixed, botUsed>>

LOCK_STALE   == 3
LOCK_REFRESH == 1
Old          == LOCK_STALE + 1   \* any greater age

\* A file without a stamp has age -1.
Blank      == -1
NoLock     == [by |-> "nobody", age |-> Blank]
BlankBy(b) == [by |-> b, age |-> Blank]

AtTheLock == {b \in Bots : life[b] \in {"create", "read", "break", "recreate", "write",
                                        "refresh"}}
Running   == {b \in Bots : life[b] \in {"connect", "loop", "refresh"}}

\* Daemon b goes to work on the lock file.
Approach(b) == mixed' = (mixed \/ AtTheLock \ {b} # {})

\* The process ends; its connection ends with it.
Ends(b) == /\ life' = [life EXCEPT ![b] = "down"]
           /\ session' = [session EXCEPT ![b] = "none"]
           /\ stopped' = stopped \ {b}

Mishaps == botUsed.overruns + botUsed.losses + botUsed.deaths

SpendBot(what, n, bound) == /\ botUsed[what] + n <= bound
                            /\ Mishaps + n <= MaxMishaps
                            /\ botUsed' = [botUsed EXCEPT ![what] = @ + n]

-----------------------------------------------------------------------------
(* acquireLock *)

StartBot(b) ==
  /\ life[b] = "down"
  /\ life' = [life EXCEPT ![b] = "create"]
  /\ Approach(b)
  /\ UNCHANGED <<botLock, handle, since, session, stopped, botUsed>>

\* tryCreate: open(path, 'wx'); the second time, EEXIST ends the process.
TryCreate(b) ==
  /\ life[b] \in {"create", "recreate"}
  /\ IF botLock = NoLock
       THEN /\ botLock' = BlankBy(b)
            /\ handle' = [handle EXCEPT ![b] = b]
            /\ life' = [life EXCEPT ![b] = "write"]
       ELSE /\ life' = [life EXCEPT ![b] = IF @ = "create" THEN "read" ELSE "down"]
            /\ UNCHANGED <<botLock, handle>>
  /\ UNCHANGED <<since, session, stopped, mixed, botUsed>>

\* Stale: the stamp is old, or there is none that can be read.
ReadLock(b) ==
  /\ life[b] = "read"
  /\ life' = [life EXCEPT ![b] =
                IF botLock.age \in 0..LOCK_STALE THEN "down" ELSE "break"]
  /\ UNCHANGED <<botLock, handle, since, session, stopped, mixed, botUsed>>

\* rm -f, whatever lock is there by now.
BreakLock(b) ==
  /\ life[b] = "break"
  /\ botLock' = NoLock
  /\ life' = [life EXCEPT ![b] = "recreate"]
  /\ UNCHANGED <<handle, since, session, stopped, mixed, botUsed>>

\* The stamp goes into the file that was opened, even if it is removed; after
\* an acquisition the gateway is started, after a refresh the loop goes on.
WriteStamp(b) ==
  /\ life[b] \in {"write", "refresh"}
  /\ botLock' = IF botLock.by = handle[b] THEN [botLock EXCEPT !.age = 0] ELSE botLock
  /\ handle' = [handle EXCEPT ![b] = "nobody"]
  /\ since' = [since EXCEPT ![b] = 0]
  /\ IF life[b] = "write"
       THEN /\ life' = [life EXCEPT ![b] = "connect"]
            /\ session' = [session EXCEPT ![b] = "open"]
       ELSE /\ life' = [life EXCEPT ![b] = "loop"]
            /\ UNCHANGED session
  /\ UNCHANGED <<stopped, mixed, botUsed>>

-----------------------------------------------------------------------------
(* DiscordGateway *)

\* HELLO, answered with IDENTIFY.
Identify(b) ==
  /\ session[b] = "open"
  /\ session' = [session EXCEPT ![b] = "identified"]
  /\ UNCHANGED <<botLock, life, handle, since, stopped, mixed, botUsed>>

\* READY; the first one resolves start() and begins the loop.
GatewayReady(b) ==
  /\ session[b] = "identified"
  /\ session' = [session EXCEPT ![b] = "ready"]
  /\ life' = [life EXCEPT ![b] = IF @ = "connect" THEN "loop" ELSE @]
  /\ UNCHANGED <<botLock, handle, since, stopped, mixed, botUsed>>

\* Seeded fault: a lost connection is not made again.
Lost_ForGood(b) ==
  /\ session[b] \in {"open", "identified", "ready"}
  /\ SpendBot("losses", 1, MaxLosses)
  /\ session' = [session EXCEPT ![b] = "none"]
  /\ UNCHANGED <<botLock, life, handle, since, stopped, mixed>>

\* The socket closes: by itself, after an error, op 7 or op 9.
Lost(b) ==
  /\ session[b] \in {"open", "identified", "ready"}
  /\ SpendBot("losses", 1, MaxLosses)
  /\ session' = [session EXCEPT ![b] = "backoff"]
  /\ UNCHANGED <<botLock, life, handle, since, stopped, mixed>>

\* _scheduleReconnect: the wait is over; there is a new session, no RESUME.
Reconnect(b) ==
  /\ session[b] = "backoff"
  /\ session' = [session EXCEPT ![b] = "open"]
  /\ UNCHANGED <<botLock, life, handle, since, stopped, mixed, botUsed>>

-----------------------------------------------------------------------------
(* The loop of runBot *)

\* Seeded fault: the timer is reset and nothing is written.
RefreshLock_TimerOnly(b) ==
  /\ life[b] = "loop" /\ since[b] >= LOCK_REFRESH
  /\ Approach(b)
  /\ life' = [life EXCEPT ![b] = "refresh"]
  /\ handle' = [handle EXCEPT ![b] = "nobody"]
  /\ UNCHANGED <<botLock, since, session, stopped, botUsed>>

\* After a scan cycle, five minutes after the last refresh: writeFile opens
\* whatever lock is there, empties it, or makes one.
RefreshLock(b) ==
  /\ life[b] = "loop" /\ since[b] >= LOCK_REFRESH
  /\ Approach(b)
  /\ botLock' = IF botLock = NoLock THEN BlankBy(b) ELSE [botLock EXCEPT !.age = Blank]
  /\ handle' = [handle EXCEPT ![b] = botLock'.by]
  /\ life' = [life EXCEPT ![b] = "refresh"]
  /\ UNCHANGED <<since, session, stopped, botUsed>>

\* The finally of runBot: rm -f, whatever lock is there.
StopBot(b) ==
  /\ life[b] = "loop" /\ b \in stopped
  /\ botLock' = NoLock
  /\ Ends(b)
  /\ UNCHANGED <<handle, since, mixed, botUsed>>

\* A SIGTERM is noticed at the top of the loop, not while start() waits.
Sigterm(b) ==
  /\ b \in Running \ stopped
  /\ stopped' = stopped \cup {b}
  /\ UNCHANGED <<botLock, life, handle, since, session, mixed, botUsed>>

BotDies(b) ==
  /\ life[b] # "down"
  /\ SpendBot("deaths", 1, MaxDeaths)
  /\ Ends(b)
  /\ UNCHANGED <<botLock, handle, since, mixed>>

\* Five minutes: a daemon that has done nothing for more than three of them -
\* it waits for READY, or a scan cycle hangs - is an overrun.
FiveMinutes ==
  /\ SpendBot("overruns", Cardinality({b \in Running : since[b] = LOCK_STALE}), MaxHangs)
  /\ botLock' = IF botLock.age \in 0..LOCK_STALE THEN [botLock EXCEPT !.age = @ + 1] ELSE botLock
  /\ since' = [b \in Bots |-> IF b \in Running /\ since[b] # Old THEN since[b] + 1 ELSE since[b]]
  /\ UNCHANGED <<life, handle, session, stopped, mixed>>

BotInit ==
  /\ botLock = NoLock
  /\ life = [b \in Bots |-> "down"]
  /\ handle = [b \in Bots |-> "nobody"]
  /\ since = [b \in Bots |-> 0]
  /\ session = [b \in Bots |-> "none"]
  /\ stopped = {}
  /\ mixed = FALSE
  /\ botUsed = [overruns |-> 0, losses |-> 0, deaths |-> 0]

\* What a daemon does by itself.
BotStep(b) == \/ TryCreate(b) \/ ReadLock(b) \/ BreakLock(b) \/ WriteStamp(b)
              \/ RefreshLock(b) \/ StopBot(b)

GatewayStep(b) == Identify(b) \/ GatewayReady(b) \/ Reconnect(b)

BotNext == \/ \E b \in Bots : \/ StartBot(b) \/ BotStep(b) \/ GatewayStep(b)
                              \/ Lost(b) \/ Sigterm(b) \/ BotDies(b)
           \/ FiveMinutes

\* The service manager starts daemons again, what runs goes on, Discord
\* answers, time passes.
BotFairness == /\ WF_botVars(\E b \in Bots : StartBot(b))
               /\ \A b \in Bots : WF_botVars(BotStep(b)) /\ WF_botVars(GatewayStep(b))
               /\ WF_botVars(FiveMinutes)

BotSpec == BotInit /\ [][BotNext]_botVars /\ BotFairness

-----------------------------------------------------------------------------
(* Properties *)

\* As long as daemons come to the lock file one at a time, a daemon that hangs
\* past its lock lets in one more and never two, although it goes on to stamp
\* and to remove the lock of the one that came after it; while all keep
\* refreshing in time there is one daemon (acquireLock, its refresh and its
\* release).
OneDaemonPerOverrun == ~mixed => Cardinality(Running) <= 1 + botUsed.overruns

\* The owner's taps and messages come to be heard again after any death, lost
\* connection, hang or stop, whatever lock is left behind (the stale break of
\* acquireLock, the reconnects of DiscordGateway).
ListensAgain == []<>(\E b \in Bots : session[b] = "ready")
=============================================================================
