------------------------------- MODULE Notify -------------------------------
(***************************************************************************)
(* The outbound scanner: once a minute the bot compares the store with its *)
(* ledger of messages and sends the owner what is new.  It keeps nothing   *)
(* in memory from one cycle to the next: a cycle that throws and a bot     *)
(* that dies and restarts differ in nothing but the delay.                 *)
(*                                                                         *)
(* An event is a key of the ledger.  A key is claimed before its message   *)
(* is sent and marked sent afterwards; a claim left behind is sent again   *)
(* after five minutes.  Runs are numbered in the order they started, which *)
(* is what the run cursor compares.                                        *)
(***************************************************************************)
EXTENDS Integers, FiniteSets

CONSTANTS Items,       \* content items
          MaxAttempt,  \* bound on the drafts of an item
          MaxRuns,     \* bound on the runs that are started
          Marks,       \* what is told once per date or 90 minutes off a marker
          Urgent,      \* those among them that quiet hours do not hold back
          MaxFaults    \* bound on throws, deaths and doubled requests

ASSUME NotifyAssumption == /\ MaxAttempt \in Nat
                           /\ MaxRuns \in Nat
                           /\ MaxFaults \in Nat

VARIABLES review,  \* review[i]: draft of item i, and whether it awaits review
          runs,    \* runs[k]: what became of the k-th run
          due,     \* marks that hold: the cap is hit, no tick for 90 minutes,
                   \* it is past the hour of the heartbeat
          night,   \* it is within quiet hours
          cursor,  \* telegram_runs_cursor, or Never before the first boot
          ledger,  \* ledger[key]: free, claimed or sent
          old,     \* claims that are older than five minutes
          shown,   \* shown[key]: messages of that key in the owner's channel
          bot,     \* how far the scan cycle is
          faults   \* throws, deaths and doubled requests so far

world == <<review, runs, due, night>>
vars  == <<review, runs, due, night, cursor, ledger, old, shown,
           bot, faults>>

Never == -1
Runs  == 1..MaxRuns

Started == Cardinality({k \in Runs : runs[k] # "none"})

\* The largest of a set of numbers.
Latest(ks) == CHOOSE k \in ks : \A other \in ks : other <= k

-----------------------------------------------------------------------------
(* Keys *)

Card(i, a)  == <<"card", i, a>>
Failure(k)  == <<"runfail", "run", k>>
Fallback(k) == <<"fallback", "run", k>>
Summary(k)  == <<"summary", "run", k>>
Mark(m)     == <<"mark", m, 0>>

Keys == {Card(i, a) : i \in Items, a \in 1..MaxAttempt}
          \cup {Failure(k) : k \in Runs} \cup {Fallback(k) : k \in Runs}
          \cup {Summary(k) : k \in 0..MaxRuns}
          \cup {Mark(m) : m \in Marks}

\* Keys that quiet hours do not hold back.
Critical(key) == key[1] = "runfail" \/ key[2] \in Urgent

NoKey == <<"none", "none", 0>>

-----------------------------------------------------------------------------
(* A scan cycle *)

\* runsNow and quiet are fixed when the cycle begins.  queue holds the
\* keys the section has yet to send, key the one in hand.
IdleBot == [step |-> "idle", quiet |-> FALSE, runsNow |-> 0,
            queue |-> {}, key |-> NoKey, delivered |-> FALSE,
            top |-> 0, news |-> FALSE]

\* Quiet hours: a key that is not critical is not claimed.
Held(keys) == IF bot.quiet THEN {key \in keys : Critical(key)} ELSE keys

\* Go on with a section that has these keys to send.
Section(step, keys) ==
  bot' = [bot EXCEPT !.step = step, !.queue = Held(keys)]

\* The section before it has sent all it had.
Finished(step) == bot.step = step /\ bot.queue = {} /\ bot.key = NoKey

\* Seeded fault: nothing is sent again.
BeginCycle_NoOrphans ==
  /\ bot.step = "idle"
  /\ bot' = [IdleBot EXCEPT !.step = "orphans", !.quiet = night,
                            !.runsNow = Started]
  /\ UNCHANGED <<world, cursor, ledger, old, shown, faults>>

BeginCycle ==
  /\ bot.step = "idle"
  /\ bot' = [IdleBot EXCEPT !.step = "orphans", !.quiet = night,
                            !.runsNow = Started,
                            !.queue = {key \in old : ledger[key] = "claimed"}]
  /\ UNCHANGED <<world, cursor, ledger, old, shown, faults>>

ScanCards ==
  /\ Finished("orphans")
  /\ Section("cards", {Card(i, review[i].attempt) :
                         i \in {j \in Items : review[j].open}})
  /\ UNCHANGED <<world, cursor, ledger, old, shown, faults>>

\* First boot: no alert about the past.
FirstBoot ==
  /\ Finished("cards")
  /\ cursor = Never
  /\ cursor' = bot.runsNow
  /\ Section("summary", {})
  /\ UNCHANGED <<world, ledger, old, shown, faults>>

\* The runs that started since the cursor.  What the sections after it need
\* of this listing is the latest one and whether a summary is due.
ScanRuns ==
  LET fresh == {k \in Runs : k > cursor /\ runs[k] # "none"}
      failed == {k \in fresh : runs[k] = "failed"}
      rendered == {k \in fresh : runs[k] = "rendered"}
  IN  /\ Finished("cards")
      /\ cursor # Never
      /\ bot' = [bot EXCEPT
                   !.step = "runs",
                   !.queue = Held({Failure(k) : k \in failed} \cup
                                  {Fallback(k) :
                                     k \in {f \in fresh : runs[f] = "fallback"}}),
                   !.top = Latest(fresh \cup {cursor}),
                   !.news = /\ fresh # {}
                            /\ @ \/ failed # {} \/ rendered # {}]
      /\ UNCHANGED <<world, cursor, ledger, old, shown, faults>>

\* Seeded fault: the cursor is moved before the alerts are sent.
AdvanceCursor_First ==
  /\ bot.step = "runs" /\ bot.key = NoKey
  /\ cursor # bot.top \/ bot.queue = {}
  /\ cursor' = bot.top
  /\ IF bot.queue = {}
       THEN Section("summary", IF bot.news THEN {Summary(bot.top)} ELSE {})
       ELSE UNCHANGED bot
  /\ UNCHANGED <<world, ledger, old, shown, faults>>

AdvanceCursor ==
  /\ Finished("runs")
  /\ cursor' = bot.top
  /\ Section("summary", IF bot.news THEN {Summary(bot.top)} ELSE {})
  /\ UNCHANGED <<world, ledger, old, shown, faults>>

\* Spend cap, liveness and heartbeat, off the markers that hold.
ScanMarks ==
  /\ Finished("summary")
  /\ Section("daily", {Mark(m) : m \in due})
  /\ UNCHANGED <<world, cursor, ledger, old, shown, faults>>

EndCycle ==
  /\ Finished("daily")
  /\ bot' = IdleBot
  /\ UNCHANGED <<world, cursor, ledger, old, shown, faults>>
-----------------------------------------------------------------------------
(* Sending one key *)

\* The cycle turns to a key of its queue, one at a time.
Turns(key) == bot.key = NoKey /\ key \in bot.queue

\* An orphan is its claim already.
TakeOrphan(key) ==
  /\ Turns(key)
  /\ bot.step = "orphans"
  /\ bot' = [bot EXCEPT !.queue = @ \ {key}, !.key = key]
  /\ UNCHANGED <<world, cursor, ledger, old, shown, faults>>

\* Seeded fault: whoever finds the key in the ledger sends it again.
Claim_Always(key) ==
  /\ Turns(key)
  /\ bot.step # "orphans"
  /\ bot' = [bot EXCEPT !.queue = @ \ {key}, !.key = key]
  /\ ledger' = [ledger EXCEPT ![key] = "claimed"]
  /\ UNCHANGED <<world, cursor, old, shown, faults>>

\* tgClaim: the first to claim a key sends it, the others pass over it.
Claim(key) ==
  /\ Turns(key)
  /\ bot.step # "orphans"
  /\ IF ledger[key] = "free"
       THEN /\ ledger' = [ledger EXCEPT ![key] = "claimed"]
            /\ bot' = [bot EXCEPT !.queue = @ \ {key}, !.key = key]
       ELSE /\ bot' = [bot EXCEPT !.queue = @ \ {key}]
            /\ UNCHANGED ledger
  /\ UNCHANGED <<world, cursor, old, shown, faults>>

\* The request is answered; one that was cut off after Discord took it has
\* been made twice.
Deliver(copies) ==
  /\ bot.key # NoKey
  /\ ~bot.delivered
  /\ faults + copies - 1 <= MaxFaults
  /\ faults' = faults + copies - 1
  /\ shown' = [shown EXCEPT ![bot.key] = @ + copies]
  /\ bot' = [bot EXCEPT !.delivered = TRUE]
  /\ UNCHANGED <<world, cursor, ledger, old>>

\* tgMarkSent; a card that went out is worth a summary.
MarkSent ==
  /\ bot.key # NoKey
  /\ bot.delivered
  /\ ledger' = [ledger EXCEPT ![bot.key] = "sent"]
  /\ bot' = [bot EXCEPT !.key = NoKey, !.delivered = FALSE,
                        !.news = @ \/ bot.key[1] = "card"]
  /\ UNCHANGED <<world, cursor, old, shown, faults>>

\* The store or Discord throws and the cycle is over, or the bot dies; what
\* was being sent may have got through.
Dies ==
  /\ bot.step # "idle"
  /\ faults < MaxFaults
  /\ faults' = faults + 1
  /\ bot' = IdleBot
  /\ \/ UNCHANGED shown
     \/ /\ bot.key # NoKey /\ ~bot.delivered
        /\ shown' = [shown EXCEPT ![bot.key] = @ + 1]
  /\ UNCHANGED <<world, cursor, ledger, old>>

BotStep == \/ BeginCycle \/ ScanCards \/ FirstBoot \/ ScanRuns
           \/ AdvanceCursor \/ ScanMarks \/ EndCycle
           \/ \E key \in bot.queue : TakeOrphan(key) \/ Claim(key)
           \/ \E copies \in {1, 2} : Deliver(copies)
           \/ MarkSent

-----------------------------------------------------------------------------
(* The world the scanner watches *)

\* QA passes a draft on to review, and the owner decides it.
Submit(i) ==
  /\ ~review[i].open
  /\ review[i].attempt < MaxAttempt
  /\ review' = [review EXCEPT ![i] = [attempt |-> @.attempt + 1, open |-> TRUE]]
  /\ UNCHANGED <<runs, due, night, cursor, ledger, old, shown, bot,
                 faults>>

Decide(i) ==
  /\ review[i].open
  /\ review' = [review EXCEPT ![i].open = FALSE]
  /\ UNCHANGED <<runs, due, night, cursor, ledger, old, shown, bot,
                 faults>>

StartRun(k) ==
  /\ k = Started + 1
  /\ runs' = [runs EXCEPT ![k] = "running"]
  /\ UNCHANGED <<review, due, night, cursor, ledger, old, shown, bot,
                 faults>>

\* rendered: a render that produced something; fallback: a draft written by
\* another model than the pinned one; ok: nothing to report.
EndRun(k) ==
  /\ runs[k] = "running"
  /\ \E outcome \in {"ok", "rendered", "failed", "fallback"} :
       runs' = [runs EXCEPT ![k] = outcome]
  /\ UNCHANGED <<review, due, night, cursor, ledger, old, shown, bot,
                 faults>>

\* A marker is set or goes away: spend_cap_hit, last_tick_at, the hour.
SetDue(m) ==
  /\ due' \in {due \cup {m}, due \ {m}}
  /\ due' # due
  /\ UNCHANGED <<review, runs, night, cursor, ledger, old, shown, bot, faults>>

QuietHours(value) ==
  /\ night # value
  /\ night' = value
  /\ UNCHANGED <<review, runs, due, cursor, ledger, old, shown, bot, faults>>

\* Five minutes pass, in which every claim there is gets old.
ClaimsAge ==
  /\ old' = {key \in Keys : ledger[key] = "claimed"}
  /\ old' # old
  /\ UNCHANGED <<world, cursor, ledger, shown, bot, faults>>

Init == /\ review = [i \in Items |-> [attempt |-> 0, open |-> FALSE]]
        /\ runs = [k \in Runs |-> "none"]
        /\ due = {}
        /\ night = FALSE
        /\ cursor = Never
        /\ ledger = [key \in Keys |-> "free"]
        /\ old = {}
        /\ shown = [key \in Keys |-> 0]
        /\ bot = IdleBot
        /\ faults = 0

Next == \/ BotStep
        \/ Dies
        \/ \E i \in Items : Submit(i) \/ Decide(i)
        \/ \E k \in Runs : StartRun(k) \/ EndRun(k)
        \/ \E m \in Marks : SetDue(m)
        \/ \E value \in BOOLEAN : QuietHours(value)
        \/ ClaimsAge

Spec == Init /\ [][Next]_vars

\* launchd restarts the bot and it scans once a minute, so again and again a
\* cycle begins by day.
Fairness == /\ WF_vars(BotStep)
            /\ []<><<BeginCycle /\ ~night>>_vars
            /\ WF_vars(ClaimsAge)

FairSpec == Spec /\ Fairness

-----------------------------------------------------------------------------
(* Properties *)

\* An event reaches the owner once, whatever is scanned again: only a throw,
\* a death or a request cut off after it was taken can double it, and each
\* doubles one message once (tgClaim, tgMarkSent and the resend of orphans).
OneMessagePerEvent ==
  \A key \in Keys : shown[key] <= 1 + faults

\* A draft that stays under review comes to the owner's attention: its card
\* outlives quiet hours, deaths and cycles that throw.
CardsArrive ==
  \A i \in Items, a \in 1..MaxAttempt :
    review[i] = [attempt |-> a, open |-> TRUE]
      ~> review[i] # [attempt |-> a, open |-> TRUE] \/ shown[Card(i, a)] > 0

\* A run that has failed and that no cycle has passed over when the next
\* begins is reported, by day or by night and whatever that cycle dies of:
\* the cursor moves only after the alerts it moves over were claimed.
FailuresSeenArrive ==
  \A k \in Runs :
    (bot.step = "idle" /\ cursor \in 0..(k - 1) /\ runs[k] = "failed")
      ~> shown[Failure(k)] > 0

\* Every failure path emits an alert (docs/WAVE2_BRIEF.md, section 3.10): a
\* run that starts after the first boot and fails is reported.
EveryFailureAlerts ==
  \A k \in Runs :
    []((cursor # Never /\ runs[k] = "none")
         => [](runs[k] = "failed" => <>(shown[Failure(k)] > 0)))
=============================================================================
