---------------------------- MODULE NotifyProofs ----------------------------
(***************************************************************************)
(* OneMessagePerEvent for any number of items, runs, markers and faults.   *)
(*                                                                         *)
(* A key is worth one message for good when it is marked sent, or while    *)
(* its message is out and the mark is not; every other message of it was   *)
(* paid for by a fault.                                                    *)
(***************************************************************************)
EXTENDS Notify, TLAPS

\* The fields of bot, whatever they hold.
Shape == bot = [step |-> bot.step, quiet |-> bot.quiet,
                runsNow |-> bot.runsNow, queue |-> bot.queue,
                key |-> bot.key, delivered |-> bot.delivered,
                top |-> bot.top, news |-> bot.news]

Typed == /\ ledger \in [Keys -> {"free", "claimed", "sent"}]
         /\ shown \in [Keys -> Nat]
         /\ faults \in Nat
         /\ old \subseteq Keys
         /\ bot.delivered \in BOOLEAN

\* What is in hand, or about to be sent again, is claimed.
InHand == /\ bot.step = "idle" => bot.key = NoKey /\ bot.queue = {}
          /\ bot.key = NoKey => ~bot.delivered
          /\ bot.key \in Keys => ledger[bot.key] = "claimed"
          /\ bot.step = "orphans" =>
               /\ bot.key \notin bot.queue
               /\ \A key \in bot.queue :
                    key \in Keys /\ ledger[key] = "claimed"

\* The one message of a key that needs no fault.
Free(key) ==
  IF ledger[key] = "sent" \/ (bot.key = key /\ bot.delivered) THEN 1 ELSE 0

Paid == \A key \in Keys :
          /\ ledger[key] = "free" => shown[key] = 0
          /\ shown[key] <= faults + Free(key)

MessageInv == Shape /\ Typed /\ InHand /\ Paid

-----------------------------------------------------------------------------

\* No key of the ledger is the placeholder.
LEMMA NoKeyIsNone == NoKey \notin Keys
  BY DEF NoKey, Keys, Card, Failure, Fallback, Summary, Mark

LEMMA InitInv == Init => MessageInv
<1>. SUFFICES ASSUME Init PROVE MessageInv
  OBVIOUS
<1>1. Shape /\ bot.key = NoKey /\ bot.delivered = FALSE /\ bot.step = "idle"
      /\ bot.queue = {}
  BY DEF Init, IdleBot, Shape
<1>2. Typed /\ InHand
  BY <1>1, NoKeyIsNone DEF Init, Typed, InHand
<1>3. Paid
  BY <1>1 DEF Init, Paid, Free
<1>. QED
  BY <1>1, <1>2, <1>3 DEF MessageInv

\* What it means for the bot to turn to its next section.
LEMMA SectionStep ==
  ASSUME MessageInv, NEW step, NEW keys, Section(step, keys)
  PROVE  /\ Shape' /\ bot'.step = step
         /\ bot'.key = bot.key /\ bot'.delivered = bot.delivered
  BY DEF MessageInv, Shape, Section

LEMMA CycleStep ==
  ASSUME MessageInv,
         \/ BeginCycle \/ ScanCards \/ FirstBoot \/ ScanRuns
         \/ AdvanceCursor \/ ScanMarks \/ EndCycle
  PROVE  MessageInv'
<1>. DEFINE Quiet == /\ bot.key = NoKey /\ bot'.key = NoKey
                     /\ ~bot'.delivered /\ bot'.delivered \in BOOLEAN
                     /\ Shape' /\ bot'.step # "orphans"
                     /\ bot'.step = "idle" => bot'.queue = {}
                     /\ UNCHANGED <<ledger, shown, faults, old>>
<1>. USE DEF MessageInv
<1>1. ASSUME Quiet PROVE MessageInv'
  <2>1. Typed' /\ InHand'
    BY <1>1, NoKeyIsNone DEF Typed, InHand
  <2>2. Paid'
    BY <1>1, NoKeyIsNone DEF Paid, Free, InHand, Typed
  <2>. QED
    BY <1>1, <2>1, <2>2
<1>2. CASE BeginCycle
  <2>1. /\ Shape' /\ bot'.key = NoKey /\ bot'.delivered = FALSE
        /\ ~bot.delivered /\ bot'.step = "orphans"
        /\ bot'.queue = {key \in old : ledger[key] = "claimed"}
        /\ UNCHANGED <<ledger, shown, faults, old>>
    BY <1>2 DEF BeginCycle, IdleBot, Shape, InHand
  <2>2. Typed' /\ InHand'
    BY <2>1, NoKeyIsNone DEF Typed, InHand
  <2>. QED
    BY <2>1, <2>2 DEF Paid, Free, Typed
<1>3. CASE ScanCards
  BY <1>3, <1>1, SectionStep DEF ScanCards, Finished, InHand, Typed
<1>4. CASE FirstBoot
  BY <1>4, <1>1, SectionStep DEF FirstBoot, Finished, InHand, Typed
<1>5. CASE ScanRuns
  <2>1. Quiet
    BY <1>5 DEF ScanRuns, Finished, InHand, Typed, Shape
  <2>. QED
    BY <2>1, <1>1
<1>6. CASE AdvanceCursor
  BY <1>6, <1>1, SectionStep DEF AdvanceCursor, Finished, InHand, Typed
<1>7. CASE ScanMarks
  BY <1>7, <1>1, SectionStep DEF ScanMarks, Finished, InHand, Typed
<1>8. CASE EndCycle
  BY <1>8, <1>1 DEF EndCycle, IdleBot, Finished, Shape
<1>. QED
  BY <1>2, <1>3, <1>4, <1>5, <1>6, <1>7, <1>8

LEMMA TakeOrphanStep ==
  ASSUME MessageInv, NEW key \in bot.queue, TakeOrphan(key)
  PROVE  MessageInv'
<1>1. /\ Shape' /\ bot'.key = key /\ bot'.queue = bot.queue \ {key}
      /\ bot'.delivered = bot.delivered /\ bot'.step = bot.step
      /\ UNCHANGED <<ledger, shown, faults, old>>
  BY DEF TakeOrphan, MessageInv, Shape
<1>2. bot.key = NoKey /\ bot.step = "orphans"
  BY DEF TakeOrphan, Turns
<1>. QED
  BY <1>1, <1>2, NoKeyIsNone DEF MessageInv, Typed, InHand, Paid, Free

LEMMA ClaimStep ==
  ASSUME MessageInv, NEW key \in bot.queue, Claim(key)
  PROVE  MessageInv'
<1>1. bot.key = NoKey /\ bot.step # "orphans" /\ ~bot.delivered
  BY DEF Claim, Turns, MessageInv, InHand
<1>2. CASE ledger[key] = "free"
  <2>1. /\ Shape' /\ bot'.key = key /\ ~bot'.delivered
        /\ bot'.delivered \in BOOLEAN /\ bot'.step = bot.step
        /\ ledger' = [ledger EXCEPT ![key] = "claimed"]
        /\ UNCHANGED <<shown, faults, old>>
    BY <1>1, <1>2 DEF Claim, MessageInv, Shape, Typed
  <2>. QED
    BY <2>1, <1>1, <1>2 DEF MessageInv, Typed, InHand, Paid, Free
<1>3. CASE ledger[key] # "free"
  <2>1. /\ Shape' /\ bot'.key = bot.key /\ ~bot'.delivered
        /\ bot'.delivered \in BOOLEAN /\ bot'.step = bot.step
        /\ UNCHANGED <<ledger, shown, faults, old>>
    BY <1>1, <1>3 DEF Claim, MessageInv, Shape, Typed
  <2>. QED
    BY <2>1, <1>1 DEF MessageInv, Typed, InHand, Paid, Free
<1>. QED
  BY <1>2, <1>3

LEMMA DeliverStep ==
  ASSUME MessageInv, NEW copies \in {1, 2}, Deliver(copies)
  PROVE  MessageInv'
<1>1. /\ Shape' /\ bot'.key = bot.key /\ bot'.delivered = TRUE
      /\ bot'.step = bot.step /\ bot'.queue = bot.queue
      /\ bot.key # NoKey /\ ~bot.delivered
      /\ faults' = faults + copies - 1
      /\ shown' = [shown EXCEPT ![bot.key] = @ + copies]
      /\ UNCHANGED <<ledger, old>>
  BY DEF Deliver, MessageInv, Shape
<1>2. Typed'
  <2>1. shown \in [Keys -> Nat] /\ faults \in Nat
    BY DEF MessageInv, Typed
  <2>2. ASSUME NEW key \in Keys PROVE shown'[key] \in Nat
    BY <1>1, <2>1
  <2>3. shown' \in [Keys -> Nat]
    BY <1>1, <2>1, <2>2
  <2>4. faults' \in Nat
    BY <1>1, <2>1
  <2>5. bot'.delivered \in BOOLEAN
    BY <1>1
  <2>. QED
    BY <1>1, <2>3, <2>4, <2>5 DEF MessageInv, Typed
<1>0. InHand'
  BY <1>1 DEF MessageInv, InHand
<1>3. Paid'
  BY <1>1 DEF MessageInv, Typed, InHand, Paid, Free
<1>. QED
  BY <1>0, <1>1, <1>2, <1>3 DEF MessageInv

LEMMA MarkSentStep ==
  ASSUME MessageInv, MarkSent
  PROVE  MessageInv'
<1>1. /\ Shape' /\ bot'.key = NoKey /\ bot'.delivered = FALSE
      /\ bot'.step = bot.step /\ bot'.queue = bot.queue
      /\ bot.delivered
      /\ ledger' = [ledger EXCEPT ![bot.key] = "sent"]
      /\ UNCHANGED <<shown, faults, old>>
  BY DEF MarkSent, MessageInv, Shape
<1>2. Typed' /\ InHand'
  BY <1>1, NoKeyIsNone DEF MessageInv, Typed, InHand
<1>3. Paid'
  BY <1>1, NoKeyIsNone DEF MessageInv, Typed, InHand, Paid, Free
<1>. QED
  BY <1>1, <1>2, <1>3 DEF MessageInv

LEMMA DiesStep ==
  ASSUME MessageInv, Dies
  PROVE  MessageInv'
<1>1. /\ Shape' /\ bot'.key = NoKey /\ bot'.delivered = FALSE
      /\ bot'.step = "idle" /\ bot'.queue = {}
      /\ faults' = faults + 1
      /\ UNCHANGED <<ledger, old>>
  BY DEF Dies, IdleBot, Shape
<1>2. \/ UNCHANGED shown
      \/ ~bot.delivered /\ shown' = [shown EXCEPT ![bot.key] = @ + 1]
  BY DEF Dies
<1>3. Typed' /\ InHand'
  <2>1. shown \in [Keys -> Nat] /\ faults \in Nat
    BY DEF MessageInv, Typed
  <2>2. ASSUME NEW key \in Keys PROVE shown'[key] \in Nat
    BY <1>2, <2>1
  <2>3. shown' \in [Keys -> Nat]
    BY <1>2, <2>1, <2>2
  <2>4. faults' \in Nat
    BY <1>1, <2>1
  <2>5. Typed'
    <3>1. bot'.delivered \in BOOLEAN
      BY <1>1
    <3>. QED
      BY <1>1, <2>3, <2>4, <3>1 DEF MessageInv, Typed
  <2>6. InHand'
    BY <1>1, NoKeyIsNone DEF InHand
  <2>. QED
    BY <2>5, <2>6
<1>4. Paid'
  BY <1>1, <1>2, NoKeyIsNone DEF MessageInv, Typed, InHand, Paid, Free
<1>. QED
  BY <1>1, <1>3, <1>4 DEF MessageInv

\* The world and time touch neither the ledger, the bot nor the channel.
LEMMA WorldStep ==
  ASSUME MessageInv,
         \/ \E i \in Items : Submit(i) \/ Decide(i)
         \/ \E k \in Runs : StartRun(k) \/ EndRun(k)
         \/ \E m \in Marks : SetDue(m)
         \/ \E value \in BOOLEAN : QuietHours(value)
         \/ ClaimsAge
         \/ UNCHANGED vars
  PROVE  MessageInv'
<1>1. UNCHANGED <<ledger, shown, bot, faults>>
  BY DEF Submit, Decide, StartRun, EndRun, SetDue, QuietHours, ClaimsAge, vars
<1>2. (old \subseteq Keys)'
  BY DEF MessageInv, Typed, Submit, Decide, StartRun, EndRun, SetDue,
         QuietHours, ClaimsAge, vars
<1>. QED
  BY <1>1, <1>2 DEF MessageInv, Shape, Typed, InHand, Paid, Free

LEMMA InvHolds == Spec => []MessageInv
<1>1. ASSUME MessageInv, [Next]_vars PROVE MessageInv'
  BY <1>1, CycleStep, TakeOrphanStep, ClaimStep, DeliverStep, MarkSentStep,
     DiesStep, WorldStep DEF Next, BotStep
<1>. QED
  BY InitInv, <1>1, PTL DEF Spec

\* Every message of an event beyond its first was paid for by a fault, for
\* any number of events and faults.
THEOREM MessagesPaidFor == Spec => []OneMessagePerEvent
<1>1. MessageInv => OneMessagePerEvent
  BY DEF MessageInv, Typed, Paid, Free, OneMessagePerEvent
<1>. QED
  BY InvHolds, <1>1, PTL
=============================================================================
