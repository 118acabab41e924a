--------------------------- MODULE ControlChannel ---------------------------
(***************************************************************************)
(* The owner's side of the Discord channel: taps on the cards of items     *)
(* under review, change notes, and /new.  The bot handles every event as   *)
(* it comes in and waits for none, so the handlers of two events take      *)
(* turns at every access to the store.  They share the items and one       *)
(* setting, pending_change_note.                                           *)
(*                                                                         *)
(* decide() is one step here; Pipeline takes it apart.                     *)
(***************************************************************************)
EXTENDS Integers, Sequences

CONSTANTS Items,       \* items the pipeline has brought to review
          NewIds,      \* the ids /new probes, in order (50 in the program)
          MaxEvents,   \* bound on what the owner does in the channel
          MaxRegens,   \* config.retry.regen_max
          MaxCrashes,  \* bound on deaths of the bot
          NoItem

NewId == {NewIds[n] : n \in DOMAIN NewIds}
Ids   == Items \cup NewId

ASSUME ControlAssumption == /\ Items \cap NewId = {}
                            /\ NewIds \in Seq(NewId) /\ NewIds # <<>>
                            /\ NoItem \notin Ids
                            /\ MaxRegens \in Nat /\ MaxEvents \in Nat
                            /\ MaxCrashes \in Nat

VARIABLES items,      \* items[i]: status, attempt, and whose note the item has
          posted,     \* the cards in the channel, of an item and an attempt
          pending,    \* pending_change_note: an item, and whether under 10 min
          ev,         \* ev[e]: the handler of the e-th event, with, of a message,
                      \* the item it is meant for and whether it met another
                      \* event's handler on the pending note
          lastTap,    \* the item of a Changes tap no message came in after
          tapRaced,   \* the setting may say otherwise: handlers met on it, or
                      \* one died
          shared,     \* ids a /new took when another had
          crashes

handled == <<lastTap, tapRaced, shared>>
vars == <<items, posted, pending, ev, handled, crashes>>

Kinds  == {"gone", "approve", "skip", "changes", "text", "reply", "new"}
Steps  == {"arm", "decide", "read", "clear", "apply", "inbox",
           "probe", "put", "land", "told", "done"}
Busy   == Steps \ {"told", "done"}
Status == {"absent", "planned", "drafting", "pending_review", "approved",
           "skipped"}

Item    == [status : Status, attempt : 1..(MaxRegens + 1),
            note : 0..MaxEvents]
Card    == [item : Ids, attempt : 1..(MaxRegens + 1)]
Unarmed == [item |-> NoItem, fresh |-> FALSE]

Events  == DOMAIN ev
InFlight == {e \in Events : ev[e].step \in Busy}

Init ==
  /\ items = [i \in Ids |->
                [status  |-> IF i \in Items THEN "drafting" ELSE "absent",
                 attempt |-> 1, note |-> 0]]
  /\ posted = {}
  /\ pending = Unarmed
  /\ ev = <<>>
  /\ lastTap = NoItem /\ tapRaced = FALSE
  /\ shared = {}
  /\ crashes = 0

-----------------------------------------------------------------------------
(* Events come in *)

\* The gateway hands the events over in their order.
Handler(kind, step, item) == [kind |-> kind, step |-> step, item |-> item,
                              n |-> 1, meant |-> NoItem, raced |-> FALSE]

Take(kind, step, item) ==
  /\ Len(ev) < MaxEvents
  /\ ev' = Append(ev, Handler(kind, step, item))
  /\ UNCHANGED <<items, posted, pending, crashes>>

\* The handlers that have not done with pending_change_note: a tap's that is to
\* write it, a message's that is to read it and clear it.
Arming  == {e \in InFlight : ev[e].step = "arm"}
Reading == {e \in InFlight : ev[e].step \in {"read", "clear"}}
AtNote  == Arming \cup Reading

Met(E) == [e \in Events |-> [ev[e] EXCEPT !.raced = @ \/ e \in E]]

\* A tap on a card, however old: a card decided elsewhere keeps its buttons, and
\* so does one whose freezing failed (editMessageComponents ... catch).
Tap ==
  /\ \E c \in posted, kind \in {"approve", "skip"} : Take(kind, "decide", c.item)
  /\ UNCHANGED handled

\* A tap on Changes: from now on the owner's next message is meant for the item.
TapChanges ==
  /\ Len(ev) < MaxEvents
  /\ \E c \in posted : /\ ev' = Append(Met(Reading), Handler("changes", "arm", c.item))
                       /\ lastTap' = c.item
  /\ tapRaced' = (AtNote # {})
  /\ UNCHANGED <<items, posted, pending, shared, crashes>>

\* A reply: its item is found by the message or in its text, or it has none.
Reply == /\ \/ \E c \in posted : Take("reply", "apply", c.item)
            \/ Take("reply", "inbox", NoItem)
         /\ UNCHANGED handled

\* A plain message: the note for the last tapped item, if none came before.
Text ==
  /\ Len(ev) < MaxEvents
  /\ ev' = LET met == AtNote # {} \/ tapRaced
           IN Append(Met(Reading), [Handler("text", "read", NoItem) EXCEPT
                                      !.meant = lastTap, !.raced = met])
  /\ lastTap' = NoItem /\ tapRaced' = (Arming # {})
  /\ UNCHANGED <<items, posted, pending, shared, crashes>>

New == /\ Take("new", "probe", NoItem)
       /\ UNCHANGED handled

-----------------------------------------------------------------------------
(* Buttons and notes *)

Step(e, step) == ev' = [ev EXCEPT ![e].step = step]

\* A handler that returns or throws leaves nothing behind.
Gone == Handler("gone", "done", NoItem)

Finish(e) == ev' = [ev EXCEPT ![e] = Gone]

\* setSetting('pending_change_note', {itemId, at}).
Arm(e) ==
  /\ ev[e].step = "arm"
  /\ pending' = [item |-> ev[e].item, fresh |-> TRUE]
  /\ Finish(e)
  /\ UNCHANGED <<items, posted, handled, crashes>>

\* What decide() makes of an item under review.  QA bounces nothing here, so
\* attempt - 1 is regen_count.
Decided(item, decision, note) ==
  CASE decision = "approve" -> [item EXCEPT !.status = "approved"]
    [] decision = "skip" -> [item EXCEPT !.status = "skipped"]
    [] decision = "changes" ->
         IF item.attempt <= MaxRegens
           THEN [status |-> "drafting", attempt |-> item.attempt + 1, note |-> note]
           ELSE [item EXCEPT !.status = "skipped", !.note = note]

\* decide(): 409 unless the item is under review, whichever draft of it.
Decide(i, decision, note) ==
  items' = IF items[i].status = "pending_review"
             THEN [items EXCEPT ![i] = Decided(@, decision, note)]
             ELSE items

DecideTap(e) ==
  /\ ev[e].step = "decide"
  /\ Decide(ev[e].item, ev[e].kind, e)
  /\ Finish(e)
  /\ UNCHANGED <<posted, pending, handled, crashes>>

\* getSetting('pending_change_note'), within its ten minutes or not.
ReadPending(e) ==
  /\ ev[e].step = "read"
  /\ ev' = [ev EXCEPT ![e].step = IF pending.fresh THEN "clear" ELSE "inbox",
                      ![e].item = IF pending.fresh THEN pending.item ELSE NoItem]
  /\ UNCHANGED <<items, posted, pending, handled, crashes>>

\* Seeded fault: the pending note is not cleared.
ClearPending_Forgotten(e) ==
  /\ ev[e].step = "clear"
  /\ Step(e, "apply")
  /\ UNCHANGED <<items, posted, pending, handled, crashes>>

ClearPending(e) ==
  /\ ev[e].step = "clear"
  /\ pending' = Unarmed
  /\ Step(e, "apply")
  /\ UNCHANGED <<items, posted, handled, crashes>>

\* applyChangeNote; when decide() refuses, the owner is told so.
ApplyNote(e) ==
  /\ ev[e].step = "apply"
  /\ Decide(ev[e].item, "changes", e)
  /\ Finish(e)
  /\ UNCHANGED <<posted, pending, handled, crashes>>

\* insertOwnerNote.
NoteDown(e) ==
  /\ ev[e].step = "inbox"
  /\ Finish(e)
  /\ UNCHANGED <<items, posted, pending, handled, crashes>>

-----------------------------------------------------------------------------
(* /new *)

\* freeId asks for one id after the other; when all are taken it throws.
Probe(e) ==
  /\ ev[e].step = "probe"
  /\ ev' = IF items[NewIds[ev[e].n]].status = "absent"
             THEN [ev EXCEPT ![e].step = "put", ![e].item = NewIds[ev[e].n]]
           ELSE IF ev[e].n = Len(NewIds) THEN [ev EXCEPT ![e] = Gone]
           ELSE [ev EXCEPT ![e].n = @ + 1]
  /\ UNCHANGED <<items, posted, pending, handled, crashes>>

\* putItem overwrites what is there.
Put(e) ==
  /\ ev[e].step = "put"
  /\ items' = [items EXCEPT ![ev[e].item] =
                 [status |-> "planned", attempt |-> 1, note |-> 0]]
  /\ Step(e, "land")
  /\ shared' = IF items[ev[e].item].status = "absent" THEN shared
                                                     ELSE shared \cup {ev[e].item}
  /\ UNCHANGED <<posted, pending, lastTap, tapRaced, crashes>>

\* The owner is told which item will be drafted.
Tell(e) == ev' = [ev EXCEPT ![e].step = "told", ![e].n = 1]

\* Seeded fault: the brief is stored and the item stays planned.
Land_StaysPlanned(e) ==
  /\ ev[e].step = "land"
  /\ items' = [items EXCEPT ![ev[e].item].note = e]
  /\ Tell(e)
  /\ UNCHANGED <<posted, pending, handled, crashes>>

\* getItem, then transitionItem to drafting with the brief as feedback: when the
\* item is no longer planned at either, it throws, and nobody is told.
Land(e) ==
  /\ ev[e].step = "land"
  /\ IF items[ev[e].item].status = "planned"
       THEN /\ items' = [items EXCEPT ![ev[e].item].status = "drafting",
                                      ![ev[e].item].note = e]
            /\ Tell(e)
       ELSE /\ Finish(e)
            /\ UNCHANGED items
  /\ UNCHANGED <<posted, pending, handled, crashes>>

-----------------------------------------------------------------------------
(* The rest of the system *)

\* A generate run for its date, which a planned item alone does not cause.
Generate(i) ==
  /\ items[i].status = "planned"
  /\ items' = [items EXCEPT ![i].status = "drafting"]
  /\ UNCHANGED <<posted, pending, ev, handled, crashes>>

\* Ticks draft, render and check what is drafting.
Redraft(i) ==
  /\ items[i].status = "drafting"
  /\ items' = [items EXCEPT ![i].status = "pending_review"]
  /\ UNCHANGED <<posted, pending, ev, handled, crashes>>

\* The scanner posts a card of an attempt under review once.  Commissioned items
\* are not carded or decided here (a bound): they are like any other by then.
PostCard(i) ==
  LET card == [item |-> i, attempt |-> items[i].attempt]
  IN /\ items[i].status = "pending_review"
     /\ card \notin posted
     /\ posted' = posted \cup {card}
     /\ UNCHANGED <<items, pending, ev, handled, crashes>>

\* The review station decides through the same decide().
StationDecides(i) ==
  /\ items[i].status = "pending_review"
  /\ \E decision \in {"approve", "skip", "changes"} : Decide(i, decision, 0)
  /\ UNCHANGED <<posted, pending, ev, handled, crashes>>

\* What a message that reads the setting now is taken for.
Armed == IF pending.fresh THEN pending.item ELSE NoItem

\* Ten minutes pass; a handler does not take that long.
FuseBurns ==
  /\ pending.fresh
  /\ InFlight = {}
  /\ pending' = [pending EXCEPT !.fresh = FALSE]
  /\ lastTap' = NoItem /\ tapRaced' = FALSE
  /\ UNCHANGED <<items, posted, ev, shared, crashes>>

\* The bot dies, and with it what it was handling; settings and items stay: the
\* pending note too of a message that died, and not that of a tap that did.
Crash ==
  /\ InFlight # {}
  /\ crashes < MaxCrashes
  /\ crashes' = crashes + 1
  /\ ev' = [e \in Events |->
              IF e \in InFlight THEN Gone ELSE ev[e]]
  /\ tapRaced' = (lastTap # Armed)
  /\ UNCHANGED <<items, posted, pending, lastTap, shared>>

Handle(e) == \/ Arm(e) \/ DecideTap(e)
             \/ ReadPending(e) \/ ClearPending(e) \/ ApplyNote(e) \/ NoteDown(e)
             \/ Probe(e) \/ Put(e) \/ Land(e)

Owner == Tap \/ TapChanges \/ Reply \/ Text \/ New

Next == \/ Owner
        \/ \E e \in Events : Handle(e)
        \/ \E i \in Ids : Generate(i) \/ Redraft(i)
        \/ \E i \in Items : PostCard(i) \/ StationDecides(i)
        \/ FuseBurns
        \/ Crash

\* As long as a handler can go on, one does; the same of the sweep.
Fairness == /\ WF_vars(\E e \in Events : Handle(e))
            /\ WF_vars(\E i \in Ids : Redraft(i))

Spec == Init /\ [][Next]_vars /\ Fairness

-----------------------------------------------------------------------------

\* The handler of a plain message has settled what the message is.
Settled(e) == ev[e].kind = "text" /\ ev[e].step \in {"apply", "inbox"}

\* The owner's next plain message after a Changes tap, and only that one, becomes
\* the change note of the tapped item (commands.mjs:46-47), wherever decisions,
\* replies, /new and deaths come between them; unless it met other handlers on
\* the setting, itself or through that tap: it came in while a tap had not been
\* written or a message not been read and cleared, or a death left the setting
\* other than the owner's last tap and message.
NextMessageIsTheNote ==
  \A e \in Events : Settled(e) /\ ~ev[e].raced => ev[e].item = ev[e].meant

\* The item the owner was told of in answer to the e-th event, if any.
Commissioned(e) ==
  {i \in NewId : e \in Events /\ ev[e].step = "told" /\ ev[e].item = i}

\* A commission the owner was told is planned comes to review drafted from its
\* brief (newitem.mjs:13-14, "guaranteed pickup"), unless another /new took its
\* id as well.
BriefsArrive ==
  \A e \in 1..MaxEvents :
    (\E i \in Commissioned(e) :
       items[i].status \in {"planned", "drafting"} /\ items[i].attempt = 1)
    ~> (\E i \in Commissioned(e) :
          \/ items[i].status = "pending_review" /\ items[i].note = e
          \/ i \in shared)
=============================================================================
