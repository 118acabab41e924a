---------------------------- MODULE ControlProofs ----------------------------
(***************************************************************************)
(* What the owner writes reaches what he meant it for, in ControlChannel   *)
(* with any number of items, ids, events and deaths of the bot.            *)
(***************************************************************************)
EXTENDS ControlChannel, TLAPS

-----------------------------------------------------------------------------
(* Types *)

Handlers == [kind : Kinds, step : Steps, item : Ids \cup {NoItem},
             n : DOMAIN NewIds, meant : Ids \cup {NoItem}, raced : BOOLEAN]

ControlTypes ==
  /\ items \in [Ids -> Item]
  /\ posted \subseteq Card
  /\ pending \in [item : Ids \cup {NoItem}, fresh : BOOLEAN]
  /\ ev \in Seq(Handlers) /\ Len(ev) <= MaxEvents
  /\ lastTap \in Ids \cup {NoItem} /\ tapRaced \in BOOLEAN
  /\ shared \subseteq NewId
  /\ crashes \in 0..MaxCrashes

\* A handler that goes to work on an item has one, and a note that is awaited
\* has one.
ItemsAtHand ==
  /\ pending.fresh => pending.item \in Ids
  /\ \A e \in Events :
       /\ ev[e].step \in {"arm", "decide", "clear", "apply"} => ev[e].item \in Ids
       /\ ev[e].step \in {"put", "land", "told"} => ev[e].item \in NewId
       /\ ev[e].step = "decide" => ev[e].kind \in {"approve", "skip"}

ControlTypeOK == ControlTypes /\ ItemsAtHand

\* An id of /new is an id, and there is a first one to probe.
LEMMA FirstId == 1 \in DOMAIN NewIds /\ \A n \in DOMAIN NewIds : NewIds[n] \in NewId
BY ControlAssumption DEF NewId

\* decide() leaves an item an item, whichever note it is given.
LEMMA DecideTypes ==
  ASSUME ControlTypes, NEW i \in Ids, NEW note \in 0..MaxEvents,
         NEW decision \in {"approve", "skip", "changes"}, Decide(i, decision, note)
  PROVE  items' \in [Ids -> Item]
<1> DEFINE item == items[i]
<1>0. item \in Item /\ MaxRegens \in Nat
  BY ControlAssumption DEF ControlTypes
<1>1. [item EXCEPT !.status = "approved"] \in Item
      /\ [item EXCEPT !.status = "skipped"] \in Item
      /\ [item EXCEPT !.status = "skipped", !.note = note] \in Item
  BY <1>0 DEF Item, Status
<1>2. item.attempt <= MaxRegens =>
        [status |-> "drafting", attempt |-> item.attempt + 1, note |-> note] \in Item
  BY <1>0 DEF Item, Status
<1>3. Decided(item, decision, note) \in Item
  BY <1>1, <1>2 DEF Decided
<1>4. CASE items[i].status = "pending_review"
  BY <1>3, <1>4 DEF Decide, ControlTypes
<1>5. CASE items[i].status # "pending_review"
  BY <1>5 DEF Decide, ControlTypes
<1>6. QED BY <1>4, <1>5

LEMMA HandlerTypes ==
  ASSUME NEW kind \in Kinds, NEW step \in Steps, NEW i \in Ids \cup {NoItem}
  PROVE  Handler(kind, step, i) \in Handlers /\ Gone \in Handlers
BY FirstId DEF Handler, Handlers, Gone, Kinds, Steps, Busy

\* An event that comes in: a handler of it, and all others as they were.
LEMMA TakeTypes ==
  ASSUME ControlTypeOK, NEW kind \in Kinds, NEW step \in Steps,
         NEW i \in Ids \cup {NoItem}, Take(kind, step, i), UNCHANGED handled,
         step \in {"arm", "decide", "apply"} => i \in Ids,
         step \notin {"clear", "put", "land", "told"},
         step = "decide" => kind \in {"approve", "skip"}
  PROVE  ControlTypeOK'
<1> DEFINE h == Handler(kind, step, i)
<1>1. h \in Handlers /\ h.step = step /\ h.item = i /\ h.kind = kind
  BY HandlerTypes DEF Handler
<1> HIDE DEF h
<1>2. ev' = Append(ev, h) /\ Len(ev) < MaxEvents
  BY DEF Take, h
<1>3. /\ ev' \in Seq(Handlers) /\ Len(ev') <= MaxEvents
      /\ Events' = Events \cup {Len(ev) + 1}
      /\ ev'[Len(ev) + 1] = h
      /\ \A e \in Events : ev'[e] = ev[e]
  BY <1>1, <1>2, ControlAssumption DEF ControlTypeOK, ControlTypes, Events
<1>4. ControlTypes'
  BY <1>3 DEF Take, handled, ControlTypeOK, ControlTypes
<1>5. ItemsAtHand'
  BY <1>1, <1>3 DEF Take, ControlTypeOK, ItemsAtHand
<1>6. QED BY <1>4, <1>5 DEF ControlTypeOK

\* Meeting other handlers changes nothing of a handler but what it remembers of it.
LEMMA MetTypes ==
  ASSUME ControlTypes, NEW E
  PROVE  /\ Met(E) \in Seq(Handlers) /\ Len(Met(E)) = Len(ev)
         /\ DOMAIN Met(E) = Events
         /\ \A e \in Events : /\ Met(E)[e].step = ev[e].step
                              /\ Met(E)[e].item = ev[e].item
                              /\ Met(E)[e].kind = ev[e].kind
                              /\ Met(E)[e].meant = ev[e].meant
                              /\ Met(E)[e].raced = (ev[e].raced \/ e \in E)
<1>1. ASSUME NEW e \in Events
      PROVE  /\ Met(E)[e] \in Handlers
             /\ Met(E)[e].step = ev[e].step
             /\ Met(E)[e].item = ev[e].item
             /\ Met(E)[e].kind = ev[e].kind
             /\ Met(E)[e].meant = ev[e].meant
             /\ Met(E)[e].raced = (ev[e].raced \/ e \in E)
  <2>1. ev[e] \in Handlers
    BY DEF ControlTypes, Events
  <2>2. \A b \in BOOLEAN : LET h == [ev[e] EXCEPT !.raced = b]
                          IN  /\ h \in Handlers
                              /\ h.step = ev[e].step /\ h.item = ev[e].item
                              /\ h.kind = ev[e].kind /\ h.meant = ev[e].meant
                              /\ h.raced = b
    BY <2>1 DEF Handlers
  <2>3. (ev[e].raced \/ e \in E) \in BOOLEAN
    OBVIOUS
  <2>4. Met(E)[e] = [ev[e] EXCEPT !.raced = (ev[e].raced \/ e \in E)]
    BY Zenon DEF Met
  <2>5. QED BY <2>2, <2>3, <2>4, Zenon
<1>2. DOMAIN Met(E) = Events /\ Met(E) = [e \in Events |-> Met(E)[e]]
  BY Zenon DEF Met
<1>3. Events = 1..Len(ev) /\ Len(ev) \in Nat
  BY DEF ControlTypes, Events
<1> DEFINE M == Met(E)
<1>4. DOMAIN M = 1..Len(ev) /\ M = [e \in 1..Len(ev) |-> M[e]]
      /\ \A e \in 1..Len(ev) : M[e] \in Handlers
  BY <1>1, <1>2, <1>3, Zenon
<1> HIDE DEF M
<1>5. M \in Seq(Handlers) /\ Len(M) = Len(ev)
  BY <1>3, <1>4
<1>6. QED BY <1>1, <1>2, <1>5 DEF M

\* An event that comes in and meets the messages that are at the setting.
LEMMA Arrives ==
  ASSUME ControlTypes, NEW h, ev' = Append(Met(Reading), h)
  PROVE  /\ Events' = Events \cup {Len(ev) + 1} /\ Len(ev) + 1 \notin Events
         /\ ev'[Len(ev) + 1] = h
         /\ \A e \in Events : /\ ev'[e].step = ev[e].step /\ ev'[e].item = ev[e].item
                              /\ ev'[e].kind = ev[e].kind /\ ev'[e].meant = ev[e].meant
                              /\ ev'[e].raced = (ev[e].raced \/ e \in Reading)
         /\ h \in Handlers => ev' \in Seq(Handlers) /\ Len(ev') = Len(ev) + 1
<1> DEFINE M == Met(Reading)
<1>1. /\ M \in Seq(Handlers) /\ Len(M) = Len(ev) /\ DOMAIN M = Events
      /\ \A e \in Events : /\ M[e].step = ev[e].step /\ M[e].item = ev[e].item
                           /\ M[e].kind = ev[e].kind /\ M[e].meant = ev[e].meant
                           /\ M[e].raced = (ev[e].raced \/ e \in Reading)
  BY MetTypes
<1>2. ev' = Append(M, h)
  OBVIOUS
<1> HIDE DEF M
<1>3. /\ Events' = Events \cup {Len(ev) + 1} /\ Len(ev) + 1 \notin Events
      /\ ev'[Len(ev) + 1] = h
      /\ \A e \in Events : ev'[e] = M[e]
  BY <1>1, <1>2 DEF ControlTypes, Events
<1>4. h \in Handlers => ev' \in Seq(Handlers) /\ Len(ev') = Len(ev) + 1
  BY <1>1, <1>2
<1>5. QED BY <1>1, <1>3, <1>4

LEMMA OwnerTypes == ASSUME ControlTypeOK, Owner PROVE ControlTypeOK'
<1>0. \A c \in posted : c.item \in Ids
  BY DEF ControlTypeOK, ControlTypes, Card
<1>1. ASSUME Tap PROVE ControlTypeOK'
  <2>1. PICK c \in posted, kind \in {"approve", "skip"} : Take(kind, "decide", c.item)
    BY <1>1 DEF Tap
  <2>2. QED BY <1>0, <1>1, <2>1, TakeTypes DEF Tap, Kinds, Steps, Busy
<1>a. ASSUME TapChanges PROVE ControlTypeOK'
  <2>1. PICK c \in posted : /\ ev' = Append(Met(Reading), Handler("changes", "arm", c.item))
                            /\ lastTap' = c.item
    BY <1>a DEF TapChanges
  <2>2. c.item \in Ids
    BY <1>0
  <2> DEFINE h == Handler("changes", "arm", c.item)
  <2>3. h \in Handlers /\ h.step = "arm" /\ h.item = c.item
    BY <2>2, HandlerTypes DEF Handler, Kinds, Steps, Busy
  <2> HIDE DEF h
  <2>4. ev' = Append(Met(Reading), h)
    BY <2>1 DEF h
  <2>5. /\ Len(ev) < MaxEvents /\ tapRaced' \in BOOLEAN
        /\ UNCHANGED <<items, posted, pending, shared, crashes>>
    BY <1>a DEF TapChanges
  <2>6. ControlTypes'
    BY <2>1, <2>2, <2>3, <2>4, <2>5, Arrives, ControlAssumption
    DEF ControlTypeOK, ControlTypes
  <2>7. ItemsAtHand'
    <3>1. /\ Events' = Events \cup {Len(ev) + 1}
          /\ ev'[Len(ev) + 1] = h
          /\ \A e \in Events : /\ ev'[e].step = ev[e].step /\ ev'[e].item = ev[e].item
                               /\ ev'[e].kind = ev[e].kind
      BY <2>4, Arrives DEF ControlTypeOK
    <3>2. QED BY <2>2, <2>3, <2>5, <3>1 DEF ControlTypeOK, ItemsAtHand
  <2>8. QED BY <2>6, <2>7 DEF ControlTypeOK
<1>2. ASSUME Reply PROVE ControlTypeOK'
  <2>1. \A c \in posted : c.item \in Ids
    BY DEF ControlTypeOK, ControlTypes, Card
  <2>2. QED BY <1>2, <2>1, TakeTypes DEF Reply, Kinds, Steps, Busy
<1>3. ASSUME New PROVE ControlTypeOK'
  BY <1>3, TakeTypes DEF New, Kinds, Steps, Busy
<1>4. ASSUME Text PROVE ControlTypeOK'
  <2>1. PICK h : ev' = Append(Met(Reading), h) /\ h \in Handlers /\ h.step = "read"
    <3>1. \A m \in Ids \cup {NoItem}, b \in BOOLEAN :
            LET h == [Handler("text", "read", NoItem) EXCEPT !.meant = m, !.raced = b]
            IN  h \in Handlers /\ h.step = "read"
      BY FirstId DEF Handlers, Handler, Kinds, Steps, Busy
    <3>2. lastTap \in Ids \cup {NoItem} /\ (AtNote # {} \/ tapRaced) \in BOOLEAN
      BY DEF ControlTypeOK, ControlTypes
    <3>3. QED BY <1>4, <3>1, <3>2, Zenon DEF Text
  <2>2. /\ Len(ev) < MaxEvents /\ lastTap' = NoItem /\ tapRaced' \in BOOLEAN
        /\ UNCHANGED <<items, posted, pending, shared, crashes>>
    BY <1>4 DEF Text
  <2>3. ControlTypes'
    BY <2>1, <2>2, Arrives, ControlAssumption DEF ControlTypeOK, ControlTypes
  <2>4. ItemsAtHand'
    <3>1. /\ Events' = Events \cup {Len(ev) + 1}
          /\ ev'[Len(ev) + 1] = h
          /\ \A e \in Events : /\ ev'[e].step = ev[e].step /\ ev'[e].item = ev[e].item
                               /\ ev'[e].kind = ev[e].kind
      BY <2>1, Arrives DEF ControlTypeOK
    <3>2. QED BY <2>1, <2>2, <3>1 DEF ControlTypeOK, ItemsAtHand
  <2>5. QED BY <2>3, <2>4 DEF ControlTypeOK
<1>5. QED BY <1>1, <1>a, <1>2, <1>3, <1>4 DEF Owner

-----------------------------------------------------------------------------
(* One handler goes on, and nothing comes in *)

\* What the handler of e becomes by a step fits what it is then at.
Fits(h) ==
  /\ h \in Handlers
  /\ h.step \in {"arm", "decide", "clear", "apply"} => h.item \in Ids
  /\ h.step \in {"put", "land", "told"} => h.item \in NewId
  /\ h.step = "decide" => h.kind \in {"approve", "skip"}

LEMMA GoesOn ==
  ASSUME ControlTypeOK, NEW e \in Events, NEW h, Fits(h), ev' = [ev EXCEPT ![e] = h],
         UNCHANGED <<pending, posted, lastTap, tapRaced, crashes>>,
         items' \in [Ids -> Item], shared' \subseteq NewId
  PROVE  ControlTypeOK'
<1>1. ev' \in Seq(Handlers) /\ Len(ev') = Len(ev) /\ Events' = Events
      /\ ev'[e] = h /\ \A f \in Events \ {e} : ev'[f] = ev[f]
  BY DEF ControlTypeOK, ControlTypes, Events, Fits
<1>2. ControlTypes'
  BY <1>1 DEF ControlTypeOK, ControlTypes
<1>3. ItemsAtHand'
  BY <1>1 DEF ControlTypeOK, ItemsAtHand, Fits
<1>4. QED BY <1>2, <1>3 DEF ControlTypeOK

LEMMA HandleTypes ==
  ASSUME ControlTypeOK, NEW e \in Events, Handle(e) PROVE ControlTypeOK'
<1> DEFINE h == ev[e]
<1>0. Fits(h) /\ Fits(Gone) /\ e \in 0..MaxEvents /\ items \in [Ids -> Item]
  <2>1. Fits(h)
    BY DEF ControlTypeOK, ControlTypes, ItemsAtHand, Fits, Events
  <2>2. Fits(Gone)
    BY HandlerTypes, FirstId DEF Fits, Gone, Handler, Kinds, Steps, Busy
  <2>3. QED BY <2>1, <2>2, ControlAssumption DEF ControlTypeOK, ControlTypes, Events
<1>1. ASSUME Arm(e) PROVE ControlTypeOK'
  <2>1. /\ pending' = [item |-> ev[e].item, fresh |-> TRUE] /\ ev[e].item \in Ids
        /\ ev' = [ev EXCEPT ![e] = Gone]
        /\ UNCHANGED <<items, posted, lastTap, tapRaced, shared, crashes>>
    BY <1>1 DEF Arm, Finish, handled, ControlTypeOK, ItemsAtHand
  <2>2. ev' \in Seq(Handlers) /\ Len(ev') = Len(ev) /\ Events' = Events
        /\ ev'[e] = Gone /\ \A f \in Events \ {e} : ev'[f] = ev[f]
    BY <1>0, <2>1 DEF Fits, Events, ControlTypeOK, ControlTypes
  <2>3. ControlTypes'
    BY <2>1, <2>2 DEF ControlTypeOK, ControlTypes
  <2>4. ItemsAtHand'
    BY <1>0, <2>1, <2>2 DEF ControlTypeOK, ItemsAtHand, Fits
  <2>5. QED BY <2>3, <2>4 DEF ControlTypeOK
<1>2. ASSUME DecideTap(e) PROVE ControlTypeOK'
  <2>1. items' \in [Ids -> Item]
    BY <1>0, <1>2, DecideTypes DEF DecideTap, ControlTypeOK, ItemsAtHand
  <2>2. QED BY <1>0, <1>2, <2>1, GoesOn DEF DecideTap, Finish, handled, ControlTypeOK, ControlTypes
<1>3. ASSUME ReadPending(e) PROVE ControlTypeOK'
  <2> DEFINE to   == IF pending.fresh THEN "clear" ELSE "inbox"
             item == IF pending.fresh THEN pending.item ELSE NoItem
             g    == [h EXCEPT !.step = to, !.item = item]
  <2>1. Fits(g)
    BY <1>0 DEF Fits, Handlers, Kinds, Steps, Busy, ControlTypeOK, ControlTypes, ItemsAtHand
  <2>2. ev' = [ev EXCEPT ![e] = g]
    BY <1>3 DEF ReadPending, ControlTypeOK, ControlTypes, Handlers, Events
  <2> HIDE DEF g
  <2>3. QED BY <1>0, <1>3, <2>1, <2>2, GoesOn DEF ReadPending, handled, ControlTypeOK, ControlTypes
<1>4. ASSUME ClearPending(e) PROVE ControlTypeOK'
  <2> DEFINE g == [h EXCEPT !.step = "apply"]
  <2>1. Fits(g) /\ g \in Handlers
    BY <1>0, <1>4 DEF ClearPending, Fits, Handlers, Kinds, Steps, Busy
  <2>2. ev' = [ev EXCEPT ![e] = g] /\ pending' = Unarmed
        /\ UNCHANGED <<items, posted, lastTap, tapRaced, shared, crashes>>
    BY <1>4 DEF ClearPending, Step, handled, ControlTypeOK, ControlTypes, Handlers, Events
  <2> HIDE DEF g
  <2>3. ev' \in Seq(Handlers) /\ Len(ev') = Len(ev) /\ Events' = Events
        /\ ev'[e] = g /\ \A f \in Events \ {e} : ev'[f] = ev[f]
    BY <2>1, <2>2 DEF ControlTypeOK, ControlTypes, Events
  <2>4. ControlTypes'
    BY <2>2, <2>3 DEF ControlTypeOK, ControlTypes, Unarmed
  <2>5. ItemsAtHand'
    BY <2>1, <2>2, <2>3 DEF ControlTypeOK, ItemsAtHand, Fits, Unarmed
  <2>6. QED BY <2>4, <2>5 DEF ControlTypeOK
<1>5. ASSUME ApplyNote(e) PROVE ControlTypeOK'
  <2>1. items' \in [Ids -> Item]
    BY <1>0, <1>5, DecideTypes DEF ApplyNote, ControlTypeOK, ItemsAtHand
  <2>2. QED BY <1>0, <1>5, <2>1, GoesOn DEF ApplyNote, Finish, handled, ControlTypeOK, ControlTypes
<1>6. ASSUME NoteDown(e) PROVE ControlTypeOK'
  BY <1>0, <1>6, GoesOn DEF NoteDown, Finish, handled, ControlTypeOK, ControlTypes
<1>7. ASSUME Probe(e) PROVE ControlTypeOK'
  <2>0. h.n \in 1..Len(NewIds) /\ DOMAIN NewIds = 1..Len(NewIds) /\ Len(NewIds) \in Nat
        /\ NewIds[h.n] \in NewId /\ NewIds[h.n] \in Ids
    BY <1>0, FirstId, ControlAssumption DEF Fits, Handlers, Ids
  <2> DEFINE put  == [h EXCEPT !.step = "put", !.item = NewIds[h.n]]
             next == [h EXCEPT !.n = @ + 1]
  <2>1. CASE items[NewIds[h.n]].status = "absent"
    <3>1. Fits(put)
      BY <1>0, <2>0 DEF Fits, Handlers, Kinds, Steps, Busy
    <3>2. ev' = [ev EXCEPT ![e] = put]
      BY <1>7, <2>1 DEF Probe, ControlTypeOK, ControlTypes, Handlers, Events
    <3> HIDE DEF put
    <3>3. QED BY <1>0, <1>7, <3>1, <3>2, GoesOn DEF Probe, handled, ControlTypeOK, ControlTypes
  <2>2. CASE items[NewIds[h.n]].status # "absent" /\ h.n = Len(NewIds)
    <3>1. ev' = [ev EXCEPT ![e] = Gone]
      BY <1>7, <2>2 DEF Probe
    <3>2. QED BY <1>0, <1>7, <3>1, GoesOn DEF Probe, handled, ControlTypeOK, ControlTypes
  <2>3. CASE items[NewIds[h.n]].status # "absent" /\ h.n # Len(NewIds)
    <3>1. Fits(next)
      BY <1>0, <1>7, <2>0, <2>3 DEF Probe, Fits, Handlers
    <3>2. ev' = [ev EXCEPT ![e] = next]
      BY <1>7, <2>3 DEF Probe, ControlTypeOK, ControlTypes, Handlers, Events
    <3> HIDE DEF next
    <3>3. QED BY <1>0, <1>7, <3>1, <3>2, GoesOn DEF Probe, handled, ControlTypeOK, ControlTypes
  <2>4. QED BY <2>1, <2>2, <2>3
<1>8. ASSUME Put(e) PROVE ControlTypeOK'
  <2> DEFINE g     == [h EXCEPT !.step = "land"]
             shell == [status |-> "planned", attempt |-> 1, note |-> 0]
  <2>1. h.item \in NewId /\ h.item \in Ids
    BY <1>0, <1>8 DEF Put, Fits, Ids
  <2>2. Fits(g)
    BY <1>0, <2>1 DEF Fits, Handlers, Kinds, Steps, Busy
  <2>3. ev' = [ev EXCEPT ![e] = g]
    BY <1>8 DEF Put, Step, ControlTypeOK, ControlTypes, Handlers, Events
  <2>4. shell \in Item
    BY ControlAssumption DEF Item, Status
  <2>5. items' = [items EXCEPT ![h.item] = shell]
    BY <1>8 DEF Put
  <2>6. shared' \subseteq NewId
    BY <1>8, <2>1 DEF Put, ControlTypeOK, ControlTypes
  <2>7. items' \in [Ids -> Item]
    BY <1>0, <2>4, <2>5
  <2> HIDE DEF g
  <2>8. QED BY <1>8, <2>2, <2>3, <2>6, <2>7, GoesOn DEF Put
<1>9. ASSUME Land(e) PROVE ControlTypeOK'
  <2> DEFINE g    == [h EXCEPT !.step = "told", !.n = 1]
             item == [items[h.item] EXCEPT !.status = "drafting", !.note = e]
  <2>1. h.item \in NewId /\ h.item \in Ids
    BY <1>0, <1>9 DEF Land, Fits, Ids
  <2>2. CASE items[h.item].status = "planned"
    <3>1. Fits(g)
      BY <1>0, <2>1, FirstId DEF Fits, Handlers, Kinds, Steps, Busy
    <3>2. ev' = [ev EXCEPT ![e] = g]
      BY <1>9, <2>2 DEF Land, Tell, ControlTypeOK, ControlTypes, Handlers, Events
    <3>3. item \in Item
      BY <1>0, <2>1 DEF Item, Status
    <3>4. items' = [items EXCEPT ![h.item] = item]
      BY <1>0, <1>9, <2>1, <2>2 DEF Land
    <3>5. items' \in [Ids -> Item]
      BY <1>0, <3>3, <3>4
    <3> HIDE DEF g
    <3>6. QED BY <1>9, <3>1, <3>2, <3>5, GoesOn DEF Land, handled, ControlTypeOK, ControlTypes
  <2>3. CASE items[h.item].status # "planned"
    BY <1>0, <1>9, <2>3, GoesOn DEF Land, Finish, handled, ControlTypeOK, ControlTypes
  <2>4. QED BY <2>2, <2>3
<1>10. QED BY <1>1, <1>2, <1>3, <1>4, <1>5, <1>6, <1>7, <1>8, <1>9 DEF Handle

-----------------------------------------------------------------------------
(* The rest of the system *)

\* An item changes, or a card is posted, and no handler is concerned.
LEMMA ItemsChange ==
  ASSUME ControlTypeOK, items' \in [Ids -> Item], posted' \subseteq Card,
         UNCHANGED <<pending, ev, handled, crashes>>
  PROVE  ControlTypeOK'
BY DEF ControlTypeOK, ControlTypes, ItemsAtHand, Events, handled

LEMMA OthersTypes ==
  ASSUME ControlTypeOK, NEW i \in Ids,
         \/ Generate(i) \/ Redraft(i)
         \/ i \in Items /\ (PostCard(i) \/ StationDecides(i))
  PROVE  ControlTypeOK'
<1>0. items \in [Ids -> Item] /\ items[i] \in Item /\ posted \subseteq Card /\ 0 \in 0..MaxEvents
  BY ControlAssumption DEF ControlTypeOK, ControlTypes
<1>1. \A status \in Status : [items EXCEPT ![i].status = status] \in [Ids -> Item]
  BY <1>0 DEF Item
<1>2. CASE Generate(i)
  <2>1. items' \in [Ids -> Item]
    BY <1>1, <1>2 DEF Generate, Status
  <2>2. QED BY <1>0, <1>2, <2>1, ItemsChange DEF Generate
<1>3. CASE Redraft(i)
  <2>1. items' \in [Ids -> Item]
    BY <1>1, <1>3 DEF Redraft, Status
  <2>2. QED BY <1>0, <1>3, <2>1, ItemsChange DEF Redraft
<1>4. CASE PostCard(i)
  <2>1. [item |-> i, attempt |-> items[i].attempt] \in Card
    BY <1>0 DEF Card, Item
  <2>2. posted' \subseteq Card
    BY <1>0, <1>4, <2>1 DEF PostCard
  <2>3. QED BY <1>0, <1>4, <2>2, ItemsChange DEF PostCard
<1>5. CASE StationDecides(i)
  <2>1. items' \in [Ids -> Item]
    BY <1>0, <1>5, DecideTypes DEF StationDecides, ControlTypeOK
  <2>2. QED BY <1>0, <1>5, <2>1, ItemsChange DEF StationDecides
<1>6. QED BY <1>2, <1>3, <1>4, <1>5

LEMMA FuseTypes == ASSUME ControlTypeOK, FuseBurns PROVE ControlTypeOK'
<1>1. pending' \in [item : Ids \cup {NoItem}, fresh : BOOLEAN] /\ ~pending'.fresh
  BY DEF FuseBurns, ControlTypeOK, ControlTypes
<1>2. QED BY <1>1 DEF FuseBurns, ControlTypeOK, ControlTypes, ItemsAtHand, Events

LEMMA CrashTypes == ASSUME ControlTypeOK, Crash PROVE ControlTypeOK'
<1>a. Fits(Gone)
  BY HandlerTypes, FirstId DEF Fits, Gone, Handler, Kinds, Steps, Busy
<1>0. Fits(Gone) /\ \A e \in Events : Fits(ev[e])
  BY <1>a DEF Fits, ControlTypeOK, ControlTypes, ItemsAtHand, Events
<1>1. Events = 1..Len(ev) /\ Len(ev) \in Nat /\ Len(ev) <= MaxEvents
  BY DEF ControlTypeOK, ControlTypes, Events
<1>2. ev' = [e \in 1..Len(ev) |-> IF e \in InFlight THEN Gone ELSE ev[e]]
  BY <1>1 DEF Crash
<1>3. \A e \in 1..Len(ev) : ev'[e] \in Handlers /\ Fits(ev'[e])
  BY <1>0, <1>1, <1>2 DEF Fits
<1>4. ev' \in Seq(Handlers) /\ Len(ev') = Len(ev) /\ Events' = Events
  BY <1>1, <1>2, <1>3 DEF Events
<1>b. lastTap' \in Ids \cup {NoItem} /\ tapRaced' \in BOOLEAN /\ crashes' \in 0..MaxCrashes
  BY ControlAssumption DEF Crash, ControlTypeOK, ControlTypes
<1>5. ControlTypes'
  BY <1>1, <1>4, <1>b DEF Crash, ControlTypeOK, ControlTypes
<1>6. ItemsAtHand'
  BY <1>1, <1>3, <1>4 DEF Crash, ControlTypeOK, ItemsAtHand, Fits
<1>7. QED BY <1>5, <1>6 DEF ControlTypeOK

\* Every variable of the channel keeps its type, and a handler that goes to work
\* on an item has one (handleEvent and the handlers it calls).
THEOREM ControlTyped == Spec => []ControlTypeOK
<1>1. Init => ControlTypeOK
  <2> SUFFICES ASSUME Init PROVE ControlTypeOK
    OBVIOUS
  <2>1. items \in [Ids -> Item]
    BY ControlAssumption DEF Init, Item, Status
  <2>2. ControlTypes
    <3>1. ev \in Seq(Handlers) /\ Len(ev) = 0 /\ 0 <= MaxEvents /\ 0 \in 0..MaxCrashes
      BY ControlAssumption DEF Init
    <3>2. QED BY <2>1, <3>1 DEF Init, ControlTypes, Unarmed
  <2>3. ItemsAtHand
    BY DEF Init, ItemsAtHand, Unarmed, Events
  <2>4. QED BY <2>2, <2>3 DEF ControlTypeOK
<1>2. ControlTypeOK /\ [Next]_vars => ControlTypeOK'
  <2> SUFFICES ASSUME ControlTypeOK, [Next]_vars PROVE ControlTypeOK'
    OBVIOUS
  <2>1. CASE UNCHANGED vars
    BY <2>1 DEF vars, handled, ControlTypeOK, ControlTypes, ItemsAtHand, Events
  <2>2. CASE Owner
    BY <2>2, OwnerTypes
  <2>3. ASSUME NEW e \in Events, Handle(e) PROVE ControlTypeOK'
    BY <2>3, HandleTypes
  <2>4. ASSUME NEW i \in Ids, Generate(i) \/ Redraft(i) PROVE ControlTypeOK'
    BY <2>4, OthersTypes
  <2>5. ASSUME NEW i \in Items, PostCard(i) \/ StationDecides(i) PROVE ControlTypeOK'
    BY <2>5, OthersTypes DEF Ids
  <2>6. CASE FuseBurns
    BY <2>6, FuseTypes
  <2>7. CASE Crash
    BY <2>7, CrashTypes
  <2>8. QED BY <2>1, <2>2, <2>3, <2>4, <2>5, <2>6, <2>7 DEF Next
<1>3. QED BY <1>1, <1>2, PTL DEF Spec

-----------------------------------------------------------------------------
(* The note and the message *)

\* Unless they met or one died, the setting says what the owner means by his next
\* message, but while one handler, and no other, is about to bring it to that: a
\* tap's that arms it, or a message's that takes the note.
NoteAwaited ==
  /\ tapRaced \/ AtNote # {} \/ lastTap = Armed
  /\ \A e \in Arming : tapRaced \/ (AtNote = {e} /\ ev[e].item = lastTap)
  /\ \A e \in Reading :
       /\ tapRaced \/ lastTap = NoItem
       /\ \/ ev[e].raced
          \/ /\ AtNote = {e}
             /\ ev[e].step = "clear" \/ ev[e].meant = Armed
             /\ ev[e].step = "read" \/ ev[e].meant = ev[e].item
  /\ NextMessageIsTheNote

LEMMA AtNoteIs ==
  /\ Reading  = {e \in Events : ev[e].step \in {"read", "clear"}}
  /\ Reading' = {e \in Events' : ev'[e].step \in {"read", "clear"}}
  /\ Arming   = {e \in Events : ev[e].step = "arm"}
  /\ Arming'  = {e \in Events' : ev'[e].step = "arm"}
BY DEF Reading, Arming, InFlight, Busy, Steps

\* What a handler is at is no note misplaced.
Placed(h) == h.kind = "text" /\ h.step \in {"apply", "inbox"} /\ ~h.raced
               => h.item = h.meant

\* A handler that is not at the setting, before or after its step.
LEMMA ReadsNothing ==
  ASSUME ControlTypeOK, NoteAwaited, NEW e \in Events \ AtNote,
         NEW h, h.step \notin {"arm", "read", "clear"}, Placed(h),
         ev' = [ev EXCEPT ![e] = h], UNCHANGED <<pending, lastTap, tapRaced>>
  PROVE  NoteAwaited'
<1>1. Events' = Events /\ ev'[e] = h /\ \A f \in Events \ {e} : ev'[f] = ev[f]
  BY DEF ControlTypeOK, ControlTypes, Events
<1>2. Reading' = Reading /\ Arming' = Arming /\ AtNote' = AtNote
  BY <1>1, AtNoteIs DEF AtNote
<1>3. NextMessageIsTheNote'
  BY <1>1 DEF NoteAwaited, NextMessageIsTheNote, Placed, Settled
<1>4. Armed' = Armed
  BY DEF Armed
<1>5. Reading \subseteq Events \ {e} /\ Arming \subseteq Events \ {e}
  BY AtNoteIs DEF AtNote
<1>6. QED BY <1>1, <1>2, <1>3, <1>4, <1>5 DEF NoteAwaited

\* An event that comes in and does not touch the setting.
LEMMA TakesNoMessage ==
  ASSUME ControlTypeOK, NoteAwaited, NEW kind, NEW step, NEW i,
         kind # "text", step \notin {"arm", "read", "clear"},
         Take(kind, step, i), UNCHANGED handled
  PROVE  NoteAwaited'
<1> DEFINE h == Handler(kind, step, i)
<1>1. h.step = step /\ h.kind = kind
  BY DEF Handler
<1> HIDE DEF h
<1>2. ev' = Append(ev, h) /\ UNCHANGED <<pending, lastTap, tapRaced>>
  BY DEF Take, h, handled
<1>3. /\ Events' = Events \cup {Len(ev) + 1} /\ Len(ev) + 1 \notin Events
      /\ ev'[Len(ev) + 1] = h
      /\ \A e \in Events : ev'[e] = ev[e]
  BY <1>2 DEF ControlTypeOK, ControlTypes, Events
<1>4. Reading' = Reading /\ Arming' = Arming /\ AtNote' = AtNote
  BY <1>1, <1>3, AtNoteIs DEF AtNote
<1>5. NextMessageIsTheNote'
  BY <1>1, <1>3 DEF NoteAwaited, NextMessageIsTheNote, Settled
<1>6. Armed' = Armed
  BY <1>2 DEF Armed
<1>7. Reading \subseteq Events /\ Arming \subseteq Events
  BY AtNoteIs
<1>8. QED BY <1>2, <1>3, <1>4, <1>5, <1>6, <1>7 DEF NoteAwaited

\* Handlers that have settled stay as they were when an event comes in.
LEMMA OldNotesStay ==
  ASSUME ControlTypes, NoteAwaited, NEW h, h.step \notin {"apply", "inbox"},
         ev' = Append(Met(Reading), h)
  PROVE  NextMessageIsTheNote'
<1> SUFFICES ASSUME NEW e \in Events', Settled(e)', ~ev'[e].raced
             PROVE  ev'[e].item = ev'[e].meant
  BY DEF NextMessageIsTheNote
<1>1. e \in Events /\ Settled(e) /\ ~ev[e].raced
  BY Arrives DEF Settled
<1>2. QED BY <1>1, Arrives DEF NoteAwaited, NextMessageIsTheNote

LEMMA MessageComesIn ==
  ASSUME ControlTypeOK, NoteAwaited, Text PROVE NoteAwaited'
<1> DEFINE n   == Len(ev) + 1
           met == AtNote # {} \/ tapRaced
<1>1. PICK h : /\ ev' = Append(Met(Reading), h)
               /\ h.step = "read" /\ h.meant = lastTap /\ h.raced = met
  <2> DEFINE g(b) == [Handler("text", "read", NoItem) EXCEPT !.meant = lastTap, !.raced = b]
  <2>1. \A b \in BOOLEAN : g(b).step = "read" /\ g(b).meant = lastTap /\ g(b).raced = b
    BY DEF Handler
  <2>2. met \in BOOLEAN
    OBVIOUS
  <2>3. ev' = Append(Met(Reading), g(met))
    BY DEF Text
  <2>4. QED BY <2>1, <2>2, <2>3, Zenon
<1>2. lastTap' = NoItem /\ tapRaced' = (Arming # {}) /\ pending' = pending
  BY DEF Text
<1>3. NextMessageIsTheNote'
  BY <1>1, OldNotesStay DEF ControlTypeOK
<1> HIDE DEF met
<1>4. /\ Events' = Events \cup {n} /\ n \notin Events /\ ev'[n] = h
      /\ \A e \in Events : ev'[e].step = ev[e].step
      /\ \A e \in Reading : e \in Events => ev'[e].raced
  BY <1>1, Arrives DEF ControlTypeOK
<1>5. /\ Reading' = Reading \cup {n} /\ Arming' = Arming
      /\ Reading \subseteq Events /\ AtNote' = AtNote \cup {n}
  <2> HIDE DEF n
  <2>1. Reading' = Reading \cup {n} /\ Reading \subseteq Events
    BY <1>1, <1>4, AtNoteIs
  <2>2. Arming' = Arming
    BY <1>1, <1>4, AtNoteIs
  <2>3. QED BY <2>1, <2>2 DEF AtNote
<1>6. Armed' = Armed
  BY <1>2 DEF Armed
<1>7. h.raced \/ (AtNote' = {n} /\ h.meant = Armed')
  <2>1. CASE met
    BY <1>1, <2>1
  <2>2. CASE ~met
    BY <1>1, <1>5, <1>6, <2>2 DEF met, NoteAwaited
  <2>3. QED BY <2>1, <2>2
<1>8. QED BY <1>1, <1>2, <1>3, <1>4, <1>5, <1>7 DEF NoteAwaited

LEMMA TapComesIn ==
  ASSUME ControlTypeOK, NoteAwaited, TapChanges PROVE NoteAwaited'
<1> DEFINE n == Len(ev) + 1
<1>1. PICK i, h : /\ ev' = Append(Met(Reading), h) /\ lastTap' = i
                  /\ h.step = "arm" /\ h.item = i
  <2>1. PICK c \in posted : /\ ev' = Append(Met(Reading), Handler("changes", "arm", c.item))
                            /\ lastTap' = c.item
    BY DEF TapChanges
  <2>2. \A i : Handler("changes", "arm", i).step = "arm" /\ Handler("changes", "arm", i).item = i
    BY DEF Handler
  <2>3. QED BY <2>1, <2>2
<1>2. tapRaced' = (AtNote # {})
  BY DEF TapChanges
<1>3. NextMessageIsTheNote'
  BY <1>1, OldNotesStay DEF ControlTypeOK
<1>4. /\ Events' = Events \cup {n} /\ n \notin Events /\ ev'[n] = h
      /\ \A e \in Events : ev'[e].step = ev[e].step
      /\ \A e \in Reading : e \in Events => ev'[e].raced
  BY <1>1, Arrives DEF ControlTypeOK
<1>5. /\ Reading' = Reading /\ Arming' = Arming \cup {n}
      /\ Reading \subseteq Events /\ AtNote' = AtNote \cup {n}
  <2> HIDE DEF n
  <2>1. Reading' = Reading /\ Reading \subseteq Events
    BY <1>1, <1>4, AtNoteIs
  <2>2. Arming' = Arming \cup {n}
    BY <1>1, <1>4, AtNoteIs
  <2>3. QED BY <2>1, <2>2 DEF AtNote
<1>6. tapRaced' \/ (Arming = {} /\ Reading = {})
  BY <1>2 DEF AtNote
<1>7. QED BY <1>1, <1>2, <1>3, <1>4, <1>5, <1>6 DEF NoteAwaited

\* The tap's handler brings the setting to what the owner means, if it is the one
\* handler at it.
LEMMA TapArms ==
  ASSUME ControlTypeOK, NoteAwaited, NEW e \in Events, Arm(e) PROVE NoteAwaited'
<1>1. /\ ev' = [ev EXCEPT ![e] = Gone] /\ Gone.step = "done" /\ e \in Arming
      /\ UNCHANGED <<lastTap, tapRaced>>
  BY AtNoteIs DEF Arm, Finish, Gone, Handler, handled
<1>2. Events' = Events /\ ev'[e] = Gone /\ \A f \in Events \ {e} : ev'[f] = ev[f]
  BY <1>1 DEF Events, ControlTypeOK, ControlTypes
<1>3. /\ Reading' = Reading /\ Arming' = Arming \ {e} /\ e \notin Reading
      /\ Reading \subseteq Events /\ Arming \subseteq Events
  BY <1>1, <1>2, AtNoteIs
<1>4. AtNote' = AtNote \ {e} /\ e \in AtNote
  BY <1>1, <1>3 DEF AtNote
<1>5. Armed' = ev[e].item
  BY DEF Arm, Armed
<1>6. tapRaced \/ (AtNote = {e} /\ ev[e].item = lastTap)
  BY <1>1 DEF NoteAwaited
<1>7. \A f \in Reading : ev'[f].raced
  <2>1. \A f \in Reading : AtNote # {f}
    BY <1>3, <1>4
  <2>2. QED BY <1>2, <1>3, <2>1 DEF NoteAwaited
<1>8. tapRaced \/ (Reading' = {} /\ Arming' = {} /\ AtNote' = {})
  BY <1>3, <1>4, <1>6 DEF AtNote
<1>9. NextMessageIsTheNote'
  BY <1>1, <1>2 DEF NoteAwaited, NextMessageIsTheNote, Settled
<1>10. QED BY <1>1, <1>3, <1>5, <1>6, <1>7, <1>8, <1>9 DEF NoteAwaited

LEMMA MessageReads ==
  ASSUME ControlTypeOK, NoteAwaited, NEW e \in Events, ReadPending(e) PROVE NoteAwaited'
<1> DEFINE to   == IF pending.fresh THEN "clear" ELSE "inbox"
           item == IF pending.fresh THEN pending.item ELSE NoItem
           h    == [ev[e] EXCEPT !.step = to, !.item = item]
<1>1. /\ ev[e] \in Handlers /\ ev[e].step = "read" /\ e \in Reading
      /\ Reading \subseteq Events /\ Arming \subseteq Events /\ e \notin Arming
  BY AtNoteIs DEF ReadPending, ControlTypeOK, ControlTypes, Events
<1>2. ev' = [ev EXCEPT ![e] = h]
      /\ UNCHANGED <<pending, lastTap, tapRaced>>
  BY <1>1 DEF ReadPending, handled, ControlTypeOK, ControlTypes, Events, Handlers
<1>3. h.step = to /\ h.item = Armed /\ h.kind = ev[e].kind /\ h.meant = ev[e].meant
      /\ h.raced = ev[e].raced
  BY <1>1 DEF Handlers, Armed
<1> HIDE DEF h
<1>4. Events' = Events /\ ev'[e] = h /\ \A f \in Events \ {e} : ev'[f] = ev[f]
  BY <1>2 DEF ControlTypeOK, ControlTypes, Events
<1>5. /\ Reading' = IF pending.fresh THEN Reading ELSE Reading \ {e}
      /\ Arming' = Arming
  BY <1>1, <1>3, <1>4, AtNoteIs
<1>6. /\ AtNote' = IF pending.fresh THEN AtNote ELSE AtNote \ {e}
      /\ e \in AtNote
  BY <1>1, <1>5 DEF AtNote
<1>7. h.raced \/ (h.meant = h.item /\ AtNote = {e})
  BY <1>1, <1>3 DEF NoteAwaited
<1>8. NextMessageIsTheNote'
  BY <1>4, <1>7 DEF NoteAwaited, NextMessageIsTheNote, Settled
<1>9. Armed' = Armed /\ (~pending.fresh => Armed = NoItem)
  BY <1>2 DEF Armed
<1>10. /\ tapRaced \/ lastTap = NoItem
       /\ \A f \in Arming : tapRaced
  BY <1>1, <1>6 DEF NoteAwaited
<1>11. tapRaced' \/ AtNote' # {} \/ lastTap' = Armed'
  BY <1>2, <1>6, <1>9, <1>10
<1>12. ASSUME NEW f \in Reading', ~ev'[f].raced
       PROVE  /\ AtNote' = {f}
              /\ ev'[f].step = "clear" \/ ev'[f].meant = Armed'
              /\ ev'[f].step = "read" \/ ev'[f].meant = ev'[f].item
  <2>1. CASE f = e
    BY <1>3, <1>4, <1>5, <1>6, <1>7, <1>12, <2>1
  <2>2. CASE f # e
    BY <1>1, <1>4, <1>5, <1>6, <1>12, <2>2 DEF NoteAwaited
  <2>3. QED BY <2>1, <2>2
<1>13. QED BY <1>2, <1>5, <1>8, <1>10, <1>11, <1>12 DEF NoteAwaited

LEMMA MessageClears ==
  ASSUME ControlTypeOK, NoteAwaited, NEW e \in Events, ClearPending(e) PROVE NoteAwaited'
<1> DEFINE h == [ev[e] EXCEPT !.step = "apply"]
<1>1. /\ ev[e] \in Handlers /\ ev[e].step = "clear" /\ e \in Reading
      /\ Reading \subseteq Events /\ Arming \subseteq Events /\ e \notin Arming
  BY AtNoteIs DEF ClearPending, ControlTypeOK, ControlTypes, Events
<1>2. ev' = [ev EXCEPT ![e] = h] /\ pending' = Unarmed
      /\ UNCHANGED <<lastTap, tapRaced>>
  BY <1>1 DEF ClearPending, Step, handled, ControlTypeOK, ControlTypes, Events, Handlers
<1>3. h.step = "apply" /\ h.item = ev[e].item /\ h.kind = ev[e].kind
      /\ h.meant = ev[e].meant /\ h.raced = ev[e].raced
  BY <1>1 DEF Handlers
<1> HIDE DEF h
<1>4. Events' = Events /\ ev'[e] = h /\ \A f \in Events \ {e} : ev'[f] = ev[f]
  BY <1>2 DEF ControlTypeOK, ControlTypes, Events
<1>5. /\ Reading' = Reading \ {e} /\ Arming' = Arming
      /\ e \in AtNote
  BY <1>1, <1>3, <1>4, AtNoteIs DEF AtNote
<1>6. h.raced \/ (h.meant = h.item /\ AtNote = {e})
  BY <1>1, <1>3 DEF NoteAwaited
<1>7. NextMessageIsTheNote'
  BY <1>4, <1>6 DEF NoteAwaited, NextMessageIsTheNote, Settled
<1>8. Armed' = NoItem
  BY <1>2 DEF Armed, Unarmed
<1>9. /\ tapRaced \/ lastTap = NoItem
      /\ \A f \in Arming : tapRaced
  BY <1>1, <1>5 DEF NoteAwaited
<1>10. \A f \in Reading' : ev'[f].raced
  BY <1>1, <1>4, <1>5 DEF NoteAwaited
<1>11. QED BY <1>2, <1>5, <1>7, <1>8, <1>9, <1>10 DEF NoteAwaited

LEMMA HandlerKeepsNotes ==
  ASSUME ControlTypeOK, NoteAwaited, NEW e \in Events, Handle(e) PROVE NoteAwaited'
<1>0. ev[e] \in Handlers /\ Gone.kind = "gone" /\ Gone.step = "done" /\ Placed(Gone)
  BY DEF ControlTypeOK, ControlTypes, Events, Gone, Handler, Placed
<1>1. ASSUME ev' = [ev EXCEPT ![e] = Gone], e \notin AtNote,
             UNCHANGED <<pending, lastTap, tapRaced>>
      PROVE  NoteAwaited'
  BY <1>0, <1>1, ReadsNothing
<1>2. ASSUME NEW step \in Steps \ {"arm", "read", "clear", "apply", "inbox"}, NEW i, NEW n,
             ev' = [ev EXCEPT ![e] = [@ EXCEPT !.step = step, !.item = i, !.n = n]],
             e \notin AtNote, UNCHANGED <<pending, lastTap, tapRaced>>
      PROVE  NoteAwaited'
  <2> DEFINE h == [ev[e] EXCEPT !.step = step, !.item = i, !.n = n]
  <2>1. h.step = step
    BY <1>0 DEF Handlers
  <2>2. ev' = [ev EXCEPT ![e] = h]
    BY <1>2
  <2> HIDE DEF h
  <2>3. QED BY <1>2, <2>1, <2>2, ReadsNothing DEF Placed
<1>3. e \notin AtNote <=> ev[e].step \notin {"arm", "read", "clear"}
  BY AtNoteIs DEF AtNote
<1>4. CASE Arm(e)
  BY <1>4, TapArms
<1>5. CASE DecideTap(e) \/ ApplyNote(e) \/ NoteDown(e)
  BY <1>1, <1>3, <1>5 DEF DecideTap, ApplyNote, NoteDown, Finish, handled
<1>6. CASE ReadPending(e)
  BY <1>6, MessageReads
<1>7. CASE ClearPending(e)
  BY <1>7, MessageClears
<1>8. CASE Probe(e)
  <2>0. e \notin AtNote /\ UNCHANGED <<pending, lastTap, tapRaced>>
        /\ {"put", "probe"} \subseteq Steps
    BY <1>3, <1>8 DEF Probe, handled, Steps, Busy
  <2>1. CASE ev' = [ev EXCEPT ![e] = Gone]
    BY <1>1, <1>3, <1>8, <2>1 DEF Probe, handled
  <2>2. CASE ev' = [ev EXCEPT ![e].step = "put", ![e].item = NewIds[ev[e].n]]
    <3>1. ev' = [ev EXCEPT ![e] = [@ EXCEPT !.step = "put", !.item = NewIds[ev[e].n],
                                            !.n = ev[e].n]]
      BY <1>0, <2>2 DEF Handlers, ControlTypeOK, ControlTypes, Events
    <3>2. QED BY <1>2, <2>0, <3>1
  <2>3. CASE ev' = [ev EXCEPT ![e].n = @ + 1]
    <3>1. ev' = [ev EXCEPT ![e] = [@ EXCEPT !.step = "probe", !.item = ev[e].item,
                                            !.n = ev[e].n + 1]]
      BY <1>0, <1>8, <2>3 DEF Probe, Handlers, ControlTypeOK, ControlTypes, Events
    <3>2. QED BY <1>2, <2>0, <3>1
  <2>4. QED BY <1>8, <2>1, <2>2, <2>3 DEF Probe
<1>9. CASE Put(e)
  <2>1. ev' = [ev EXCEPT ![e] = [@ EXCEPT !.step = "land", !.item = ev[e].item,
                                          !.n = ev[e].n]]
    BY <1>0, <1>9 DEF Put, Step, Handlers, ControlTypeOK, ControlTypes, Events
  <2>2. QED BY <1>2, <1>3, <1>9, <2>1 DEF Put, Steps, Busy
<1>10. CASE Land(e)
  <2>1. CASE Finish(e)
    BY <1>1, <1>3, <1>10, <2>1 DEF Land, Finish, handled
  <2>2. CASE Tell(e)
    <3>1. ev' = [ev EXCEPT ![e] = [@ EXCEPT !.step = "told", !.item = ev[e].item,
                                            !.n = 1]]
      BY <1>0, <2>2 DEF Tell, Handlers, ControlTypeOK, ControlTypes, Events
    <3>2. QED BY <1>2, <1>3, <1>10, <3>1 DEF Land, handled, Steps, Busy
  <2>3. QED BY <1>10, <2>1, <2>2 DEF Land
<1>11. QED BY <1>4, <1>5, <1>6, <1>7, <1>8, <1>9, <1>10 DEF Handle

LEMMA FuseKeepsNotes == ASSUME NoteAwaited, FuseBurns PROVE NoteAwaited'
<1>1. Reading' = {} /\ Arming' = {} /\ Armed' = NoItem /\ lastTap' = NoItem
  BY DEF FuseBurns, Reading, Arming, InFlight, Events, Armed
<1>2. NextMessageIsTheNote'
  BY DEF FuseBurns, NoteAwaited, NextMessageIsTheNote, Settled, Events
<1>3. QED BY <1>1, <1>2 DEF NoteAwaited

LEMMA DeathKeepsNotes == ASSUME NoteAwaited, Crash PROVE NoteAwaited'
<1>0. Gone.step = "done" /\ Gone.kind = "gone"
  BY DEF Gone, Handler
<1>1. Events' = Events /\ \A e \in Events : ev'[e] = IF e \in InFlight THEN Gone ELSE ev[e]
  BY DEF Crash, Events
<1>2. Reading' = {} /\ Arming' = {}
  BY <1>0, <1>1, AtNoteIs DEF InFlight, Busy, Steps
<1>3. tapRaced' \/ lastTap' = Armed'
  BY DEF Crash, Armed
<1>4. NextMessageIsTheNote'
  BY <1>0, <1>1 DEF NoteAwaited, NextMessageIsTheNote, Settled
<1>5. QED BY <1>2, <1>3, <1>4 DEF NoteAwaited

\* A plain message becomes the note of the item whose Changes the owner tapped
\* last, and of none if he tapped none since his last message, whatever else comes
\* in, is decided or dies; unless it met another handler at the setting, between
\* that one's event coming in and its last access, or a death left the setting
\* other than his tap and messages would (handleButton and handleText).
THEOREM NotesFindTheirItem == Spec => []NextMessageIsTheNote
<1>1. Init => NoteAwaited
  BY DEF Init, NoteAwaited, NextMessageIsTheNote, Reading, Arming, InFlight, Events, Armed, Unarmed
<1>2. ControlTypeOK /\ NoteAwaited /\ [Next]_vars => NoteAwaited'
  <2> SUFFICES ASSUME ControlTypeOK, NoteAwaited, [Next]_vars PROVE NoteAwaited'
    OBVIOUS
  <2>0. ASSUME UNCHANGED <<pending, ev, lastTap, tapRaced>> PROVE NoteAwaited'
    BY <2>0 DEF NoteAwaited, NextMessageIsTheNote, Settled, AtNote, Reading, Arming,
                InFlight, Events, Armed
  <2>1. CASE UNCHANGED vars
    BY <2>0, <2>1 DEF vars, handled
  <2>2. CASE Tap \/ Reply \/ New
    BY <2>2, TakesNoMessage DEF Tap, Reply, New
  <2>3. CASE Text \/ TapChanges
    BY <2>3, MessageComesIn, TapComesIn
  <2>4. ASSUME NEW e \in Events, Handle(e) PROVE NoteAwaited'
    BY <2>4, HandlerKeepsNotes
  <2>5. ASSUME NEW i \in Ids, Generate(i) \/ Redraft(i) PROVE NoteAwaited'
    BY <2>0, <2>5 DEF Generate, Redraft, handled
  <2>6. ASSUME NEW i \in Items, PostCard(i) \/ StationDecides(i) PROVE NoteAwaited'
    BY <2>0, <2>6 DEF PostCard, StationDecides, handled
  <2>7. CASE FuseBurns
    BY <2>7, FuseKeepsNotes
  <2>8. CASE Crash
    BY <2>8, DeathKeepsNotes
  <2>9. QED BY <2>1, <2>2, <2>3, <2>4, <2>5, <2>6, <2>7, <2>8 DEF Next, Owner
<1>3. NoteAwaited => NextMessageIsTheNote
  BY DEF NoteAwaited
<1>4. QED BY <1>1, <1>2, <1>3, ControlTyped, PTL DEF Spec
==============================================================================
