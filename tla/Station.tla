------------------------------ MODULE Station ------------------------------
(***************************************************************************)
(* The review station: one browser tab (review/public/app.js), the server  *)
(* behind it (review/lib/app.mjs) and the store they share with the bot,   *)
(* the CLI and the pipeline.  The tab works on a snapshot it fetched       *)
(* earlier; the requests and the answers of its decisions and of its       *)
(* refreshes overtake each other freely.  What the owner has entered - an  *)
(* edit, an open reason panel, the typed CONFIRM - is kept in one `detail` *)
(* record for whichever item is selected.                                  *)
(*                                                                         *)
(* Captions are told apart by the item and the attempt they were made for. *)
(* decide() is one step here; Pipeline takes it apart.                     *)
(***************************************************************************)
EXTENDS Integers, Sequences, SequencesExt

CONSTANTS Queue,      \* the content items, in the order the station lists them
          Sensitive,  \* those whose risk is sensitive
          Group,      \* Group[i] is the candidate group of item i
          NoItem,     \* no item
          NoText,     \* no caption
          NoSnap,     \* no snapshot
          MaxAttempt, \* attempts the regen budget grants
          MaxPosts,   \* bound on the decisions the tab sends
          MaxRefreshes, \* bound on the refreshes of the tab
          MaxOthers,  \* bound on the decisions of others
          MaxFaults   \* bound on requests and answers that are lost

Items == ToSet(Queue)

VARIABLES store,    \* status and attempt of every item
          view,     \* the tab's state.items: a snapshot of the store
          shown,    \* the detail of the selected item is on the screen
          selected, \* state.selectedId
          detail,   \* state.detail
          flights,  \* flights[i]: the tab's decision on item i, if under way
          refresh,  \* the tab's reload, if under way
          overtaken, \* history: a snapshot older than the view has replaced it
          used      \* how much of each bound is used up

tab         == <<view, overtaken, shown, selected, detail>>
stationVars == <<store, tab, flights, refresh, used>>

-----------------------------------------------------------------------------
(* Records *)

Typed(i, a) == [item |-> i, attempt |-> a, typed |-> TRUE]
\* item.caption, as attempt a drafted it.
CaptionOf(i, a) == [item |-> i, attempt |-> a, typed |-> FALSE]

\* resetDetail; detail.editing is detail.text # NoText.  `confirmed` and
\* `carried` are history: the item CONFIRM was typed for, and whether a reload
\* has moved on under the record.
FreshDetail == [text |-> NoText, reason |-> "none",
                unlocked |-> FALSE, confirmed |-> NoItem, carried |-> FALSE]

Spend(what, bound) == /\ used[what] < bound
                      /\ used' = [used EXCEPT ![what] = @ + 1]

Editing   == detail.text # NoText

NoFlight  == [phase |-> "none"]
NoRefresh == [phase |-> "none", snap |-> NoSnap]

busy   == {i \in Items : flights[i] # NoFlight}
posted == {i \in Items : flights[i].phase = "post"}

-----------------------------------------------------------------------------
(* What the tab makes of a snapshot *)

pendingOrder(snap) == SelectSeq(Queue, LAMBDA i : snap[i].status = "pending_review")

\* Redrafts the employee owes: an item in its first attempt is no rework.
reworkOrder(snap) ==
  SelectSeq(Queue, LAMBDA i : snap[i].status = "drafting" /\ snap[i].attempt > 1)

navOrder(snap) == pendingOrder(snap) \o reworkOrder(snap)

FirstOf(order) == IF order = <<>> THEN NoItem ELSE Head(order)

\* Position of x in a sequence, 0 if absent (indexOf is -1 then).
IndexIn(order, x) == IF \E n \in DOMAIN order : order[n] = x
                       THEN CHOOSE n \in DOMAIN order : order[n] = x ELSE 0

selectable(snap) == ToSet(navOrder(snap))

\* ingest: a selection that is gone goes to the head of the queue.
IngestSelection(snap) ==
  IF selected \in selectable(snap) THEN selected ELSE FirstOf(navOrder(snap))

\* Another item, or another draft of it, comes under the open detail.
MovesOn(snap) ==
  \/ IngestSelection(snap) # selected
  \/ selected # NoItem /\ snap[selected].attempt # view[selected].attempt

\* Answers overtake each other: this one was given before the last that came.
Older(snap) == \E i \in Items : snap[i].attempt < view[i].attempt

Decidable(i) == i # NoItem /\ view[i].status = "pending_review"

\* detailLocked.
Locked(i) == i \in Sensitive /\ ~detail.unlocked

-----------------------------------------------------------------------------
(* The owner at the tab *)

\* Seeded fault: selecting an item keeps the detail of the one before.
selectItem_KeepsDetail(i) ==
  /\ i \in selectable(view) \ {selected}
  /\ selected' = i
  /\ shown' = TRUE
  /\ UNCHANGED <<store, view, overtaken, detail, flights, refresh, used>>

\* A click on a card of the rail, or j and k.
selectItem(i) ==
  /\ i \in selectable(view) \ {selected}
  /\ selected' = i
  /\ detail' = FreshDetail
  /\ shown' = TRUE
  /\ UNCHANGED <<store, view, overtaken, flights, refresh, used>>

\* A link #/review/<id>, which also opens what is no longer in the queue.
applyHash(i) ==
  /\ i \in Items
  /\ selected' = i
  /\ detail' = FreshDetail
  /\ shown' = TRUE
  /\ UNCHANGED <<store, view, overtaken, flights, refresh, used>>

\* The gate of a sensitive card: CONFIRM typed into its field.
TypeConfirm ==
  /\ shown /\ Decidable(selected) /\ Locked(selected)
  /\ detail' = [detail EXCEPT !.unlocked = TRUE, !.confirmed = selected]
  /\ UNCHANGED <<store, view, overtaken, shown, selected, flights, refresh, used>>

\* The e key and a click on the caption, which ask for no CONFIRM.
startEdit ==
  /\ Decidable(selected) /\ ~Editing
  /\ detail' = [detail EXCEPT !.text = CaptionOf(selected, view[selected].attempt)]
  /\ shown' = TRUE
  /\ UNCHANGED <<store, view, overtaken, selected, flights, refresh, used>>

TypeCaption ==
  /\ shown /\ Decidable(selected) /\ Editing
  /\ detail' = [detail EXCEPT !.text = Typed(selected, view[selected].attempt)]
  /\ UNCHANGED <<store, view, overtaken, shown, selected, flights, refresh, used>>

cancelEdit ==
  /\ Decidable(selected) /\ Editing
  /\ detail' = [detail EXCEPT !.text = NoText]
  /\ shown' = TRUE
  /\ UNCHANGED <<store, view, overtaken, selected, flights, refresh, used>>

\* Opening the reason panel, and its cancel button or Escape.
openReason(kind) ==
  /\ Decidable(selected) /\ ~Locked(selected)
  /\ detail.reason # kind
  /\ detail' = [detail EXCEPT !.reason = kind]
  /\ shown' = TRUE
  /\ UNCHANGED <<store, view, overtaken, selected, flights, refresh, used>>

closeReason ==
  /\ shown /\ detail.reason # "none"
  /\ detail' = [detail EXCEPT !.reason = "none"]
  /\ UNCHANGED <<store, view, overtaken, shown, selected, flights, refresh, used>>

\* decide(): one request per item at a time; the rest of the tab stays usable.
Post(i, decision, text) ==
  /\ i \notin busy
  /\ Spend("posts", MaxPosts)
  /\ flights' = [flights EXCEPT ![i] =
       [phase |-> "post", decision |-> decision, text |-> text,
        attempt |-> view[i].attempt,
        prev |-> IndexIn(pendingOrder(view), i),
        confirmed |-> detail.confirmed = i, carried |-> detail.carried]]
  /\ shown' = TRUE
  /\ UNCHANGED <<store, view, overtaken, selected, detail, refresh>>

\* The a key or its button; the key works on the selected item even when a
\* failed reload has taken it off the screen.
actApprove ==
  LET dirty == /\ Editing
               /\ detail.text # CaptionOf(selected, view[selected].attempt)
  IN  /\ Decidable(selected) /\ ~Locked(selected)
      /\ IF dirty THEN Post(selected, "edited", detail.text)
                  ELSE Post(selected, "approved", NoText)

\* The submit button of the reason panel, with a tag or a note given.
submitReason ==
  /\ shown /\ Decidable(selected) /\ detail.reason # "none"
  /\ Post(selected, detail.reason, NoText)

askRefresh ==
  /\ refresh = NoRefresh
  /\ refresh' = [refresh EXCEPT !.phase = "asked"]
  /\ Spend("refreshes", MaxRefreshes)
  /\ UNCHANGED <<store, tab, flights>>

-----------------------------------------------------------------------------
(* The server *)

\* decide() on the store: an approval skips the pending siblings, requested
\* changes go straight back to drafting, or are skipped when none are left.
Decided(i, decision) ==
  CASE decision \in {"approved", "edited"} ->
         [j \in Items |->
            IF j = i THEN [store[j] EXCEPT !.status = "approved"]
            ELSE IF Group[j] = Group[i] /\ store[j].status = "pending_review"
                   THEN [store[j] EXCEPT !.status = "skipped"] ELSE store[j]]
    [] decision = "rejected" -> [store EXCEPT ![i].status = "skipped"]
    [] decision = "changes_requested" ->
         IF store[i].attempt < MaxAttempt
           THEN [store EXCEPT ![i] = [status |-> "drafting", attempt |-> @.attempt + 1]]
           ELSE [store EXCEPT ![i].status = "skipped"]

\* POST /api/decide: 409 unless the item is still pending; the tab then shows
\* the error on whichever detail is open and is no longer busy with the item.
handlePostDecide(i) ==
  /\ flights[i].phase = "post"
  /\ IF store[i].status = "pending_review"
       THEN /\ store' = Decided(i, flights[i].decision)
            /\ flights' = [flights EXCEPT ![i] =
                            [phase |-> "reload", prev |-> flights[i].prev]]
            /\ UNCHANGED shown
       ELSE /\ flights' = [flights EXCEPT ![i] = NoFlight]
            /\ shown' = TRUE
            /\ UNCHANGED store
  /\ UNCHANGED <<view, overtaken, selected, detail, refresh, used>>

\* GET /api/items, asked by a finished decision.
ReloadServed(i) ==
  /\ flights[i].phase = "reload"
  /\ flights' = [flights EXCEPT ![i] =
                  [phase |-> "loaded", prev |-> flights[i].prev, snap |-> store]]
  /\ UNCHANGED <<store, tab, refresh, used>>

\* GET /api/items, asked by a refresh.
handleGetItems ==
  /\ refresh.phase = "asked"
  /\ refresh' = [phase |-> "loaded", snap |-> store]
  /\ UNCHANGED <<store, tab, flights, used>>

-----------------------------------------------------------------------------
(* Answers reach the tab *)

\* Seeded fault: the answer of a decision only moves the selection on.
DecideLoaded_KeepsView(i) ==
  LET order == SelectSeq(pendingOrder(view), LAMBDA j : j # i)
  IN  /\ flights[i].phase = "loaded"
      /\ selected' = FirstOf(order)
      /\ detail' = FreshDetail
      /\ shown' = TRUE
      /\ flights' = [flights EXCEPT ![i] = NoFlight]
      /\ UNCHANGED <<store, view, overtaken, refresh, used>>

\* The reload of a decision: wherever the owner has gone meanwhile, the
\* selection lands on what took the decided item's place in the queue.
DecideLoaded(i) ==
  LET snap  == flights[i].snap
      order == pendingOrder(snap)
      slot  == IF flights[i].prev = 0 THEN 1 ELSE flights[i].prev
  IN  /\ flights[i].phase = "loaded"
      /\ view' = snap
      /\ overtaken' = (overtaken \/ Older(snap))
      /\ selected' = IF order = <<>> THEN NoItem
                     ELSE order[IF slot > Len(order) THEN Len(order) ELSE slot]
      /\ detail' = FreshDetail
      /\ shown' = TRUE
      /\ flights' = [flights EXCEPT ![i] = NoFlight]
      /\ UNCHANGED <<store, refresh, used>>

\* The request or its reload is lost; the decision may have been saved.
DecideFails(i) ==
  /\ i \in busy
  /\ Spend("faults", MaxFaults)
  /\ flights' = [flights EXCEPT ![i] = NoFlight]
  /\ shown' = TRUE
  /\ UNCHANGED <<store, view, overtaken, selected, detail, refresh>>

\* reload(): the detail outlives the snapshot it was opened on.
RefreshLoaded ==
  /\ refresh.phase = "loaded"
  /\ view' = refresh.snap
  /\ overtaken' = (overtaken \/ Older(refresh.snap))
  /\ selected' = IngestSelection(refresh.snap)
  /\ shown' = TRUE
  /\ detail' = [detail EXCEPT !.carried =
                  \/ @
                  \/ detail # FreshDetail /\ MovesOn(refresh.snap)]
  /\ refresh' = NoRefresh
  /\ UNCHANGED <<store, flights, used>>

\* reload() failed: the screen says so, the items stay in memory.
RefreshFails ==
  /\ refresh # NoRefresh
  /\ Spend("faults", MaxFaults)
  /\ shown' = FALSE
  /\ refresh' = NoRefresh
  /\ UNCHANGED <<store, view, overtaken, selected, detail, flights>>

-----------------------------------------------------------------------------
(* The others *)

\* Discord, the CLI or another tab decides an item that is pending.
OtherDecides(i, decision) ==
  /\ store[i].status = "pending_review"
  /\ Spend("others", MaxOthers)
  /\ store' = Decided(i, decision)
  /\ UNCHANGED <<tab, flights, refresh>>

\* The pipeline brings a redraft to review, or gives it up.
Redraft(i) ==
  /\ store[i].status = "drafting"
  /\ \E to \in {"pending_review", "skipped"} : store' = [store EXCEPT ![i].status = to]
  /\ UNCHANGED <<tab, flights, refresh, used>>

\* The station after its first load.
StationInit ==
  /\ store \in [Items -> {[status |-> "pending_review", attempt |-> 1]}]
  /\ view = store
  /\ overtaken = FALSE
  /\ shown = TRUE
  /\ selected = FirstOf(Queue)
  /\ detail = FreshDetail
  /\ flights = [i \in Items |-> NoFlight]
  /\ refresh = NoRefresh
  /\ used = [posts |-> 0, refreshes |-> 0, others |-> 0, faults |-> 0]

Owner == \/ \E i \in Items : selectItem(i) \/ applyHash(i)
         \/ TypeConfirm \/ startEdit \/ TypeCaption \/ cancelEdit
         \/ \E kind \in {"rejected", "changes_requested"} : openReason(kind)
         \/ closeReason \/ actApprove \/ submitReason \/ askRefresh

DecideStep(i) == handlePostDecide(i) \/ ReloadServed(i) \/ DecideLoaded(i)

Answers == handleGetItems \/ RefreshLoaded \/ RefreshFails

StationNext ==
  \/ Owner
  \/ Answers
  \/ \E i \in Items : \/ DecideStep(i) \/ DecideFails(i)
                      \/ \E decision \in {"approved", "changes_requested"} :
                           OtherDecides(i, decision)
                      \/ Redraft(i)

StationSpec == StationInit /\ [][StationNext]_stationVars

-----------------------------------------------------------------------------
(* Properties *)

\* What the owner entered for one draft is used for another only if a refresh
\* has moved the selection, or replaced the draft, under an open detail: no
\* click, key, link, answered or failed decision does it (resetDetail in
\* selectItem, applyHash and decide; ingest in reload).
OnlyARefreshCarriesOver ==
  /\ ~detail.carried =>
       /\ detail.unlocked => detail.confirmed = selected
       /\ detail.text # NoText =>
            detail.text \in {Typed(selected, view[selected].attempt),
                            CaptionOf(selected, view[selected].attempt)}
  /\ \A i \in posted : ~flights[i].carried =>
       /\ i \in Sensitive => flights[i].confirmed
       /\ flights[i].text # NoText => flights[i].text.item = i

\* The station sends no attempt with a decision, so the server decides whichever
\* draft is under review: that is the one the tab showed, however the answers
\* are delayed and whatever redraft comes up meanwhile, unless somebody else
\* decided, an answer was lost, or an older answer came last (decide, busy and
\* reload of app.js, handlePostDecide).
DecidesTheDraftShown ==
  [][\A i \in posted :
       /\ used.others = 0 /\ used.faults = 0 /\ ~overtaken
       /\ store'[i] # store[i] /\ flights'[i].phase = "reload"
       => store[i].attempt = flights[i].attempt]_stationVars
=============================================================================
