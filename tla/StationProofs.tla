---------------------------- MODULE StationProofs ----------------------------
(***************************************************************************)
(* In a tab of the review station, whatever the owner does and however     *)
(* answers overtake each other: what he entered for one draft stays with   *)
(* it, and the server decides the draft he was shown, for any queue and    *)
(* any number of decisions, refreshes, faults and others who decide.       *)
(***************************************************************************)
EXTENDS Station, TLAPS

-----------------------------------------------------------------------------
(* Types *)

Decisions == {"approved", "edited", "rejected", "changes_requested"}
Stored    == [status : {"pending_review", "drafting", "approved", "skipped"},
              attempt : Nat]
Snap      == [Items -> Stored]

\* The flight of item i, as far as it says what the tab has of it.
Flown(i) ==
  /\ flights[i].phase \in {"none", "post", "reload", "loaded"}
  /\ flights[i].phase = "none" => flights[i] = NoFlight
  /\ flights[i].phase = "post" => flights[i].decision \in Decisions
  /\ flights[i].phase = "loaded" => flights[i].snap \in Snap

StationTypeOK ==
  /\ store \in Snap /\ view \in Snap
  /\ overtaken \in BOOLEAN
  /\ detail = [text |-> detail.text, reason |-> detail.reason,
               unlocked |-> detail.unlocked, confirmed |-> detail.confirmed,
               carried |-> detail.carried]
  /\ detail.reason \in {"none", "rejected", "changes_requested"}
  /\ detail.unlocked \in BOOLEAN /\ detail.carried \in BOOLEAN
  /\ flights = [i \in Items |-> flights[i]]
  /\ \A i \in Items : Flown(i)
  /\ refresh = [phase |-> refresh.phase, snap |-> refresh.snap]
  /\ refresh.phase \in {"none", "asked", "loaded"}
  /\ refresh.phase = "loaded" => refresh.snap \in Snap
  /\ used \in [posts : Nat, refreshes : Nat, others : Nat, faults : Nat]

\* The detail keeps its fields, whatever one of them becomes.
LEMMA DetailTypes ==
  ASSUME StationTypeOK
  PROVE  /\ \A x : [detail EXCEPT !.text = x]
                     = [text |-> x, reason |-> detail.reason,
                            unlocked |-> detail.unlocked,
                            confirmed |-> detail.confirmed, carried |-> detail.carried]
         /\ \A x : [detail EXCEPT !.reason = x]
                     = [text |-> detail.text, reason |-> x,
                            unlocked |-> detail.unlocked,
                            confirmed |-> detail.confirmed, carried |-> detail.carried]
         /\ \A x : [detail EXCEPT !.carried = x]
                     = [text |-> detail.text, reason |-> detail.reason,
                            unlocked |-> detail.unlocked,
                            confirmed |-> detail.confirmed, carried |-> x]
         /\ \A x, y : [detail EXCEPT !.unlocked = x, !.confirmed = y]
                     = [text |-> detail.text, reason |-> detail.reason,
                               unlocked |-> x, confirmed |-> y,
                               carried |-> detail.carried]
<1>1. PICK t, r, u, c, k : detail = [text |-> t, reason |-> r, unlocked |-> u,
                                     confirmed |-> c, carried |-> k]
  BY DEF StationTypeOK
<1>2. /\ detail.text = t /\ detail.reason = r /\ detail.unlocked = u
      /\ detail.confirmed = c /\ detail.carried = k
  BY <1>1
<1>3. ASSUME NEW x
      PROVE  [[text |-> t, reason |-> r, unlocked |-> u, confirmed |-> c, carried |-> k]
               EXCEPT !.text = x]
             = [text |-> x, reason |-> r, unlocked |-> u, confirmed |-> c, carried |-> k]
  OBVIOUS
<1>4. ASSUME NEW x
      PROVE  [[text |-> t, reason |-> r, unlocked |-> u, confirmed |-> c, carried |-> k]
               EXCEPT !.reason = x]
             = [text |-> t, reason |-> x, unlocked |-> u, confirmed |-> c, carried |-> k]
  OBVIOUS
<1>5. ASSUME NEW x
      PROVE  [[text |-> t, reason |-> r, unlocked |-> u, confirmed |-> c, carried |-> k]
               EXCEPT !.carried = x]
             = [text |-> t, reason |-> r, unlocked |-> u, confirmed |-> c, carried |-> x]
  OBVIOUS
<1>6. ASSUME NEW x, NEW y
      PROVE  [[text |-> t, reason |-> r, unlocked |-> u, confirmed |-> c, carried |-> k]
               EXCEPT !.unlocked = x, !.confirmed = y]
             = [text |-> t, reason |-> r, unlocked |-> x, confirmed |-> y, carried |-> k]
  <2>1. \A d : [d EXCEPT !.unlocked = x, !.confirmed = y]
              = [[d EXCEPT !.unlocked = x] EXCEPT !.confirmed = y]
    BY Zenon
  <2>2. [[text |-> t, reason |-> r, unlocked |-> u, confirmed |-> c, carried |-> k]
          EXCEPT !.unlocked = x]
        = [text |-> t, reason |-> r, unlocked |-> x, confirmed |-> c, carried |-> k]
    OBVIOUS
  <2>3. [[text |-> t, reason |-> r, unlocked |-> x, confirmed |-> c, carried |-> k]
          EXCEPT !.confirmed = y]
        = [text |-> t, reason |-> r, unlocked |-> x, confirmed |-> y, carried |-> k]
    OBVIOUS
  <2>4. QED BY <2>1, <2>2, <2>3, Zenon
<1>7. QED BY <1>1, <1>2, <1>3, <1>4, <1>5, <1>6, Zenon

\* decide() on the store keeps it a store, and redrafts the decided item alone.
LEMMA DecidedTypes ==
  ASSUME StationTypeOK, NEW i \in Items, NEW decision \in Decisions
  PROVE  /\ Decided(i, decision) \in Snap
         /\ \A j \in Items \ {i} : Decided(i, decision)[j].attempt = store[j].attempt
         /\ Decided(i, decision)[i].attempt >= store[i].attempt
<1> USE DEF StationTypeOK, Snap, Stored
<1>1. CASE decision \in {"approved", "edited"}
  <2> DEFINE s(j) == IF j = i THEN [store[j] EXCEPT !.status = "approved"]
                     ELSE IF Group[j] = Group[i] /\ store[j].status = "pending_review"
                       THEN [store[j] EXCEPT !.status = "skipped"] ELSE store[j]
  <2>1. Decided(i, decision) = [j \in Items |-> s(j)]
    BY <1>1 DEF Decided
  <2>2. \A j \in Items : s(j) \in Stored /\ s(j).attempt = store[j].attempt
    OBVIOUS
  <2> HIDE DEF s
  <2>3. QED BY <2>1, <2>2
<1>2. CASE decision = "rejected"
  BY <1>2 DEF Decided
<1>3. CASE decision = "changes_requested" /\ store[i].attempt < MaxAttempt
  <2> DEFINE r == [status |-> "drafting", attempt |-> store[i].attempt + 1]
  <2>1. Decided(i, decision) = [store EXCEPT ![i] = r]
    BY <1>3 DEF Decided
  <2>2. r \in Stored /\ r.attempt >= store[i].attempt
    OBVIOUS
  <2> HIDE DEF r
  <2>3. QED BY <2>1, <2>2
<1>4. CASE decision = "changes_requested" /\ ~(store[i].attempt < MaxAttempt)
  <2>1. Decided(i, decision) = [store EXCEPT ![i].status = "skipped"]
    BY <1>4 DEF Decided
  <2>2. QED BY <2>1
<1>5. QED BY <1>1, <1>2, <1>3, <1>4 DEF Decisions

\* A bound is spent by one, and no other.
LEMMA SpendTypes ==
  ASSUME StationTypeOK, NEW what \in {"posts", "refreshes", "others", "faults"},
         NEW bound, Spend(what, bound)
  PROVE  /\ used' \in [posts : Nat, refreshes : Nat, others : Nat, faults : Nat]
         /\ used'.others = used.others + (IF what = "others" THEN 1 ELSE 0)
         /\ used'.faults = used.faults + (IF what = "faults" THEN 1 ELSE 0)
<1>1. CASE what = "posts"
  BY <1>1 DEF Spend, StationTypeOK
<1>2. CASE what = "refreshes"
  BY <1>2 DEF Spend, StationTypeOK
<1>3. CASE what = "others"
  BY <1>3 DEF Spend, StationTypeOK
<1>4. CASE what = "faults"
  BY <1>4 DEF Spend, StationTypeOK
<1>5. QED BY <1>1, <1>2, <1>3, <1>4

\* A request that is posted: nothing else of the tab changes.
LEMMA PostTypes ==
  ASSUME StationTypeOK, NEW i, NEW decision \in Decisions, NEW text,
         Post(i, decision, text)
  PROVE  StationTypeOK'
<1> DEFINE f == [phase |-> "post", decision |-> decision, text |-> text,
                 attempt |-> view[i].attempt,
                 prev |-> IndexIn(pendingOrder(view), i),
                 confirmed |-> detail.confirmed = i, carried |-> detail.carried]
<1>1. flights' = [flights EXCEPT ![i] = f] /\ UNCHANGED <<store, view, overtaken, detail, refresh>>
  BY DEF Post
<1>2. f.phase = "post" /\ f.decision \in Decisions
  OBVIOUS
<1>3. used' \in [posts : Nat, refreshes : Nat, others : Nat, faults : Nat]
  BY SpendTypes DEF Post
<1> HIDE DEF f
<1>4. flights' = [j \in Items |-> flights'[j]]
      /\ \A j \in Items : Flown(j)'
  BY <1>1, <1>2 DEF StationTypeOK, Flown
<1>5. QED BY <1>1, <1>3, <1>4 DEF StationTypeOK

\* A flight becomes another, or ends.
LEMMA FlightTypes ==
  ASSUME StationTypeOK, NEW i \in Items, NEW f, flights' = [flights EXCEPT ![i] = f],
         \/ f = NoFlight
         \/ f.phase = "reload"
         \/ f.phase = "loaded" /\ f.snap \in Snap
  PROVE  /\ flights' = [j \in Items |-> flights'[j]]
         /\ \A j \in Items : Flown(j)'
         /\ flights'[i] = f /\ \A j \in Items \ {i} : flights'[j] = flights[j]
<1>1. /\ flights' = [j \in Items |-> flights'[j]]
      /\ flights'[i] = f /\ \A j \in Items \ {i} : flights'[j] = flights[j]
  BY DEF StationTypeOK
<1>2. NoFlight.phase = "none"
  BY DEF NoFlight
<1>3. \A j \in Items : Flown(j)'
  BY <1>1, <1>2 DEF StationTypeOK, Flown
<1>4. QED BY <1>1, <1>3

-----------------------------------------------------------------------------
(* Every step keeps the types *)

LEMMA OwnerTypes == ASSUME StationTypeOK, Owner PROVE StationTypeOK'
<1>0. ASSUME UNCHANGED <<store, view, overtaken, flights, refresh, used>>,
             NEW text, NEW reason \in {"none", "rejected", "changes_requested"},
             NEW unlocked \in BOOLEAN, NEW confirmed, NEW carried \in BOOLEAN,
             detail' = [text |-> text, reason |-> reason, unlocked |-> unlocked,
                        confirmed |-> confirmed, carried |-> carried]
      PROVE  StationTypeOK'
  BY <1>0 DEF StationTypeOK, Flown
<1>a. /\ detail.reason \in {"none", "rejected", "changes_requested"}
      /\ detail.unlocked \in BOOLEAN /\ detail.carried \in BOOLEAN
  BY DEF StationTypeOK
<1>1. ASSUME NEW i \in Items, selectItem(i) \/ applyHash(i) PROVE StationTypeOK'
  BY <1>0, <1>a, <1>1 DEF selectItem, applyHash, FreshDetail
<1>2. CASE TypeConfirm
  <2>1. detail' = [text |-> detail.text, reason |-> detail.reason,
                  unlocked |-> TRUE, confirmed |-> selected,
                  carried |-> detail.carried]
    BY <1>2, DetailTypes DEF TypeConfirm
  <2>2. UNCHANGED <<store, view, overtaken, flights, refresh, used>>
    BY <1>2 DEF TypeConfirm
  <2>3. QED BY <1>0, <1>a, <2>1, <2>2
<1>3. CASE startEdit
  <2>1. detail' = [text |-> CaptionOf(selected, view[selected].attempt), reason |-> detail.reason,
                  unlocked |-> detail.unlocked, confirmed |-> detail.confirmed,
                  carried |-> detail.carried]
    BY <1>3, DetailTypes DEF startEdit
  <2>2. UNCHANGED <<store, view, overtaken, flights, refresh, used>>
    BY <1>3 DEF startEdit
  <2>3. QED BY <1>0, <1>a, <2>1, <2>2
<1>4. CASE TypeCaption
  <2>1. detail' = [text |-> Typed(selected, view[selected].attempt), reason |-> detail.reason,
                  unlocked |-> detail.unlocked, confirmed |-> detail.confirmed,
                  carried |-> detail.carried]
    BY <1>4, DetailTypes DEF TypeCaption
  <2>2. UNCHANGED <<store, view, overtaken, flights, refresh, used>>
    BY <1>4 DEF TypeCaption
  <2>3. QED BY <1>0, <1>a, <2>1, <2>2
<1>5. CASE cancelEdit
  <2>1. detail' = [text |-> NoText, reason |-> detail.reason,
                  unlocked |-> detail.unlocked, confirmed |-> detail.confirmed,
                  carried |-> detail.carried]
    BY <1>5, DetailTypes DEF cancelEdit
  <2>2. UNCHANGED <<store, view, overtaken, flights, refresh, used>>
    BY <1>5 DEF cancelEdit
  <2>3. QED BY <1>0, <1>a, <2>1, <2>2
<1>6. ASSUME NEW kind \in {"rejected", "changes_requested"}, openReason(kind)
      PROVE  StationTypeOK'
  <2>1. detail' = [text |-> detail.text, reason |-> kind,
                  unlocked |-> detail.unlocked, confirmed |-> detail.confirmed,
                  carried |-> detail.carried]
    BY <1>6, DetailTypes DEF openReason
  <2>2. UNCHANGED <<store, view, overtaken, flights, refresh, used>>
    BY <1>6 DEF openReason
  <2>3. QED BY <1>0, <1>a, <2>1, <2>2
<1>7. CASE closeReason
  BY <1>0, <1>a, <1>7, DetailTypes DEF closeReason
<1>8. CASE actApprove
  BY <1>8, PostTypes DEF actApprove, Decisions
<1>9. CASE submitReason
  BY <1>9, PostTypes DEF submitReason, Decisions, StationTypeOK
<1>10. CASE askRefresh
  <2>1. used' \in [posts : Nat, refreshes : Nat, others : Nat, faults : Nat]
    BY <1>10, SpendTypes DEF askRefresh
  <2>2. refresh' = [phase |-> "asked", snap |-> NoSnap]
    BY <1>10 DEF askRefresh, NoRefresh
  <2>3. QED BY <1>10, <2>1, <2>2 DEF askRefresh, tab, StationTypeOK, Flown
<1>11. QED BY <1>1, <1>2, <1>3, <1>4, <1>5, <1>6, <1>7, <1>8, <1>9, <1>10 DEF Owner

LEMMA AnswersTypes == ASSUME StationTypeOK, Answers PROVE StationTypeOK'
<1>1. CASE handleGetItems
  BY <1>1 DEF handleGetItems, tab, StationTypeOK, Flown
<1>2. CASE RefreshLoaded
  <2> DEFINE moved == detail # FreshDetail /\ MovesOn(refresh.snap)
  <2>1. (detail.carried \/ moved) \in BOOLEAN /\ (overtaken \/ Older(refresh.snap)) \in BOOLEAN
    OBVIOUS
  <2>2. detail' = [detail EXCEPT !.carried = (detail.carried \/ moved)]
        /\ overtaken' = (overtaken \/ Older(refresh.snap))
    BY <1>2 DEF RefreshLoaded
  <2> HIDE DEF moved
  <2>3. PICK c \in BOOLEAN : detail' = [detail EXCEPT !.carried = c]
    BY <2>1, <2>2, Zenon
  <2>4. overtaken' \in BOOLEAN
    BY <2>1, <2>2, Zenon
  <2>5. refresh' = NoRefresh /\ view' = refresh.snap /\ refresh.phase = "loaded"
        /\ UNCHANGED <<store, flights, used>>
    BY <1>2 DEF RefreshLoaded
  <2>6. QED BY <2>3, <2>4, <2>5, DetailTypes DEF NoRefresh, StationTypeOK, Flown
<1>3. CASE RefreshFails
  <2>1. used' \in [posts : Nat, refreshes : Nat, others : Nat, faults : Nat]
    BY <1>3, SpendTypes DEF RefreshFails
  <2>2. QED BY <1>3, <2>1 DEF RefreshFails, NoRefresh, StationTypeOK, Flown
<1>4. QED BY <1>1, <1>2, <1>3 DEF Answers

LEMMA DecisionTypes ==
  ASSUME StationTypeOK, NEW i \in Items, DecideStep(i) \/ DecideFails(i)
  PROVE  StationTypeOK'
<1>1. CASE handlePostDecide(i)
  <2>1. CASE store[i].status = "pending_review"
    <3>1. store' = Decided(i, flights[i].decision) /\ flights[i].decision \in Decisions
      BY <1>1, <2>1 DEF handlePostDecide, StationTypeOK, Flown
    <3>2. store' \in Snap
      BY <3>1, DecidedTypes
    <3>3. flights' = [flights EXCEPT ![i] = [phase |-> "reload", prev |-> flights[i].prev]]
      BY <1>1, <2>1 DEF handlePostDecide
    <3>4. flights' = [j \in Items |-> flights'[j]] /\ \A j \in Items : Flown(j)'
      BY <3>3, FlightTypes
    <3>5. QED BY <1>1, <3>2, <3>4 DEF handlePostDecide, StationTypeOK
  <2>2. CASE store[i].status # "pending_review"
    <3>1. flights' = [j \in Items |-> flights'[j]] /\ \A j \in Items : Flown(j)'
      BY <1>1, <2>2, FlightTypes DEF handlePostDecide
    <3>2. QED BY <1>1, <2>2, <3>1 DEF handlePostDecide, StationTypeOK
  <2>3. QED BY <2>1, <2>2
<1>2. CASE ReloadServed(i)
  <2> DEFINE f == [phase |-> "loaded", prev |-> flights[i].prev, snap |-> store]
  <2>1. flights' = [flights EXCEPT ![i] = f] /\ f.phase = "loaded" /\ f.snap \in Snap
    BY <1>2 DEF ReloadServed, StationTypeOK
  <2>2. flights' = [j \in Items |-> flights'[j]] /\ \A j \in Items : Flown(j)'
    BY <2>1, FlightTypes
  <2>3. QED BY <1>2, <2>2 DEF ReloadServed, tab, StationTypeOK
<1>3. CASE DecideLoaded(i)
  <2>1. (overtaken \/ Older(flights[i].snap)) \in BOOLEAN
    OBVIOUS
  <2>2. overtaken' \in BOOLEAN
    BY <1>3, <2>1, Zenon DEF DecideLoaded
  <2>3. flights' = [j \in Items |-> flights'[j]] /\ \A j \in Items : Flown(j)'
    BY <1>3, FlightTypes DEF DecideLoaded
  <2>4. /\ view' = flights[i].snap /\ flights[i].phase = "loaded"
        /\ detail' = FreshDetail /\ UNCHANGED <<store, refresh, used>>
    BY <1>3 DEF DecideLoaded
  <2>5. view' \in Snap
    BY <2>4 DEF StationTypeOK, Flown
  <2>6. QED BY <2>2, <2>3, <2>4, <2>5 DEF FreshDetail, StationTypeOK
<1>4. CASE DecideFails(i)
  <2>1. used' \in [posts : Nat, refreshes : Nat, others : Nat, faults : Nat]
    BY <1>4, SpendTypes DEF DecideFails
  <2>2. flights' = [j \in Items |-> flights'[j]] /\ \A j \in Items : Flown(j)'
    BY <1>4, FlightTypes DEF DecideFails
  <2>3. QED BY <1>4, <2>1, <2>2 DEF DecideFails, StationTypeOK
<1>5. QED BY <1>1, <1>2, <1>3, <1>4 DEF DecideStep

LEMMA OthersTypes ==
  ASSUME StationTypeOK, NEW i \in Items,
         \/ \E decision \in {"approved", "changes_requested"} : OtherDecides(i, decision)
         \/ Redraft(i)
  PROVE  StationTypeOK'
<1>1. ASSUME NEW decision \in {"approved", "changes_requested"}, OtherDecides(i, decision)
      PROVE  StationTypeOK'
  <2>1. used' \in [posts : Nat, refreshes : Nat, others : Nat, faults : Nat]
    BY <1>1, SpendTypes DEF OtherDecides
  <2>2. store' \in Snap
    BY <1>1, DecidedTypes DEF OtherDecides, Decisions
  <2>3. QED BY <1>1, <2>1, <2>2 DEF OtherDecides, tab, StationTypeOK, Flown
<1>2. CASE Redraft(i)
  <2>1. store' \in Snap
    BY <1>2 DEF Redraft, StationTypeOK, Snap, Stored
  <2>2. QED BY <1>2, <2>1 DEF Redraft, tab, StationTypeOK, Flown
<1>3. QED BY <1>1, <1>2

\* What the tab, its requests and the server keep has its type at every moment.
THEOREM StationTyped == StationSpec => []StationTypeOK
<1>1. StationInit => StationTypeOK
  <2> SUFFICES ASSUME StationInit PROVE StationTypeOK
    OBVIOUS
  <2>1. store \in Snap /\ view \in Snap
    BY DEF StationInit, Snap, Stored
  <2>2. flights = [i \in Items |-> flights[i]] /\ \A i \in Items : Flown(i)
    BY DEF StationInit, Flown, NoFlight
  <2>3. QED BY <2>1, <2>2 DEF StationInit, StationTypeOK, FreshDetail, NoRefresh
<1>2. StationTypeOK /\ [StationNext]_stationVars => StationTypeOK'
  <2> SUFFICES ASSUME StationTypeOK, [StationNext]_stationVars PROVE StationTypeOK'
    OBVIOUS
  <2>1. CASE UNCHANGED stationVars
    BY <2>1 DEF stationVars, tab, StationTypeOK, Flown
  <2>2. CASE Owner
    BY <2>2, OwnerTypes
  <2>3. CASE Answers
    BY <2>3, AnswersTypes
  <2>4. ASSUME NEW i \in Items, DecideStep(i) \/ DecideFails(i) PROVE StationTypeOK'
    BY <2>4, DecisionTypes
  <2>5. ASSUME NEW i \in Items,
               \/ \E decision \in {"approved", "changes_requested"} : OtherDecides(i, decision)
               \/ Redraft(i)
        PROVE  StationTypeOK'
    BY <2>5, OthersTypes
  <2>6. QED BY <2>1, <2>2, <2>3, <2>4, <2>5 DEF StationNext
<1>3. QED BY <1>1, <1>2, PTL DEF StationSpec

-----------------------------------------------------------------------------
(* What is entered stays with its draft *)

\* What has been entered since a refresh last moved on under the detail was
\* entered for the selected draft; of a sensitive item a reason is open only
\* after CONFIRM, and with no item there is no text.
EnteredForTheDraft ==
  /\ ~detail.carried =>
       /\ detail.reason # "none" /\ selected \in Sensitive => detail.unlocked
       /\ selected = NoItem => detail.text = NoText
  /\ OnlyARefreshCarriesOver

\* A detail with nothing in it was entered for any draft.
LEMMA FreshIsFine ==
  ASSUME detail' = FreshDetail, UNCHANGED flights, EnteredForTheDraft
  PROVE  EnteredForTheDraft'
BY DEF FreshDetail, EnteredForTheDraft, OnlyARefreshCarriesOver, posted

\* The same, of a detail that stays while neither the flights nor the selected
\* draft change.
LEMMA EntersForTheDraft ==
  ASSUME EnteredForTheDraft, UNCHANGED <<view, selected, flights>>,
         NEW text, NEW reason, NEW unlocked \in BOOLEAN, NEW confirmed,
         detail' = [text |-> text, reason |-> reason, unlocked |-> unlocked,
                    confirmed |-> confirmed, carried |-> detail.carried],
         detail.carried \in BOOLEAN,
         ~detail.carried =>
           /\ reason # "none" /\ selected \in Sensitive => unlocked
           /\ unlocked => confirmed = selected
           /\ text # NoText => /\ selected # NoItem
                               /\ text \in {Typed(selected, view[selected].attempt),
                                            CaptionOf(selected, view[selected].attempt)}
  PROVE  EnteredForTheDraft'
<1>1. /\ detail'.text = text /\ detail'.reason = reason /\ detail'.unlocked = unlocked
      /\ detail'.confirmed = confirmed /\ detail'.carried = detail.carried
  OBVIOUS
<1>2. /\ Typed(selected, view[selected].attempt)' = Typed(selected, view[selected].attempt)
      /\ CaptionOf(selected, view[selected].attempt)' = CaptionOf(selected, view[selected].attempt)
      /\ posted' = posted
  BY DEF Typed, CaptionOf, posted
<1>3. QED BY <1>1, <1>2 DEF EnteredForTheDraft, OnlyARefreshCarriesOver

LEMMA PostKeepsDraft ==
  ASSUME StationTypeOK, EnteredForTheDraft, NEW decision, NEW text,
         Post(selected, decision, text),
         ~detail.carried =>
           /\ selected \in Sensitive => detail.confirmed = selected
           /\ text # NoText => text.item = selected
  PROVE  EnteredForTheDraft'
<1> DEFINE f == [phase |-> "post", decision |-> decision, text |-> text,
                 attempt |-> view[selected].attempt,
                 prev |-> IndexIn(pendingOrder(view), selected),
                 confirmed |-> detail.confirmed = selected, carried |-> detail.carried]
<1>1. flights' = [flights EXCEPT ![selected] = f] /\ UNCHANGED <<view, selected, detail>>
  BY DEF Post
<1>2. f.text = text /\ f.confirmed = (detail.confirmed = selected) /\ f.carried = detail.carried
  OBVIOUS
<1> HIDE DEF f
<1>3. \A i \in Items : flights'[i] = IF i = selected THEN f ELSE flights[i]
  BY <1>1 DEF StationTypeOK
<1>4. ASSUME NEW i \in posted', ~flights'[i].carried
      PROVE  /\ i \in Sensitive => flights'[i].confirmed
             /\ flights'[i].text # NoText => flights'[i].text.item = i
  <2>1. i \in Items /\ flights'[i].phase = "post"
    BY DEF posted
  <2>2. CASE i = selected
    BY <1>2, <1>3, <1>4, <2>1, <2>2
  <2>3. CASE i # selected
    BY <1>3, <1>4, <2>1, <2>3 DEF EnteredForTheDraft, OnlyARefreshCarriesOver, posted
  <2>4. QED BY <2>2, <2>3
<1>5. QED BY <1>1, <1>4 DEF EnteredForTheDraft, OnlyARefreshCarriesOver

LEMMA OwnerKeepsDraft ==
  ASSUME StationTypeOK, EnteredForTheDraft, Owner PROVE EnteredForTheDraft'
<1>0. /\ detail.unlocked \in BOOLEAN /\ detail.carried \in BOOLEAN
      /\ ~detail.carried =>
           /\ detail.reason # "none" /\ selected \in Sensitive => detail.unlocked
           /\ detail.unlocked => detail.confirmed = selected
           /\ detail.text # NoText =>
                /\ selected # NoItem
                /\ detail.text \in {Typed(selected, view[selected].attempt),
                                    CaptionOf(selected, view[selected].attempt)}
  BY DEF StationTypeOK, EnteredForTheDraft, OnlyARefreshCarriesOver
<1>1. ASSUME NEW i \in Items, selectItem(i) \/ applyHash(i) PROVE EnteredForTheDraft'
  BY <1>1, FreshIsFine DEF selectItem, applyHash
<1>2. CASE TypeConfirm
  <2>1. detail' = [text |-> detail.text, reason |-> detail.reason, unlocked |-> TRUE,
                   confirmed |-> selected, carried |-> detail.carried]
    BY <1>2, DetailTypes DEF TypeConfirm
  <2>2. UNCHANGED <<view, selected, flights>>
    BY <1>2 DEF TypeConfirm
  <2>3. QED BY <1>0, <2>1, <2>2, EntersForTheDraft
<1>3. CASE startEdit
  <2>1. detail' = [text |-> CaptionOf(selected, view[selected].attempt),
                   reason |-> detail.reason, unlocked |-> detail.unlocked,
                   confirmed |-> detail.confirmed, carried |-> detail.carried]
    BY <1>3, DetailTypes DEF startEdit
  <2>2. UNCHANGED <<view, selected, flights>> /\ selected # NoItem
    BY <1>3 DEF startEdit, Decidable
  <2>3. QED BY <1>0, <2>1, <2>2, EntersForTheDraft
<1>4. CASE TypeCaption
  <2>1. detail' = [text |-> Typed(selected, view[selected].attempt),
                   reason |-> detail.reason, unlocked |-> detail.unlocked,
                   confirmed |-> detail.confirmed, carried |-> detail.carried]
    BY <1>4, DetailTypes DEF TypeCaption
  <2>2. UNCHANGED <<view, selected, flights>> /\ selected # NoItem
    BY <1>4 DEF TypeCaption, Decidable
  <2>3. QED BY <1>0, <2>1, <2>2, EntersForTheDraft
<1>5. CASE cancelEdit
  <2>1. detail' = [text |-> NoText,
                   reason |-> detail.reason, unlocked |-> detail.unlocked,
                   confirmed |-> detail.confirmed, carried |-> detail.carried]
    BY <1>5, DetailTypes DEF cancelEdit
  <2>2. UNCHANGED <<view, selected, flights>>
    BY <1>5 DEF cancelEdit
  <2>3. QED BY <1>0, <2>1, <2>2, EntersForTheDraft
<1>6. ASSUME NEW kind \in {"rejected", "changes_requested"}, openReason(kind)
      PROVE  EnteredForTheDraft'
  <2>1. detail' = [text |-> detail.text, reason |-> kind, unlocked |-> detail.unlocked,
                   confirmed |-> detail.confirmed, carried |-> detail.carried]
    BY <1>6, DetailTypes DEF openReason
  <2>2. UNCHANGED <<view, selected, flights>>
        /\ (selected \in Sensitive => detail.unlocked)
    BY <1>6 DEF openReason, Locked
  <2>3. QED BY <1>0, <2>1, <2>2, EntersForTheDraft
<1>7. CASE closeReason
  <2>1. detail' = [text |-> detail.text, reason |-> "none", unlocked |-> detail.unlocked,
                   confirmed |-> detail.confirmed, carried |-> detail.carried]
    BY <1>7, DetailTypes DEF closeReason
  <2>2. UNCHANGED <<view, selected, flights>>
    BY <1>7 DEF closeReason
  <2>3. QED BY <1>0, <2>1, <2>2, EntersForTheDraft
<1>8. CASE actApprove
  <2>1. selected \in Sensitive => detail.unlocked
    BY <1>8 DEF actApprove, Locked
  <2>2. ~detail.carried /\ detail.text # NoText => detail.text.item = selected
    BY <1>0 DEF Typed, CaptionOf
  <2>3. ~detail.carried /\ selected \in Sensitive => detail.confirmed = selected
    BY <1>0, <2>1
  <2>4. Post(selected, "edited", detail.text) \/ Post(selected, "approved", NoText)
    BY <1>8 DEF actApprove
  <2>5. QED BY <2>2, <2>3, <2>4, PostKeepsDraft
<1>9. CASE submitReason
  <2>1. ~detail.carried /\ selected \in Sensitive => detail.confirmed = selected
    BY <1>0, <1>9 DEF submitReason
  <2>2. QED BY <1>9, <2>1, PostKeepsDraft DEF submitReason
<1>10. CASE askRefresh
  BY <1>10 DEF askRefresh, tab, EnteredForTheDraft, OnlyARefreshCarriesOver, posted
<1>11. QED BY <1>1, <1>2, <1>3, <1>4, <1>5, <1>6, <1>7, <1>8, <1>9, <1>10 DEF Owner

\* A flight goes on or ends, and the detail is as it was or fresh.
LEMMA FlightKeepsDraft ==
  ASSUME StationTypeOK, EnteredForTheDraft, NEW i \in Items, NEW f, f.phase # "post",
         flights' = [flights EXCEPT ![i] = f],
         detail' = FreshDetail \/ UNCHANGED <<view, selected, detail>>
  PROVE  EnteredForTheDraft'
<1>1. \A j \in posted' : j \in posted /\ flights'[j] = flights[j]
  BY DEF StationTypeOK, posted
<1>2. CASE detail' = FreshDetail
  BY <1>1, <1>2 DEF FreshDetail, EnteredForTheDraft, OnlyARefreshCarriesOver
<1>3. CASE UNCHANGED <<view, selected, detail>>
  BY <1>1, <1>3 DEF EnteredForTheDraft, OnlyARefreshCarriesOver
<1>4. QED BY <1>2, <1>3

\* A refresh leaves the detail with its draft, or with the mark of having moved.
LEMMA RefreshKeepsDraft ==
  ASSUME StationTypeOK, EnteredForTheDraft, RefreshLoaded PROVE EnteredForTheDraft'
<1> DEFINE snap  == refresh.snap
           moved == detail # FreshDetail /\ MovesOn(snap)
<1>1. detail' = [detail EXCEPT !.carried = (detail.carried \/ moved)]
      /\ view' = snap /\ selected' = IngestSelection(snap) /\ UNCHANGED flights
  BY DEF RefreshLoaded
<1>2. moved \in BOOLEAN /\ (detail.carried \/ moved) \in BOOLEAN
      /\ ((detail.carried \/ moved) = FALSE => ~detail.carried /\ ~moved)
  BY DEF StationTypeOK
<1>3. ~moved => detail = FreshDetail
                \/ /\ IngestSelection(snap) = selected
                   /\ selected # NoItem => snap[selected].attempt = view[selected].attempt
  BY Zenon DEF MovesOn
<1> HIDE DEF moved, snap
<1>4. PICK c \in BOOLEAN : /\ detail' = [detail EXCEPT !.carried = c]
                           /\ c = FALSE => ~detail.carried /\ ~moved
  BY <1>1, <1>2, Zenon
<1>5. /\ detail'.text = detail.text /\ detail'.reason = detail.reason
      /\ detail'.unlocked = detail.unlocked /\ detail'.confirmed = detail.confirmed
      /\ detail'.carried = c
  <2>1. detail' = [text |-> detail.text, reason |-> detail.reason,
                   unlocked |-> detail.unlocked, confirmed |-> detail.confirmed,
                   carried |-> c]
    BY <1>4, DetailTypes
  <2>2. QED BY <2>1
<1>6. posted' = posted
  BY <1>1 DEF posted
<1>7. CASE c = TRUE
  BY <1>1, <1>5, <1>6, <1>7 DEF EnteredForTheDraft, OnlyARefreshCarriesOver
<1>8. CASE c = FALSE /\ detail = FreshDetail
  <2>1. detail'.text = NoText /\ detail'.reason = "none" /\ detail'.unlocked = FALSE
    BY <1>5, <1>8 DEF FreshDetail
  <2>2. QED BY <1>1, <1>6, <2>1 DEF EnteredForTheDraft, OnlyARefreshCarriesOver
<1>9. CASE c = FALSE /\ detail # FreshDetail
  <2>1. /\ ~detail.carried /\ selected' = selected
        /\ selected # NoItem => view'[selected].attempt = view[selected].attempt
    <3>1. ~detail.carried /\ ~moved
      BY <1>4, <1>9, Zenon
    <3>2. /\ IngestSelection(snap) = selected
          /\ selected # NoItem => snap[selected].attempt = view[selected].attempt
      BY <1>3, <1>9, <3>1, Zenon
    <3>3. QED BY <1>1, <3>1, <3>2
  <2>2. selected # NoItem =>
          /\ Typed(selected, view[selected].attempt)' = Typed(selected, view[selected].attempt)
          /\ CaptionOf(selected, view[selected].attempt)'
               = CaptionOf(selected, view[selected].attempt)
    BY <2>1 DEF Typed, CaptionOf
  <2>3. QED BY <1>1, <1>5, <1>6, <2>1, <2>2 DEF EnteredForTheDraft, OnlyARefreshCarriesOver
<1>10. QED BY <1>7, <1>8, <1>9

\* Selecting, following a link, deciding, failing: none carries what was entered
\* over to another draft; a refresh alone does, and leaves a mark (resetDetail,
\* ingest and decide of app.js).
THEOREM EntriesStayPut == StationSpec => []OnlyARefreshCarriesOver
<1>1. StationInit => EnteredForTheDraft
  BY DEF StationInit, EnteredForTheDraft, OnlyARefreshCarriesOver, FreshDetail, posted, NoFlight
<1>2. StationTypeOK /\ EnteredForTheDraft /\ [StationNext]_stationVars => EnteredForTheDraft'
  <2> SUFFICES ASSUME StationTypeOK, EnteredForTheDraft, [StationNext]_stationVars
               PROVE  EnteredForTheDraft'
    OBVIOUS
  <2>0. ASSUME UNCHANGED <<view, selected, detail, flights>> PROVE EnteredForTheDraft'
    BY <2>0 DEF EnteredForTheDraft, OnlyARefreshCarriesOver, posted
  <2>1. CASE UNCHANGED stationVars
    BY <2>0, <2>1 DEF stationVars, tab
  <2>2. CASE Owner
    BY <2>2, OwnerKeepsDraft
  <2>3. CASE handleGetItems \/ RefreshFails
    BY <2>0, <2>3 DEF handleGetItems, RefreshFails, tab
  <2>4. CASE RefreshLoaded
    BY <2>4, RefreshKeepsDraft
  <2>5. ASSUME NEW i \in Items, DecideStep(i) \/ DecideFails(i) PROVE EnteredForTheDraft'
    <3>0. NoFlight.phase = "none"
      BY DEF NoFlight
    <3>1. CASE handlePostDecide(i)
      BY <3>0, <3>1, FlightKeepsDraft DEF handlePostDecide
    <3>2. CASE ReloadServed(i)
      BY <3>2, FlightKeepsDraft DEF ReloadServed, tab
    <3>3. CASE DecideLoaded(i)
      BY <3>0, <3>3, FlightKeepsDraft DEF DecideLoaded
    <3>4. CASE DecideFails(i)
      BY <3>0, <3>4, FlightKeepsDraft DEF DecideFails
    <3>5. QED BY <2>5, <3>1, <3>2, <3>3, <3>4 DEF DecideStep
  <2>6. ASSUME NEW i \in Items,
               \/ \E decision \in {"approved", "changes_requested"} : OtherDecides(i, decision)
               \/ Redraft(i)
        PROVE  EnteredForTheDraft'
    BY <2>0, <2>6 DEF OtherDecides, Redraft, tab
  <2>7. QED BY <2>1, <2>2, <2>3, <2>4, <2>5, <2>6 DEF StationNext, Answers
<1>3. EnteredForTheDraft => OnlyARefreshCarriesOver
  BY DEF EnteredForTheDraft
<1>4. QED BY <1>1, <1>2, <1>3, StationTyped, PTL DEF StationSpec

-----------------------------------------------------------------------------
(* What is shown is what is stored *)

Undisturbed == used.others = 0 /\ used.faults = 0

NoNewer(snap) == \A j \in Items : snap[j].attempt <= store[j].attempt

Loaded == refresh.phase = "loaded" => NoNewer(refresh.snap)

\* A snapshot is never ahead of the store, and that of a finished decision has
\* the redraft it asked for.
FlightLoaded(i) ==
  flights[i].phase = "loaded" => /\ NoNewer(flights[i].snap)
                                 /\ flights[i].snap[i].attempt = store[i].attempt

\* The tab shows the stored attempt of an item that it has not decided, and
\* what it is deciding is that attempt.
Current(i) ==
  /\ flights[i].phase \in {"none", "post"} => view[i].attempt = store[i].attempt
  /\ flights[i].phase = "post" => flights[i].attempt = store[i].attempt

\* So it is while nobody else decides and no answer is lost; what is shown may
\* still be old when an older answer has come last.
ShownIsStored ==
  Undisturbed => /\ Loaded
                 /\ \A i \in Items : FlightLoaded(i)
                 /\ ~overtaken => \A i \in Items : Current(i)

\* Nothing of it is about the detail or the selection.
LEMMA NothingShown ==
  ASSUME ShownIsStored, UNCHANGED <<store, view, overtaken, flights, refresh, used>>
  PROVE  ShownIsStored'
BY DEF ShownIsStored, Undisturbed, Loaded, NoNewer, FlightLoaded, Current

LEMMA PostShown ==
  ASSUME StationTypeOK, ShownIsStored, NEW i, NEW decision, NEW text,
         Post(i, decision, text)
  PROVE  ShownIsStored'
<1> DEFINE f == [phase |-> "post", decision |-> decision, text |-> text,
                 attempt |-> view[i].attempt,
                 prev |-> IndexIn(pendingOrder(view), i),
                 confirmed |-> detail.confirmed = i, carried |-> detail.carried]
<1>1. flights' = [flights EXCEPT ![i] = f] /\ UNCHANGED <<store, view, overtaken, refresh>>
  BY DEF Post
<1>2. f.phase = "post" /\ f.attempt = view[i].attempt
  OBVIOUS
<1>3. used'.others = used.others /\ used'.faults = used.faults
  BY SpendTypes DEF Post, StationTypeOK
<1> HIDE DEF f
<1>4. \A j \in Items : flights'[j] = IF j = i THEN f ELSE flights[j]
  BY <1>1 DEF StationTypeOK
<1>5. i \in Items => flights[i].phase = "none"
  BY DEF Post, busy, NoFlight
<1>6. SUFFICES ASSUME Undisturbed'
               PROVE  /\ Loaded'
                      /\ \A j \in Items : FlightLoaded(j)'
                      /\ ~overtaken' => \A j \in Items : Current(j)'
  BY DEF ShownIsStored
<1>7. Undisturbed
  BY <1>3, <1>6 DEF Undisturbed
<1>8. Loaded'
  BY <1>1, <1>7 DEF ShownIsStored, Loaded, NoNewer
<1>9. ASSUME NEW j \in Items PROVE FlightLoaded(j)'
  BY <1>1, <1>2, <1>4, <1>7 DEF ShownIsStored, FlightLoaded, NoNewer
<1>10. ASSUME NEW j \in Items, ~overtaken' PROVE Current(j)'
  BY <1>1, <1>2, <1>4, <1>5, <1>7, <1>10 DEF ShownIsStored, Current
<1>11. QED BY <1>8, <1>9, <1>10

LEMMA OwnerShown == ASSUME StationTypeOK, ShownIsStored, Owner PROVE ShownIsStored'
<1>1. CASE actApprove
  BY <1>1, PostShown DEF actApprove
<1>2. CASE submitReason
  BY <1>2, PostShown DEF submitReason
<1>3. CASE askRefresh
  <2>1. used'.others = used.others /\ used'.faults = used.faults
    BY <1>3, SpendTypes DEF askRefresh, StationTypeOK
  <2>2. refresh'.phase = "asked"
    BY <1>3 DEF askRefresh, NoRefresh
  <2>3. QED BY <1>3, <2>1, <2>2 DEF askRefresh, tab, ShownIsStored, Undisturbed, Loaded,
                                    NoNewer, FlightLoaded, Current
<1>4. ASSUME NEW i \in Items, selectItem(i) \/ applyHash(i) PROVE ShownIsStored'
  BY <1>4, NothingShown DEF selectItem, applyHash
<1>5. CASE TypeConfirm \/ startEdit \/ TypeCaption \/ cancelEdit \/ closeReason
  BY <1>5, NothingShown DEF TypeConfirm, startEdit, TypeCaption, cancelEdit, closeReason
<1>6. ASSUME NEW kind, openReason(kind) PROVE ShownIsStored'
  BY <1>6, NothingShown DEF openReason
<1>7. QED BY <1>1, <1>2, <1>3, <1>4, <1>5, <1>6 DEF Owner

\* A snapshot that is no newer than the store and no older than the view has
\* the stored attempt of every item the view had it of.
LEMMA Squeezed ==
  ASSUME StationTypeOK, NEW snap \in Snap, NoNewer(snap), ~Older(snap), NEW i \in Items,
         view[i].attempt = store[i].attempt
  PROVE  snap[i].attempt = store[i].attempt
BY DEF StationTypeOK, Snap, Stored, NoNewer, Older

LEMMA AnswersShown == ASSUME StationTypeOK, ShownIsStored, Answers PROVE ShownIsStored'
<1>1. CASE handleGetItems
  <2>1. refresh'.snap = store /\ UNCHANGED <<store, view, overtaken, flights, used>>
    BY <1>1 DEF handleGetItems, tab
  <2>2. NoNewer(refresh.snap)'
    BY <2>1 DEF NoNewer, StationTypeOK, Snap, Stored
  <2>3. Loaded'
    BY <2>2 DEF Loaded
  <2>4. QED BY <2>1, <2>3 DEF ShownIsStored, Undisturbed, NoNewer, FlightLoaded, Current
<1>2. CASE RefreshLoaded
  <2> DEFINE snap == refresh.snap
  <2>1. /\ view' = snap /\ refresh.phase = "loaded" /\ refresh'.phase = "none"
        /\ UNCHANGED <<store, flights, used>>
        /\ ~overtaken' => ~overtaken /\ ~Older(snap)
    BY <1>2 DEF RefreshLoaded, NoRefresh
  <2>2. snap \in Snap
    BY <2>1 DEF StationTypeOK
  <2> HIDE DEF snap
  <2>3. ASSUME Undisturbed, ~overtaken', NEW i \in Items PROVE Current(i)'
    <3>1. NoNewer(snap) /\ Current(i)
      BY <2>1, <2>3 DEF ShownIsStored, Loaded, snap
    <3>2. view[i].attempt = store[i].attempt => snap[i].attempt = store[i].attempt
      BY <2>1, <2>2, <2>3, <3>1, Squeezed
    <3>3. QED BY <2>1, <3>1, <3>2 DEF Current
  <2>4. QED BY <2>1, <2>3 DEF ShownIsStored, Undisturbed, Loaded, NoNewer, FlightLoaded
<1>3. CASE RefreshFails
  <2>1. used'.faults # 0
    BY <1>3, SpendTypes DEF RefreshFails, StationTypeOK
  <2>2. QED BY <2>1 DEF ShownIsStored, Undisturbed
<1>4. QED BY <1>1, <1>2, <1>3 DEF Answers

LEMMA DecisionShown ==
  ASSUME StationTypeOK, ShownIsStored, NEW i \in Items, DecideStep(i) \/ DecideFails(i)
  PROVE  ShownIsStored'
<1>1. CASE handlePostDecide(i)
  <2>1. UNCHANGED <<view, overtaken, refresh, used>> /\ flights[i].phase = "post"
    BY <1>1 DEF handlePostDecide
  <2>2. /\ \A j \in Items : store'[j].attempt >= store[j].attempt
        /\ \A j \in Items \ {i} : store'[j].attempt = store[j].attempt
        /\ \A j \in Items : store[j].attempt \in Nat /\ store'[j].attempt \in Nat
        /\ flights'[i].phase = "none" => store' = store
        /\ flights'[i].phase \in {"none", "reload"}
        /\ \A j \in Items \ {i} : flights'[j] = flights[j]
    <3>1. CASE store[i].status = "pending_review"
      <4>1. store' = Decided(i, flights[i].decision) /\ flights[i].decision \in Decisions
        BY <1>1, <3>1 DEF handlePostDecide, StationTypeOK, Flown
      <4>2. flights' = [flights EXCEPT ![i] = [phase |-> "reload", prev |-> flights[i].prev]]
        BY <1>1, <3>1 DEF handlePostDecide
      <4>3. /\ flights'[i].phase = "reload"
            /\ \A j \in Items \ {i} : flights'[j] = flights[j]
        BY <4>2 DEF StationTypeOK
      <4>4. store' \in Snap /\ store \in Snap
        BY <4>1, DecidedTypes DEF StationTypeOK
      <4>5. /\ \A j \in Items \ {i} : store'[j].attempt = store[j].attempt
            /\ store'[i].attempt >= store[i].attempt
        BY <4>1, DecidedTypes
      <4>6. \A j \in Items : store[j].attempt \in Nat /\ store'[j].attempt \in Nat
        BY <4>4 DEF Snap, Stored
      <4>7. QED BY <4>3, <4>5, <4>6
    <3>2. CASE store[i].status # "pending_review"
      <4>1. flights' = [flights EXCEPT ![i] = NoFlight] /\ store' = store
        BY <1>1, <3>2 DEF handlePostDecide
      <4>2. /\ flights'[i].phase = "none"
            /\ \A j \in Items \ {i} : flights'[j] = flights[j]
        BY <4>1 DEF StationTypeOK, NoFlight
      <4>3. QED BY <4>1, <4>2 DEF StationTypeOK, Snap, Stored
    <3>3. QED BY <3>1, <3>2
  <2>3. ASSUME NEW snap \in Snap, NoNewer(snap) PROVE \A j \in Items : snap[j].attempt <= store'[j].attempt
    BY <2>2, <2>3 DEF NoNewer, Snap, Stored
  <2>4. SUFFICES ASSUME Undisturbed'
                 PROVE  /\ Loaded'
                        /\ \A j \in Items : FlightLoaded(j)'
                        /\ ~overtaken' => \A j \in Items : Current(j)'
    BY DEF ShownIsStored
  <2>5. Undisturbed
    BY <2>1, <2>4 DEF Undisturbed
  <2>6. Loaded'
    BY <2>1, <2>3, <2>5 DEF ShownIsStored, Loaded, NoNewer, StationTypeOK
  <2>7. ASSUME NEW j \in Items PROVE FlightLoaded(j)'
    <3>1. CASE j = i
      BY <2>2, <3>1 DEF FlightLoaded
    <3>2. CASE j # i
      BY <2>2, <2>3, <2>5, <3>2 DEF ShownIsStored, FlightLoaded, NoNewer, StationTypeOK, Flown
    <3>3. QED BY <3>1, <3>2
  <2>8. ASSUME NEW j \in Items, ~overtaken' PROVE Current(j)'
    <3>1. Current(j)
      BY <2>1, <2>5, <2>8 DEF ShownIsStored
    <3>2. QED BY <2>1, <2>2, <3>1 DEF Current
  <2>9. QED BY <2>6, <2>7, <2>8
<1>2. CASE ReloadServed(i)
  <2> DEFINE f == [phase |-> "loaded", prev |-> flights[i].prev, snap |-> store]
  <2>1. flights' = [flights EXCEPT ![i] = f] /\ f.phase = "loaded" /\ f.snap = store
        /\ UNCHANGED <<store, view, overtaken, refresh, used>>
    BY <1>2 DEF ReloadServed, tab
  <2> HIDE DEF f
  <2>2. flights'[i] = f /\ \A j \in Items \ {i} : flights'[j] = flights[j]
    BY <2>1 DEF StationTypeOK
  <2>3. \A j \in Items : store[j].attempt <= store'[j].attempt
    BY <2>1 DEF StationTypeOK, Snap, Stored
  <2>4. FlightLoaded(i)' /\ Current(i)'
    BY <2>1, <2>2, <2>3 DEF FlightLoaded, NoNewer, Current
  <2>5. ASSUME NEW j \in Items \ {i}
        PROVE  (FlightLoaded(j) => FlightLoaded(j)') /\ (Current(j) => Current(j)')
    BY <2>1, <2>2 DEF FlightLoaded, NoNewer, Current
  <2>6. QED BY <2>1, <2>4, <2>5 DEF ShownIsStored, Undisturbed, Loaded, NoNewer
<1>3. CASE DecideLoaded(i)
  <2> DEFINE snap == flights[i].snap
  <2>1. /\ flights' = [flights EXCEPT ![i] = NoFlight] /\ NoFlight.phase = "none"
        /\ view' = snap /\ flights[i].phase = "loaded"
        /\ UNCHANGED <<store, refresh, used>>
        /\ ~overtaken' => ~overtaken /\ ~Older(snap)
    BY <1>3 DEF DecideLoaded, NoFlight
  <2>2. snap \in Snap
    BY <2>1 DEF StationTypeOK, Flown
  <2>3. flights'[i].phase = "none" /\ \A j \in Items \ {i} : flights'[j] = flights[j]
    BY <2>1 DEF StationTypeOK
  <2>4. ASSUME Undisturbed, ~overtaken', NEW j \in Items PROVE Current(j)'
    <3>1. NoNewer(snap) /\ snap[i].attempt = store[i].attempt
      BY <2>1, <2>4 DEF ShownIsStored, FlightLoaded
    <3>2. Current(j)
      BY <2>1, <2>4 DEF ShownIsStored
    <3> HIDE DEF snap
    <3>3. view[j].attempt = store[j].attempt => snap[j].attempt = store[j].attempt
      BY <2>1, <2>2, <2>4, <3>1, Squeezed
    <3>4. CASE j = i
      BY <2>1, <2>3, <3>1, <3>4 DEF Current
    <3>5. CASE j # i
      BY <2>1, <2>3, <3>2, <3>3, <3>5 DEF Current
    <3>6. QED BY <3>4, <3>5
  <2>5. ASSUME NEW j \in Items, FlightLoaded(j) PROVE FlightLoaded(j)'
    <3>1. CASE j = i
      BY <2>3, <3>1 DEF FlightLoaded
    <3>2. CASE j # i
      BY <2>1, <2>3, <2>5, <3>2 DEF FlightLoaded, NoNewer
    <3>3. QED BY <3>1, <3>2
  <2>6. QED BY <2>1, <2>4, <2>5 DEF ShownIsStored, Undisturbed, Loaded, NoNewer
<1>4. CASE DecideFails(i)
  <2>1. used'.faults # 0
    BY <1>4, SpendTypes DEF DecideFails, StationTypeOK
  <2>2. QED BY <2>1 DEF ShownIsStored, Undisturbed
<1>5. QED BY <1>1, <1>2, <1>3, <1>4 DEF DecideStep

LEMMA OthersShown ==
  ASSUME StationTypeOK, ShownIsStored, NEW i \in Items,
         \/ \E decision \in {"approved", "changes_requested"} : OtherDecides(i, decision)
         \/ Redraft(i)
  PROVE  ShownIsStored'
<1>1. ASSUME NEW decision, OtherDecides(i, decision) PROVE ShownIsStored'
  <2>1. used'.others # 0
    BY <1>1, SpendTypes DEF OtherDecides, StationTypeOK
  <2>2. QED BY <2>1 DEF ShownIsStored, Undisturbed
<1>2. CASE Redraft(i)
  <2>1. \A j \in Items : store'[j].attempt = store[j].attempt
    BY <1>2 DEF Redraft, StationTypeOK, Snap, Stored
  <2>2. UNCHANGED <<view, overtaken, flights, refresh, used>>
    BY <1>2 DEF Redraft, tab
  <2>3. QED BY <2>1, <2>2 DEF ShownIsStored, Undisturbed, Loaded, NoNewer, FlightLoaded, Current
<1>3. QED BY <1>1, <1>2

\* The server decides the draft the tab showed, although a decision names none:
\* while only this tab decides and every answer comes, in any order but an older
\* after a newer, no redraft slips in between the tap and the decision (decide,
\* busy and reload of app.js; handlePostDecide).
THEOREM DecisionsMeetTheirDraft == StationSpec => DecidesTheDraftShown
<1>1. StationInit => ShownIsStored
  BY DEF StationInit, ShownIsStored, Loaded, FlightLoaded, Current, NoFlight, NoRefresh
<1>2. StationTypeOK /\ ShownIsStored /\ [StationNext]_stationVars => ShownIsStored'
  <2> SUFFICES ASSUME StationTypeOK, ShownIsStored, [StationNext]_stationVars PROVE ShownIsStored'
    OBVIOUS
  <2>1. CASE UNCHANGED stationVars
    BY <2>1, NothingShown DEF stationVars, tab
  <2>2. CASE Owner
    BY <2>2, OwnerShown
  <2>3. CASE Answers
    BY <2>3, AnswersShown
  <2>4. ASSUME NEW i \in Items, DecideStep(i) \/ DecideFails(i) PROVE ShownIsStored'
    BY <2>4, DecisionShown
  <2>5. ASSUME NEW i \in Items,
               \/ \E decision \in {"approved", "changes_requested"} : OtherDecides(i, decision)
               \/ Redraft(i)
        PROVE  ShownIsStored'
    BY <2>5, OthersShown
  <2>6. QED BY <2>1, <2>2, <2>3, <2>4, <2>5 DEF StationNext
<1>3. ShownIsStored => \A i \in posted : used.others = 0 /\ used.faults = 0 /\ ~overtaken
                                           => store[i].attempt = flights[i].attempt
  BY DEF ShownIsStored, Undisturbed, Current, posted
<1>4. ShownIsStored /\ [StationNext]_stationVars =>
        [\A i \in posted :
           /\ used.others = 0 /\ used.faults = 0 /\ ~overtaken
           /\ store'[i] # store[i] /\ flights'[i].phase = "reload"
           => store[i].attempt = flights[i].attempt]_stationVars
  BY <1>3
<1>5. QED BY <1>1, <1>2, <1>4, StationTyped, PTL DEF StationSpec, DecidesTheDraftShown
==============================================================================
