------------------------------- MODULE Parity -------------------------------
(***************************************************************************)
(* The program run against both of its stores, call by call: item.json and *)
(* the run files of FileStore beside the content_items and runs rows of    *)
(* PostgresStore, with the one-off migration from the first to the second. *)
(* postgres-store.mjs says it is behaviourally identical to FileStore; the *)
(* schema has no column for some of what the program writes, keeps uuids   *)
(* where file mode keeps slugs, and bends run stages to a fixed list.      *)
(*                                                                         *)
(* The program writes one of them: item.json until the migration, the row  *)
(* after it.  So oldItem is the item.json it left behind, and item what it *)
(* would hold had the program kept to files since the last import.         *)
(*                                                                         *)
(* One item; captions and overlays are named by the attempt that wrote     *)
(* them, and calls do not overlap: FileStore and Pipeline are about that.  *)
(***************************************************************************)
EXTENDS Integers, Sequences, SequencesExt

CONSTANTS Absent,       \* no item
          Null,         \* JSON null, SQL null
          MaxAttempts,  \* drafts before QA gives up
          MaxRegens,    \* redrafts the owner may ask for
          MaxRuns,      \* bound on stage runs
          MaxDecisions, \* bound on decisions
          MaxImports    \* bound on runs of import-outbox

VARIABLES database,  \* the program runs on Postgres
          item,      \* outbox/<id>/item.json, had the program kept to files
          oldItem,   \* outbox/<id>/item.json, as the program left it there
          row,       \* its content_items row
          fileRuns,  \* runs/*.json: stage and status
          runRows,   \* the runs table
          decisions, \* decisions/*.json, in the order of decided_at
          approvals, \* approvals[t]: rows with the t-th decided_at
          runNo,     \* the number of the running stage's run
          imports,   \* runs of import-outbox so far
          asked,     \* history: what the owner asked of the next draft
          rewound    \* history: since he did, an import took the row back

\* What a call on an item leaves alone.
moved == <<database, oldItem, imports>>

parityVars ==
  <<moved, item, row, fileRuns, runRows, decisions, approvals, runNo, asked, rewound>>

-----------------------------------------------------------------------------
(* Ids: slugs, and uuids derived from them or minted by the database *)

Slug(name)   == [kind |-> "slug", name |-> name]
Uuid5(id)    == [kind |-> "uuid5", name |-> id.name]
isUuid(id)   == id # Null /\ id.kind # "slug"
toPk(id)     == IF id = Null \/ isUuid(id) THEN id ELSE Uuid5(id)

\* What an id is told apart by.
Ids == [kind : {"slug", "uuid", "uuid5"},
        name : {"ci", "cg", "run", "telegram:/new"} \X Nat]

FileRun(n)   == Slug(<<"run", n>>)
DbRun(n)     == [kind |-> "uuid", name |-> <<"run", n>>]
Commissioned == Slug(<<"telegram:/new", 0>>)

-----------------------------------------------------------------------------
(* Items: functions from keys to values *)

ItemKeys == {"id", "candidate_group", "status", "attempt", "regen_count", "chosen",
             "caption", "overlays", "feedback", "regen_note", "skip_reason", "produced_by"}

ItemValues ==
  Ids \cup {"planned", "drafting", "drafted", "rendering", "rendered", "qa_failed",
            "pending_review", "changes_requested", "approved", "skipped",
            "qa_attempts_exhausted", "regen_exhausted"}
      \cup Int \cup BOOLEAN \cup ({"brief", "note", "regen_note"} \X Nat) \cup {Null}

\* No item is none, no id is null, and a bound is a number.
ASSUME ParityAssumption ==
  /\ Absent \notin [ItemKeys -> ItemValues]
  /\ Null \notin Ids
  /\ MaxDecisions \in Nat

-----------------------------------------------------------------------------
(* Patches: functions from some of an item's keys to their new values *)

Patched(rec, patch) ==
  [k \in DOMAIN rec |-> IF k \in DOMAIN patch THEN patch[k] ELSE rec[k]]

\* The keys a patch may set in Postgres; feedback and overlays go their own way.
UPDATABLE == {"status", "attempt", "regen_count", "chosen", "caption", "produced_by"}
UUID_COLS == {"produced_by"}

Column(k, v) == IF k \in UUID_COLS THEN toPk(v) ELSE v

\* Seeded fault: new overlays replace the envelope of the ids as well.
Overlays_LosesIds(old, patch) ==
  IF "feedback" \in DOMAIN patch THEN [old EXCEPT !.feedback = patch.feedback]
  ELSE IF "overlays" \in DOMAIN patch
    THEN [text |-> patch.overlays, ids |-> [k \in DOMAIN old.ids |-> Null],
          feedback |-> Null]
  ELSE old

\* Seeded fault: only the columns are patched, feedback has none.
Overlays_NoFeedback(old, patch) ==
  IF "overlays" \in DOMAIN patch
    THEN [text |-> patch.overlays, ids |-> old.ids, feedback |-> Null]
    ELSE old

\* Feedback rides in the overlays; new overlays keep the ids and drop it.
Overlays(old, patch) ==
  IF "feedback" \in DOMAIN patch THEN [old EXCEPT !.feedback = patch.feedback]
  ELSE IF "overlays" \in DOMAIN patch
    THEN [text |-> patch.overlays, ids |-> old.ids, feedback |-> Null]
  ELSE old

Updated(r, patch) ==
  [k \in DOMAIN r |->
     IF k = "overlays" THEN Overlays(r.overlays, patch)
     ELSE IF k \in DOMAIN patch \cap UPDATABLE THEN Column(k, patch[k])
     ELSE r[k]]

\* putItem of an item.json or a shell.
RowOf(i) ==
  [status |-> i.status, attempt |-> i.attempt, regen_count |-> i.regen_count,
   chosen |-> i.chosen, caption |-> i.caption,
   candidate_group |-> toPk(i.candidate_group),
   produced_by |-> IF isUuid(i.produced_by) THEN i.produced_by ELSE Null,
   overlays |-> [text |-> i.overlays, feedback |-> i.feedback,
                 ids |-> [id |-> i.id, candidate_group |-> i.candidate_group,
                          produced_by |-> IF isUuid(i.produced_by)
                                            THEN Null ELSE i.produced_by]]]

Coalesce(a, b) == IF a # Null THEN a ELSE b

\* #rowToItem, listed rather than asked for by its id.
rowToItem(r) ==
  LET ids == r.overlays.ids
  IN  [id |-> Coalesce(ids.id, Uuid5(item.id)),
       candidate_group |-> Coalesce(ids.candidate_group, r.candidate_group),
       produced_by |-> Coalesce(ids.produced_by, r.produced_by),
       status |-> r.status, attempt |-> r.attempt, regen_count |-> r.regen_count,
       chosen |-> r.chosen, caption |-> r.caption,
       overlays |-> r.overlays.text, feedback |-> r.overlays.feedback,
       regen_note |-> Null, skip_reason |-> Null]

-----------------------------------------------------------------------------
(* Calls on both stores *)

\* transition(): a compare-and-swap in each.
Transition(from, filePatch, dbPatch) ==
  /\ item # Absent /\ item.status = from
  /\ item' = Patched(item, filePatch)
  /\ row' = IF row # Absent /\ row.status = from THEN Updated(row, dbPatch) ELSE row

\* A label "qa:transition" is <<"qa", "transition">>.
RUN_STAGES == {"plan", "generate", "render", "qa", "digest", "publish",
               "metrics", "reflect", "report", "transition"}

\* Seeded fault: a compound label stands for its stage.
normalizeStage_Base(label) ==
  IF label[1] \in RUN_STAGES THEN <<label[1]>> ELSE <<"transition">>

normalizeStage(label) ==
  IF Len(label) = 1 /\ label[1] \in RUN_STAGES THEN label ELSE <<"transition">>

AppendRun(label, status) ==
  /\ fileRuns' = fileRuns \cup {[stage |-> label, status |-> status]}
  /\ runRows' = IF ~database THEN runRows
                ELSE runRows \cup {[stage |-> normalizeStage(label), status |-> status]}

\* transitionItem leaves an audit row.
Audited(stage) == AppendRun(<<stage, "transition">>, "ok")

AppendApproval ==
  /\ decisions < MaxDecisions
  /\ decisions' = decisions + 1
  /\ approvals' = IF row = Absent THEN approvals
                  ELSE [approvals EXCEPT ![decisions + 1] = @ + 1]

-----------------------------------------------------------------------------
(* Births *)

Shell(producedBy) ==
  [id |-> Slug(<<"ci", 0>>), candidate_group |-> Slug(<<"cg", 0>>), status |-> "planned",
   attempt |-> 1, regen_count |-> 0, chosen |-> FALSE, caption |-> Null,
   overlays |-> Null, feedback |-> Null, regen_note |-> Null,
   skip_reason |-> Null, produced_by |-> producedBy]

\* plan writes a shell; a database has the idea put in first.
planStage ==
  /\ item = Absent
  /\ item' = Shell(FileRun(runNo))
  /\ row' = IF database THEN RowOf(Shell(DbRun(runNo))) ELSE Absent
  /\ UNCHANGED <<moved, fileRuns, runRows, decisions, approvals, runNo, asked, rewound>>

\* /new writes a shell and moves it on with the brief as its feedback.
commissionItem ==
  LET shell == Shell(Commissioned)
      patch == [status |-> "drafting", feedback |-> <<"brief", 1>>]
  IN  /\ item = Absent
      /\ item' = Patched(shell, patch)
      /\ row' = IF database THEN Updated(RowOf(shell), patch) ELSE Absent
      /\ asked' = patch.feedback
      /\ UNCHANGED <<moved, fileRuns, runRows, decisions, approvals, runNo, rewound>>

-----------------------------------------------------------------------------
(* The stages *)

\* runStage: a stage opens a run row, and closes the one of its last run.
BeginRun(stage, status) ==
  /\ runNo < MaxRuns
  /\ runNo' = runNo + 1
  /\ AppendRun(<<stage>>, status)
  /\ UNCHANGED <<moved, item, row, decisions, approvals, asked, rewound>>

\* The patch of a stage names its run as the producer, but for QA's.
Signed(stage, patch, run) ==
  IF stage = "qa" THEN patch
  ELSE [k \in DOMAIN patch \cup {"produced_by"} |->
          IF k = "produced_by" THEN run ELSE patch[k]]

\* A stage moves items in a run of its own; run 0 is the plan's.
StageMove(stage, from, patch) ==
  /\ runNo > 0
  /\ Transition(from, Signed(stage, patch, FileRun(runNo)), Signed(stage, patch, DbRun(runNo)))
  /\ Audited(stage)
  /\ UNCHANGED <<moved, decisions, approvals, runNo, rewound>>

Claim ==
  /\ StageMove("generate", "planned", [status |-> "drafting"])
  /\ UNCHANGED asked

Draft ==
  /\ StageMove("generate", "drafting",
       [status |-> "drafted", caption |-> item.attempt, overlays |-> item.attempt])
  /\ asked' = Null

Render ==
  /\ \/ StageMove("render", "drafted", [status |-> "rendering"])
     \/ StageMove("render", "rendering", [status |-> "rendered"])
  /\ UNCHANGED asked

\* QA passes a render or fails it and bounces the item, or ends it.
Qa ==
  LET again == item.attempt < MaxAttempts
      next  == IF again
                 THEN [status |-> "drafting", attempt |-> item.attempt + 1]
                 ELSE [status |-> "skipped", skip_reason |-> "qa_attempts_exhausted"]
  IN  /\ \/ StageMove("qa", "rendered", [status |-> "pending_review"])
         \/ StageMove("qa", "rendered", [status |-> "qa_failed"])
         \/ StageMove("qa", "qa_failed", next)
      /\ UNCHANGED asked

-----------------------------------------------------------------------------
(* Decisions *)

\* regenNext.
Bounce ==
  LET patch == IF item.regen_count < MaxRegens
                 THEN [status |-> "drafting", regen_count |-> item.regen_count + 1,
                       attempt |-> item.attempt + 1]
                 ELSE [status |-> "skipped", skip_reason |-> "regen_exhausted"]
  IN  Transition("changes_requested", patch, patch)

\* decide(), on either surface.
Decide ==
  LET note == <<"note", item.attempt>>
  IN  /\ \E patch \in {[status |-> "approved", chosen |-> TRUE],
                       [status |-> "approved", chosen |-> TRUE, caption |-> -1],
                       [status |-> "skipped"],
                       [status |-> "changes_requested", feedback |-> note]} :
           /\ Transition("pending_review", patch, patch)
           /\ asked' = IF patch.status = "changes_requested" THEN note ELSE asked
           /\ rewound' = (rewound /\ patch.status # "changes_requested")
      /\ AppendApproval
      /\ UNCHANGED <<moved, fileRuns, runRows, runNo>>

\* autopilot regen --note, whose note is a key of its own.
cmdRegen ==
  LET note  == <<"regen_note", item.attempt>>
      patch == [status |-> "changes_requested", regen_note |-> note]
  IN  /\ Transition("pending_review", patch, patch)
      /\ Audited("regen")
      /\ AppendApproval
      /\ asked' = note /\ rewound' = FALSE
      /\ UNCHANGED <<moved, runNo>>

BounceAfter ==
  /\ Bounce
  /\ UNCHANGED <<moved, fileRuns, runRows, decisions, approvals, runNo, asked, rewound>>

-----------------------------------------------------------------------------
(* Everything else that leaves run rows, and the migration *)

\* The contract gate of a tick reports a drift as a failed run.
ContractDrift ==
  /\ AppendRun(<<"doctor", "contract">>, "failed")
  /\ UNCHANGED <<moved, item, row, decisions, approvals, runNo, asked, rewound>>

\* import-outbox puts every item.json over its row, if it is the first time or
\* not: what the program did to the row since it left the files is undone.  Then
\* the decision files are replayed, one after another, passing over those whose
\* decided_at is there.
ImportItems ==
  LET left == IF database THEN oldItem ELSE item
  IN  /\ imports < MaxImports
      /\ imports' = imports + 1
      /\ database' = TRUE
      /\ oldItem' = left
      /\ IF left = Absent
           THEN UNCHANGED <<item, row, rewound>>
           ELSE /\ item' = left
                /\ row' = RowOf(left)
                /\ rewound' = (rewound \/ left # item)
      /\ UNCHANGED <<fileRuns, runRows, decisions, approvals, runNo, asked>>

ReplayDecision(t) ==
  /\ imports > 0 /\ row # Absent
  /\ t \in 1..decisions /\ approvals[t] = 0
  /\ approvals' = [approvals EXCEPT ![t] = @ + 1]
  /\ UNCHANGED <<moved, item, row, fileRuns, runRows, decisions, runNo, asked, rewound>>

-----------------------------------------------------------------------------

ParityInit ==
  /\ database \in BOOLEAN
  /\ item = Absent /\ oldItem = Absent /\ row = Absent
  /\ fileRuns = {} /\ runRows = {}
  /\ decisions = 0
  /\ approvals = [t \in 1..MaxDecisions |-> 0]
  /\ runNo = 0 /\ imports = 0
  /\ asked = Null /\ rewound = FALSE

ParityNext ==
  \/ planStage \/ commissionItem
  \/ item # Absent /\ (Claim \/ Draft \/ Render \/ Qa)
  \/ item # Absent /\ (Decide \/ cmdRegen \/ BounceAfter)
  \/ \E stage \in {"generate", "render", "qa"}, status \in {"ok", "failed"} :
       BeginRun(stage, status)
  \/ ContractDrift
  \/ ImportItems
  \/ \E t \in 1..MaxDecisions : ReplayDecision(t)

ParitySpec == ParityInit /\ [][ParityNext]_parityVars

-----------------------------------------------------------------------------
(* What the program reads back *)

\* copywriterRequest: item.feedback and item.regen_note.
Feedback(i) == {i.feedback, i.regen_note} \ {Null}

\* provenanceFor: getRun finds file runs by slug, rows by uuid.
Provenance(i, runs) == IF i.produced_by \in runs THEN i.produced_by.name ELSE Null

InFiles == {FileRun(n) : n \in 0..runNo}
InRows  == {DbRun(n) : n \in 0..runNo}

\* listRuns without the transitions, as the scanner and the station read it.
FileFeed == {r \in fileRuns : "transition" \notin ToSet(r.stage)}
DbFeed   == {r \in runRows : r.stage # <<"transition">>}

Both == item # Absent /\ row # Absent

\* Whatever is patched, an item reads from Postgres what the same calls would
\* have left in item.json since the program or the last import put it there, in all
\* that steers it - the slug that names its directory, its group, status and
\* budgets, its text.  It names no run but the one that produced it, and has each
\* decision once (transition and putItem of postgres-store.mjs, importOutbox).
StoresAgree ==
  Both =>
    LET read == rowToItem(row)
    IN  /\ \A k \in {"id", "candidate_group", "status", "attempt", "regen_count",
                     "chosen", "caption", "overlays"} : read[k] = item[k]
        /\ Provenance(read, InRows) \in {Provenance(item, InFiles), Null}
        /\ \A t \in 1..MaxDecisions : approvals[t] <= 1

\* What the owner asks of the next draft in a decision or a brief is in the
\* request that drafts it, in either store: the patches between do not lose it
\* (AP-815 in transition and in copywriterRequest), unless an import has since
\* taken the item back to what it was when the program left the files.
OwnerIsHeard ==
  item # Absent /\ item.status = "drafting" /\ asked # Null /\ asked[1] \in {"note", "brief"}
    => \/ rewound
       \/ /\ asked \in Feedback(item)
          /\ row # Absent => asked \in Feedback(rowToItem(row))

\* Nothing is listed in Postgres that file mode does not list: the audit rows
\* of single items never pass for runs of a stage (normalizeStage, AP-836).
FeedIsOfStages == DbFeed \subseteq FileFeed
=============================================================================
