------------------------------- MODULE Media -------------------------------
(***************************************************************************)
(* The render stage and its adapters, file by file: what a worker writes   *)
(* into an item's assets directory (which a redraft does not empty), what  *)
(* the item then lists, and the one directory of stills all video renders  *)
(* of the box share.  A worker renders from the item as it read it; the    *)
(* status it leaves is checked by the compare-and-set of transitionItem.   *)
(***************************************************************************)
EXTENDS Integers, FiniteSets, Sequences

CONSTANTS Pieces,        \* items being rendered
          Shape,         \* piece -> "carousel", "image", "reel" or "capture"
          World,         \* piece -> its world, as the catalog resolves it
          NoWorld,       \* the idea names no active world
          Filmed,        \* worlds with footage and a staged thumbnail
          Posters,       \* thumbnails staged in the studio
          MIN_SHELF, IG_MAX_SLIDES,
          NoPiece,       \* what an idle worker renders
          BeatCounts,    \* how many beats a draft may have
          MaxDrafts,     \* bound on the drafts of a piece
          Renderers      \* processes that run the render stage

ASSUME MediaAssumption == /\ NoPiece \notin Pieces
                          /\ Shape \in [Pieces -> {"carousel", "image", "reel", "capture"}]
                          /\ BeatCounts \subseteq Nat
                          /\ IG_MAX_SLIDES \in Nat /\ IG_MAX_SLIDES >= 2

VARIABLES version,  \* version[i]: how often i was drafted
          beats,    \* beats[i]: beats of the current draft
          progress, \* progress[i]: "drafted", "rendering" or "rendered"
          assets,   \* assets[i]: the files the item lists
          disk,     \* <<piece, file>> -> the draft and the role it shows
          clips,    \* worlds whose still is staged in __autopilot-clips
          job,      \* job[r]: what worker r renders: a piece or NoPiece,
          todo,     \*   the files it has not written yet,
          wrote,    \*   those it has,
          seen,     \*   and the draft it read
          crossed   \* history: two workers were on one piece

mediaVars == <<version, beats, progress, assets, disk, clips, job, todo, wrote,
               seen, crossed>>

\* Only a deck shows its beats one by one.
Drafted(i) == IF Shape[i] = "carousel" THEN BeatCounts ELSE {0}

\* Seeded fault: a deck that is too long is cut at its end.
Clamped_DropsTheCta(specs) == IF Len(specs) > IG_MAX_SLIDES
                                THEN SubSeq(specs, 1, IG_MAX_SLIDES) ELSE specs

\* A deck that is too long loses middle slides, never the cover or the cta.
Clamped(specs) == IF Len(specs) > IG_MAX_SLIDES
                    THEN Append(SubSeq(specs, 1, IG_MAX_SLIDES - 1), specs[Len(specs)])
                    ELSE specs

\* Cover, world, the beats between the first and the last, and the call to act.
planCarouselJobs(n, world) ==
  LET middle == [k \in 1..(IF n > 2 THEN n - 2 ELSE 0) |-> "body"]
      worldSlide == IF world = NoWorld THEN <<>> ELSE <<"world">>
  IN Clamped(<<"hook">> \o worldSlide \o middle \o <<"cta">>)

planVideo(world) == IF world \in Filmed THEN "showcase"
                    ELSE IF Posters >= MIN_SHELF THEN "shelf" ELSE "hook"

\* The files of a render in the order they are written: <<role, number>>.
routeAdapter(i, n) ==
  LET slides == planCarouselJobs(n, World[i])
  IN CASE Shape[i] = "carousel" -> [k \in DOMAIN slides |-> <<slides[k], k>>]
       [] Shape[i] = "image"    -> <<<<"image", 1>>>>
       [] Shape[i] = "capture"  -> <<<<"clip", 1>>>>
       [] OTHER -> LET route == planVideo(World[i])
                   IN (IF route = "showcase" THEN <<<<"still", 0>>>> ELSE <<>>)
                      \o <<<<"opening", 0>>>>
                      \o (IF route = "hook" THEN <<>> ELSE <<<<"middle", 0>>>>)
                      \o <<<<"end", 0>>, <<"final", 1>>>>

\* Slides and images are named by their number, the parts of a reel by their role.
FileOf(f) == IF f[2] = 0 \/ f[1] = "final" THEN <<f[1], 0>> ELSE <<"numbered", f[2]>>

\* A worker takes up a drafted piece, or one that was left in rendering.
StartRender(r, i) ==
  /\ job[r] = NoPiece /\ progress[i] \in {"drafted", "rendering"}
  /\ progress' = [progress EXCEPT ![i] = "rendering"]
  /\ job' = [job EXCEPT ![r] = i]
  /\ todo' = [todo EXCEPT ![r] = routeAdapter(i, beats[i])]
  /\ wrote' = [wrote EXCEPT ![r] = <<>>]
  /\ seen' = [seen EXCEPT ![r] = version[i]]
  /\ crossed' = (crossed \/ \E q \in Renderers : job[q] = i)
  /\ UNCHANGED <<version, beats, assets, disk, clips>>

LeaveRender(r) == job' = [job EXCEPT ![r] = NoPiece]

\* stageStill: every other still is removed first, whosever it is.
StageStill(r) ==
  /\ job[r] # NoPiece /\ todo[r] # <<>> /\ Head(todo[r])[1] = "still"
  /\ clips' = {World[job[r]]}
  /\ todo' = [todo EXCEPT ![r] = Tail(@)]
  /\ UNCHANGED <<version, beats, progress, assets, disk, job, wrote, seen, crossed>>

\* One file, over whatever has its name.  The showcase card reads the still; the
\* final reel is joined from the parts on disk, of which the opening has the copy.
WriteFile(r) ==
  /\ job[r] # NoPiece /\ todo[r] # <<>> /\ Head(todo[r])[1] # "still"
  /\ LET f == Head(todo[r])
         i == job[r]
         shows == IF f[1] = "final" THEN disk[<<i, FileOf(<<"opening", 0>>)>>].draft ELSE seen[r]
         key == <<i, FileOf(f)>>
     IN /\ f[1] = "middle" /\ World[i] \in Filmed => World[i] \in clips
        /\ disk' = [x \in DOMAIN disk \cup {key} |->
                      IF x = key THEN [draft |-> shows, role |-> f[1]] ELSE disk[x]]
        /\ wrote' = [wrote EXCEPT ![r] = IF f[2] = 0 THEN @ ELSE Append(@, FileOf(f))]
  /\ todo' = [todo EXCEPT ![r] = Tail(@)]
  /\ UNCHANGED <<version, beats, progress, assets, clips, job, seen, crossed>>

\* The adapter throws, or the worker dies: the piece stays in rendering, for the
\* next run.
RenderFails(r) ==
  /\ job[r] # NoPiece
  /\ LeaveRender(r)
  /\ UNCHANGED <<version, beats, progress, assets, disk, clips, todo, wrote, seen, crossed>>

\* The item lists the files written, if it is still in rendering.
FinishRender(r) ==
  /\ job[r] # NoPiece /\ todo[r] = <<>>
  /\ IF progress[job[r]] = "rendering"
       THEN /\ progress' = [progress EXCEPT ![job[r]] = "rendered"]
            /\ assets' = [assets EXCEPT ![job[r]] = wrote[r]]
       ELSE UNCHANGED <<progress, assets>>
  /\ LeaveRender(r)
  /\ UNCHANGED <<version, beats, disk, clips, todo, wrote, seen, crossed>>

\* A bounce by QA or the owner, and the new draft (Pipeline): the files stay.
DraftAgain(i, n) ==
  /\ progress[i] = "rendered" /\ version[i] < MaxDrafts
  /\ version' = [version EXCEPT ![i] = @ + 1]
  /\ beats' = [beats EXCEPT ![i] = n]
  /\ progress' = [progress EXCEPT ![i] = "drafted"]
  /\ UNCHANGED <<assets, disk, clips, job, todo, wrote, seen, crossed>>

MediaInit ==
  /\ version = [i \in Pieces |-> 1]
  /\ beats \in {b \in [Pieces -> BeatCounts \cup {0}] : \A i \in Pieces : b[i] \in Drafted(i)}
  /\ progress = [i \in Pieces |-> "drafted"]
  /\ assets = [i \in Pieces |-> <<>>]
  /\ disk = [x \in {} |-> 0]
  /\ clips = {}
  /\ job = [r \in Renderers |-> NoPiece]
  /\ todo = [r \in Renderers |-> <<>>] /\ wrote = [r \in Renderers |-> <<>>]
  /\ seen = [r \in Renderers |-> 0]
  /\ crossed = FALSE

MediaNext ==
  \/ \E r \in Renderers :
       \/ \E i \in Pieces : StartRender(r, i)
       \/ StageStill(r) \/ WriteFile(r) \/ RenderFails(r) \/ FinishRender(r)
  \/ \E i \in Pieces : \E n \in Drafted(i) : DraftAgain(i, n)

MediaSpec == MediaInit /\ [][MediaNext]_mediaVars

-----------------------------------------------------------------------------

IsDeck(roles) == /\ Len(roles) \in 2..IG_MAX_SLIDES
                 /\ \A k \in DOMAIN roles : (roles[k] = "hook") = (k = 1)
                                            /\ (roles[k] = "cta") = (k = Len(roles))

\* Whatever deaths, failed renders and longer earlier decks left in the assets
\* directory, a rendered item lists files of its own draft, and a carousel a deck
\* Instagram takes (renderStage, planCarouselJobs); unless two workers were on one
\* item, which nothing here prevents: a slow one then writes an old draft's file
\* under a name the item lists.
MediaIsOfTheDraft ==
  \A i \in Pieces : progress[i] = "rendered" /\ ~crossed =>
    /\ assets[i] # <<>>
    /\ \A k \in DOMAIN assets[i] : disk[<<i, assets[i][k]>>].draft = version[i]
    /\ Shape[i] = "carousel" => IsDeck([k \in DOMAIN assets[i] |-> disk[<<i, assets[i][k]>>].role])
=============================================================================
