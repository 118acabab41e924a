------------------------------- MODULE Backup -------------------------------
(***************************************************************************)
(* The nightly backup of the box: a dump of the database is uploaded, old  *)
(* dumps are pruned, and outbox/, where the renderers leave the media the  *)
(* rows list, is mirrored.  It runs beside the renderers, any command of   *)
(* it may fail, and then the script stops there (set -e).                  *)
(***************************************************************************)
EXTENDS Integers, Sequences

CONSTANTS Medias,         \* items whose media the backup is for
          RETENTION_DAYS, \* days a dump is kept: 14
          MaxNights       \* bound on the nights that pass

ASSUME RetentionAssumption == RETENTION_DAYS \in Nat \ {0}

VARIABLES night,    \* nights so far
          outbox,   \* items whose files are in outbox/
          listed,   \* items whose rows list them
          backup,   \* which of its commands backup.sh comes to next
          workdir,  \* the rows in the dump it made
          dumps,    \* pg/ of the bucket: dumps, by the night they were made
          archive,  \* outbox/ of the bucket: items whose files are there
          uploads,  \* history: a dump was uploaded once
          complete  \* history: no backup failed since the last one ended

backupVars == <<night, outbox, listed, backup, workdir, dumps, archive, uploads, complete>>

\* A renderer writes the files of an item, and then lists them in its row.
WriteFiles(i) == /\ outbox' = outbox \cup {i}
                 /\ UNCHANGED <<night, listed, backup, workdir, dumps, archive, uploads, complete>>

ListFiles(i) == /\ i \in outbox
                /\ listed' = listed \cup {i}
                /\ UNCHANGED <<night, outbox, backup, workdir, dumps, archive, uploads, complete>>

\* Seeded fault: room is made before anything is uploaded.
Commands_PruneFirst == <<"prune", "dump", "upload", "sync">>

\* The commands of backup.sh, in their order.
Commands == <<"dump", "upload", "prune", "sync">>

\* pg_dump, when the timer fires or at `make backup-now`.
Dump == /\ Commands[backup] = "dump"
        /\ workdir' = listed
        /\ UNCHANGED <<dumps, archive, uploads>>

Upload == /\ Commands[backup] = "upload"
          /\ dumps' = dumps \cup {[made |-> night, rows |-> workdir]}
          /\ uploads' = TRUE
          /\ UNCHANGED <<workdir, archive>>

\* rclone delete --min-age, and if it fails the script goes on (|| true).
Prune == /\ Commands[backup] = "prune"
         /\ \/ dumps' = {d \in dumps : night - d.made < RETENTION_DAYS}
            \/ UNCHANGED dumps
         /\ UNCHANGED <<workdir, archive, uploads>>

\* rclone sync: what is not in outbox/ any more is deleted from the bucket.
Sync == /\ Commands[backup] = "sync"
        /\ archive' = outbox
        /\ UNCHANGED <<workdir, dumps, uploads>>

Command == /\ Dump \/ Upload \/ Prune \/ Sync
           /\ backup' = (backup % Len(Commands)) + 1
           /\ complete' = (complete \/ backup = Len(Commands))
           /\ UNCHANGED <<night, outbox, listed>>

\* A command fails, or the box goes down: mktemp's directory goes with it.
Fails == /\ backup # 1
         /\ backup' = 1
         /\ complete' = FALSE
         /\ UNCHANGED <<night, outbox, listed, workdir, dumps, archive, uploads>>

NightFalls == /\ backup = 1 /\ night < MaxNights
              /\ night' = night + 1
              /\ UNCHANGED <<outbox, listed, backup, workdir, dumps, archive, uploads, complete>>

BackupInit == /\ night = 0
              /\ outbox = {} /\ listed = {}
              /\ backup = 1 /\ workdir = {}
              /\ dumps = {} /\ archive = {}
              /\ uploads = FALSE /\ complete = FALSE

BackupNext == \/ \E i \in Medias : WriteFiles(i) \/ ListFiles(i)
              \/ Command \/ Fails \/ NightFalls

BackupSpec == BackupInit /\ [][BackupNext]_backupVars

-----------------------------------------------------------------------------

\* However many backups failed for however long, there is a dump once there was
\* one; and when the last backup ran to its end, whichever dump is restored finds
\* the media of every item it lists in the archive, although items were rendered
\* while the backup ran (the order of the commands of backup.sh).
DumpsRestore ==
  /\ uploads => dumps # {}
  /\ complete /\ backup = 1 => \A d \in dumps : d.rows \subseteq archive
=============================================================================
