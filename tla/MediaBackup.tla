----------------------------- MODULE MediaBackup -----------------------------
(***************************************************************************)
(* The backup of a library's medias: BackupTask::execute                   *)
(* (src/src/tools/scheduler/backup.rs) run by GET /backups/:id/start, the  *)
(* copies it keeps (src/src/model/backups.rs), and the medias that come,   *)
(* change and go meanwhile.                                                *)
(*                                                                         *)
(* One backup of one library.  The runs are incremental: one lists the     *)
(* medias dated after the newest copy and the deletions after the last run.*)
(***************************************************************************)
EXTENDS Naturals

CONSTANTS
  Medias,
  Runs,       \* GET /backups/:id/start calls
  MaxClock,   \* bound on the clock
  None

ASSUME BackupAssumption ==
  /\ MaxClock \in Nat \ {0}
  /\ None \notin Medias

VARIABLES
  clock,      \* milliseconds, coarsely
  media,      \* where each media stands in the library
  stamp,      \* the later of its added and modified columns, 0 without a row
  created,    \* its column created if that is later still, else 0
  deletedAt,  \* its date in the table deleted, 0 if it has none
  copies,     \* Backups_Files: a media, its date when copied, the run
  last,       \* Backups.last, 0 before the first run ended
  status,     \* backup_processes
  run,        \* progress of each run
  errors,     \* medias with a row in Backups_Errors
  kept,       \* copies whose removal failed
  moved,      \* medias whose date is not the time they were added
  lowered,    \* medias of the library whose date went back
  shadowed    \* medias of the library that a copy of another one ever hid

vars == <<clock, media, stamp, created, deletedAt, copies, last, status, run, errors,
          kept, moved, lowered, shadowed>>

Times       == 0..MaxClock
MediaStates == {"new", "present", "removed", "deleted", "forgotten"}
RunStates   == {"idle", "checked", "infos", "listed", "deletions", "working",
                "copying", "done", "skipped", "failed"}
Copies      == [media : Medias, modified : Times, run : Runs]
RunRecord   == [pc : RunStates, after : Times \cup {None}, todo : SUBSET Medias,
                listed : [Medias -> Times], deletes : SUBSET Medias, at : Times,
                backedUp : SUBSET Medias, hand : Medias \cup {None},
                modified : Times \cup {None}, ended : Times]

TypeOK ==
  /\ clock \in Times \ {0}
  /\ media \in [Medias -> MediaStates]
  /\ stamp \in [Medias -> Times]
  /\ created \in [Medias -> Times]
  /\ deletedAt \in [Medias -> Times]
  /\ copies \subseteq Copies
  /\ last \in Times
  /\ status \in {"idle", "InProgress", "Done"}
  /\ run \in [Runs -> RunRecord]
  /\ errors \subseteq Medias
  /\ kept \subseteq Copies
  /\ moved \subseteq Medias
  /\ lowered \subseteq Medias
  /\ shadowed \subseteq Medias

NoRun == [pc |-> "idle", after |-> None, todo |-> {}, listed |-> [m \in Medias |-> 0],
          deletes |-> {}, at |-> 0, backedUp |-> {}, hand |-> None, modified |-> None,
          ended |-> 0]

Init ==
  /\ clock = 1
  /\ media = [m \in Medias |-> "new"]
  /\ stamp = [m \in Medias |-> 0]
  /\ created = [m \in Medias |-> 0]
  /\ deletedAt = [m \in Medias |-> 0]
  /\ copies = {}
  /\ last = 0
  /\ status = "idle"
  /\ run = [r \in Runs |-> NoRun]
  /\ errors = {}
  /\ kept = {}
  /\ moved = {}
  /\ lowered = {}
  /\ shadowed = {}

Present   == {m \in Medias : media[m] = "present"}
\* The date backups go by.
Date(m)   == IF created[m] > stamp[m] THEN created[m] ELSE stamp[m]
Copied    == {c.media : c \in copies}
Ended(r, pc) == [NoRun EXCEPT !.pc = pc, !.at = run[r].at, !.ended = clock]
Active(r) == run[r].pc \in {"checked", "infos", "listed", "deletions", "working", "copying"}

-----------------------------------------------------------------------------
(* The library.                                                            *)

Tick ==
  /\ clock < MaxClock
  /\ clock' = clock + 1
  /\ UNCHANGED <<media, stamp, created, deletedAt, copies, last, status, run, errors, kept, moved, lowered>>

\* The insert trigger dates the row; created is the client's, and may be later.
AddMedia(m) ==
  /\ media[m] = "new"
  /\ media' = [media EXCEPT ![m] = "present"]
  /\ stamp' = [stamp EXCEPT ![m] = clock]
  /\ \E d \in {0} \cup clock + 1..MaxClock :
       /\ created' = [created EXCEPT ![m] = d]
       /\ moved' = IF d = 0 THEN moved ELSE moved \cup {m}
  /\ UNCHANGED <<clock, deletedAt, copies, last, status, run, errors, kept, lowered>>

\* An update of the row, or of its people, tags or series, sets modified.
ModifyMedia(m) ==
  /\ media[m] = "present"
  /\ stamp[m] < clock
  /\ stamp' = [stamp EXCEPT ![m] = clock]
  /\ created' = [created EXCEPT ![m] = IF @ > clock THEN @ ELSE 0]
  /\ moved' = moved \cup {m}
  /\ UNCHANGED <<clock, media, deletedAt, copies, last, status, run, errors, kept, lowered>>

\* An update of created alone does not.
EditCreated(m) ==
  /\ media[m] = "present"
  /\ \E d \in {0} \cup stamp[m] + 1..MaxClock :
       created' = [created EXCEPT ![m] = d]
  /\ created' # created
  /\ moved' = moved \cup {m}
  /\ lowered' = IF created'[m] < created[m] THEN lowered \cup {m} ELSE lowered
  /\ UNCHANGED <<clock, media, stamp, deletedAt, copies, last, status, run, errors, kept>>

\* remove_media: the row goes first, the record of the deletion comes after.
RemoveMedia(m) ==
  /\ media[m] = "present"
  /\ media' = [media EXCEPT ![m] = "removed"]
  /\ stamp' = [stamp EXCEPT ![m] = 0]
  /\ created' = [created EXCEPT ![m] = 0]
  /\ lowered' = lowered \ {m}
  /\ UNCHANGED <<clock, deletedAt, copies, last, status, run, errors, kept, moved>>

AddDeleted(m) ==
  /\ media[m] = "removed"
  /\ media' = [media EXCEPT ![m] = "deleted"]
  /\ deletedAt' = [deletedAt EXCEPT ![m] = clock]
  /\ UNCHANGED <<clock, stamp, created, copies, last, status, run, errors, kept, moved, lowered>>

\* The client hangs up between the two.
ForgetDeleted(m) ==
  /\ media[m] = "removed"
  /\ media' = [media EXCEPT ![m] = "forgotten"]
  /\ UNCHANGED <<clock, stamp, created, deletedAt, copies, last, status, run, errors, kept, moved, lowered>>

-----------------------------------------------------------------------------
(* BackupTask::execute.                                                    *)

library == <<clock, media, stamp, created, deletedAt, moved, lowered>>

\* is_processing_backup: the status changes only with the first copy.
StartRun(r) ==
  /\ run[r].pc = "idle"
  /\ run' = [run EXCEPT ![r].pc = IF status = "InProgress" THEN "skipped" ELSE "checked"]
  /\ UNCHANGED <<copies, last, status, errors, kept>>
  /\ UNCHANGED library

\* get_backup_files_infos: MAX(modified), NULL without a row.
ReadInfos(r) ==
  /\ run[r].pc = "checked"
  /\ \E newest \in Times \cup {None} :
       /\ IF copies = {} THEN newest = None
          ELSE /\ \E c \in copies : newest = c.modified
               /\ \A c \in copies : c.modified <= newest
       /\ run' = [run EXCEPT ![r].pc = "infos", ![r].after = newest]
  /\ UNCHANGED <<copies, last, status, errors, kept>>
  /\ UNCHANGED library

\* get_all_medias_to_backup.
ToBackup(r) == {m \in Present : run[r].after = None \/ Date(m) > run[r].after}

ListMedias(r) ==
  /\ run[r].pc = "infos"
  /\ run' = [run EXCEPT ![r].pc = "listed", ![r].after = None,
       ![r].todo = ToBackup(r),
       ![r].listed = [m \in Medias |-> IF m \in ToBackup(r) THEN Date(m) ELSE 0]]
  /\ UNCHANGED <<copies, last, status, errors, kept>>
  /\ UNCHANGED library

ListDeleted(r) ==
  /\ run[r].pc = "listed"
  /\ run' = [run EXCEPT ![r].pc = "deletions", ![r].at = clock,
       ![r].deletes = {m \in Medias : media[m] = "deleted" /\ deletedAt[m] > last}]
  /\ UNCHANGED <<copies, last, status, errors, kept>>
  /\ UNCHANGED library

ReadBackedUp(r) ==
  /\ run[r].pc = "deletions"
  /\ run' = [run EXCEPT ![r].pc = "working", ![r].backedUp = Copied \cap run[r].todo,
                        ![r].deletes = @ \cap Copied]
  /\ UNCHANGED <<copies, last, status, errors, kept>>
  /\ UNCHANGED library

\* remove_backup_files_for_media: a copy that cannot be removed is logged.
RemoveCopies(r, m) ==
  /\ run[r].pc = "working"
  /\ m \in run[r].deletes
  /\ \E failed \in SUBSET {c \in copies : c.media = m} :
       /\ copies' = {c \in copies : c.media # m} \cup failed
       /\ kept' = kept \cup failed
  /\ run' = [run EXCEPT ![r].deletes = @ \ {m}]
  /\ UNCHANGED <<last, status, errors>>
  /\ UNCHANGED library

\* Mutant: the medias are copied in no particular order.
IsAnyNext(r, m) ==
  /\ run[r].pc = "working" /\ run[r].deletes = {}
  /\ m \in run[r].todo

\* ORDER BY date ASC.
IsNext(r, m) ==
  /\ run[r].pc = "working" /\ run[r].deletes = {}
  /\ m \in run[r].todo
  /\ \A x \in run[r].todo : run[r].listed[m] <= run[r].listed[x]

\* Already copied, in whatever version.
SkipMedia(r, m) ==
  /\ IsNext(r, m)
  /\ m \in run[r].backedUp
  /\ run' = [run EXCEPT ![r].todo = @ \ {m}, ![r].listed[m] = 0, ![r].backedUp = @ \ {m}]
  /\ UNCHANGED <<copies, last, status, errors, kept>>
  /\ UNCHANGED library

\* The status is set, then the media is read again: get_media may find none.
BeginCopy(r, m) ==
  /\ IsNext(r, m)
  /\ m \notin run[r].backedUp
  /\ status' = "InProgress"
  /\ run' = [run EXCEPT ![r].pc = "copying", ![r].hand = m,
       ![r].modified = IF media[m] = "present" THEN Date(m) ELSE None]
  /\ UNCHANGED <<copies, last, errors, kept>>
  /\ UNCHANGED library

\* Mutant: the row of a media that was not found is added all the same.
FinishCopyGone(r, m) ==
  /\ run[r].pc = "copying" /\ run[r].hand = m
  /\ copies' = copies \cup {[media |-> m, modified |-> run[r].modified, run |-> r]}
  /\ run' = [run EXCEPT ![r].pc = "working", ![r].hand = None, ![r].todo = @ \ {m},
                        ![r].listed[m] = 0, ![r].modified = None]
  /\ UNCHANGED <<last, status, errors, kept>>
  /\ UNCHANGED library

FinishCopy(r, m) ==
  /\ run[r].pc = "copying" /\ run[r].hand = m /\ run[r].modified # None
  /\ copies' = copies \cup {[media |-> m, modified |-> run[r].modified, run |-> r]}
  /\ run' = [run EXCEPT ![r].pc = "working", ![r].hand = None, ![r].todo = @ \ {m},
                        ![r].listed[m] = 0, ![r].modified = None]
  /\ UNCHANGED <<last, status, errors, kept>>
  /\ UNCHANGED library

\* The media is gone, the provider fails, or the row cannot be added.
FailCopy(r, m) ==
  /\ run[r].pc = "copying" /\ run[r].hand = m
  /\ errors' = errors \cup {m}
  /\ run' = [run EXCEPT ![r].pc = "working", ![r].hand = None, ![r].todo = @ \ {m},
                        ![r].listed[m] = 0, ![r].modified = None]
  /\ UNCHANGED <<copies, last, status, kept>>
  /\ UNCHANGED library

\* Mutant: the end of a run is not told.
FinishRunUntold(r) ==
  /\ run[r].pc = "working" /\ run[r].deletes = {} /\ run[r].todo = {}
  /\ last' = clock
  /\ run' = [run EXCEPT ![r] = Ended(r, "done")]
  /\ UNCHANGED <<copies, status, errors, kept>>
  /\ UNCHANGED library

\* The copy of the library's database, update_backup and the status.
FinishRun(r) ==
  /\ run[r].pc = "working" /\ run[r].deletes = {} /\ run[r].todo = {}
  /\ last' = clock
  /\ status' = "Done"
  /\ run' = [run EXCEPT ![r] = Ended(r, "done")]
  /\ UNCHANGED <<copies, errors, kept>>
  /\ UNCHANGED library

\* Mutant: a run that fails is taken for one that ended.
AbortAsDone(r) ==
  /\ Active(r)
  /\ last' = clock
  /\ run' = [run EXCEPT ![r] = Ended(r, "failed")]
  /\ UNCHANGED <<copies, status, errors, kept>>
  /\ UNCHANGED library

\* One of the `?`s: the task ends and the status stays.
Abort(r) ==
  /\ Active(r)
  /\ run' = [run EXCEPT ![r] = Ended(r, "failed")]
  /\ UNCHANGED <<copies, last, status, errors, kept>>
  /\ UNCHANGED library

\* The process stops: the statuses are in memory.
Crash ==
  /\ status' = "idle"
  /\ run' = [r \in Runs |-> IF Active(r) THEN Ended(r, "failed") ELSE run[r]]
  /\ media' = [m \in Medias |-> IF media[m] = "removed" THEN "forgotten" ELSE media[m]]
  /\ UNCHANGED <<clock, stamp, created, deletedAt, copies, last, errors, kept, moved, lowered>>

-----------------------------------------------------------------------------
Library(m) ==
  AddMedia(m) \/ ModifyMedia(m) \/ EditCreated(m) \/ RemoveMedia(m) \/ AddDeleted(m)
    \/ ForgetDeleted(m)

Execute(r) ==
  \/ ReadInfos(r) \/ ListMedias(r) \/ ListDeleted(r) \/ ReadBackedUp(r) \/ FinishRun(r)
  \/ \E m \in Medias :
       RemoveCopies(r, m) \/ SkipMedia(r, m) \/ BeginCopy(r, m) \/ FinishCopy(r, m)
         \/ FailCopy(r, m)

\* A copy of another media hides m from the next runs only because that
\* media's date moved, or is m's to the millisecond.
Shadowed(m) ==
  \E c \in copies : c.modified >= Date(m) /\ (c.media \in moved \/ c.modified = Date(m))

\* It may be removed once a run has read its date, before m is added under it.
AddedUnder(m) ==
  /\ media[m] = "new"
  /\ \E r \in Runs : run[r].pc = "infos" /\ run[r].after # None /\ Date(m)' <= run[r].after

Remember ==
  shadowed' = {m \in (Present \ Copied)' : m \in shadowed \/ Shadowed(m)' \/ AddedUnder(m)}

Next ==
  /\ \/ Tick
     \/ \E m \in Medias : Library(m)
     \/ \E r \in Runs : StartRun(r) \/ Execute(r) \/ Abort(r)
     \/ Crash
  /\ Remember

Spec == Init /\ [][Next]_vars

-----------------------------------------------------------------------------
(* Properties.                                                             *)

\* Wherever a run stops, the media it did not reach are dated after all the
\* copies and the next run finds them: only a media whose copy failed, whose
\* date went back, or that another's copy hid, is passed over.  (It stays so: the
\* media it hid may be dated later, and the copy that hid it removed, when the
\* copies of others have gone past.)
NothingPassedOver ==
  \A m \in Present \ Copied :
    \/ \A c \in copies : c.modified < Date(m)
    \/ m \in errors \cup lowered
    \/ m \in shadowed

\* The copies of a deleted media are still to be found by the next run, unless
\* their removal failed, or the deletion came while a run was at work that had
\* already listed the deletions: no run ends, or fails, with a deletion that it
\* listed and that no later run will list.
DeletedCopiesFound ==
  \A m \in Medias : media[m] = "deleted" =>
    \A c \in copies : c.media = m =>
      \/ deletedAt[m] > last
      \/ c \in kept
      \/ \E r \in Runs :
           /\ run[r].at # 0 /\ run[r].at <= deletedAt[m]
           /\ Active(r) \/ deletedAt[m] <= run[r].ended

\* A backup is told to be in progress only while a run is at work or after one
\* failed: until the process stops, a failure then keeps further runs away.
InProgressExplained ==
  status = "InProgress" =>
    \E r \in Runs : Active(r) \/ (run[r].pc = "failed" /\ run[r].at # 0)

=============================================================================
