---------------------------- MODULE BackupCopies ----------------------------
(***************************************************************************)
(* The copies a backup keeps of a database or of config.json: the end of   *)
(* BackupTask::execute (src/src/tools/scheduler/backup.rs) for a library,  *)
(* all of it for the server, with upload_backup_path, the retention of a   *)
(* week and what a copy is read back with (src/src/model/backups.rs).      *)
(*                                                                         *)
(* One backup, whose copies are files of a directory, and one thing it     *)
(* copies: the database of a library, or that of the server, or the        *)
(* configuration that a run of the server copies in the same way after it. *)
(* The two share no row and no file.  The medias of a library, which its   *)
(* runs copy first, are in MediaBackup.                                    *)
(***************************************************************************)
EXTENDS Naturals

CONSTANTS
  Runs,         \* GET /backups/:id/start at work
  Places, Keys, \* the values of a backup's path and password
  MaxVersion,   \* bound on the versions of what is copied
  MaxStarts,    \* bound on the runs
  None, Torn    \* no backup, password, row; a file of no version

VARIABLES
  item,         \* what is copied
  backup,       \* the row of Backups
  content,      \* its version
  status,       \* backup_processes
  run,          \* progress of each run
  rows,         \* its rows in Backups_Files
  disk,         \* the files of the places
  since,        \* its versions since the last run that went past it had read it
  events,       \* what happened that a property must allow for
  starts        \* runs so far

copyVars == <<item, backup, content, status, run, rows, disk, since, events, starts>>

Items       == {"library", "database", "configuration"}
Versions    == 1..MaxVersion
Settings    == [place : Places, key : Keys \cup {None}]
\* db, db-2 and so on, or the id of the copy if it is encrypted.
Names       == [n : 0..MaxStarts + 2, id : BOOLEAN]
\* A row's id, what it is the copy of, and when it was added.
Rows        == [n : 0..MaxStarts, hash : Versions, name : Names, added : 0..MaxStarts,
                old : BOOLEAN, raced : BOOLEAN]
Files       == [place : Places, name : Names, key : Keys \cup {None},
                version : Versions \cup {0, Torn}, open : SUBSET Runs]
RunRecord   == [pc : {"idle", "checked", "hash", "look", "reading", "named", "created",
                      "written", "retain", "removing", "row", "rest"},
                n : 0..MaxStarts, hash : Versions \cup {None},
                seen : SUBSET Versions, got : Versions \cup {None, Torn},
                to : Settings \cup {None}, name : Names \cup {None},
                own : 0..MaxStarts, todo : SUBSET (0..MaxStarts), hand : 0..MaxStarts]

TypeOK ==
  /\ item \in Items
  /\ backup \in Settings \cup {None}
  /\ content \in Versions
  /\ status \in {"idle", "InProgress", "Done"}
  /\ run \in [Runs -> RunRecord]
  /\ rows \subseteq Rows
  /\ disk \subseteq Files
  /\ since \in SUBSET Versions
  /\ events \subseteq {"updated", "cut", "together"}
  /\ starts \in 0..MaxStarts

NoRun == [pc |-> "idle", n |-> 0, hash |-> None, seen |-> {}, got |-> None,
          to |-> None, name |-> None, own |-> 0, todo |-> {}, hand |-> 0]

\* What a run of long ago left.
Copy(s) == [n |-> 0, hash |-> 1, added |-> 0, old |-> TRUE, raced |-> FALSE,
            name |-> [n |-> IF s.key = None THEN 1 ELSE 0, id |-> s.key # None]]
File(s) == [place |-> s.place, name |-> Copy(s).name, key |-> s.key, version |-> 1,
            open |-> {}]

\* A backup that is new, or has a copy of the version there is.
Init ==
  /\ item \in Items
  /\ backup \in Settings
  /\ content = 1
  /\ status = "idle"
  /\ run = [r \in Runs |-> NoRun]
  /\ \/ rows = {} /\ disk = {} /\ since = {}
     \/ rows = {Copy(backup)} /\ disk = {File(backup)} /\ since = {1}
  /\ events = {}
  /\ starts = 0

Active(r) == run[r].pc # "idle"
Quiet     == \A r \in Runs : ~Active(r)
ByName(p, name) == {f \in disk : f.place = p /\ f.name = name}

-----------------------------------------------------------------------------
(* The backup, and what it copies.                                         *)

\* A second one has another id: the runs of the first would not find it.
AddBackup ==
  /\ backup = None /\ Quiet
  /\ backup' \in Settings
  /\ UNCHANGED <<item, content, status, run, rows, disk, since, events, starts>>

\* What the PATCH does not mention stays, and a password can only be replaced.  (Bound:
\* one, and not after the other events, for no property speaks of more.)
UpdateBackup ==
  /\ backup # None /\ events = {}
  /\ \E s \in Settings \ {backup} :
       /\ backup.key # None => s.key # None
       /\ backup' = s
  /\ events' = events \cup {"updated"}
  /\ UNCHANGED <<item, content, status, run, rows, disk, since, starts>>

\* A row of Backups_Files refers to it.
RemoveBackup ==
  /\ backup # None /\ rows = {}
  /\ backup' = None
  /\ UNCHANGED <<item, content, status, run, rows, disk, since, events, starts>>

\* A database goes on, the configuration may go back: whoever reads it meanwhile has
\* a part of each.
Change ==
  \E v \in Versions :
    /\ IF item = "configuration" THEN v # content ELSE v = content + 1
    /\ content' = v
    /\ since' = IF since = {} THEN {} ELSE since \cup {v}
    /\ run' = [r \in Runs |->
         IF run[r].seen = {} THEN run[r]
         ELSE [run[r] EXCEPT !.seen = @ \cup {v},
                             !.got = IF run[r].pc = "reading" THEN Torn ELSE @]]
    /\ UNCHANGED <<item, backup, status, rows, disk, events, starts>>

\* No run takes a week.
WeekPasses ==
  /\ Quiet /\ rows # {}
  /\ rows' = {[c EXCEPT !.old = TRUE] : c \in rows}
  /\ UNCHANGED <<item, backup, content, status, run, disk, since, events, starts>>

-----------------------------------------------------------------------------
(* A run.                                                                  *)

others == <<item, backup, content, starts>>

\* is_processing_backup.
StartRun(r) ==
  /\ ~Active(r) /\ starts < MaxStarts
  /\ backup # None
  /\ status # "InProgress"
  /\ starts' = starts + 1
  /\ run' = [run EXCEPT ![r] = [NoRun EXCEPT !.pc = "checked", !.n = starts + 1]]
  /\ events' = IF Quiet THEN events ELSE events \cup {"together"}
  /\ UNCHANGED <<item, backup, content, status, rows, disk, since>>

\* Of a library, only a media that is copied sets the status.
SetStatus(r) ==
  /\ run[r].pc = "checked"
  /\ status' \in IF item = "library" THEN {status, "InProgress"} ELSE {"InProgress"}
  /\ run' = [run EXCEPT ![r].pc = "hash"]
  /\ UNCHANGED <<rows, disk, since, events>> /\ UNCHANGED others

HashItem(r) ==
  /\ run[r].pc = "hash"
  /\ run' = [run EXCEPT ![r].pc = "look", ![r].hash = content,
                        ![r].seen = {content}]
  /\ UNCHANGED <<status, rows, disk, since, events>> /\ UNCHANGED others

Identical(r) == {c \in rows : c.hash = run[r].hash}

\* "identical already uploaded": wherever it is, and however encrypted.  The rows are
\* read the latest first.
KeepIdentical(r) ==
  /\ run[r].pc = "look"
  /\ \E c \in Identical(r) :
       /\ \A x \in Identical(r) : x.added <= c.added
       /\ run' = [run EXCEPT ![r].pc = "retain", ![r].own = c.n]
  /\ UNCHANGED <<status, rows, disk, since, events>> /\ UNCHANGED others

\* The file is read again, whatever its hash is by now.
ReadItem(r) ==
  /\ run[r].pc = "look"
  /\ Identical(r) = {}
  /\ run' = [run EXCEPT ![r].pc = "reading", ![r].got = content]
  /\ UNCHANGED <<status, rows, disk, since, events>> /\ UNCHANGED others

FirstFree(p, name) ==
  \E k \in 1..MaxStarts + 2 :
    /\ name = [n |-> k, id |-> FALSE]
    /\ ByName(p, name) = {}
    /\ \A j \in 1..k - 1 : ByName(p, [n |-> j, id |-> FALSE]) # {}

\* upload_backup reads the backup again; writer() takes the first name that is free.
ChooseName(r) ==
  /\ run[r].pc = "reading"
  /\ backup # None
  /\ \E name \in Names :
       /\ IF backup.key = None THEN FirstFree(backup.place, name)
          ELSE name = [n |-> run[r].n, id |-> TRUE]
       /\ run' = [run EXCEPT ![r].pc = "named", ![r].to = backup, ![r].name = name]
  /\ UNCHANGED <<status, rows, disk, since, events>> /\ UNCHANGED others

\* File::create empties what another has created in the meantime, and two who write
\* at once leave a part of each.
CreateFile(r) ==
  /\ run[r].pc = "named"
  /\ LET there == ByName(run[r].to.place, run[r].name)
         open  == UNION {f.open : f \in there}
     IN disk' = (disk \ there) \cup
          {[place |-> run[r].to.place, name |-> run[r].name, key |-> run[r].to.key,
            version |-> IF open = {} THEN 0 ELSE Torn, open |-> open \cup {r}]}
  /\ run' = [run EXCEPT ![r].pc = "created"]
  /\ UNCHANGED <<status, rows, since, events>> /\ UNCHANGED others

\* A file removed meanwhile takes what is written with it.
WriteFile(r) ==
  /\ run[r].pc = "created"
  /\ disk' = {IF r \notin f.open THEN f
              ELSE [f EXCEPT !.open = @ \ {r},
                             !.version = IF @ = Torn THEN Torn ELSE run[r].got] : f \in disk}
  /\ run' = [run EXCEPT ![r].pc = "written"]
  /\ UNCHANGED <<status, rows, since, events>> /\ UNCHANGED others

\* Later than every row there is.
Latest(k) == \A c \in rows : c.added < k

\* fill_infos needs the file, the row its backup; and the primary key forbids a second
\* row of one hash, save where the library is NULL.
AddRow(r) ==
  /\ run[r].pc = "written"
  /\ backup # None
  /\ ByName(run[r].to.place, run[r].name) # {}
  /\ item = "library" => Identical(r) = {}
  /\ \E k \in 1..MaxStarts :
       /\ Latest(k) /\ (k > 1 => ~Latest(k - 1))
       /\ rows' = rows \cup
            {[n |-> run[r].n, hash |-> run[r].hash, name |-> run[r].name, added |-> k,
              old |-> FALSE, raced |-> run[r].got # run[r].hash]}
  /\ run' = [run EXCEPT ![r].pc = "retain", ![r].own = run[r].n, ![r].got = None,
                        ![r].to = None, ![r].name = None]
  /\ UNCHANGED <<status, disk, since, events>> /\ UNCHANGED others

\* Mutant: the copy this run relies on is not excepted.
ListOldOwn(r) ==
  /\ run[r].pc = "retain"
  /\ run' = [run EXCEPT ![r].pc = "removing",
       ![r].todo = {c.n : c \in {x \in rows : x.old}}]
  /\ UNCHANGED <<status, rows, disk, since, events>> /\ UNCHANGED others

\* remove_backup_files_for_media: older than a week, and not this run's.
ListOld(r) ==
  /\ run[r].pc = "retain"
  /\ run' = [run EXCEPT ![r].pc = "removing",
       ![r].todo = {c.n : c \in {x \in rows : x.old /\ x.n # run[r].own}}]
  /\ UNCHANGED <<status, rows, disk, since, events>> /\ UNCHANGED others

RowOf(n)  == {c \in rows : c.n = n}
FileOf(c) == IF backup = None THEN {} ELSE ByName(backup.place, c.name)

\* remove_backup_file: the file the row names, at the place the backup has now.
RemoveFile(r) ==
  /\ run[r].pc = "removing"
  /\ \E n \in run[r].todo : \E c \in RowOf(n) :
       /\ FileOf(c) # {}
       /\ disk' = disk \ FileOf(c)
       /\ run' = [run EXCEPT ![r].pc = "row", ![r].hand = n]
  /\ UNCHANGED <<status, rows, since, events>> /\ UNCHANGED others

\* No row, no backup or no such file: it is logged, and the row stays.
RemoveFails(r) ==
  /\ run[r].pc = "removing"
  /\ \E n \in run[r].todo :
       /\ \A c \in RowOf(n) : FileOf(c) = {}
       /\ run' = [run EXCEPT ![r].todo = @ \ {n}]
  /\ UNCHANGED <<status, rows, disk, since, events>> /\ UNCHANGED others

RemoveRow(r) ==
  /\ run[r].pc = "row"
  /\ rows' = rows \ RowOf(run[r].hand)
  /\ run' = [run EXCEPT ![r].pc = "removing", ![r].todo = @ \ {run[r].hand}, ![r].hand = 0]
  /\ UNCHANGED <<status, disk, since, events>> /\ UNCHANGED others

\* The row could not be removed: the next file may be given its name.
KeepRow(r) ==
  /\ run[r].pc = "row"
  /\ events' = events \cup {"cut"}
  /\ run' = [run EXCEPT ![r].pc = "removing", ![r].todo = @ \ {run[r].hand}, ![r].hand = 0]
  /\ UNCHANGED <<status, rows, disk, since>> /\ UNCHANGED others

FinishItem(r) ==
  /\ run[r].pc = "removing" /\ run[r].todo = {}
  /\ since' = run[r].seen
  /\ run' = [run EXCEPT ![r] = [NoRun EXCEPT !.pc = "rest"]]
  /\ UNCHANGED <<status, rows, disk, events>> /\ UNCHANGED others

\* After the rest of it, the configuration or the row of the backup.
FinishRun(r) ==
  /\ run[r].pc = "rest"
  /\ run' = [run EXCEPT ![r] = NoRun]
  /\ status' = "Done"
  /\ UNCHANGED <<rows, disk, since, events>> /\ UNCHANGED others

Closed(rs) == {[f EXCEPT !.open = @ \ rs] : f \in disk}

\* One of the `?`s: the status stays as it is.
Abort(r) ==
  /\ Active(r)
  /\ events' = IF run[r].pc = "row" THEN events \cup {"cut"} ELSE events
  /\ run' = [run EXCEPT ![r] = NoRun]
  /\ disk' = Closed({r})
  /\ UNCHANGED <<status, rows, since>> /\ UNCHANGED others

\* The process stops; the statuses are in memory.
Crash ==
  /\ ~Quiet \/ status # "idle"
  /\ events' = IF \E r \in Runs : run[r].pc = "row" THEN events \cup {"cut"} ELSE events
  /\ run' = [r \in Runs |-> NoRun]
  /\ disk' = Closed(Runs)
  /\ status' = "idle"
  /\ UNCHANGED <<rows, since>> /\ UNCHANGED others

-----------------------------------------------------------------------------
Execute(r) ==
  \/ SetStatus(r) \/ HashItem(r) \/ KeepIdentical(r) \/ ReadItem(r) \/ ChooseName(r)
  \/ CreateFile(r) \/ WriteFile(r) \/ AddRow(r) \/ ListOld(r) \/ RemoveFile(r)
  \/ RemoveFails(r) \/ RemoveRow(r) \/ KeepRow(r) \/ FinishItem(r)
  \/ FinishRun(r)

Next ==
  \/ AddBackup \/ UpdateBackup \/ RemoveBackup \/ Change \/ WeekPasses \/ Crash
  \/ \E r \in Runs : StartRun(r) \/ Execute(r) \/ Abort(r)

Spec == Init /\ [][Next]_copyVars

-----------------------------------------------------------------------------
(* Properties.                                                             *)

\* get_backup_file_reader: from the backup's place, decrypted with its password, as
\* they are now; what it reads is the version or nothing.
ReadBack(c) == {f.version : f \in {x \in FileOf(c) : x.key = backup.key /\ x.open = {}}}

\* What does no harm to the encrypted copies of a database: named by their ids they
\* never meet, and no version comes back to be found identical to a copy that is going.
Harmless ==
  IF backup.key # None /\ item # "configuration" THEN {"cut", "together"} ELSE {}

\* Once a run went past the item, a copy of a version it had since can be read back,
\* however old it is: unless the backup was given another place or password, or, of
\* what is not Harmless, a removal was cut short between file and row or two runs
\* overlapped.
CopyKept ==
  since # {} /\ backup # None /\ events \subseteq Harmless =>
    \E c \in rows :
      /\ c.hash \in since
      /\ IF c.raced THEN ReadBack(c) # {} ELSE ReadBack(c) = {c.hash}

=============================================================================
