-------------------------------- MODULE Images --------------------------------
(* One image of a library (src/src/model/mod.rs, entity_images.rs and the image  *)
(* handlers of the series, movies, books, people, episodes, channels and         *)
(* medias): its file, the smaller copy made of it when one is asked for, and the *)
(* file of an entity that is not in the library.  Files are told by the version  *)
(* of the image they hold, 0 when they are created and not written yet.  Calls   *)
(* that overlap share them without a lock; a client that hangs up drops its call *)
(* where it waits.                                                               *)
EXTENDS Naturals

CONSTANTS
  Tasks,         \* the calls, one each
  MaxVersion,    \* bound on the images an entity is given
  Absent

Names == {"original", "sized", "external"}

VARIABLES
  kind,      \* which entity's image this is
  disk,      \* the files: the task that created each and the version in it
  versions,  \* how many images there have been
  job,       \* what each call does
  shown,     \* the version of the last update that was done
  raced      \* what calls that overlap, or that were dropped, may have spoiled

vars == <<kind, disk, versions, job, shown, raced>>

-----------------------------------------------------------------------------
(* The handlers: whether one exists for external identifiers, whether the image *)
(* is looked for on the disk before it is fetched, and whether a missing or an   *)
(* empty file is made again.                                                     *)

OfWork  == [external |-> TRUE, looks |-> TRUE, remakes |-> FALSE]
serie   == OfWork
movie   == OfWork
book    == OfWork
episode == OfWork
person  == OfWork
channel == [external |-> FALSE, looks |-> TRUE, remakes |-> FALSE]
media   == [external |-> FALSE, looks |-> FALSE, remakes |-> TRUE]

Idle == [pc |-> "idle", wants |-> "original", file |-> "original", version |-> 0, then |-> "ended"]

Init ==
  /\ kind \in {serie, movie, book, episode, person, channel, media}
  /\ disk = [n \in Names |-> Absent]
  /\ versions = 0
  /\ job = [t \in Tasks |-> Idle]
  /\ shown = 0
  /\ raced = {}

At(t, pc)   == job[t].pc = pc
Goes(t, pc) == job' = [job EXCEPT ![t].pc = pc]

Updating(t) == job[t].pc \in {"sizes", "open", "write"} /\ job[t].file = "original"
Resizing(t) == job[t].pc \in {"clear", "open", "write"} /\ job[t].file = "sized"
Quiet       == \A t \in Tasks : ~Updating(t) /\ ~Resizing(t)

\* A new version, written in the place of the original.
Replaces(t, then) ==
  /\ versions < MaxVersion
  /\ versions' = versions + 1
  /\ job' = [job EXCEPT ![t] = [pc |-> "remove", wants |-> job[t].wants, file |-> "original",
                                version |-> versions', then |-> then]]

-----------------------------------------------------------------------------
(* update_*_image and update_library_image.                                     *)

\* The image is converted first: when that fails nothing has changed.
Update(t) ==
  /\ At(t, "idle")
  /\ Replaces(t, "ended")
  /\ UNCHANGED <<kind, disk, shown, raced>>

RemoveOriginal(t) ==
  /\ At(t, "remove")
  /\ disk' = [disk EXCEPT !["original"] = Absent]
  /\ Goes(t, "sizes")
  /\ raced' = raced \cup (IF \E u \in Tasks \ {t} : Updating(u) THEN {"original"} ELSE {})
  /\ UNCHANGED <<kind, versions, shown>>

\* Mutant: the copies stay.
KeepSizes(t) ==
  /\ At(t, "sizes")
  /\ Goes(t, "open")
  /\ UNCHANGED <<kind, disk, versions, shown, raced>>

RemoveSizes(t) ==
  /\ At(t, "sizes")
  /\ disk' = [disk EXCEPT !["sized"] = Absent]
  /\ Goes(t, "open")
  /\ raced' = raced \cup (IF \E u \in Tasks : Resizing(u) THEN {"sized"} ELSE {})
  /\ UNCHANGED <<kind, versions, shown>>

\* A file of that name that exists is not replaced: this one gets a name that
\* nothing reads.
Open(t) ==
  /\ At(t, "open")
  /\ LET n == job[t].file
     IN  disk' = IF disk[n] = Absent THEN [disk EXCEPT ![n] = [by |-> t, version |-> 0]] ELSE disk
  /\ Goes(t, "write")
  /\ UNCHANGED <<kind, versions, shown, raced>>

\* The file may have been removed since, or be another's.
Write(t) ==
  /\ At(t, "write")
  /\ LET n == job[t].file
     IN  /\ disk' = IF disk[n] = [by |-> t, version |-> 0]
                    THEN [disk EXCEPT ![n].version = job[t].version] ELSE disk
         /\ shown' = IF n = "original" THEN job[t].version ELSE shown
  /\ Goes(t, job[t].then)
  /\ UNCHANGED <<kind, versions, raced>>

-----------------------------------------------------------------------------
(* *_image and library_image.                                                   *)

Ask(t, n) ==
  /\ At(t, "idle")
  /\ n \in {"original", "sized"} /\ (kind = media => n = "original")
  /\ job' = [job EXCEPT ![t].pc = IF kind.looks THEN "look" ELSE "read", ![t].wants = n]
  /\ UNCHANGED <<kind, disk, versions, shown, raced>>

has_library_image(t) ==
  /\ At(t, "look")
  /\ Goes(t, IF disk["original"] = Absent THEN "refresh" ELSE "read")
  /\ UNCHANGED <<kind, disk, versions, shown, raced>>

\* Downloaded, or made of the media or of a face.  A refresh that fails goes on to
\* read what is not there.
Refresh(t) ==
  /\ At(t, "refresh")
  /\ \/ Replaces(t, IF kind.remakes THEN "reread" ELSE "read")
     \/ Goes(t, IF kind.remakes THEN "ended" ELSE "read") /\ UNCHANGED versions
  /\ UNCHANGED <<kind, disk, shown, raced>>

\* An empty file is removed, whoever is about to write it.
library_image(t) ==
  /\ job[t].pc \in {"read", "reread"}
  /\ LET n      == job[t].wants
         empty  == disk[n] # Absent /\ disk[n].version = 0
         again  == IF kind.remakes /\ At(t, "read") THEN "refresh" ELSE "ended"
     IN  /\ disk' = IF empty THEN [disk EXCEPT ![n] = Absent] ELSE disk
         /\ raced' = IF empty THEN raced \cup {n} ELSE raced
         /\ Goes(t, IF disk[n] = Absent /\ n = "sized" THEN "resize"
                    ELSE IF disk[n] = Absent \/ empty THEN again
                    ELSE "ended")
  /\ UNCHANGED <<kind, versions, shown>>

\* What could not be read as an image ends the call.
Resize(t) ==
  /\ At(t, "resize")
  /\ LET o == disk["original"]
     IN  IF o = Absent \/ o.version = 0
         THEN Goes(t, "ended")
         ELSE job' = [job EXCEPT ![t] = [pc |-> "clear", wants |-> "sized", file |-> "sized",
                                         version |-> o.version, then |-> "ended"]]
  /\ UNCHANGED <<kind, disk, versions, shown, raced>>

\* remove_library_image of a size.
ClearSize(t) ==
  /\ At(t, "clear")
  /\ disk' = [disk EXCEPT !["sized"] = Absent]
  /\ Goes(t, "open")
  /\ UNCHANGED <<kind, versions, shown, raced>>

-----------------------------------------------------------------------------
(* The image of an entity that is not in the library.                           *)

serve_cached_entity_image(t) ==
  /\ At(t, "idle") /\ kind.external
  /\ \/ disk["external"] # Absent /\ Goes(t, "ended")
     \/ disk["external"] = Absent /\ (Goes(t, "create") \/ Goes(t, "ended"))
  /\ UNCHANGED <<kind, disk, versions, shown, raced>>

\* The file is created before the image is fetched.
Create(t) ==
  /\ At(t, "create")
  /\ disk' = IF disk["external"] = Absent
             THEN [disk EXCEPT !["external"] = [by |-> t, version |-> 0]] ELSE disk
  /\ Goes(t, "fetch")
  /\ UNCHANGED <<kind, versions, shown, raced>>

\* Nothing flushes the writer: an image smaller than its buffer is not written.
Fetch(t) ==
  /\ At(t, "fetch")
  /\ \/ UNCHANGED disk
     \/ disk' = IF disk["external"].by = t
                THEN [disk EXCEPT !["external"].version = 1] ELSE disk
  /\ Goes(t, "ended")
  /\ UNCHANGED <<kind, versions, shown, raced>>

-----------------------------------------------------------------------------
\* The client hangs up: an update or a resize may be left with what it removed.
HangUp(t) ==
  /\ job[t].pc \notin {"idle", "ended"}
  /\ Goes(t, "ended")
  /\ raced' = raced \cup (IF Updating(t) THEN {"original", "sized"}
                          ELSE IF Resizing(t) THEN {"sized"} ELSE {})
  /\ UNCHANGED <<kind, disk, versions, shown>>

Next ==
  \E t \in Tasks :
    \/ Update(t) \/ RemoveOriginal(t) \/ RemoveSizes(t) \/ Open(t) \/ Write(t)
    \/ \E n \in Names : Ask(t, n)
    \/ has_library_image(t) \/ Refresh(t) \/ library_image(t) \/ Resize(t) \/ ClearSize(t)
    \/ serve_cached_entity_image(t) \/ Create(t) \/ Fetch(t) \/ HangUp(t)

Spec == Init /\ [][Next]_vars

-----------------------------------------------------------------------------
\* What is served whole is the image of the last update that was done, unless two of
\* them overlapped (the second finds the first one's file and writes under a name that
\* nothing reads), a client asked for it before it was written and it was removed as
\* corrupted, or the one that removed it was dropped; and what is served in a size is
\* made of the one served whole, unless an update removed the sizes while one was
\* being made of the image before, or was dropped midway.
UpdateShown ==
  /\ Quiet /\ "original" \notin raced /\ shown > 0 =>
       disk["original"] # Absent /\ disk["original"].version = shown
  /\ Quiet /\ "sized" \notin raced /\ disk["sized"] # Absent =>
       disk["original"] # Absent /\ disk["sized"].version = disk["original"].version

=============================================================================
