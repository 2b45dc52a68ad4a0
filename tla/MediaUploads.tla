----------------------------- MODULE MediaUploads -----------------------------
(***************************************************************************)
(* The files of a library whose root is a directory: uploads               *)
(* (add_library_file, src/src/model/medias.rs), the removal of medias and  *)
(* of the library, and the cleaning that moves files without a row to the  *)
(* trash (src/src/model/libraries.rs), over the provider of                *)
(* src/src/plugins/sources/path_provider.rs.                               *)
(*                                                                         *)
(* A path is a name and the number of the copy (name, name-2, ...).  A     *)
(* file is known by the uploads whose bytes are in it: one, unless two     *)
(* uploads have opened the same path.                                      *)
(***************************************************************************)
EXTENDS Naturals, FiniteSets

CONSTANTS
  Uploads,
  Removers,     \* DELETE requests for a media
  Names,        \* file names, after the year and the month
  Contents,     \* what their bytes hash to
  NameOf, ContentOf,
  Mixed,        \* the hash of any other bytes
  None

ASSUME UploadAssumption ==
  /\ IsFiniteSet(Uploads)
  /\ NameOf \in [Uploads -> Names]
  /\ ContentOf \in [Uploads -> Contents]
  /\ {Mixed, None} \cap (Contents \cup Uploads) = {}
  /\ Mixed # None

Paths  == Names \X (1..Cardinality(Uploads))
Hashes == Contents \cup {Mixed, None}

VARIABLES
  disk,      \* the uploads in the file of each path, None without a file
  up,        \* progress of each upload: its source, and the hash in its infos
  rows,      \* uploads with a row in medias
  md5,       \* the md5 of the rows
  remover,   \* progress of each removal
  clean,     \* progress of GET /libraries/:id/clean
  library,   \* progress of the library's removal
  exposed,   \* uploads whose path another request could act on
  together,  \* pairs of uploads past the look for duplicates at the same time
  kept       \* paths whose removal failed

vars == <<disk, up, rows, md5, remover, clean, library, exposed, together, kept>>
history == <<exposed, together>>

UploadStates  == {"idle", "chosen", "writing", "written", "hashed", "duplicate",
                  "checked", "added", "done", "refused", "failed"}
LibraryStates == {"present", "started", "removing", "dropped", "closed", "gone"}

TypeOK ==
  /\ disk \in [Paths -> (SUBSET Uploads) \cup {None}]
  /\ up \in [Uploads -> [pc : UploadStates, source : Paths \cup {None}, hash : Hashes]]
  /\ rows \subseteq Uploads
  /\ md5 \in [Uploads -> Hashes]
  /\ remover \in [Removers -> [pc : {"idle", "source", "file", "done"},
                               media : Uploads \cup {None}]]
  /\ clean \in [pc : {"idle", "listed", "walked", "done"}, known : SUBSET Paths,
                found : SUBSET Paths]
  /\ library \in [pc : LibraryStates, content : BOOLEAN, todo : SUBSET Paths,
                  listed : SUBSET Uploads]
  /\ exposed \subseteq Uploads
  /\ together \subseteq SUBSET Uploads
  /\ kept \subseteq Paths

Init ==
  /\ disk = [p \in Paths |-> None]
  /\ up = [u \in Uploads |-> [pc |-> "idle", source |-> None, hash |-> None]]
  /\ rows = {}
  /\ md5 = [u \in Uploads |-> None]
  /\ remover = [r \in Removers |-> [pc |-> "idle", media |-> None]]
  /\ clean = [pc |-> "idle", known |-> {}, found |-> {}]
  /\ library = [pc |-> "present", content |-> FALSE, todo |-> {}, listed |-> {}]
  /\ exposed = {}
  /\ together = {}
  /\ kept = {}

At(u, pc)    == up[u].pc = pc
Step(u, pc)  == up' = [up EXCEPT ![u].pc = pc]
Active(u)    == up[u].pc \notin {"idle", "done", "refused", "failed"}
Sources      == {up[u].source : u \in rows}
HasRow       == library.pc \notin {"dropped", "closed", "gone"}
StoreOpen    == library.pc \notin {"closed", "gone"}
Cleaning     == clean.pc \in {"listed", "walked"}

\* The paths some removal is about to act on.
InHand == library.todo
            \cup {up[remover[r].media].source : r \in {q \in Removers : remover[q].pc = "source"}}

\* The others that go by a path without a file: it is not created yet, or gone.
Rivals(p) == {v \in Uploads : up[v].source = p /\ (Active(v) \/ v \in rows)}

\* remove_file(path).
Unlink(p) ==
  /\ disk[p] # None
  /\ disk' = [disk EXCEPT ![p] = None]
  /\ kept' = kept \ {p}

-----------------------------------------------------------------------------
(* Uploads.                                                                *)

\* Mutant: writer() without the search for a free name.
ChooseFirst(u) ==
  /\ At(u, "idle")
  /\ up' = [up EXCEPT ![u].pc = "chosen", ![u].source = <<NameOf[u], 1>>]
  /\ UNCHANGED <<disk, rows, md5, remover, clean, library, history, kept>>

\* The first name without a file: writer() looks, and creates it later.
Choose(u) ==
  /\ At(u, "idle")
  /\ HasRow
  /\ \E p \in Paths :
       /\ p[1] = NameOf[u] /\ disk[p] = None
       /\ \A i \in 1..p[2] - 1 : disk[<<p[1], i>>] # None
       /\ up' = [up EXCEPT ![u] = [pc |-> "chosen", source |-> p, hash |-> None]]
       /\ exposed' = exposed \cup Rivals(p) \cup
            IF Rivals(p) # {} \/ p \in InHand \/ Cleaning THEN {u} ELSE {}
  /\ UNCHANGED <<disk, rows, md5, remover, clean, library, together, kept>>

\* File::create: the file is truncated if it is there, and those who write it go on.
Open(u) ==
  /\ At(u, "chosen")
  /\ disk' = LET file == disk[up[u].source]
             IN  [disk EXCEPT ![up[u].source] =
                    {u} \cup IF file = None THEN {} ELSE {v \in file : At(v, "writing")}]
  /\ Step(u, "writing")
  /\ UNCHANGED <<rows, md5, remover, clean, library, history, kept>>

Write(u) ==
  /\ At(u, "writing")
  /\ Step(u, "written")
  /\ UNCHANGED <<disk, rows, md5, remover, clean, library, history, kept>>

\* What the bytes at the source of u may hash to.
HashesOf(u) ==
  LET file == disk[up[u].source]
  IN  IF file = None THEN {}
      ELSE {ContentOf[v] : v \in file} \cup IF file = {u} THEN {} ELSE {Mixed}

\* fill_infos, whose failure is ignored: the media then has no hash.
Hash(u) ==
  /\ At(u, "written")
  /\ \E h \in HashesOf(u) \cup {None} :
       up' = [up EXCEPT ![u] = [pc |-> "hashed", source |-> @.source, hash |-> h]]
  /\ UNCHANGED <<disk, rows, md5, remover, clean, library, history, kept>>

\* Mutant: only the media at the same source is compared.
SameHashAndSource(u) ==
  {v \in rows : md5[v] = up[u].hash /\ md5[v] # None /\ up[v].source = up[u].source}

\* get_media_by_hash.
SameHash(u) == {v \in rows : md5[v] = up[u].hash /\ md5[v] # None}

CheckDuplicate(u) ==
  /\ At(u, "hashed")
  /\ \/ SameHash(u) # {} /\ Step(u, "duplicate") /\ UNCHANGED together
     \/ /\ SameHash(u) = {} \/ up[u].hash = Mixed
        /\ Step(u, "checked")
        /\ together' = together \cup {{u, v} : v \in {w \in Uploads \ {u} :
                                                      At(w, "checked") \/ At(w, "added")}}
  /\ UNCHANGED <<disk, rows, md5, remover, clean, library, exposed, kept>>

\* Mutant: the duplicate is refused, and its file stays.
RefuseDuplicate(u) ==
  /\ At(u, "duplicate")
  /\ Step(u, "refused")
  /\ UNCHANGED <<disk, rows, md5, remover, clean, library, history, kept>>

RemoveDuplicate(u) ==
  /\ At(u, "duplicate")
  /\ Unlink(up[u].source)
  /\ Step(u, "refused")
  /\ UNCHANGED <<rows, md5, remover, clean, library, history>>

\* add_media: the row has no md5 yet.
AddRow(u) ==
  /\ At(u, "checked")
  /\ StoreOpen
  /\ rows' = rows \cup {u}
  /\ md5' = [md5 EXCEPT ![u] = None]
  /\ Step(u, "added")
  /\ UNCHANGED <<disk, remover, clean, library, history, kept>>

\* Mutant: the md5 of the row is its source.
SetInfosSource(u) ==
  /\ At(u, "added")
  /\ u \in rows
  /\ md5' = [md5 EXCEPT ![u] = up[u].source]
  /\ Step(u, "done")
  /\ UNCHANGED <<disk, rows, remover, clean, library, history, kept>>

\* update_media, with the infos.
SetInfos(u) ==
  /\ At(u, "added")
  /\ StoreOpen
  /\ u \in rows
  /\ md5' = [md5 EXCEPT ![u] = up[u].hash]
  /\ Step(u, "done")
  /\ UNCHANGED <<disk, rows, remover, clean, library, history, kept>>

\* An error at any step, or a client that hangs up: nothing is taken back.
UploadFails(u) ==
  /\ Active(u)
  /\ Step(u, "failed")
  /\ UNCHANGED <<disk, rows, md5, remover, clean, library, history, kept>>

-----------------------------------------------------------------------------
(* Removal of a media: remove_library_file.                                *)

ReadSource(r) ==
  /\ remover[r].pc = "idle"
  /\ StoreOpen
  /\ \E u \in rows :
       /\ remover' = [remover EXCEPT ![r] = [pc |-> "source", media |-> u]]
       /\ exposed' = exposed \cup {u}
  /\ UNCHANGED <<disk, up, rows, md5, clean, library, together, kept>>

\* The error of a file that is not there, or cannot be removed, is ignored.
RemoveFile(r) ==
  /\ remover[r].pc = "source"
  /\ HasRow
  /\ LET p == up[remover[r].media].source
     IN  \/ Unlink(p)
         \/ UNCHANGED disk /\ kept' = IF disk[p] = None THEN kept ELSE kept \cup {p}
  /\ remover' = [remover EXCEPT ![r].pc = "file"]
  /\ UNCHANGED <<up, rows, md5, clean, library, history>>

RemoveRow(r) ==
  /\ remover[r].pc = "file"
  /\ rows' = rows \ {remover[r].media}
  /\ remover' = [remover EXCEPT ![r] = [pc |-> "done", media |-> None]]
  /\ UNCHANGED <<disk, up, md5, clean, library, history, kept>>

\* The client hangs up.
RemovalStops(r) ==
  /\ remover[r].pc \in {"source", "file"}
  /\ remover' = [remover EXCEPT ![r] = [pc |-> "done", media |-> None]]
  /\ UNCHANGED <<disk, up, rows, md5, clean, library, history, kept>>

-----------------------------------------------------------------------------
(* clean_library: the rows' sources are listed before the directory is     *)
(* walked.                                                                 *)

ListSources ==
  /\ clean.pc = "idle"
  /\ HasRow
  /\ clean' = [clean EXCEPT !.pc = "listed", !.known = Sources]
  /\ exposed' = exposed \cup {u \in Uploads \ rows : Active(u)}
  /\ UNCHANGED <<disk, up, rows, md5, remover, library, together, kept>>

Walk ==
  /\ clean.pc = "listed"
  /\ clean' = [clean EXCEPT !.pc = "walked",
                            !.found = {p \in Paths : disk[p] # None} \ clean.known]
  /\ UNCHANGED <<disk, up, rows, md5, remover, library, history, kept>>

Trash(p) ==
  /\ clean.pc = "walked"
  /\ p \in clean.found
  /\ Unlink(p)
  /\ clean' = [clean EXCEPT !.found = @ \ {p}]
  /\ UNCHANGED <<up, rows, md5, remover, library, history>>

\* All are in the trash, or one could not be looked at or moved.
CleanEnds ==
  /\ clean.pc = "walked"
  /\ clean' = [clean EXCEPT !.pc = "done", !.known = {}, !.found = {}]
  /\ UNCHANGED <<disk, up, rows, md5, remover, library, history, kept>>

-----------------------------------------------------------------------------
(* Removal of the library: request_remove_library.                         *)

RequestRemoval ==
  /\ library.pc = "present"
  /\ \E c \in BOOLEAN : library' = [library EXCEPT !.pc = "started", !.content = c]
  /\ UNCHANGED <<disk, up, rows, md5, remover, clean, history, kept>>

\* remove_tracked_media_sources lists the rows' sources once.
ListTracked ==
  /\ library.pc = "started"
  /\ library.content
  /\ library' = [library EXCEPT !.pc = "removing", !.todo = Sources, !.listed = rows]
  /\ exposed' = exposed \cup rows
  /\ UNCHANGED <<disk, up, rows, md5, remover, clean, together, kept>>

\* Mutant: any error on a tracked file is passed over.
RemoveTrackedOrSkip(p) ==
  /\ library.pc = "removing"
  /\ p \in library.todo
  /\ Unlink(p) \/ UNCHANGED <<disk, kept>>
  /\ library' = [library EXCEPT !.todo = @ \ {p}]
  /\ UNCHANGED <<up, rows, md5, remover, clean, history>>

RemoveTracked(p) ==
  /\ library.pc = "removing"
  /\ p \in library.todo
  /\ Unlink(p)
  /\ library' = [library EXCEPT !.todo = @ \ {p}]
  /\ UNCHANGED <<up, rows, md5, remover, clean, history>>

\* Any error ends the removal, a file that is not there included.
LibraryRemovalFails ==
  /\ library.pc \in {"started", "removing"}
  /\ library' = [pc |-> "present", content |-> FALSE, todo |-> {}, listed |-> {}]
  /\ UNCHANGED <<disk, up, rows, md5, remover, clean, history, kept>>

DropLibrary ==
  /\ \/ library.pc = "started" /\ ~library.content
     \/ library.pc = "removing" /\ library.todo = {}
  /\ library' = [library EXCEPT !.pc = "dropped"]
  /\ UNCHANGED <<disk, up, rows, md5, remover, clean, history, kept>>

CloseStore ==
  /\ library.pc = "dropped"
  /\ library' = [library EXCEPT !.pc = "closed"]
  /\ UNCHANGED <<disk, up, rows, md5, remover, clean, history, kept>>

RemoveDatabase ==
  /\ library.pc = "closed"
  /\ library' = [library EXCEPT !.pc = "gone"]
  /\ rows' = {}
  /\ UNCHANGED <<disk, up, md5, remover, clean, history, kept>>

Upload(u) == \/ Choose(u) \/ Open(u) \/ Write(u) \/ Hash(u) \/ CheckDuplicate(u)
             \/ RemoveDuplicate(u) \/ AddRow(u) \/ SetInfos(u) \/ UploadFails(u)
Removal(r) == ReadSource(r) \/ RemoveFile(r) \/ RemoveRow(r) \/ RemovalStops(r)
Clean == ListSources \/ Walk \/ (\E p \in Paths : Trash(p)) \/ CleanEnds
RemoveLibrary == \/ RequestRemoval \/ ListTracked \/ (\E p \in Paths : RemoveTracked(p))
                 \/ LibraryRemovalFails \/ DropLibrary \/ CloseStore \/ RemoveDatabase

Next == \/ \E u \in Uploads : Upload(u)
        \/ \E r \in Removers : Removal(r)
        \/ Clean
        \/ RemoveLibrary

Spec == Init /\ [][Next]_vars

-----------------------------------------------------------------------------
(* Properties.                                                             *)

\* The file of a media holds its bytes and no other's: no upload, removal or
\* cleaning takes or overwrites it, unless another request was about to act on
\* its path when the upload chose it, or a removal or a cleaning met the upload.
FileKept == \A u \in rows \ exposed : disk[up[u].source] = {u}

\* The same bytes are in the library twice only if the second upload looked for
\* duplicates before the md5 of the first was set.
NoDuplicate ==
  \A u, v \in rows : u # v /\ md5[u] \in Contents /\ md5[u] = md5[v] => {u, v} \in together

\* A file without a row is being uploaded, or is what an upload that failed or a
\* removal whose error was ignored has left.
NoStrayFile ==
  library.pc # "gone" =>
    \A p \in Paths : disk[p] # None =>
      \/ p \in kept
      \/ \E u \in disk[p] : u \in rows \/ Active(u) \/ At(u, "failed")

\* The row of a library removed with its content goes only when no file of the
\* medias it had is left.
ContentRemoved ==
  library.content /\ ~HasRow =>
    \A p \in Paths : disk[p] = None \/ disk[p] \cap library.listed = {}
=============================================================================
