-------------------------- MODULE LibraryEncryption --------------------------
(***************************************************************************)
(* The password of a library and the files it protects: update_library     *)
(* (src/src/model/libraries.rs), the migration it schedules                *)
(* (src/src/tools/scheduler/encrypt_library.rs) and the uploads that go on *)
(* meanwhile (add_library_file in src/src/model/medias.rs).                *)
(*                                                                         *)
(* The content of a file is the sequence of passwords it was encrypted     *)
(* with, innermost first; <<>> is the plaintext.  A PATCH request and the  *)
(* migration it schedules bear the same name.                              *)
(***************************************************************************)
EXTENDS Naturals, Sequences

CONSTANTS
  Patches,     \* PATCH /libraries/:l requests
  Medias,      \* files uploaded to the library
  Remote,      \* those a remote provider keeps (source.local_path is None)
  Passwords,
  None,        \* Option::None: no password, or none in the request
  Garbage      \* bytes that no password turns into the file again

ASSUME EncryptionAssumption ==
  /\ Remote \subseteq Medias
  /\ None \notin Passwords \cup Medias
  /\ Garbage \notin Seq(Passwords)

VARIABLES
  stored,      \* the password column of the library's row
  cached,      \* the password in chache_libraries
  patch,       \* progress of each PATCH
  mig,         \* the EncryptLibraryTask it scheduled
  up,          \* progress of each upload, and the key it encrypts with
  file,        \* content of each media's file
  rows         \* medias with a row in the library's database

vars == <<stored, cached, patch, mig, up, file, rows>>

Options  == Passwords \cup {None}
Contents == Seq(Passwords) \cup {Garbage}

PatchStates == {"idle", "read", "updated", "reread", "cached", "done", "left"}
MigStates   == {"none", "queued", "started", "running", "finished", "lost"}
UpStates    == {"idle", "writing", "written", "added", "lost"}

Patch     == [pc : PatchStates, old : Options, new : Options, row : Options]
Migration == [pc : MigStates, key : Options, snapshot : SUBSET Medias,
              todo : SUBSET Medias, hand : Medias \cup {None},
              data : Contents, errors : SUBSET Medias]

TypeOK ==
  /\ stored \in Options
  /\ cached \in Options
  /\ patch \in [Patches -> Patch]
  /\ mig \in [Patches -> Migration]
  /\ up \in [Medias -> [pc : UpStates, key : Options]]
  /\ file \in [Medias -> Contents]
  /\ rows \subseteq Medias

\* add_library stores the password of a new library, which has no file yet.
Init ==
  /\ stored \in Options
  /\ cached = stored
  /\ patch = [p \in Patches |-> [pc |-> "idle", old |-> None, new |-> None, row |-> None]]
  /\ mig = [p \in Patches |-> [pc |-> "none", key |-> None, snapshot |-> {}, todo |-> {},
                               hand |-> None, data |-> <<>>, errors |-> {}]]
  /\ up = [m \in Medias |-> [pc |-> "idle", key |-> None]]
  /\ file = [m \in Medias |-> <<>>]
  /\ rows = {}

\* Mutant: the key is derived whether there is a password or not.
LayerAlways(key) == <<key>>

Layer(key) == IF key = None THEN <<>> ELSE <<key>>

Encrypt(content, key) == IF content = Garbage THEN Garbage ELSE Append(content, key)

\* CTR with another key, or of a file without a nonce, yields noise and eats
\* the first bytes.
Decrypt(content, key) ==
  IF content = Garbage \/ content = <<>> THEN Garbage
  ELSE IF content[Len(content)] = key THEN SubSeq(content, 1, Len(content) - 1)
  ELSE Garbage

-----------------------------------------------------------------------------
(* update_library.                                                         *)

\* The old password comes from the cache, the new one from the request.
ReadOld(p) ==
  /\ patch[p].pc = "idle"
  /\ \E new \in Options :
       patch' = [patch EXCEPT ![p] = [pc |-> "read", old |-> cached, new |-> new, row |-> None]]
  /\ UNCHANGED <<stored, cached, mig, up, file, rows>>

\* The UPDATE statement sets only the columns the request names.
UpdateRow(p) ==
  /\ patch[p].pc = "read"
  /\ stored' = IF patch[p].new = None THEN stored ELSE patch[p].new
  /\ patch' = [patch EXCEPT ![p].pc = "updated"]
  /\ UNCHANGED <<cached, mig, up, file, rows>>

Reread(p) ==
  /\ patch[p].pc = "updated"
  /\ patch' = [patch EXCEPT ![p].pc = "reread", ![p].row = stored]
  /\ UNCHANGED <<stored, cached, mig, up, file, rows>>

UpdateCache(p) ==
  /\ patch[p].pc = "reread"
  /\ cached' = patch[p].row
  /\ patch' = [patch EXCEPT ![p].pc = "cached"]
  /\ UNCHANGED <<stored, mig, up, file, rows>>

\* Mutant: only a change from one password to another schedules a migration.
ScheduleOnChange(p) ==
  /\ patch[p].pc = "cached"
  /\ patch' = [patch EXCEPT ![p].pc = "done"]
  /\ IF None \notin {patch[p].old, patch[p].new} /\ patch[p].new # patch[p].old
       THEN mig' = [mig EXCEPT ![p].pc = "queued"] ELSE mig' = mig
  /\ UNCHANGED <<stored, cached, up, file, rows>>

\* A password in the request schedules an encryption, its absence a decryption
\* (Decrypts), if the old password was another.
Decrypts(p) == patch[p].new = None

\* The queue is a set: a like task scheduled in the same second is the same item.
Schedule(p) ==
  /\ patch[p].pc = "cached"
  /\ patch' = [patch EXCEPT ![p].pc = "done"]
  /\ \/ /\ patch[p].new # patch[p].old
        /\ mig' = [mig EXCEPT ![p].pc = "queued"]
     \/ /\ \/ patch[p].new = patch[p].old
           \/ \E q \in Patches \ {p} : mig[q].pc = "queued" /\ Decrypts(q) = Decrypts(p)
        /\ UNCHANGED mig
  /\ UNCHANGED <<stored, cached, up, file, rows>>

\* The client hangs up and the handler's future is dropped at an await.
HangUp(p) ==
  /\ patch[p].pc \in {"read", "updated", "reread", "cached"}
  /\ patch' = [patch EXCEPT ![p].pc = "left"]
  /\ UNCHANGED <<stored, cached, mig, up, file, rows>>

-----------------------------------------------------------------------------
(* EncryptLibraryTask::execute, spawned by the scheduler's next tick.      *)

\* The password is read from the row; without one there is nothing to do.
StartTask(p) ==
  /\ mig[p].pc = "queued"
  /\ mig' = [mig EXCEPT ![p].key = stored,
                        ![p].pc = IF stored = None THEN "finished" ELSE "started"]
  /\ UNCHANGED <<stored, cached, patch, up, file, rows>>

\* get_all_media_id_sources: uploads that add their row later are not seen.
TakeSnapshot(p) ==
  /\ mig[p].pc = "started"
  /\ mig' = [mig EXCEPT ![p].pc = "running", ![p].snapshot = rows, ![p].todo = rows]
  /\ UNCHANGED <<stored, cached, patch, up, file, rows>>

\* Mutant: the file is rewritten in place.
ReadInPlace(p, m) ==
  /\ mig[p].pc = "running" /\ mig[p].hand = None
  /\ m \in mig[p].todo
  /\ mig' = [mig EXCEPT ![p].hand = m, ![p].data = file[m]]
  /\ file' = [file EXCEPT ![m] = Garbage]
  /\ UNCHANGED <<stored, cached, patch, up, rows>>

\* The file is opened and copied, through the cipher, to a temporary file (to
\* a new file of the provider).
ReadFile(p, m) ==
  /\ mig[p].pc = "running" /\ mig[p].hand = None
  /\ m \in mig[p].todo
  /\ mig' = [mig EXCEPT ![p].hand = m, ![p].data = file[m]]
  /\ UNCHANGED <<stored, cached, patch, up, file, rows>>

Processed(p) ==
  IF Decrypts(p) THEN Decrypt(mig[p].data, mig[p].key) ELSE Encrypt(mig[p].data, mig[p].key)

\* Another task in the same direction writes to the same temporary file.
SharesTemp(p, m) ==
  /\ m \notin Remote
  /\ \E q \in Patches \ {p} : mig[q].hand = m /\ Decrypts(q) = Decrypts(p)

\* p is done with m.
Drop(p, m) ==
  [mig EXCEPT ![p].hand = None, ![p].todo = @ \ {m}, ![p].data = <<>>]

\* The rename of the temporary file over the original; for a remote file the
\* row's new source, after which others no longer find the old one.
Replace(p, m) ==
  /\ m = mig[p].hand
  /\ m # None
  /\ \E content \in {Processed(p)} \cup (IF SharesTemp(p, m) THEN {Garbage} ELSE {}) :
       file' = [file EXCEPT ![m] = content]
  /\ mig' = [q \in Patches |->
       IF q = p THEN Drop(p, m)[p]
       ELSE IF m \in Remote /\ mig[q].hand # m THEN [mig[q] EXCEPT !.todo = @ \ {m}]
       ELSE mig[q]]
  /\ UNCHANGED <<stored, cached, patch, up, rows>>

\* An I/O error, or a temporary file another task renamed: counted, logged and
\* not tried again.
ProcessFails(p, m) ==
  /\ m = mig[p].hand
  /\ m # None
  /\ mig' = [Drop(p, m) EXCEPT ![p].errors = @ \cup {m}]
  /\ \E content \in {file[m]} \cup (IF SharesTemp(p, m) THEN {Garbage} ELSE {}) :
       file' = [file EXCEPT ![m] = content]
  /\ UNCHANGED <<stored, cached, patch, up, rows>>

FinishTask(p) ==
  /\ mig[p].pc = "running" /\ mig[p].hand = None
  /\ mig[p].todo = {}
  /\ mig' = [mig EXCEPT ![p].pc = "finished"]
  /\ UNCHANGED <<stored, cached, patch, up, file, rows>>

-----------------------------------------------------------------------------
(* add_library_file.                                                       *)

BeginUpload(m) ==
  /\ up[m].pc = "idle"
  /\ up' = [up EXCEPT ![m] = [pc |-> "writing", key |-> cached]]
  /\ UNCHANGED <<stored, cached, patch, mig, file, rows>>

\* Mutant: the writer is never wrapped in a CtrEncryptWriter.
WritePlain(m) ==
  /\ up[m].pc = "writing"
  /\ file' = [file EXCEPT ![m] = <<>>]
  /\ up' = [up EXCEPT ![m].pc = "written"]
  /\ UNCHANGED <<stored, cached, patch, mig, rows>>

WriteFile(m) ==
  /\ up[m].pc = "writing"
  /\ file' = [file EXCEPT ![m] = Layer(up[m].key)]
  /\ up' = [up EXCEPT ![m].pc = "written"]
  /\ UNCHANGED <<stored, cached, patch, mig, rows>>

AddRow(m) ==
  /\ up[m].pc = "written"
  /\ rows' = rows \cup {m}
  /\ up' = [up EXCEPT ![m].pc = "added"]
  /\ UNCHANGED <<stored, cached, patch, mig, file>>

\* The client hangs up, the provider fails, or the file turns out to be a
\* duplicate: no row is added.
LoseUpload(m) ==
  /\ up[m].pc \in {"writing", "written"}
  /\ up' = [up EXCEPT ![m].pc = "lost"]
  /\ UNCHANGED <<stored, cached, patch, mig, file, rows>>

-----------------------------------------------------------------------------
\* The process stops and starts again.  The scheduler's queue is in memory, a
\* temporary file is left where it is and cache_update_all_libraries reads the
\* rows afresh.
Crash ==
  /\ cached' = stored
  /\ patch' = [p \in Patches |->
       IF patch[p].pc \in {"idle", "done"} THEN patch[p] ELSE [patch[p] EXCEPT !.pc = "left"]]
  /\ mig' = [p \in Patches |->
       IF mig[p].pc \in {"none", "finished"} THEN mig[p]
       ELSE [mig[p] EXCEPT !.pc = "lost", !.hand = None, !.todo = {}, !.data = <<>>]]
  /\ up' = [m \in Medias |->
       IF up[m].pc \in {"writing", "written"} THEN [up[m] EXCEPT !.pc = "lost"] ELSE up[m]]
  /\ UNCHANGED <<stored, file, rows>>

-----------------------------------------------------------------------------
Update(p) == ReadOld(p) \/ UpdateRow(p) \/ Reread(p) \/ UpdateCache(p) \/ Schedule(p)

Task(p) ==
  \/ StartTask(p) \/ TakeSnapshot(p) \/ FinishTask(p)
  \/ \E m \in Medias : ReadFile(p, m) \/ Replace(p, m) \/ ProcessFails(p, m)

Upload(m) == BeginUpload(m) \/ WriteFile(m) \/ AddRow(m) \/ LoseUpload(m)

Next ==
  \/ \E p \in Patches : Update(p) \/ HangUp(p) \/ Task(p)
  \/ \E m \in Medias : Upload(m)
  \/ Crash

Spec == Init /\ [][Next]_vars

(***************************************************************************)
(* Fairness: the scheduler ticks every 15 seconds, a spawned task runs to  *)
(* its end, and so does a handler whose client stays.  Clients owe nothing *)
(* and the process may crash.                                              *)
(***************************************************************************)
Fairness ==
  \A p \in Patches : WF_vars(Task(p)) /\ WF_vars(patch[p].pc # "idle" /\ Update(p))

FairSpec == Spec /\ Fairness

-----------------------------------------------------------------------------
(* Properties.                                                             *)

Changing(p) == patch[p].pc # "idle" /\ patch[p].new # patch[p].old

\* One request, so far, gave a password to a library that had none, and none
\* changed it or left it out once it was set.
Orderly ==
  /\ \A p, q \in Patches : Changing(p) /\ Changing(q) => p = q
  /\ \A p \in Patches : Changing(p) => patch[p].old = None

Interrupted == \E p \in Patches : Changing(p) /\ (patch[p].pc = "left" \/ mig[p].pc = "lost")

Snapshotted(p) == mig[p].pc \in {"running", "finished", "lost"}

\* The request is not done, its task has not listed the medias, or m is still
\* on its list.
Awaiting(m) ==
  \E p \in Patches : Changing(p) /\ (~Snapshotted(p) \/ m \in mig[p].todo)

\* Uploaded in the clear, listed by no migration: the upload read the cache
\* before the password got there and added its row after the snapshot.
Missed(m) ==
  /\ up[m].key = None
  /\ \E p \in Patches : Changing(p) /\ Snapshotted(p) /\ m \notin mig[p].snapshot

\* Encrypted by the upload and listed by the migration.
Twice(m) == up[m].key # None /\ \E p \in Patches : m \in mig[p].snapshot

Failed(m) == \E p \in Patches : m \in mig[p].errors

Readable(m) == file[m] = Layer(stored)

\* As long as the password was given once and no request left it out, each
\* media can be read with it, unless the migration has yet to reach it, was
\* interrupted or failed on it, or its upload raced the request.
FilesMatchPassword ==
  Orderly => \A m \in rows :
    Readable(m) \/ Awaiting(m) \/ Interrupted \/ Missed(m) \/ Twice(m) \/ Failed(m)

\* A crash, an error or an interrupted migration loses no file: until a second
\* request changes the password, each is as it was or wholly processed,
\* whenever the process stops.
LostOnlyByTwoChanges ==
  \A m \in rows : file[m] = Garbage =>
    \E p, q \in Patches : p # q /\ Changing(p) /\ Changing(q)

\* A media that was there in the clear when the password was set ends up
\* encrypted, unless the migration is interrupted or fails on it.
PasswordReachesFiles ==
  \A m \in Medias :
    m \in rows /\ file[m] = <<>> /\ stored # None
      ~> file[m] # <<>> \/ ~Orderly \/ Interrupted \/ Missed(m) \/ Failed(m)

-----------------------------------------------------------------------------
(* What a comment of the code claims and the code does not keep.           *)

\* update_library: "Password was removed: decrypt existing files".
DecryptsOnlyRemoved ==
  \A p \in Patches : mig[p].pc = "queued" /\ Decrypts(p) => stored = None

=============================================================================
