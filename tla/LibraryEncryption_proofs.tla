---------------------- MODULE LibraryEncryption_proofs ----------------------
(***************************************************************************)
(* Theorems about what a library holds for its users, for any number of    *)
(* requests, files, passwords, users, calls, plugins, runs, and sizes.     *)
(*                                                                         *)
(* LibraryEncryption: as long as the requests are orderly there is one     *)
(* password and one migration, everything that was read from the row or    *)
(* the cache is that password or none (StoredInv), and the content of each *)
(* file follows from the key of its upload and the migration's lists       *)
(* (FileInv).  Whatever the requests are, a file stays whole as long as    *)
(* one of them changes the encryption (WholeFacts).                        *)
(*                                                                         *)
(* Behind it, each component that MCLibraryEncryption puts beside it, with *)
(* its inductive invariant, the lemmas about its operators, one step for   *)
(* each of its actions, and the property that follows.                     *)
(***************************************************************************)
EXTENDS MCLibraryEncryption, WellFoundedInduction, TLAPS

\* A task that works has a password, and one that has a file in hand works.
TaskInv ==
  \A p \in Patches :
    /\ mig[p].pc \in {"started", "running"} => mig[p].key \in Passwords
    /\ mig[p].hand # None => mig[p].pc = "running"
    /\ patch[p].pc # "done" => mig[p].pc = "none"

\* Whatever was read of the password is the stored one or none; when nobody
\* changes it, everything read is up to date.
StoredInv ==
  /\ cached \in {None, stored}
  /\ \A p \in Patches :
       /\ patch[p].pc # "idle" => patch[p].old \in {None, stored}
       /\ patch[p].pc = "reread" => patch[p].row \in {None, stored}
       /\ Changing(p) /\ patch[p].pc = "read" => stored = None
       /\ Changing(p) /\ patch[p].pc \in {"updated", "reread", "cached", "done"}
            => stored = patch[p].new
  /\ \A m \in Medias : up[m].key \in {None, stored}
  /\ (\A p \in Patches : ~Changing(p)) =>
       /\ cached = stored
       /\ \A p \in Patches : patch[p].pc = "reread" => patch[p].row = stored
       /\ \A m \in Medias : up[m].pc # "idle" => up[m].key = stored

\* A migration belongs to a request that changed the password, and its lists
\* hold medias with a row.
MigInv ==
  \A p \in Patches :
    /\ mig[p].pc # "none" => Changing(p) /\ patch[p].pc = "done"
    /\ mig[p].pc \in {"none", "queued", "started"} => mig[p].snapshot = {}
    /\ mig[p].pc \in {"started", "running"} => mig[p].key = stored
    /\ mig[p].pc # "running" => mig[p].todo = {} /\ mig[p].hand = None
    /\ mig[p].hand # None => mig[p].hand \in mig[p].todo /\ mig[p].data = file[mig[p].hand]
    /\ mig[p].todo \subseteq mig[p].snapshot
    /\ mig[p].snapshot \subseteq rows
    /\ mig[p].errors \subseteq mig[p].snapshot \ mig[p].todo

\* The migration p has replaced m (unless it was lost).
Treated(p, m) == m \in mig[p].snapshot /\ m \notin mig[p].todo /\ m \notin mig[p].errors

\* A file is as its upload wrote it until the migration replaces it.
FileInv ==
  \A m \in Medias :
    /\ m \in rows <=> up[m].pc = "added"
    /\ up[m].pc = "written" => file[m] = Layer(up[m].key)
    /\ m \in rows /\ (\A p \in Patches : ~Treated(p, m)) => file[m] = Layer(up[m].key)
    /\ \A p \in Patches :
         m \in rows /\ Treated(p, m) /\ mig[p].pc # "lost"
           => file[m] = Encrypt(Layer(up[m].key), stored)

EncryptionInv == Orderly => StoredInv /\ MigInv /\ FileInv

-----------------------------------------------------------------------------
LEMMA InitEncryption == Init => TypeOK /\ TaskInv /\ EncryptionInv
<1>1. <<>> \in Contents
  BY DEF Contents
<1>2. Init => TypeOK
  BY <1>1 DEF Init, TypeOK, Patch, Migration, PatchStates, MigStates, UpStates, Options
<1>3. Init => TaskInv /\ EncryptionInv
  BY DEF Init, TaskInv, EncryptionInv, StoredInv, MigInv, FileInv, Treated, Changing
<1>q. QED
  BY <1>2, <1>3

LEMMA LayerType ==
  ASSUME NEW key \in Options
  PROVE  Layer(key) \in Contents /\ Layer(key) # Garbage
<1>1. CASE key = None
  <2>1. Layer(key) = <<>>
    BY <1>1 DEF Layer
  <2>2. <<>> \in Seq(Passwords)
    OBVIOUS
  <2>q. QED
    BY <2>1, <2>2, EncryptionAssumption DEF Contents
<1>2. CASE key # None
  <2>1. Layer(key) = <<key>> /\ key \in Passwords
    BY <1>2 DEF Layer, Options
  <2>2. <<key>> \in Seq(Passwords)
    BY <2>1
  <2>q. QED
    BY <2>1, <2>2, EncryptionAssumption DEF Contents
<1>q. QED
  BY <1>1, <1>2

LEMMA CipherType ==
  ASSUME NEW content \in Contents, NEW key \in Passwords
  PROVE  Encrypt(content, key) \in Contents /\ Decrypt(content, key) \in Contents
<1>1. CASE content = Garbage
  BY <1>1 DEF Encrypt, Decrypt
<1>2. CASE content # Garbage
  <2>1. content \in Seq(Passwords)
    BY <1>2 DEF Contents
  <2>2. Append(content, key) \in Seq(Passwords)
    BY <2>1
  <2>3. content # <<>> => SubSeq(content, 1, Len(content) - 1) \in Seq(Passwords)
    BY <2>1
  <2>q. QED
    BY <1>2, <2>2, <2>3 DEF Encrypt, Decrypt, Contents
<1>q. QED
  BY <1>1, <1>2

LEMMA ProcessedType ==
  ASSUME TypeOK, TaskInv, NEW p \in Patches, mig[p].hand # None
  PROVE  Processed(p) \in Contents
<1>1. mig[p].data \in Contents /\ mig[p].key \in Passwords
  BY DEF TypeOK, TaskInv, Migration
<1>q. QED
  BY <1>1, CipherType DEF Processed

LEMMA DropType ==
  ASSUME TypeOK, NEW p \in Patches, NEW m
  PROVE  [mig[p] EXCEPT !.hand = None, !.todo = @ \ {m}, !.data = <<>>] \in Migration
<1>1. mig[p] \in Migration /\ <<>> \in Contents
  BY DEF TypeOK, Contents
<1>q. QED
  BY <1>1 DEF Migration

\* What a crash leaves of a request and of a task.
LEMMA CrashPatch ==
  ASSUME TypeOK, Crash, NEW p \in Patches
  PROVE  /\ patch'[p].old = patch[p].old /\ patch'[p].new = patch[p].new
         /\ patch'[p].pc = "idle" <=> patch[p].pc = "idle"
         /\ patch'[p].pc \in {"idle", "done", "left"}
         /\ patch'[p].pc = "done" <=> patch[p].pc = "done"
<1>1. patch[p] \in Patch
  BY DEF TypeOK
<1>2. patch'[p] = IF patch[p].pc \in {"idle", "done"} THEN patch[p]
                  ELSE [patch[p] EXCEPT !.pc = "left"]
  BY DEF Crash
<1>q. QED
  BY <1>1, <1>2 DEF Patch

LEMMA CrashMig ==
  ASSUME TypeOK, Crash, NEW p \in Patches
  PROVE  /\ mig'[p].snapshot = mig[p].snapshot /\ mig'[p].errors = mig[p].errors
         /\ mig'[p].key = mig[p].key
         /\ mig'[p].pc \in {"none", "finished", "lost"}
         /\ mig'[p].pc = "none" <=> mig[p].pc = "none"
         /\ mig'[p].pc # "lost" => mig'[p] = mig[p]
         /\ mig'[p].pc = "lost" => mig'[p].todo = {} /\ mig'[p].hand = None
<1>1. mig[p] \in Migration
  BY DEF TypeOK
<1>2. mig'[p] = IF mig[p].pc \in {"none", "finished"} THEN mig[p]
       ELSE [mig[p] EXCEPT !.pc = "lost", !.hand = None, !.todo = {}, !.data = <<>>]
  BY DEF Crash
<1>3. CASE mig[p].pc \in {"none", "finished"}
  BY <1>2, <1>3
<1>4. CASE mig[p].pc \notin {"none", "finished"}
  BY <1>1, <1>2, <1>4 DEF Migration
<1>q. QED
  BY <1>3, <1>4

LEMMA TaskStep ==
  ASSUME TypeOK, TaskInv, [Next]_vars
  PROVE  TaskInv'
<1> USE EncryptionAssumption DEF TypeOK, TaskInv, Migration, Patch, Options
<1>1. ASSUME NEW p \in Patches, ReadOld(p)
      PROVE TaskInv'
  BY <1>1 DEF ReadOld
<1>2. ASSUME NEW p \in Patches, UpdateRow(p)
      PROVE TaskInv'
  BY <1>2 DEF UpdateRow
<1>3. ASSUME NEW p \in Patches, Reread(p)
      PROVE TaskInv'
  BY <1>3 DEF Reread
<1>4. ASSUME NEW p \in Patches, UpdateCache(p)
      PROVE TaskInv'
  BY <1>4 DEF UpdateCache
<1>5. ASSUME NEW p \in Patches, Schedule(p)
      PROVE TaskInv'
  BY <1>5 DEF Schedule
<1>6. ASSUME NEW p \in Patches, HangUp(p)
      PROVE TaskInv'
  BY <1>6 DEF HangUp
<1>7. ASSUME NEW p \in Patches, StartTask(p)
      PROVE TaskInv'
  BY <1>7 DEF StartTask
<1>8. ASSUME NEW p \in Patches, TakeSnapshot(p)
      PROVE TaskInv'
  BY <1>8 DEF TakeSnapshot
<1>9. ASSUME NEW p \in Patches, FinishTask(p)
      PROVE TaskInv'
  BY <1>9 DEF FinishTask
<1>10. ASSUME NEW p \in Patches, NEW m \in Medias, ReadFile(p, m)
      PROVE TaskInv'
  BY <1>10 DEF ReadFile
<1>11. ASSUME NEW p \in Patches, NEW m \in Medias, Replace(p, m)
      PROVE TaskInv'
  BY <1>11 DEF Replace, Drop
<1>12. ASSUME NEW p \in Patches, NEW m \in Medias, ProcessFails(p, m)
      PROVE TaskInv'
  BY <1>12 DEF ProcessFails, Drop
<1>13. ASSUME NEW m \in Medias, BeginUpload(m)
      PROVE TaskInv'
  BY <1>13 DEF BeginUpload
<1>14. ASSUME NEW m \in Medias, WriteFile(m)
      PROVE TaskInv'
  BY <1>14 DEF WriteFile
<1>15. ASSUME NEW m \in Medias, AddRow(m)
      PROVE TaskInv'
  BY <1>15 DEF AddRow
<1>16. ASSUME NEW m \in Medias, LoseUpload(m)
      PROVE TaskInv'
  BY <1>16 DEF LoseUpload
<1>17. CASE Crash
  <2> HIDE DEF TypeOK, Migration, Patch
  <2>q. QED
    BY <1>17, CrashPatch, CrashMig
<1>18. CASE UNCHANGED vars
  BY <1>18 DEF vars
<1>q. QED
  BY <1>1, <1>2, <1>3, <1>4, <1>5, <1>6, <1>7, <1>8, <1>9, <1>10, <1>11, <1>12, <1>13, <1>14, <1>15, <1>16, <1>17, <1>18 DEF Next, Update, Task, Upload

LEMMA TypeStep ==
  ASSUME TypeOK, TaskInv, [Next]_vars
  PROVE  TypeOK'
<1> USE EncryptionAssumption
<1>1. ASSUME NEW p \in Patches, ReadOld(p)
      PROVE TypeOK'
  <2>1. patch' \in [Patches -> Patch]
    BY <1>1 DEF ReadOld, TypeOK, Patch, PatchStates, Options
  <2>2. stored' \in Options /\ cached' \in Options
    BY <1>1 DEF ReadOld, TypeOK, Patch
  <2>q. QED
    BY <1>1, <2>1, <2>2 DEF ReadOld, TypeOK
<1>2. ASSUME NEW p \in Patches, UpdateRow(p)
      PROVE TypeOK'
  <2>1. patch' \in [Patches -> Patch]
    BY <1>2 DEF UpdateRow, TypeOK, Patch, PatchStates, Options
  <2>2. stored' \in Options /\ cached' \in Options
    BY <1>2 DEF UpdateRow, TypeOK, Patch
  <2>q. QED
    BY <1>2, <2>1, <2>2 DEF UpdateRow, TypeOK
<1>3. ASSUME NEW p \in Patches, Reread(p)
      PROVE TypeOK'
  <2>1. patch' \in [Patches -> Patch]
    BY ZenonT(60), <1>3 DEF Reread, TypeOK, Patch, PatchStates
  <2>2. stored' \in Options /\ cached' \in Options
    BY <1>3 DEF Reread, TypeOK, Patch
  <2>q. QED
    BY <1>3, <2>1, <2>2 DEF Reread, TypeOK
<1>4. ASSUME NEW p \in Patches, UpdateCache(p)
      PROVE TypeOK'
  <2>1. patch' \in [Patches -> Patch]
    BY <1>4 DEF UpdateCache, TypeOK, Patch, PatchStates
  <2>2. stored' \in Options /\ cached' \in Options
    BY <1>4 DEF UpdateCache, TypeOK, Patch
  <2>q. QED
    BY <1>4, <2>1, <2>2 DEF UpdateCache, TypeOK
<1>5. ASSUME NEW p \in Patches, Schedule(p)
      PROVE TypeOK'
  <2>1. patch' \in [Patches -> Patch]
    BY <1>5 DEF Schedule, TypeOK, Patch, PatchStates
  <2>2. [mig EXCEPT ![p].pc = "queued"] \in [Patches -> Migration]
    BY DEF TypeOK, Migration, MigStates
  <2>q. QED
    BY <1>5, <2>1, <2>2 DEF Schedule, TypeOK
<1>6. ASSUME NEW p \in Patches, HangUp(p)
      PROVE TypeOK'
  <2>1. patch' \in [Patches -> Patch]
    BY <1>6 DEF HangUp, TypeOK, Patch, PatchStates
  <2>2. stored' \in Options /\ cached' \in Options
    BY <1>6 DEF HangUp, TypeOK, Patch
  <2>q. QED
    BY <1>6, <2>1, <2>2 DEF HangUp, TypeOK
<1>7. ASSUME NEW p \in Patches, StartTask(p)
      PROVE TypeOK'
  <2>1. mig' \in [Patches -> Migration]
    BY <1>7 DEF StartTask, TypeOK, Migration, MigStates
  <2>q. QED
    BY <1>7, <2>1 DEF StartTask, TypeOK
<1>8. ASSUME NEW p \in Patches, TakeSnapshot(p)
      PROVE TypeOK'
  <2>1. mig[p] \in Migration /\ rows \in SUBSET Medias
    BY DEF TypeOK
  <2>2. [mig[p] EXCEPT !.pc = "running", !.snapshot = rows, !.todo = rows] \in Migration
    BY <2>1 DEF Migration, MigStates
  <2>3. mig' = [mig EXCEPT ![p] = [mig[p] EXCEPT !.pc = "running", !.snapshot = rows, !.todo = rows]]
    BY <1>8, <2>1, Zenon DEF TakeSnapshot, TypeOK, Migration
  <2>q. QED
    BY <1>8, <2>2, <2>3 DEF TakeSnapshot, TypeOK
<1>9. ASSUME NEW p \in Patches, FinishTask(p)
      PROVE TypeOK'
  <2>1. mig' \in [Patches -> Migration]
    BY <1>9 DEF FinishTask, TypeOK, Migration, MigStates
  <2>q. QED
    BY <1>9, <2>1 DEF FinishTask, TypeOK
<1>10. ASSUME NEW p \in Patches, NEW m \in Medias, ReadFile(p, m)
      PROVE TypeOK'
  <2>1. mig[p] \in Migration /\ rows \in SUBSET Medias /\ file[m] \in Contents
    BY DEF TypeOK
  <2>2. [mig[p] EXCEPT !.hand = m, !.data = file[m]] \in Migration
    BY <2>1 DEF Migration, MigStates
  <2>3. mig' = [mig EXCEPT ![p] = [mig[p] EXCEPT !.hand = m, !.data = file[m]]]
    BY <1>10, <2>1, Zenon DEF ReadFile, TypeOK, Migration
  <2>q. QED
    BY <1>10, <2>2, <2>3 DEF ReadFile, TypeOK
<1>11. ASSUME NEW p \in Patches, NEW m \in Medias, Replace(p, m)
      PROVE TypeOK'
  <2>1. Drop(p, m)[p] = [mig[p] EXCEPT !.hand = None, !.todo = @ \ {m}, !.data = <<>>]
    BY DEF Drop, TypeOK, Migration
  <2>2. \A q \in Patches : [mig[q] EXCEPT !.todo = @ \ {m}] \in Migration
    BY DEF TypeOK, Migration
  <2>a. Drop(p, m)[p] \in Migration /\ \A q \in Patches : mig[q] \in Migration
    <3>1. [mig[p] EXCEPT !.hand = None, !.todo = @ \ {m}, !.data = <<>>] \in Migration
      BY DropType
    <3>2. Drop(p, m)[p] \in Migration
      BY <2>1, <3>1, Zenon
    <3>q. QED
      BY <3>2 DEF TypeOK
  <2>3. mig' \in [Patches -> Migration]
    BY <1>11, <2>a, <2>2 DEF Replace
  <2>4. Garbage \in Contents /\ Processed(p) \in Contents
    BY <1>11, ProcessedType DEF Replace, Contents
  <2>5. file' \in [Medias -> Contents]
    BY <1>11, <2>4 DEF Replace, TypeOK
  <2>q. QED
    BY <1>11, <2>3, <2>5 DEF Replace, TypeOK
<1>12. ASSUME NEW p \in Patches, NEW m \in Medias, ProcessFails(p, m)
      PROVE TypeOK'
  <2> DEFINE dropped == [mig[p] EXCEPT !.hand = None, !.todo = @ \ {m}, !.data = <<>>]
  <2>1. Drop(p, m) \in [Patches -> Migration]
    <3>1. dropped \in Migration
      BY DropType
    <3>2. Drop(p, m) = [mig EXCEPT ![p] = dropped]
      BY Zenon DEF Drop, TypeOK, Migration
    <3> HIDE DEF dropped
    <3>q. QED
      BY <3>1, <3>2 DEF TypeOK
  <2>2. mig' \in [Patches -> Migration]
    BY <1>12, <2>1 DEF ProcessFails, Migration
  <2>3. Garbage \in Contents /\ file[m] \in Contents
    BY DEF Contents, TypeOK
  <2>4. file' \in [Medias -> Contents]
    BY <1>12, <2>3 DEF ProcessFails, TypeOK
  <2>q. QED
    BY <1>12, <2>2, <2>4 DEF ProcessFails, TypeOK
<1>13. ASSUME NEW m \in Medias, BeginUpload(m)
      PROVE TypeOK'
  BY <1>13 DEF BeginUpload, TypeOK, UpStates
<1>14. ASSUME NEW m \in Medias, WriteFile(m)
      PROVE TypeOK'
  <2>1. Layer(up[m].key) \in Contents
    BY LayerType DEF TypeOK
  <2>q. QED
    BY <1>14, <2>1 DEF WriteFile, TypeOK, UpStates
<1>15. ASSUME NEW m \in Medias, AddRow(m)
      PROVE TypeOK'
  BY <1>15 DEF AddRow, TypeOK, UpStates
<1>16. ASSUME NEW m \in Medias, LoseUpload(m)
      PROVE TypeOK'
  BY <1>16 DEF LoseUpload, TypeOK, UpStates
<1>17. CASE Crash
  <2>0. <<>> \in Contents
    BY DEF Contents
  <2>1. patch' \in [Patches -> Patch]
    BY <1>17 DEF Crash, TypeOK, Patch, PatchStates
  <2>a. \A p \in Patches :
          [mig[p] EXCEPT !.pc = "lost", !.hand = None, !.todo = {}, !.data = <<>>] \in Migration
    BY <2>0 DEF TypeOK, Migration, MigStates
  <2>2. mig' \in [Patches -> Migration]
    BY <1>17, <2>a DEF Crash, TypeOK
  <2>3. up' \in [Medias -> [pc : UpStates, key : Options]]
    BY <1>17 DEF Crash, TypeOK, UpStates
  <2>q. QED
    BY <1>17, <2>1, <2>2, <2>3 DEF Crash, TypeOK
<1>18. CASE UNCHANGED vars
  BY <1>18 DEF vars, TypeOK, UpStates
<1>q. QED
  BY <1>1, <1>2, <1>3, <1>4, <1>5, <1>6, <1>7, <1>8, <1>9, <1>10, <1>11, <1>12, <1>13, <1>14, <1>15, <1>16, <1>17, <1>18 DEF Next, Update, Task, Upload

LEMMA ChangingStep ==
  ASSUME TypeOK, [Next]_vars
  PROVE  /\ \A p \in Patches : Changing(p) => Changing(p)'
         /\ Orderly' => Orderly
<1> USE DEF TypeOK, Patch, Changing
<1>a. \A x \in Patches : Changing(x) => Changing(x)' /\ patch'[x].old = patch[x].old
  <2>1. ASSUME NEW p \in Patches, ReadOld(p)
        PROVE \A x \in Patches : Changing(x) => Changing(x)' /\ patch'[x].old = patch[x].old
    BY <2>1 DEF ReadOld
  <2>2. ASSUME NEW p \in Patches, UpdateRow(p)
        PROVE \A x \in Patches : Changing(x) => Changing(x)' /\ patch'[x].old = patch[x].old
    BY <2>2 DEF UpdateRow
  <2>3. ASSUME NEW p \in Patches, Reread(p)
        PROVE \A x \in Patches : Changing(x) => Changing(x)' /\ patch'[x].old = patch[x].old
    BY <2>3 DEF Reread
  <2>4. ASSUME NEW p \in Patches, UpdateCache(p)
        PROVE \A x \in Patches : Changing(x) => Changing(x)' /\ patch'[x].old = patch[x].old
    BY <2>4 DEF UpdateCache
  <2>5. ASSUME NEW p \in Patches, Schedule(p)
        PROVE \A x \in Patches : Changing(x) => Changing(x)' /\ patch'[x].old = patch[x].old
    BY <2>5 DEF Schedule
  <2>6. ASSUME NEW p \in Patches, HangUp(p)
        PROVE \A x \in Patches : Changing(x) => Changing(x)' /\ patch'[x].old = patch[x].old
    BY <2>6 DEF HangUp
  <2>7. ASSUME NEW p \in Patches, StartTask(p)
        PROVE \A x \in Patches : Changing(x) => Changing(x)' /\ patch'[x].old = patch[x].old
    BY <2>7 DEF StartTask
  <2>8. ASSUME NEW p \in Patches, TakeSnapshot(p)
        PROVE \A x \in Patches : Changing(x) => Changing(x)' /\ patch'[x].old = patch[x].old
    BY <2>8 DEF TakeSnapshot
  <2>9. ASSUME NEW p \in Patches, FinishTask(p)
        PROVE \A x \in Patches : Changing(x) => Changing(x)' /\ patch'[x].old = patch[x].old
    BY <2>9 DEF FinishTask
  <2>10. ASSUME NEW p \in Patches, NEW m \in Medias, ReadFile(p, m)
        PROVE \A x \in Patches : Changing(x) => Changing(x)' /\ patch'[x].old = patch[x].old
    BY <2>10 DEF ReadFile
  <2>11. ASSUME NEW p \in Patches, NEW m \in Medias, Replace(p, m)
        PROVE \A x \in Patches : Changing(x) => Changing(x)' /\ patch'[x].old = patch[x].old
    BY <2>11 DEF Replace
  <2>12. ASSUME NEW p \in Patches, NEW m \in Medias, ProcessFails(p, m)
        PROVE \A x \in Patches : Changing(x) => Changing(x)' /\ patch'[x].old = patch[x].old
    BY <2>12 DEF ProcessFails
  <2>13. ASSUME NEW m \in Medias, BeginUpload(m)
        PROVE \A x \in Patches : Changing(x) => Changing(x)' /\ patch'[x].old = patch[x].old
    BY <2>13 DEF BeginUpload
  <2>14. ASSUME NEW m \in Medias, WriteFile(m)
        PROVE \A x \in Patches : Changing(x) => Changing(x)' /\ patch'[x].old = patch[x].old
    BY <2>14 DEF WriteFile
  <2>15. ASSUME NEW m \in Medias, AddRow(m)
        PROVE \A x \in Patches : Changing(x) => Changing(x)' /\ patch'[x].old = patch[x].old
    BY <2>15 DEF AddRow
  <2>16. ASSUME NEW m \in Medias, LoseUpload(m)
        PROVE \A x \in Patches : Changing(x) => Changing(x)' /\ patch'[x].old = patch[x].old
    BY <2>16 DEF LoseUpload
  <2>17. CASE Crash
    BY <2>17 DEF Crash
  <2>18. CASE UNCHANGED vars
    BY <2>18 DEF vars
  <2>q. QED
    BY <2>1, <2>2, <2>3, <2>4, <2>5, <2>6, <2>7, <2>8, <2>9, <2>10, <2>11, <2>12, <2>13, <2>14, <2>15, <2>16, <2>17, <2>18 DEF Next, Update, Task, Upload
<1>q. QED
  BY <1>a DEF Orderly

\* And of an upload.
LEMMA CrashUp ==
  ASSUME TypeOK, Crash, NEW m \in Medias
  PROVE  /\ up'[m].key = up[m].key
         /\ up'[m].pc = "idle" <=> up[m].pc = "idle"
         /\ up'[m].pc = "added" <=> up[m].pc = "added"
         /\ up'[m].pc # "written"
<1>1. up[m] \in [pc : UpStates, key : Options]
  BY DEF TypeOK
<1>2. up'[m] = IF up[m].pc \in {"writing", "written"} THEN [up[m] EXCEPT !.pc = "lost"] ELSE up[m]
  BY DEF Crash
<1>q. QED
  BY <1>1, <1>2 DEF UpStates

LEMMA StoredInvStep ==
  ASSUME TypeOK, TypeOK', TaskInv, Orderly, Orderly', StoredInv, MigInv, FileInv, [Next]_vars
  PROVE  StoredInv'
<1> USE EncryptionAssumption DEF StoredInv, TypeOK, Patch, Changing, Options
<1>1. ASSUME NEW p \in Patches, ReadOld(p)
      PROVE StoredInv'
  BY <1>1 DEF ReadOld, Orderly
<1>2. ASSUME NEW p \in Patches, UpdateRow(p)
      PROVE StoredInv'
  BY <1>2 DEF UpdateRow, Orderly
<1>3. ASSUME NEW p \in Patches, Reread(p)
      PROVE StoredInv'
  BY <1>3 DEF Reread, Orderly
<1>4. ASSUME NEW p \in Patches, UpdateCache(p)
      PROVE StoredInv'
  BY <1>4 DEF UpdateCache, Orderly
<1>5. ASSUME NEW p \in Patches, Schedule(p)
      PROVE StoredInv'
  BY <1>5 DEF Schedule, Orderly
<1>6. ASSUME NEW p \in Patches, HangUp(p)
      PROVE StoredInv'
  BY <1>6 DEF HangUp, Orderly
<1>7. ASSUME NEW p \in Patches, StartTask(p)
      PROVE StoredInv'
  BY <1>7 DEF StartTask, Orderly
<1>8. ASSUME NEW p \in Patches, TakeSnapshot(p)
      PROVE StoredInv'
  BY <1>8 DEF TakeSnapshot, Orderly
<1>9. ASSUME NEW p \in Patches, FinishTask(p)
      PROVE StoredInv'
  BY <1>9 DEF FinishTask, Orderly
<1>10. ASSUME NEW p \in Patches, NEW m \in Medias, ReadFile(p, m)
      PROVE StoredInv'
  BY <1>10 DEF ReadFile, Orderly
<1>11. ASSUME NEW p \in Patches, NEW m \in Medias, Replace(p, m)
      PROVE StoredInv'
  BY <1>11 DEF Replace, Orderly
<1>12. ASSUME NEW p \in Patches, NEW m \in Medias, ProcessFails(p, m)
      PROVE StoredInv'
  BY <1>12 DEF ProcessFails, Orderly
<1>13. ASSUME NEW m \in Medias, BeginUpload(m)
      PROVE StoredInv'
  BY <1>13 DEF BeginUpload, Orderly
<1>14. ASSUME NEW m \in Medias, WriteFile(m)
      PROVE StoredInv'
  BY <1>14 DEF WriteFile, Orderly
<1>15. ASSUME NEW m \in Medias, AddRow(m)
      PROVE StoredInv'
  BY <1>15 DEF AddRow, Orderly
<1>16. ASSUME NEW m \in Medias, LoseUpload(m)
      PROVE StoredInv'
  BY <1>16 DEF LoseUpload, Orderly
<1>17. CASE Crash
  <2>1. stored' = stored /\ cached' = stored
    BY <1>17 DEF Crash
  <2> HIDE DEF TypeOK
  <2>q. QED
    BY <1>17, <2>1, CrashPatch, CrashUp
<1>18. CASE UNCHANGED vars
  BY <1>18 DEF vars, Orderly
<1>q. QED
  BY <1>1, <1>2, <1>3, <1>4, <1>5, <1>6, <1>7, <1>8, <1>9, <1>10, <1>11, <1>12, <1>13, <1>14, <1>15, <1>16, <1>17, <1>18 DEF Next, Update, Task, Upload

LEMMA MigInvStep ==
  ASSUME TypeOK, TypeOK', TaskInv, Orderly, Orderly', StoredInv, MigInv, FileInv, [Next]_vars
  PROVE  MigInv'
<1> USE EncryptionAssumption DEF MigInv, TypeOK, Patch, Migration, Changing, Options
<1>1. ASSUME NEW p \in Patches, ReadOld(p)
      PROVE MigInv'
  BY <1>1 DEF ReadOld
<1>2. ASSUME NEW p \in Patches, UpdateRow(p)
      PROVE MigInv'
  BY <1>2 DEF UpdateRow, Orderly, StoredInv
<1>3. ASSUME NEW p \in Patches, Reread(p)
      PROVE MigInv'
  BY <1>3 DEF Reread
<1>4. ASSUME NEW p \in Patches, UpdateCache(p)
      PROVE MigInv'
  BY <1>4 DEF UpdateCache
<1>5. ASSUME NEW p \in Patches, Schedule(p)
      PROVE MigInv'
  <2>1. mig[p].pc = "none"
    BY <1>5 DEF Schedule, TaskInv
  <2>2. CASE mig' = mig
    BY <1>5, <2>2 DEF Schedule
  <2>3. CASE mig' = [mig EXCEPT ![p].pc = "queued"] /\ patch[p].new # patch[p].old
    BY <1>5, <2>1, <2>3 DEF Schedule
  <2>q. QED
    BY <1>5, <2>2, <2>3 DEF Schedule
<1>6. ASSUME NEW p \in Patches, HangUp(p)
      PROVE MigInv'
  BY <1>6 DEF HangUp
<1>7. ASSUME NEW p \in Patches, StartTask(p)
      PROVE MigInv'
  BY <1>7 DEF StartTask, Orderly, StoredInv
<1>8. ASSUME NEW p \in Patches, TakeSnapshot(p)
      PROVE MigInv'
  BY <1>8 DEF TakeSnapshot, Orderly, StoredInv
<1>9. ASSUME NEW p \in Patches, FinishTask(p)
      PROVE MigInv'
  BY <1>9 DEF FinishTask, Orderly, StoredInv
<1>10. ASSUME NEW p \in Patches, NEW m \in Medias, ReadFile(p, m)
      PROVE MigInv'
  BY <1>10 DEF ReadFile, Orderly, StoredInv
<1>11. ASSUME NEW p \in Patches, NEW m \in Medias, Replace(p, m)
      PROVE MigInv'
  <2>1. \A q \in Patches : q # p => mig[q].pc = "none" /\ mig[q].todo = {} /\ mig[q].hand = None
    BY <1>11 DEF Replace, Orderly
  <2>2. \A q \in Patches : q # p =>
          /\ mig'[q].pc = "none" /\ mig'[q].todo = {} /\ mig'[q].hand = None
          /\ mig'[q].snapshot = mig[q].snapshot /\ mig'[q].errors = mig[q].errors
    <3> SUFFICES ASSUME NEW q \in Patches, q # p
                 PROVE  /\ mig'[q].pc = "none" /\ mig'[q].todo = {} /\ mig'[q].hand = None
                        /\ mig'[q].snapshot = mig[q].snapshot /\ mig'[q].errors = mig[q].errors
      OBVIOUS
    <3>1. mig'[q] = IF m \in Remote /\ mig[q].hand # m THEN [mig[q] EXCEPT !.todo = @ \ {m}]
                    ELSE mig[q]
      BY <1>11 DEF Replace
    <3>2. mig[q] \in Migration
      BY DEF TypeOK
    <3> HIDE DEF TypeOK
    <3>q. QED
      BY <2>1, <3>1, <3>2 DEF Migration
  <2>3. /\ mig'[p].pc = mig[p].pc /\ mig'[p].key = mig[p].key /\ mig'[p].hand = None
        /\ mig'[p].todo = mig[p].todo \ {m} /\ mig'[p].snapshot = mig[p].snapshot
        /\ mig'[p].errors = mig[p].errors
    BY <1>11 DEF Replace, Drop
  <2>4. patch' = patch /\ stored' = stored /\ rows' = rows
    BY <1>11 DEF Replace
  <2> HIDE DEF TypeOK
  <2>q. QED
    BY <1>11, <2>1, <2>2, <2>3, <2>4
<1>12. ASSUME NEW p \in Patches, NEW m \in Medias, ProcessFails(p, m)
      PROVE MigInv'
  <2>a. mig \in [Patches -> Migration]
    BY DEF TypeOK
  <2>b. m = mig[p].hand /\ m # None
    BY <1>12 DEF ProcessFails
  <2>c. mig' = [Drop(p, m) EXCEPT ![p].errors = @ \cup {m}]
    BY <1>12 DEF ProcessFails
  <2>d. \A q \in Patches : q # p => mig[q].hand = None
    BY <2>b DEF Orderly
  <2>e. mig[p].hand # None => mig[p].hand \in mig[p].todo
    BY DEF MigInv
  <2>3. patch' = patch /\ stored' = stored /\ rows' = rows
    BY <1>12 DEF ProcessFails
  <2> HIDE DEF TypeOK
  <2>f. m \in mig[p].todo
    BY <2>b, <2>e
  <2>1. \A q \in Patches : q # p => mig'[q] = mig[q] /\ mig[q].hand = None
    BY <2>a, <2>c, <2>d DEF Drop
  <2>2. /\ mig'[p].pc = mig[p].pc /\ mig'[p].key = mig[p].key /\ mig'[p].hand = None
        /\ mig'[p].todo = mig[p].todo \ {m} /\ mig'[p].snapshot = mig[p].snapshot
        /\ mig'[p].errors = mig[p].errors \cup {m}
    <3>1. mig'[p] = [[mig[p] EXCEPT !.hand = None, !.todo = @ \ {m}, !.data = <<>>]
                       EXCEPT !.errors = @ \cup {m}]
      BY <2>a, <2>c DEF Drop
    <3>2. mig[p] \in Migration
      BY <2>a
    <3> QED
      BY <3>1, <3>2 DEF Migration
  <2>q. QED
    BY <1>12, <2>1, <2>2, <2>3, <2>f
<1>13. ASSUME NEW m \in Medias, BeginUpload(m)
      PROVE MigInv'
  BY <1>13 DEF BeginUpload
<1>14. ASSUME NEW m \in Medias, WriteFile(m)
      PROVE MigInv'
  BY <1>14 DEF WriteFile, FileInv
<1>15. ASSUME NEW m \in Medias, AddRow(m)
      PROVE MigInv'
  BY <1>15 DEF AddRow, Orderly, StoredInv
<1>16. ASSUME NEW m \in Medias, LoseUpload(m)
      PROVE MigInv'
  BY <1>16 DEF LoseUpload
<1>17. CASE Crash
  <2>1. rows' = rows /\ file' = file /\ stored' = stored
    BY <1>17 DEF Crash
  <2> HIDE DEF TypeOK
  <2>q. QED
    BY <1>17, <2>1, CrashPatch, CrashMig
<1>18. CASE UNCHANGED vars
  BY <1>18 DEF vars, Orderly, StoredInv
<1>q. QED
  BY <1>1, <1>2, <1>3, <1>4, <1>5, <1>6, <1>7, <1>8, <1>9, <1>10, <1>11, <1>12, <1>13, <1>14, <1>15, <1>16, <1>17, <1>18 DEF Next, Update, Task, Upload

LEMMA FileInvStep ==
  ASSUME TypeOK, TypeOK', TaskInv, Orderly, Orderly', StoredInv, MigInv, FileInv, [Next]_vars
  PROVE  FileInv'
<1> USE EncryptionAssumption DEF FileInv, TypeOK, Migration, Treated
<1>1. ASSUME NEW p \in Patches, ReadOld(p)
      PROVE FileInv'
  BY <1>1 DEF ReadOld, StoredInv, MigInv
<1>2. ASSUME NEW p \in Patches, UpdateRow(p)
      PROVE FileInv'
  <2>1. stored' = stored \/ \A q \in Patches : mig[q].pc = "none"
    BY <1>2 DEF UpdateRow, MigInv, StoredInv, Orderly, Changing, Patch
  <2>2. \A q \in Patches, x \in Medias : mig[q].pc = "none" => ~Treated(q, x)
    BY DEF MigInv
  <2>q. QED
    BY <1>2, <2>1, <2>2 DEF UpdateRow
<1>3. ASSUME NEW p \in Patches, Reread(p)
      PROVE FileInv'
  BY <1>3 DEF Reread, StoredInv, MigInv
<1>4. ASSUME NEW p \in Patches, UpdateCache(p)
      PROVE FileInv'
  BY <1>4 DEF UpdateCache, StoredInv, MigInv
<1>5. ASSUME NEW p \in Patches, Schedule(p)
      PROVE FileInv'
  <2>1. \A q \in Patches : /\ mig'[q].snapshot = mig[q].snapshot /\ mig'[q].todo = mig[q].todo
                           /\ mig'[q].errors = mig[q].errors
                           /\ mig'[q].pc # mig[q].pc => mig[q].pc = "none" /\ mig[q].snapshot = {}
    <3>1. mig' = mig \/ mig' = [mig EXCEPT ![p].pc = "queued"]
      BY <1>5 DEF Schedule
    <3>2. mig[p].pc = "none" /\ mig[p].snapshot = {}
      BY <1>5 DEF Schedule, TaskInv, MigInv
    <3>q. QED
      BY <3>1, <3>2
  <2>2. \A q \in Patches, x \in Medias : Treated(q, x)' <=> Treated(q, x)
    BY <2>1
  <2>3. \A q \in Patches, x \in Medias : Treated(q, x) => mig'[q].pc = mig[q].pc
    BY <2>1
  <2>4. file' = file /\ up' = up /\ rows' = rows /\ stored' = stored
    BY <1>5 DEF Schedule
  <2> HIDE DEF TypeOK, Treated
  <2>q. QED
    BY <2>2, <2>3, <2>4
<1>6. ASSUME NEW p \in Patches, HangUp(p)
      PROVE FileInv'
  BY <1>6 DEF HangUp, StoredInv, MigInv
<1>7. ASSUME NEW p \in Patches, StartTask(p)
      PROVE FileInv'
  BY <1>7 DEF StartTask, StoredInv, MigInv
<1>8. ASSUME NEW p \in Patches, TakeSnapshot(p)
      PROVE FileInv'
  BY <1>8 DEF TakeSnapshot, StoredInv, MigInv
<1>9. ASSUME NEW p \in Patches, FinishTask(p)
      PROVE FileInv'
  BY <1>9 DEF FinishTask, StoredInv, MigInv
<1>10. ASSUME NEW p \in Patches, NEW m \in Medias, ReadFile(p, m)
      PROVE FileInv'
  <2>1. \A q \in Patches, x \in Medias : Treated(q, x)' <=> Treated(q, x)
    BY <1>10 DEF ReadFile
  <2>2. \A q \in Patches : mig'[q].pc = mig[q].pc
    BY <1>10 DEF ReadFile
  <2> HIDE DEF TypeOK, Treated
  <2>q. QED
    BY <1>10, <2>1, <2>2 DEF ReadFile
<1>11. ASSUME NEW p \in Patches, NEW m \in Medias, Replace(p, m)
      PROVE FileInv'
  <2>1. \A q \in Patches : q # p => mig[q].snapshot = {} /\ mig[q].hand = None
    BY <1>11 DEF Replace, MigInv, Orderly
  <2>2. /\ m \in rows /\ m \in mig[p].todo /\ m \in mig[p].snapshot /\ m \notin mig[p].errors
        /\ mig[p].data = file[m] /\ mig[p].key = stored /\ mig[p].pc = "running" /\ ~Decrypts(p)
    BY <1>11 DEF Replace, MigInv, Orderly, Decrypts, Changing, Patch
  <2>3. file[m] = Layer(up[m].key)
    BY <2>1, <2>2
  <2>4. Processed(p) = Encrypt(Layer(up[m].key), stored) /\ ~SharesTemp(p, m)
    BY <2>1, <2>2, <2>3 DEF Processed, SharesTemp
  <2>5. file' = [file EXCEPT ![m] = Encrypt(Layer(up[m].key), stored)]
    BY <1>11, <2>4 DEF Replace
  <2>6. \A q \in Patches : q # p => mig'[q].snapshot = {}
    BY <1>11, <2>1 DEF Replace
  <2>7. /\ mig'[p].snapshot = mig[p].snapshot /\ mig'[p].errors = mig[p].errors
        /\ mig'[p].todo = mig[p].todo \ {m} /\ mig'[p].pc = mig[p].pc
    BY <1>11 DEF Replace, Drop
  <2>8. stored' = stored /\ up' = up /\ rows' = rows
    BY <1>11 DEF Replace
  <2>9. \A q \in Patches, x \in Medias :
          /\ q # p => ~Treated(q, x) /\ ~Treated(q, x)'
          /\ x # m => (Treated(q, x)' <=> Treated(q, x))
          /\ Treated(p, m)' /\ ~Treated(p, m)
    BY <2>1, <2>2, <2>6, <2>7
  <2>10. up[m].pc = "added"
    BY <2>2
  <2>11. \A x \in Medias : file'[x] = IF x = m THEN Encrypt(Layer(up[m].key), stored) ELSE file[x]
    BY <2>5
  <2> HIDE DEF TypeOK, Treated
  <2>q. QED
    BY <2>7, <2>8, <2>9, <2>10, <2>11
<1>12. ASSUME NEW p \in Patches, NEW m \in Medias, ProcessFails(p, m)
      PROVE FileInv'
  <2>1. \A q \in Patches : q # p => mig'[q] = mig[q] /\ mig[q].hand = None
    BY <1>12 DEF ProcessFails, Drop, MigInv, Orderly
  <2>2. ~SharesTemp(p, m) /\ m \in mig[p].todo
    BY <1>12, <2>1 DEF SharesTemp, ProcessFails, MigInv
  <2>3. /\ mig'[p].snapshot = mig[p].snapshot /\ mig'[p].errors = mig[p].errors \cup {m}
        /\ mig'[p].todo = mig[p].todo \ {m} /\ mig'[p].pc = mig[p].pc
    BY <1>12 DEF ProcessFails, Drop
  <2>4. \A q \in Patches, x \in Medias : Treated(q, x)' <=> Treated(q, x)
    BY <2>1, <2>2, <2>3
  <2>5. file' = file /\ stored' = stored /\ up' = up /\ rows' = rows
    BY <1>12, <2>2 DEF ProcessFails
  <2>6. \A q \in Patches : mig'[q].pc = mig[q].pc
    BY <2>1, <2>3
  <2> HIDE DEF TypeOK, Treated
  <2>q. QED
    BY <2>4, <2>5, <2>6
<1>13. ASSUME NEW m \in Medias, BeginUpload(m)
      PROVE FileInv'
  BY <1>13 DEF BeginUpload, StoredInv, MigInv
<1>14. ASSUME NEW m \in Medias, WriteFile(m)
      PROVE FileInv'
  BY <1>14 DEF WriteFile, StoredInv, MigInv
<1>15. ASSUME NEW m \in Medias, AddRow(m)
      PROVE FileInv'
  BY <1>15 DEF AddRow, StoredInv, MigInv
<1>16. ASSUME NEW m \in Medias, LoseUpload(m)
      PROVE FileInv'
  BY <1>16 DEF LoseUpload, StoredInv, MigInv
<1>17. CASE Crash
  <2>1. file' = file /\ stored' = stored /\ rows' = rows
    BY <1>17 DEF Crash
  <2> HIDE DEF TypeOK
  <2>2. \A q \in Patches, x \in Medias : Treated(q, x) => Treated(q, x)'
    BY <1>17, CrashMig
  <2>3. \A q \in Patches, x \in Medias : mig'[q].pc # "lost" /\ Treated(q, x)' =>
          Treated(q, x) /\ mig[q].pc # "lost"
    BY <1>17, CrashMig
  <2> HIDE DEF Treated
  <2>q. QED
    BY <1>17, <2>1, <2>2, <2>3, CrashUp
<1>18. CASE UNCHANGED vars
  BY <1>18 DEF vars, StoredInv, MigInv
<1>q. QED
  BY <1>1, <1>2, <1>3, <1>4, <1>5, <1>6, <1>7, <1>8, <1>9, <1>10, <1>11, <1>12, <1>13, <1>14, <1>15, <1>16, <1>17, <1>18 DEF Next, Update, Task, Upload

\* Everything stays of its type, and while the requests are orderly the
\* content of each file follows from the key of its upload and the migration.
THEOREM TypeCorrect == Spec => [](TypeOK /\ TaskInv /\ EncryptionInv)
<1>1. TypeOK /\ TaskInv /\ EncryptionInv /\ [Next]_vars => (TypeOK /\ TaskInv /\ EncryptionInv)'
  <2> SUFFICES ASSUME TypeOK, TaskInv, EncryptionInv, [Next]_vars
               PROVE  (TypeOK /\ TaskInv /\ EncryptionInv)'
    OBVIOUS
  <2>1. TypeOK' /\ TaskInv'
    BY TypeStep, TaskStep
  <2>2. ASSUME Orderly'
        PROVE  (StoredInv /\ MigInv /\ FileInv)'
    <3>1. Orderly /\ StoredInv /\ MigInv /\ FileInv
      BY <2>2, ChangingStep DEF EncryptionInv
    <3>q. QED
      BY <2>1, <2>2, <3>1, StoredInvStep, MigInvStep, FileInvStep
  <2>q. QED
    BY <2>1, <2>2 DEF EncryptionInv
<1>q. QED
  BY <1>1, InitEncryption, PTL DEF Spec

\* With orderly requests each media can be read with the stored password,
\* except in the cases the property names.
THEOREM PasswordCorrect == Spec => []FilesMatchPassword
<1>1. TypeOK /\ EncryptionInv => FilesMatchPassword
  <2> SUFFICES ASSUME TypeOK, EncryptionInv, Orderly, NEW m \in rows, ~Awaiting(m),
                      ~Interrupted, ~Missed(m), ~Twice(m), ~Failed(m)
               PROVE  Readable(m)
    BY DEF FilesMatchPassword
  <2>1. m \in Medias /\ StoredInv /\ MigInv /\ FileInv
    BY DEF TypeOK, EncryptionInv
  <2>2. CASE \A p \in Patches : ~Changing(p)
    <3>1. up[m].key = stored
      BY <2>1, <2>2 DEF StoredInv, FileInv
    <3>2. \A p \in Patches : ~Treated(p, m)
      BY <2>1, <2>2 DEF MigInv, Treated
    <3>q. QED
      BY <2>1, <3>1, <3>2 DEF FileInv, Readable
  <2>3. ASSUME NEW p \in Patches, Changing(p)
        PROVE  Readable(m)
    <3>1. mig[p].pc \in {"running", "finished"} /\ m \notin mig[p].todo /\ m \notin mig[p].errors
      BY <2>3 DEF Awaiting, Interrupted, Failed, Snapshotted
    <3>2. \A q \in Patches : q # p => ~Treated(q, m)
      BY <2>1, <2>3 DEF Orderly, MigInv, Treated
    <3>3. CASE m \in mig[p].snapshot
      <4>1. up[m].key = None /\ stored # None
        <5>1. up[m].key = None
          BY <3>3 DEF Twice
        <5>2. stored = patch[p].new /\ patch[p].new # None
          BY <2>1, <2>3, <3>1 DEF MigInv, StoredInv, Changing, Orderly
        <5>q. QED
          BY <5>1, <5>2
      <4>2. file[m] = Encrypt(Layer(None), stored)
        BY <2>1, <3>1, <3>3, <4>1 DEF FileInv, Treated
      <4>3. Layer(None) # Garbage
        BY LayerType DEF Options
      <4>4. Encrypt(Layer(None), stored) = <<stored>>
        BY <4>3 DEF Encrypt, Layer
      <4>q. QED
        BY <4>1, <4>2, <4>4 DEF Readable, Layer
    <3>4. CASE m \notin mig[p].snapshot
      <4>1. up[m].key = stored
        BY <2>1, <2>3, <3>1, <3>4 DEF Missed, Snapshotted, StoredInv
      <4>q. QED
        BY <2>1, <3>2, <3>4, <4>1 DEF FileInv, Treated, Readable
    <3>q. QED
      BY <3>3, <3>4
  <2>q. QED
    BY <2>2, <2>3
<1>q. QED
  BY <1>1, TypeCorrect, PTL

-----------------------------------------------------------------------------
(* ViewProgress.                                                           *)

\* The mappings that a library has for its users.
Maps == Seq(Viewing!UserMapping)

\* What a call carries.
ViewCall == [pc : {"idle", "writing", "ended", "failed"},
             op : {"progress", "watched", "unwatched", "position", "rating", None},
             user : Tasks \cup {None}, merged : BOOLEAN, left : SUBSET Tasks]

\* The types of the mappings, the tables and the calls.
ViewType ==
  /\ map_progress \in Maps
  /\ DOMAIN progress = Tasks /\ DOMAIN watched = Tasks
  /\ DOMAIN position = Tasks /\ DOMAIN rating = Tasks
  /\ call \in [Callers -> ViewCall]
  /\ last \in Callers \cup {None} /\ overlapped \subseteq Callers

\* Those that a call is to write to.
Whom(c) ==
  IF call[c].merged THEN Viewing!get_library_progress_merged_users(call[c].user)
  ELSE {Viewing!get_library_mapped_user(call[c].user)}

\* Those of them it has written to have what it wrote.
Wrote(c) ==
  \A u \in Whom(c) \ call[c].left :
    /\ call[c].merged =>
         /\ call[c].op \in {"progress", "watched", "unwatched"}
         /\ call[c].op = "progress"  => progress[u] = c
         /\ call[c].op = "watched"   => watched[u] = c /\ progress[u] = None
         /\ call[c].op = "unwatched" => watched[u] = None
    /\ call[c].op = "position" => position[u] = c
    /\ call[c].op = "rating"   => rating[u] = c

\* A call that met nobody is alone, and so is the last one, which is over.
AloneInv ==
  /\ \A c \in Callers : Viewing!Active(c) /\ c \notin overlapped =>
       /\ \A d \in Callers : Viewing!Active(d) => d = c
       /\ Wrote(c)
  /\ last # None =>
       /\ \A d \in Callers : ~ Viewing!Active(d)
       /\ call[last].left = {} /\ Wrote(last)

\* What is written to those who are linked, and what to one row.
KindInv ==
  \A c \in Callers :
    /\ call[c].merged => call[c].op \in {"progress", "watched", "unwatched"}
    /\ call[c].op \in {"position", "rating"} => ~ call[c].merged
    /\ Viewing!Active(c) \/ c = last => call[c].user \in Tasks

\* The inductive invariant of ViewProgress.
ViewInv == ViewType /\ AloneInv /\ KindInv

\* A set of positions has a first one.
LEMMA LeastOf ==
  ASSUME NEW S, S \subseteq Nat, S # {}
  PROVE  \E n \in S : \A m \in S : n <= m
  <1> DEFINE R == {ss \in Nat \X Nat : ss[1] < ss[2]}
  <1>1. IsWellFoundedOn(R, Nat)
    BY NatLessThanWellFounded DEF OpToRel
  <1>2. \A m, n \in Nat : <<m, n>> \in R <=> m < n
    OBVIOUS
  <1> HIDE DEF R
  <1>3. PICK n \in S : \A m \in S : ~ (<<m, n>> \in R)
    BY <1>1, WFMin
  <1>4. ASSUME NEW m \in S PROVE n <= m
    <2>1. m \in Nat /\ n \in Nat
      OBVIOUS
    <2>2. ~ (m < n)
      BY <1>2, <1>3, <2>1, Zenon
    <2> QED
      BY <2>1, <2>2
  <1> QED
    BY <1>4
\* Of a user there is one first mapping, or none.
LEMMA MappedFacts ==
  ASSUME ViewType, NEW u
  PROVE  \/ /\ \A i \in DOMAIN map_progress : map_progress[i].from # u
            /\ Viewing!get_library_mapped_user(u) = u
         \/ \E m \in Viewing!Listed : m.from = u /\ Viewing!get_library_mapped_user(u) = m.to
  <1> DEFINE F == {i \in DOMAIN map_progress : map_progress[i].from = u}
  <1>1. F \subseteq Nat
    BY DEF ViewType, Maps
  <1>2. CASE F = {}
    BY <1>2 DEF Viewing!get_library_mapped_user
  <1>3. CASE F # {}
    <2>1. PICK i \in F : \A j \in F : i <= j
      BY <1>1, <1>3, LeastOf
    <2> DEFINE k == CHOOSE k \in F : \A j \in F : k <= j
    <2>2. k \in F
      BY <2>1
    <2>3. Viewing!get_library_mapped_user(u) = map_progress[k].to
      BY <1>3 DEF Viewing!get_library_mapped_user
    <2> HIDE DEF k
    <2>4. map_progress[k] \in Viewing!Listed /\ map_progress[k].from = u
      BY <2>2 DEF Viewing!Listed
    <2> QED
      BY <2>3, <2>4
  <1> QED
    BY <1>2, <1>3

\* Who is linked to a user reads a row that is written for him.
LEMMA LinkedFacts ==
  ASSUME ViewType, NEW u \in Tasks, NEW v \in Tasks, Viewing!Linked(u, v)
  PROVE  Viewing!get_library_mapped_user(v) \in Viewing!get_library_progress_merged_users(u)
  <1> DEFINE w == Viewing!get_library_mapped_user(v)
  <1>1. ASSUME NEW m \in Viewing!Listed, NEW n \in Viewing!Listed,
               Viewing!Names(n, u), Viewing!Touch(m, n), NEW x, x \in {m.from, m.to}
        PROVE  x \in Viewing!get_library_progress_merged_users(u)
    BY <1>1 DEF Viewing!get_library_progress_merged_users, Viewing!UsersOf
  <1> HIDE DEF w
  <1>2. CASE \E m \in Viewing!Listed : Viewing!Names(m, u) /\ w = m.to
    <2>1. PICK m \in Viewing!Listed : Viewing!Names(m, u) /\ w = m.to
      BY <1>2
    <2>2. Viewing!Touch(m, m)
      BY DEF Viewing!Touch
    <2> QED
      BY <1>1, <2>1, <2>2 DEF w
  <1>3. CASE \E m \in Viewing!Listed : Viewing!Names(m, u) /\ Viewing!Names(m, v)
    <2>1. PICK m \in Viewing!Listed : Viewing!Names(m, u) /\ Viewing!Names(m, v)
      BY <1>3
    <2>2. CASE w = v
      <3>1. Viewing!Touch(m, m) /\ v \in {m.from, m.to}
        BY <2>1 DEF Viewing!Touch, Viewing!Names
      <3> QED
        BY <1>1, <2>1, <2>2, <3>1 DEF w
    <2>3. CASE \E n \in Viewing!Listed : n.from = v /\ w = n.to
      <3>1. PICK n \in Viewing!Listed : n.from = v /\ w = n.to
        BY <2>3
      <3>2. Viewing!Touch(n, m) /\ w \in {n.from, n.to}
        BY <2>1, <3>1 DEF Viewing!Touch, Viewing!Names
      <3> QED
        BY <1>1, <2>1, <3>1, <3>2 DEF w
    <2> QED
      BY <2>2, <2>3, MappedFacts DEF w
  <1> QED
    BY <1>2, <1>3 DEF Viewing!Linked, w

\* Those to write to are users.
LEMMA ListedFacts ==
  ASSUME ViewType, NEW u \in Tasks
  PROVE  /\ Viewing!get_library_progress_merged_users(u) \subseteq Tasks
         /\ Viewing!get_library_mapped_user(u) \in Tasks
  <1>1. \A m \in Viewing!Listed : m.from \in Tasks /\ m.to \in Tasks
    BY DEF ViewType, Maps, Viewing!Listed, Viewing!UserMapping
  <1>2. Viewing!get_library_progress_merged_users(u) \subseteq Tasks
    BY <1>1 DEF Viewing!get_library_progress_merged_users, Viewing!UsersOf
  <1> QED
    BY <1>1, <1>2, MappedFacts

\* Those a call wrote for are users.
LEMMA WhomFacts ==
  ASSUME ViewType, KindInv, NEW c \in Callers, Viewing!Active(c) \/ c = last
  PROVE  Whom(c) \subseteq Tasks
  <1>1. call[c].user \in Tasks
    BY DEF KindInv
  <1> QED
    BY <1>1, ListedFacts DEF Whom

\* What a call does to its own state is nobody else's.
LEMMA CallFacts ==
  ASSUME ViewType, NEW c \in Callers, NEW r \in ViewCall, call' = [call EXCEPT ![c] = r]
  PROVE  /\ call' \in [Callers -> ViewCall] /\ call'[c] = r
         /\ \A d \in Callers : d # c => call'[d] = call[d]
  BY DEF ViewType

\* Whom a call writes to hangs on the call and on the mappings.
LEMMA WhomKept ==
  ASSUME NEW c \in Callers, map_progress' = map_progress,
         call'[c].user = call[c].user, call'[c].merged = call[c].merged
  PROVE  Whom(c)' = Whom(c)
  BY ZenonT(60) DEF Whom, Viewing!get_library_progress_merged_users,
               Viewing!get_library_mapped_user, Viewing!Listed

\* A call that begins, whomever it writes to.
LEMMA BeginStep ==
  ASSUME ViewInv, NEW c \in Callers, NEW u \in Tasks, NEW merged \in BOOLEAN,
         NEW op \in {"progress", "watched", "unwatched", "position", "rating"},
         NEW whom \in SUBSET Tasks, Viewing!Begins(c, op, u, merged, whom),
         op \in {"position", "rating"} => ~ merged,
         merged => whom = Viewing!get_library_progress_merged_users(u),
         op \in {"position", "rating"} => whom = {Viewing!get_library_mapped_user(u)}
  PROVE  ViewInv'
  <1> DEFINE r == [pc |-> "writing", op |-> op, user |-> u, merged |-> merged, left |-> whom]
             others == {d \in Callers : Viewing!Active(d)}
  <1>0. ViewType /\ AloneInv /\ KindInv
    BY DEF ViewInv
  <1>1. r \in ViewCall /\ r.pc = "writing" /\ r.op = op /\ r.user = u /\ r.merged = merged
                       /\ r.left = whom
    BY DEF ViewCall
  <1>2. /\ call[c].pc = "idle" /\ call' = [call EXCEPT ![c] = r] /\ last' = None
        /\ overlapped' = overlapped \cup IF others = {} THEN {} ELSE {c} \cup others
        /\ UNCHANGED <<map_progress, progress, watched, position, rating>>
    BY DEF Viewing!Begins, Viewing!tables
  <1> HIDE DEF r
  <1>3. /\ call' \in [Callers -> ViewCall] /\ call'[c] = r
        /\ \A d \in Callers : d # c => call'[d] = call[d]
    BY <1>0, <1>1, <1>2, CallFacts
  <1>4. ViewType'
    BY <1>0, <1>2, <1>3 DEF ViewType
  <1>5. KindInv'
    BY <1>0, <1>1, <1>2, <1>3, CallersAssumption DEF KindInv, Viewing!Active
  <1>6. ASSUME NEW d \in Callers, Viewing!Active(d)', d \notin overlapped'
        PROVE  (\A e \in Callers : Viewing!Active(e)' => e = d) /\ Wrote(d)'
    <2>1. others = {} /\ d = c
      BY <1>2, <1>3, <1>6 DEF Viewing!Active
    <2>2. \A e \in Callers : Viewing!Active(e)' => e = d
      BY <1>3, <2>1 DEF Viewing!Active
    <2>3. call'[c].op \in {"position", "rating"} \/ call'[c].merged => Whom(c)' \subseteq whom
      <3>1. /\ Viewing!get_library_progress_merged_users(u)' =
               Viewing!get_library_progress_merged_users(u)
            /\ Viewing!get_library_mapped_user(u)' = Viewing!get_library_mapped_user(u)
        BY <1>2
          DEF Viewing!get_library_progress_merged_users, Viewing!get_library_mapped_user,
              Viewing!Listed
      <3>2. Whom(c)' = IF merged THEN Viewing!get_library_progress_merged_users(u)'
                       ELSE {Viewing!get_library_mapped_user(u)'}
        <4>1. call'[c].user = u /\ call'[c].merged = merged /\ map_progress' = map_progress
          BY <1>1, <1>2, <1>3
        <4> QED
          BY <4>1, Zenon
            DEF Whom, Viewing!get_library_progress_merged_users,
                Viewing!get_library_mapped_user, Viewing!Listed
      <3> QED
        BY <1>1, <1>3, <3>1, <3>2
    <2>4. Wrote(c)'
      BY <1>1, <1>3, <2>3 DEF Wrote
    <2> QED
      BY <2>1, <2>2, <2>4
  <1>7. AloneInv'
    BY <1>2, <1>6 DEF AloneInv
  <1> QED
    BY <1>4, <1>5, <1>7 DEF ViewInv

\* A row is written.
LEMMA WriteStep ==
  ASSUME ViewInv, NEW c \in Callers, NEW u \in Tasks,
         NEW op \in {"progress", "watched", "unwatched", "position", "rating"},
         Viewing!Writes(c, u, op),
         DOMAIN progress' = Tasks /\ DOMAIN watched' = Tasks /\ DOMAIN position' = Tasks
                                  /\ DOMAIN rating' = Tasks,
         \A v \in Tasks : v # u => /\ progress'[v] = progress[v] /\ watched'[v] = watched[v]
                                   /\ position'[v] = position[v] /\ rating'[v] = rating[v],
         op = "progress"  => progress'[u] = c,
         op = "watched"   => watched'[u] = c /\ progress'[u] = None,
         op = "unwatched" => watched'[u] = None,
         op = "position" => position'[u] = c,
         op = "rating"   => rating'[u] = c
  PROVE  ViewInv'
  <1> DEFINE r == [call[c] EXCEPT !.left = @ \ {u}]
  <1>0. ViewType /\ AloneInv /\ KindInv /\ call[c] \in ViewCall
    BY DEF ViewInv, ViewType
  <1>1. /\ r \in ViewCall /\ r.pc = call[c].pc /\ r.op = call[c].op /\ r.user = call[c].user
        /\ r.merged = call[c].merged /\ r.left = call[c].left \ {u}
    BY <1>0 DEF ViewCall
  <1>2. /\ Viewing!Active(c) /\ call[c].op = op /\ call' = [call EXCEPT ![c] = r]
        /\ UNCHANGED <<map_progress, overlapped, last>>
    BY DEF Viewing!Writes
  <1> HIDE DEF r
  <1>3. /\ call' \in [Callers -> ViewCall] /\ call'[c] = r
        /\ \A d \in Callers : d # c => call'[d] = call[d]
    BY <1>0, <1>1, <1>2, CallFacts
  <1>4. ViewType'
    BY <1>0, <1>2, <1>3 DEF ViewType
  <1>5. KindInv'
    BY <1>0, <1>1, <1>2, <1>3 DEF KindInv, Viewing!Active
  <1>6. ASSUME c \notin overlapped PROVE Wrote(c)'
    <2>1. Wrote(c)
      BY <1>0, <1>2, <1>6 DEF AloneInv
    <2>2. Whom(c)' = Whom(c)
      <3>1. /\ call'[c].user = call[c].user /\ call'[c].merged = call[c].merged
            /\ map_progress' = map_progress
        BY <1>1, <1>2, <1>3
      <3> QED
        BY <3>1, WhomKept
    <2>3. ASSUME NEW v \in Whom(c) \ call'[c].left
          PROVE  /\ call[c].merged =>
                      /\ call[c].op \in {"progress", "watched", "unwatched"}
                      /\ call[c].op = "progress"  => progress'[v] = c
                      /\ call[c].op = "watched"   => watched'[v] = c /\ progress'[v] = None
                      /\ call[c].op = "unwatched" => watched'[v] = None
                 /\ call[c].op = "position" => position'[v] = c
                 /\ call[c].op = "rating"   => rating'[v] = c
      <3>1. CASE v = u
        BY <1>0, <1>2, <3>1 DEF KindInv
      <3>2. CASE v # u
        <4>1. v \notin call[c].left
          BY <1>1, <1>3, <2>3, <3>2
        <4>2. v \in Tasks
          BY <1>0, <1>2, <2>3, WhomFacts
        <4> QED
          BY <2>1, <2>3, <3>2, <4>1, <4>2 DEF Wrote
      <3> QED
        BY <3>1, <3>2
    <2> QED
      BY <1>1, <1>3, <2>2, <2>3 DEF Wrote
  <1>7. AloneInv'
    BY <1>0, <1>1, <1>2, <1>3, <1>6 DEF AloneInv, Viewing!Active
  <1> QED
    BY <1>4, <1>5, <1>7 DEF ViewInv

\* Every step of the calls and of the mappings preserves the invariant.
LEMMA ViewStep == ViewInv /\ [Viewing!Next]_viewVars => ViewInv'
  <1> SUFFICES ASSUME ViewInv, [Viewing!Next]_viewVars PROVE ViewInv'
    OBVIOUS
  <1>0. ViewType /\ AloneInv /\ KindInv
    BY DEF ViewInv
  <1>a. \A u \in Tasks : /\ Viewing!get_library_progress_merged_users(u) \in SUBSET Tasks
                         /\ {Viewing!get_library_mapped_user(u)} \in SUBSET Tasks
                         /\ {u} \in SUBSET Tasks
    BY <1>0, ListedFacts
  <1>1. ASSUME NEW c \in Callers, NEW u \in Tasks, Viewing!add_view_progress(c, u) PROVE ViewInv'
    BY <1>1, <1>a, BeginStep DEF Viewing!add_view_progress
  <1>2. ASSUME NEW c \in Callers, NEW u \in Tasks, Viewing!add_watched(c, u) PROVE ViewInv'
    BY <1>2, <1>a, BeginStep DEF Viewing!add_watched
  <1>3. ASSUME NEW c \in Callers, NEW u \in Tasks, Viewing!remove_watched(c, u) PROVE ViewInv'
    BY <1>3, <1>a, BeginStep DEF Viewing!remove_watched
  <1>4. ASSUME NEW c \in Callers, NEW u \in Tasks, Viewing!add_history(c, u) PROVE ViewInv'
    <2>1. PICK op \in {"progress", "watched", "unwatched"} : Viewing!Begins(c, op, u, FALSE, {u})
      BY <1>4 DEF Viewing!add_history
    <2>2. op \in {"progress", "watched", "unwatched", "position", "rating"} /\ {u} \in SUBSET Tasks
      OBVIOUS
    <2>3. op \notin {"position", "rating"}
      OBVIOUS
    <2> QED
      BY <2>1, <2>2, <2>3, BeginStep
  <1>5. ASSUME NEW c \in Callers, NEW u \in Tasks, Viewing!set_media_progress(c, u) PROVE ViewInv'
    BY <1>5, <1>a, BeginStep DEF Viewing!set_media_progress
  <1>6. ASSUME NEW c \in Callers, NEW u \in Tasks, Viewing!set_media_rating(c, u) PROVE ViewInv'
    BY <1>6, <1>a, BeginStep DEF Viewing!set_media_rating
  <1>7. ASSUME NEW c \in Callers, NEW u \in Tasks, Viewing!write_progress(c, u) PROVE ViewInv'
    BY <1>0, <1>7, WriteStep DEF Viewing!write_progress, ViewType
  <1>8. ASSUME NEW c \in Callers, NEW u \in Tasks, Viewing!write_watched(c, u) PROVE ViewInv'
    BY <1>0, <1>8, WriteStep DEF Viewing!write_watched, ViewType
  <1>9. ASSUME NEW c \in Callers, NEW u \in Tasks, Viewing!delete_watched(c, u) PROVE ViewInv'
    BY <1>0, <1>9, WriteStep DEF Viewing!delete_watched, ViewType
  <1>10. ASSUME NEW c \in Callers, NEW u \in Tasks, Viewing!write_position(c, u) PROVE ViewInv'
    BY <1>0, <1>10, WriteStep DEF Viewing!write_position, ViewType
  <1>11. ASSUME NEW c \in Callers, NEW u \in Tasks, Viewing!write_rating(c, u) PROVE ViewInv'
    BY <1>0, <1>11, WriteStep DEF Viewing!write_rating, ViewType
  <1>12. ASSUME NEW c \in Callers, Viewing!Finish(c) PROVE ViewInv'
    <2> DEFINE r == [IF c \in overlapped THEN Viewing!NoCall ELSE call[c] EXCEPT !.pc = "ended"]
    <2>1. /\ Viewing!Active(c) /\ call[c].left = {} /\ call' = [call EXCEPT ![c] = r]
          /\ last' = (IF c \in overlapped THEN None ELSE c) /\ overlapped' = overlapped \ {c}
          /\ UNCHANGED <<map_progress, progress, watched, position, rating>>
      BY <1>12 DEF Viewing!Finish, Viewing!tables
    <2>2. /\ r \in ViewCall /\ r.pc = "ended"
          /\ c \notin overlapped => /\ r.op = call[c].op /\ r.user = call[c].user
                                    /\ r.merged = call[c].merged /\ r.left = call[c].left
          /\ c \in overlapped => r.op = None /\ r.merged = FALSE
      <3>1. call[c] \in ViewCall
        BY <1>0 DEF ViewType
      <3>2. Viewing!NoCall \in ViewCall /\ Viewing!NoCall.op = None
                                        /\ Viewing!NoCall.merged = FALSE
        BY DEF Viewing!NoCall, ViewCall
      <3> QED
        BY <3>1, <3>2 DEF ViewCall
    <2> HIDE DEF r
    <2>3. /\ call' \in [Callers -> ViewCall] /\ call'[c] = r
          /\ \A d \in Callers : d # c => call'[d] = call[d]
      BY <1>0, <2>1, <2>2, CallFacts
    <2>4. ViewType'
      BY <1>0, <2>1, <2>3 DEF ViewType
    <2>5. KindInv'
      <3>1. ASSUME NEW d \in Callers
            PROVE  /\ call'[d].merged => call'[d].op \in {"progress", "watched", "unwatched"}
                   /\ call'[d].op \in {"position", "rating"} => ~ call'[d].merged
                   /\ Viewing!Active(d)' \/ d = last' => call'[d].user \in Tasks
        <4>1. CASE d = c
          <5>1. CASE c \in overlapped
            <6>1. ~ Viewing!Active(d)' /\ d # last'
              BY <2>1, <2>2, <2>3, <4>1, <5>1, CallersAssumption DEF Viewing!Active
            <6>2. call'[d].merged = FALSE
              BY <2>2, <2>3, <4>1, <5>1
            <6> QED
              BY <6>1, <6>2
          <5>2. CASE c \notin overlapped
            BY <1>0, <2>1, <2>2, <2>3, <4>1, <5>2 DEF KindInv
          <5> QED
            BY <5>1, <5>2
        <4>2. CASE d # c
          <5>1. d # last'
            BY <2>1, <4>2, CallersAssumption
          <5> QED
            BY <1>0, <2>3, <4>2, <5>1 DEF KindInv, Viewing!Active
        <4> QED
          BY <4>1, <4>2
      <3> QED
        BY <3>1 DEF KindInv
    <2>6. \A d \in Callers : d # c => (Viewing!Active(d)' <=> Viewing!Active(d))
      BY <2>3 DEF Viewing!Active
    <2>7. ~ Viewing!Active(c)'
      BY <2>2, <2>3 DEF Viewing!Active
    <2>8. ASSUME c \notin overlapped PROVE (\A d \in Callers : ~ Viewing!Active(d)') /\ call'[c].left = {} /\ Wrote(c)'
      <3>1. (\A d \in Callers : Viewing!Active(d) => d = c) /\ Wrote(c)
        BY <1>0, <2>1, <2>8 DEF AloneInv
      <3>2. /\ call'[c].user = call[c].user /\ call'[c].merged = call[c].merged
            /\ call'[c].left = call[c].left /\ call'[c].op = call[c].op
            /\ map_progress' = map_progress
        BY <2>1, <2>2, <2>3, <2>8
      <3>3. Whom(c)' = Whom(c)
        BY <3>2, WhomKept
      <3>4. Wrote(c)'
        BY <2>1, <3>1, <3>2, <3>3 DEF Wrote
      <3> QED
        BY <2>1, <2>6, <2>7, <3>1, <3>2, <3>4
    <2>9. ASSUME NEW d \in Callers, Viewing!Active(d)', d \notin overlapped' PROVE FALSE
      <3>1. d # c /\ Viewing!Active(d) /\ d \notin overlapped
        BY <2>1, <2>6, <2>7, <2>9
      <3> QED
        BY <1>0, <2>1, <3>1 DEF AloneInv
    <2>10. AloneInv'
      BY <2>1, <2>8, <2>9 DEF AloneInv
    <2> QED
      BY <2>4, <2>5, <2>10 DEF ViewInv
  <1>13. ASSUME NEW c \in Callers, Viewing!Fail(c) PROVE ViewInv'
    <2> DEFINE r == [Viewing!NoCall EXCEPT !.pc = "failed"]
    <2>1. /\ Viewing!Active(c) /\ call' = [call EXCEPT ![c] = r]
          /\ last' = last /\ overlapped' = overlapped \ {c}
          /\ UNCHANGED <<map_progress, progress, watched, position, rating>>
      BY <1>13 DEF Viewing!Fail, Viewing!tables
    <2>2. r \in ViewCall /\ r.pc = "failed" /\ r.op = None /\ r.merged = FALSE
      BY DEF Viewing!NoCall, ViewCall
    <2> HIDE DEF r
    <2>3. /\ call' \in [Callers -> ViewCall] /\ call'[c] = r
          /\ \A d \in Callers : d # c => call'[d] = call[d]
      BY <1>0, <2>1, <2>2, CallFacts
    <2>4. ViewType'
      BY <1>0, <2>1, <2>3 DEF ViewType
    <2>a. last = None
      BY <1>0, <2>1 DEF AloneInv
    <2>5. KindInv'
      <3>1. ASSUME NEW d \in Callers
            PROVE  /\ call'[d].merged => call'[d].op \in {"progress", "watched", "unwatched"}
                   /\ call'[d].op \in {"position", "rating"} => ~ call'[d].merged
                   /\ Viewing!Active(d)' \/ d = last' => call'[d].user \in Tasks
        <4>1. CASE d = c
          BY <2>1, <2>a, <2>2, <2>3, <4>1, CallersAssumption DEF Viewing!Active
        <4>2. CASE d # c
          BY <1>0, <2>1, <2>a, <2>3, <4>2, CallersAssumption DEF KindInv, Viewing!Active
        <4> QED
          BY <4>1, <4>2
      <3> QED
        BY <3>1 DEF KindInv
    <2>6. \A d \in Callers : d # c => (Viewing!Active(d)' <=> Viewing!Active(d))
      BY <2>3 DEF Viewing!Active
    <2>7. ~ Viewing!Active(c)'
      BY <2>2, <2>3 DEF Viewing!Active
    <2>9. ASSUME NEW d \in Callers, Viewing!Active(d)', d \notin overlapped' PROVE FALSE
      <3>1. d # c /\ Viewing!Active(d) /\ d \notin overlapped
        BY <2>1, <2>6, <2>7, <2>9
      <3> QED
        BY <1>0, <2>1, <3>1 DEF AloneInv
    <2>10. AloneInv'
      BY <2>1, <2>a, <2>9 DEF AloneInv
    <2> QED
      BY <2>4, <2>5, <2>10 DEF ViewInv
  <1>14. ASSUME Viewing!update_library PROVE ViewInv'
    <2>1. /\ overlapped' = overlapped \cup {c \in Callers : Viewing!Active(c)} /\ last' = None
          /\ UNCHANGED <<progress, watched, position, rating, call>>
      BY <1>14 DEF Viewing!update_library, Viewing!tables
    <2>2. map_progress' \in Maps
      <3>1. map_progress \in Seq(Viewing!UserMapping)
        BY <1>0 DEF ViewType, Maps
      <3>2. CASE \E m \in Viewing!UserMapping : map_progress' = Append(map_progress, m)
        BY <3>1, <3>2 DEF Maps
      <3>3. CASE \E i \in DOMAIN map_progress :
                    map_progress' = SubSeq(map_progress, 1, i - 1)
                                      \o SubSeq(map_progress, i + 1, Len(map_progress))
        <4>1. PICK i \in DOMAIN map_progress :
                    map_progress' = SubSeq(map_progress, 1, i - 1)
                                      \o SubSeq(map_progress, i + 1, Len(map_progress))
          BY <3>3
        <4>2. i \in 1..Len(map_progress) /\ Len(map_progress) \in Nat
          BY <3>1
        <4>3. SubSeq(map_progress, 1, i - 1) \in Seq(Viewing!UserMapping)
          BY <3>1, <4>2
        <4>4. SubSeq(map_progress, i + 1, Len(map_progress)) \in Seq(Viewing!UserMapping)
          BY <3>1, <4>2
        <4> QED
          BY <4>1, <4>3, <4>4 DEF Maps
      <3> QED
        BY <1>14, <3>2, <3>3 DEF Viewing!update_library
    <2>3. ViewType'
      BY <1>0, <2>1, <2>2 DEF ViewType
    <2>4. KindInv'
      BY <1>0, <2>1, CallersAssumption DEF KindInv, Viewing!Active
    <2>5. AloneInv'
      BY <2>1 DEF AloneInv, Viewing!Active
    <2> QED
      BY <2>3, <2>4, <2>5 DEF ViewInv
  <1>15. CASE UNCHANGED viewVars
    <2>1. UNCHANGED <<map_progress, progress, watched, position, rating, call, overlapped,
                last>>
      BY <1>15 DEF viewVars
    <2>2. \A c \in Callers : Wrote(c)' <=> Wrote(c)
      BY <2>1
        DEF Wrote, Whom, Viewing!get_library_progress_merged_users,
            Viewing!get_library_mapped_user, Viewing!Listed
    <2>3. \A c \in Callers : Viewing!Active(c)' <=> Viewing!Active(c)
      BY <2>1 DEF Viewing!Active
    <2>4. ViewType' /\ KindInv'
      BY <1>0, <2>1, <2>3 DEF ViewType, KindInv
    <2>5. AloneInv'
      BY <1>0, <2>1, <2>2, <2>3 DEF AloneInv, ViewType
    <2> QED
      BY <2>4, <2>5 DEF ViewInv
  <1> QED
    BY <1>1, <1>2, <1>3, <1>4, <1>5, <1>6, <1>7, <1>8, <1>9, <1>10, <1>11, <1>12, <1>13,
       <1>14, <1>15 DEF Viewing!Next

\* Nobody has watched anything in the beginning.
LEMMA ViewInit == Viewing!Init => ViewInv
  <1> SUFFICES ASSUME Viewing!Init PROVE ViewInv
    OBVIOUS
  <1>1. /\ \A c \in Callers : call[c] = Viewing!NoCall
        /\ call = [c \in Callers |-> Viewing!NoCall] /\ last = None /\ overlapped = {}
        /\ DOMAIN progress = Tasks /\ DOMAIN watched = Tasks
        /\ DOMAIN position = Tasks /\ DOMAIN rating = Tasks
    BY DEF Viewing!Init
  <1>2. /\ Viewing!NoCall \in ViewCall /\ Viewing!NoCall.pc = "idle" /\ Viewing!NoCall.op = None
        /\ Viewing!NoCall.merged = FALSE
    BY DEF Viewing!NoCall, ViewCall
  <1>3. map_progress \in Maps
    BY DEF Viewing!Init, Viewing!Mappings, Maps
  <1>4. ViewType
    BY <1>1, <1>2, <1>3 DEF ViewType
  <1>5. AloneInv
    BY <1>1, <1>2 DEF AloneInv, Viewing!Active
  <1>6. KindInv
    BY <1>1, <1>2, CallersAssumption DEF KindInv, Viewing!Active
  <1> QED
    BY <1>4, <1>5, <1>6 DEF ViewInv

\* What the last call of a user wrote is read by those who are linked to him, and
\* by those who share his row (LinkedUsersRead), unless the call overlapped another
\* or a change of the mappings: for any users, mappings and calls.
THEOREM LinkedUsersCorrect == MCSpec => []LinkedUsersRead
  <1> DEFINE Inv == subject = "views" => ViewInv
  <1>1. MCInit => Inv
    BY ViewInit DEF MCInit
  <1>2. Inv /\ [MCNext]_<<subject, vars, formatVars, fileVars, imageVars, pluginVars,
                          viewVars, copyVars>> => Inv'
    <2> SUFFICES ASSUME Inv, subject' = "views",
                        [MCNext]_<<subject, vars, formatVars, fileVars, imageVars, pluginVars,
                                   viewVars, copyVars>>
                 PROVE  ViewInv'
      OBVIOUS
    <2>1. subject = "views"
      BY DEF MCNext
    <2>2. [Viewing!Next]_viewVars
      BY <2>1 DEF MCNext
    <2> QED
      BY <2>1, <2>2, ViewStep
  <1>3. Inv => LinkedUsersRead
    <2> SUFFICES ASSUME ViewInv, last # None PROVE Viewing!LinkedUsersRead
      BY DEF LinkedUsersRead, Viewing!LinkedUsersRead
    <2>0. ViewType /\ AloneInv /\ KindInv /\ last \in Callers
      BY DEF ViewInv, ViewType
    <2>1. call[last].left = {} /\ Wrote(last) /\ call[last].user \in Tasks
      BY <2>0 DEF AloneInv, KindInv
    <2>2. ASSUME call[last].merged, NEW u \in Tasks, Viewing!Linked(call[last].user, u)
          PROVE  CASE call[last].op = "progress"  -> Viewing!get_view_progress(u) = last
                   [] call[last].op = "watched"   -> Viewing!get_watched(u) = last /\ Viewing!get_view_progress(u) = None
                   [] call[last].op = "unwatched" -> Viewing!get_watched(u) = None
      <3>1. Viewing!get_library_mapped_user(u) \in Whom(last) \ call[last].left
        BY <2>0, <2>1, <2>2, LinkedFacts DEF Whom
      <3>2. call[last].op \in {"progress", "watched", "unwatched"}
        BY <2>0, <2>2 DEF KindInv
      <3>3. /\ call[last].op = "progress"  => Viewing!get_view_progress(u) = last
            /\ call[last].op = "watched"   => Viewing!get_watched(u) = last /\ Viewing!get_view_progress(u) = None
            /\ call[last].op = "unwatched" => Viewing!get_watched(u) = None
        BY <2>1, <2>2, <3>1 DEF Wrote, Viewing!get_view_progress, Viewing!get_watched
      <3> QED
        BY <3>2, <3>3
    <2>3. ASSUME NEW u \in Tasks, Viewing!get_library_mapped_user(u) = Viewing!get_library_mapped_user(call[last].user)
          PROVE  /\ call[last].op = "position" => Viewing!get_media_progress(u) = last
                 /\ call[last].op = "rating"   => Viewing!get_media_rating(u) = last
      <3>1. ASSUME call[last].op \in {"position", "rating"}
            PROVE  Viewing!get_library_mapped_user(u) \in Whom(last) \ call[last].left
        <4>1. ~ call[last].merged
          BY <2>0, <3>1 DEF KindInv
        <4> QED
          BY <2>1, <2>3, <4>1 DEF Whom
      <3> QED
        BY <2>1, <3>1 DEF Wrote, Viewing!get_media_progress, Viewing!get_media_rating
    <2> QED
      BY <2>2, <2>3 DEF Viewing!LinkedUsersRead
  <1> QED
    BY <1>1, <1>2, <1>3, PTL DEF MCSpec

-----------------------------------------------------------------------------
(* Images.                                                                 *)

\* What a call holds, and the files of an image.
ImageJob == [pc : {"idle", "remove", "sizes", "open", "write", "look", "refresh", "read", "reread",
                   "resize", "clear", "create", "fetch", "ended"},
             wants : Images!Names, file : {"original", "sized"}, version : Nat,
             then : {"ended", "read", "reread"}]
\* An image as it is on the disk, and the states of the files and of the calls.
ImageFile == [by : Tasks, version : Nat] \cup {Absent}

ImageType ==
  /\ DOMAIN images = Images!Names
  /\ images["original"] \in ImageFile /\ images["sized"] \in ImageFile
  /\ imageJob \in [Tasks -> ImageJob]
  /\ versions \in Nat /\ shown \in Nat
  /\ raced \subseteq Images!Names

\* What is written is a version of the image, and which file a step is about.
WritesInv ==
  \A t \in Tasks :
    /\ imageJob[t].pc \in {"remove", "sizes"} => imageJob[t].file = "original"
    /\ imageJob[t].pc = "clear" => imageJob[t].file = "sized"
    /\ imageJob[t].pc \in {"remove", "sizes", "clear", "open", "write"} => imageJob[t].version # 0

\* The original, without races: an update is alone, its file is as far as it is, and
\* without one it is the version of the last.
OriginalInv ==
  "original" \notin raced =>
    /\ \A t, u \in Tasks : Images!Updating(t) /\ Images!Updating(u) => t = u
    /\ \A t \in Tasks : Images!Updating(t) =>
         IF imageJob[t].pc = "write" THEN images["original"] = [by |-> t, version |-> 0]
         ELSE images["original"] = Absent
    /\ (\A t \in Tasks : ~ Images!Updating(t)) /\ shown > 0 =>
         images["original"] # Absent /\ images["original"].version = shown

\* Of an update that has not come to the sizes yet they are not.
Pending == \E t \in Tasks : imageJob[t].pc = "sizes"

\* The smaller copy is of the original, and so is what is made of it.
SizedInv ==
  "sized" \notin raced /\ ~ Pending =>
    /\ \A u \in Tasks : Images!Resizing(u) =>
         images["original"] # Absent /\ images["original"].version = imageJob[u].version
    /\ images["sized"] # Absent =>
         /\ images["original"] # Absent /\ images["original"].version # 0
         /\ \/ images["sized"].version = images["original"].version
            \/ \E u \in Tasks : /\ images["sized"] = [by |-> u, version |-> 0]
                                /\ imageJob[u].pc = "write" /\ imageJob[u].file = "sized"

\* The inductive invariant of Images.
ImageInv == ImageType /\ WritesInv /\ OriginalInv /\ SizedInv

\* Where a call is about to change a file.
Busy == {"sizes", "clear", "open", "write"}

\* What a call does to its own state is nobody else's.
LEMMA ImageJobFacts ==
  ASSUME ImageType, NEW t \in Tasks, NEW r \in ImageJob, imageJob' = [imageJob EXCEPT ![t] = r]
  PROVE  /\ imageJob' \in [Tasks -> ImageJob] /\ imageJob'[t] = r
         /\ \A u \in Tasks : u # t => imageJob'[u] = imageJob[u]
  BY DEF ImageType

\* A step to another place of the same call.
LEMMA GoesFacts ==
  ASSUME ImageType, NEW t \in Tasks, NEW pc, Images!Goes(t, pc),
         pc \in {"idle", "remove", "sizes", "open", "write", "look", "refresh", "read", "reread",
                 "resize", "clear", "create", "fetch", "ended"}
  PROVE  \E r \in ImageJob : /\ imageJob' = [imageJob EXCEPT ![t] = r] /\ r.pc = pc
                             /\ r.file = imageJob[t].file /\ r.version = imageJob[t].version
                             /\ r.wants = imageJob[t].wants /\ r.then = imageJob[t].then
  <1> DEFINE r == [imageJob[t] EXCEPT !.pc = pc]
  <1>1. imageJob[t] \in ImageJob
    BY DEF ImageType
  <1>2. /\ r \in ImageJob /\ r.pc = pc /\ r.file = imageJob[t].file
        /\ r.version = imageJob[t].version /\ r.wants = imageJob[t].wants
        /\ r.then = imageJob[t].then
    BY <1>1 DEF ImageJob
  <1>3. imageJob' = [imageJob EXCEPT ![t] = r]
    BY DEF Images!Goes
  <1> QED
    BY <1>2, <1>3

\* The types of single fields.
LEMMA ImageFacts ==
  ASSUME ImageType
  PROVE  /\ \A t \in Tasks : /\ imageJob[t] \in ImageJob /\ imageJob[t].version \in Nat
                             /\ imageJob[t].file \in {"original", "sized"}
                             /\ imageJob[t].then \in {"ended", "read", "reread"}
         /\ images["original"] # Absent => images["original"].version \in Nat
         /\ images["sized"] # Absent => images["sized"].version \in Nat
         /\ \A t \in Tasks, v \in Nat : /\ [by |-> t, version |-> v] \in ImageFile
                                        /\ [by |-> t, version |-> v] # Absent
  <1>1. \A t \in Tasks : imageJob[t] \in ImageJob
    BY DEF ImageType
  <1>2. \A t \in Tasks : /\ imageJob[t].version \in Nat
                         /\ imageJob[t].file \in {"original", "sized"}
                         /\ imageJob[t].then \in {"ended", "read", "reread"}
    BY <1>1 DEF ImageJob
  <1>3. \A f \in ImageFile : f # Absent => f.version \in Nat
    BY DEF ImageFile
  <1>4. \A t \in Tasks, v \in Nat : /\ [by |-> t, version |-> v] \in ImageFile
                                    /\ [by |-> t, version |-> v] # Absent
    BY ImagesAssumption DEF ImageFile
  <1> QED
    BY <1>1, <1>2, <1>3, <1>4 DEF ImageType

\* A step of a call that neither updates nor resizes before or after it.
LEMMA QuietStep ==
  ASSUME ImageInv, NEW t \in Tasks, NEW r \in ImageJob, imageJob' = [imageJob EXCEPT ![t] = r],
         imageJob[t].pc \notin Busy, r.pc \notin Busy,
         r.pc = "remove" => r.file = "original" /\ r.version # 0,
         DOMAIN images' = Images!Names,
         images'["original"] = images["original"], images'["sized"] = images["sized"],
         versions' \in Nat, shown' = shown, raced' = raced
  PROVE  ImageInv'
  <1>0. ImageType /\ WritesInv /\ OriginalInv /\ SizedInv
    BY DEF ImageInv
  <1>1. /\ imageJob' \in [Tasks -> ImageJob] /\ imageJob'[t] = r
        /\ \A u \in Tasks : u # t => imageJob'[u] = imageJob[u]
    BY <1>0, ImageJobFacts
  <1>2. ImageType'
    BY <1>0, <1>1 DEF ImageType
  <1>3. WritesInv'
    BY <1>0, <1>1 DEF WritesInv, Busy
  <1>4. \A u \in Tasks : /\ Images!Updating(u)' <=> Images!Updating(u)
                         /\ Images!Resizing(u)' <=> Images!Resizing(u)
                         /\ Images!Updating(u) \/ Images!Resizing(u) => u # t
    BY <1>1 DEF Images!Updating, Images!Resizing, Busy
  <1>5. OriginalInv'
    BY <1>0, <1>1, <1>4 DEF OriginalInv
  <1>6. Pending' <=> Pending
    BY <1>1 DEF Pending, Busy
  <1>7. \A u \in Tasks : imageJob[u].pc = "write" => u # t
    BY DEF Busy
  <1>8. SizedInv'
    BY <1>0, <1>1, <1>4, <1>6, <1>7 DEF SizedInv
  <1> QED
    BY <1>2, <1>3, <1>5, <1>8 DEF ImageInv

\* Every step of the updates and of the readers preserves the invariant.
LEMMA ImagesStep == ImageInv /\ [Images!Next]_imageVars => ImageInv'
  <1> SUFFICES ASSUME ImageInv, [Images!Next]_imageVars PROVE ImageInv'
    OBVIOUS
  <1>0. ImageType /\ WritesInv /\ OriginalInv /\ SizedInv
    BY DEF ImageInv
  <1> USE <1>0
  <1>f. /\ \A t \in Tasks : /\ imageJob[t] \in ImageJob /\ imageJob[t].version \in Nat
                            /\ imageJob[t].file \in {"original", "sized"}
                            /\ imageJob[t].then \in {"ended", "read", "reread"}
        /\ versions \in Nat /\ shown \in Nat
        /\ DOMAIN images = Images!Names /\ "original" \in Images!Names
        /\ "sized" \in Images!Names
        /\ "external" \in Images!Names
    BY ImageFacts DEF ImageType, Images!Names
  <1>g. /\ images["original"] \in ImageFile /\ images["sized"] \in ImageFile
        /\ Absent \in ImageFile
        /\ images["original"] # Absent => images["original"].version \in Nat
        /\ \A t \in Tasks, v \in Nat : /\ [by |-> t, version |-> v] \in ImageFile
                                       /\ [by |-> t, version |-> v] # Absent
    BY ImageFacts DEF ImageType, ImageFile
  <1>r. ASSUME NEW t \in Tasks, NEW then \in {"ended", "read", "reread"}, Images!Replaces(t, then),
               imageJob[t].pc \notin Busy, UNCHANGED <<kind, images, shown, raced>>
        PROVE  ImageInv'
    <2> DEFINE r == [pc |-> "remove", wants |-> imageJob[t].wants, file |-> "original",
                     version |-> versions', then |-> then]
    <2>1. versions' = versions + 1 /\ imageJob' = [imageJob EXCEPT ![t] = r]
      BY <1>r DEF Images!Replaces
    <2>2. imageJob[t].wants \in Images!Names
      BY <1>f DEF ImageJob
    <2>3. versions' \in Nat /\ versions' # 0
      BY <1>f, <2>1
    <2>4. r \in ImageJob /\ r.pc = "remove" /\ r.file = "original" /\ r.version = versions'
      BY <2>2, <2>3 DEF ImageJob
    <2> HIDE DEF r
    <2>5. r.pc \notin Busy
      BY <2>4 DEF Busy
    <2> QED
      BY <1>f, <1>r, <2>1, <2>3, <2>4, <2>5, QuietStep
  <1>s. ASSUME NEW t \in Tasks, 
               NEW pc \in {"look", "read", "reread", "refresh", "resize", "ended", "create", "fetch"},
               Images!Goes(t, pc), imageJob[t].pc \notin Busy,
               DOMAIN images' = Images!Names,
               images'["original"] = images["original"], images'["sized"] = images["sized"],
               UNCHANGED <<kind, versions, shown, raced>>
        PROVE  ImageInv'
    <2>1. PICK r \in ImageJob : /\ imageJob' = [imageJob EXCEPT ![t] = r] /\ r.pc = pc
                                /\ r.file = imageJob[t].file /\ r.version = imageJob[t].version
                                /\ r.wants = imageJob[t].wants /\ r.then = imageJob[t].then
      BY <1>s, GoesFacts
    <2>2. r.pc \notin Busy /\ r.pc # "remove"
      BY <2>1 DEF Busy
    <2> QED
      BY <1>f, <1>s, <2>1, <2>2, QuietStep
  <1>1. ASSUME NEW t \in Tasks, Images!Update(t) PROVE ImageInv'
    <2>1. imageJob[t].pc \notin Busy
      BY <1>1 DEF Images!Update, Images!At, Busy
    <2> QED
      BY <1>1, <1>r, <2>1 DEF Images!Update
  <1>2. ASSUME NEW t \in Tasks, Images!RemoveOriginal(t) PROVE ImageInv'
    <2>1. PICK r \in ImageJob : /\ imageJob' = [imageJob EXCEPT ![t] = r] /\ r.pc = "sizes"
                                /\ r.file = imageJob[t].file /\ r.version = imageJob[t].version
                                /\ r.wants = imageJob[t].wants /\ r.then = imageJob[t].then
      BY <1>2, GoesFacts DEF Images!RemoveOriginal
    <2>2. /\ imageJob' \in [Tasks -> ImageJob] /\ imageJob'[t] = r
          /\ \A u \in Tasks : u # t => imageJob'[u] = imageJob[u]
      BY <2>1, ImageJobFacts
    <2>3. /\ imageJob[t].pc = "remove" /\ imageJob[t].file = "original"
          /\ imageJob[t].version # 0
          /\ images' = [images EXCEPT !["original"] = Absent]
          /\ raced' = raced \cup (IF \E u \in Tasks \ {t} : Images!Updating(u) THEN {"original"} ELSE {})
          /\ UNCHANGED <<kind, versions, shown>>
      BY <1>2 DEF Images!RemoveOriginal, Images!At, WritesInv
    <2>4. /\ DOMAIN images' = Images!Names /\ images'["original"] = Absent
          /\ images'["sized"] = images["sized"]
      BY <1>f, <2>3
    <2>5. ImageType'
      BY <1>f, <1>g, <2>2, <2>3, <2>4 DEF ImageType
    <2>6. WritesInv'
      BY <2>1, <2>2, <2>3 DEF WritesInv
    <2>7. OriginalInv'
      <3> SUFFICES ASSUME "original" \notin raced' PROVE OriginalInv'
        BY DEF OriginalInv
      <3>1. \A u \in Tasks : Images!Updating(u)' <=> u = t
        BY <2>1, <2>2, <2>3 DEF Images!Updating
      <3> QED
        BY <2>1, <2>2, <2>4, <3>1 DEF OriginalInv
    <2>8. Pending'
      BY <2>1, <2>2 DEF Pending
    <2> QED
      BY <2>5, <2>6, <2>7, <2>8 DEF ImageInv, SizedInv
  <1>3. ASSUME NEW t \in Tasks, Images!RemoveSizes(t) PROVE ImageInv'
    <2>1. PICK r \in ImageJob : /\ imageJob' = [imageJob EXCEPT ![t] = r] /\ r.pc = "open"
                                /\ r.file = imageJob[t].file /\ r.version = imageJob[t].version
                                /\ r.wants = imageJob[t].wants /\ r.then = imageJob[t].then
      BY <1>3, GoesFacts DEF Images!RemoveSizes
    <2>2. /\ imageJob' \in [Tasks -> ImageJob] /\ imageJob'[t] = r
          /\ \A u \in Tasks : u # t => imageJob'[u] = imageJob[u]
      BY <2>1, ImageJobFacts
    <2>3. /\ imageJob[t].pc = "sizes" /\ imageJob[t].file = "original"
          /\ imageJob[t].version # 0
          /\ images' = [images EXCEPT !["sized"] = Absent]
          /\ raced' = raced \cup (IF \E u \in Tasks : Images!Resizing(u) THEN {"sized"} ELSE {})
          /\ UNCHANGED <<kind, versions, shown>>
      BY <1>3 DEF Images!RemoveSizes, Images!At, WritesInv
    <2>4. /\ DOMAIN images' = Images!Names /\ images'["original"] = images["original"]
          /\ images'["sized"] = Absent
      BY <1>f, <2>3
    <2>5. ImageType'
      BY <1>f, <1>g, <2>2, <2>3, <2>4 DEF ImageType
    <2>6. WritesInv'
      BY <2>1, <2>2, <2>3 DEF WritesInv
    <2>7. \A u \in Tasks : /\ Images!Updating(u)' <=> Images!Updating(u)
                           /\ Images!Resizing(u)' => Images!Resizing(u)
      BY <2>1, <2>2, <2>3 DEF Images!Updating, Images!Resizing
    <2>8. OriginalInv'
      BY <2>1, <2>2, <2>3, <2>4, <2>7 DEF OriginalInv
    <2>9. SizedInv'
      BY <2>3, <2>4, <2>7 DEF SizedInv
    <2> QED
      BY <2>5, <2>6, <2>8, <2>9 DEF ImageInv
  <1>4. ASSUME NEW t \in Tasks, Images!Open(t) PROVE ImageInv'
    <2> DEFINE n == imageJob[t].file
    <2>1. PICK r \in ImageJob : /\ imageJob' = [imageJob EXCEPT ![t] = r] /\ r.pc = "write"
                                /\ r.file = imageJob[t].file /\ r.version = imageJob[t].version
                                /\ r.wants = imageJob[t].wants /\ r.then = imageJob[t].then
      BY <1>4, GoesFacts DEF Images!Open
    <2>2. /\ imageJob' \in [Tasks -> ImageJob] /\ imageJob'[t] = r
          /\ \A u \in Tasks : u # t => imageJob'[u] = imageJob[u]
      BY <2>1, ImageJobFacts
    <2>3. /\ imageJob[t].pc = "open" /\ imageJob[t].version # 0
          /\ images' = IF images[n] = Absent THEN [images EXCEPT ![n] = [by |-> t, version |-> 0]]
                         ELSE images
          /\ UNCHANGED <<kind, versions, shown, raced>>
      BY <1>4 DEF Images!Open, Images!At, WritesInv
    <2>4. /\ DOMAIN images' = Images!Names
          /\ \A m \in Images!Names : m # n => images'[m] = images[m]
          /\ images'[n] = IF images[n] = Absent THEN [by |-> t, version |-> 0] ELSE images[n]
          /\ n \in {"original", "sized"}
      BY <1>f, <2>3
    <2> HIDE DEF n
    <2>5. ImageType'
      BY <1>f, <1>g, <2>2, <2>3, <2>4 DEF ImageType
    <2>6. WritesInv'
      BY <2>1, <2>2, <2>3 DEF WritesInv
    <2>7. \A u \in Tasks : /\ Images!Updating(u)' <=> Images!Updating(u)
                           /\ Images!Resizing(u)' <=> Images!Resizing(u)
      BY <2>1, <2>2, <2>3 DEF Images!Updating, Images!Resizing
    <2>p. Pending' <=> Pending
      BY <2>1, <2>2, <2>3 DEF Pending
    <2>8. CASE n = "original"
      <3>1. Images!Updating(t) /\ images'["sized"] = images["sized"]
        BY <1>f, <2>3, <2>4, <2>8 DEF Images!Updating, n
      <3>2. OriginalInv'
        <4> SUFFICES ASSUME "original" \notin raced PROVE OriginalInv'
          BY <2>3 DEF OriginalInv
        <4>1. images["original"] = Absent /\ \A u \in Tasks : Images!Updating(u) => u = t
          BY <2>3, <3>1 DEF OriginalInv
        <4>2. images'["original"] = [by |-> t, version |-> 0]
          BY <2>4, <2>8, <4>1
        <4> QED
          BY <2>1, <2>2, <2>7, <3>1, <4>1, <4>2 DEF OriginalInv
      <3>3. SizedInv'
        <4> SUFFICES ASSUME "sized" \notin raced, ~ Pending PROVE SizedInv'
          BY <2>3, <2>p DEF SizedInv
        <4>1. CASE images["original"] = Absent
          <5>1. images["sized"] = Absent /\ \A u \in Tasks : ~ Images!Resizing(u)
            BY <4>1 DEF SizedInv
          <5> QED
            BY <2>7, <3>1, <5>1 DEF SizedInv
        <4>2. CASE images["original"] # Absent
          <5>1. images'["original"] = images["original"]
            BY <2>4, <2>8, <4>2
          <5>2. \A u \in Tasks : imageJob'[u].version = imageJob[u].version /\ imageJob'[u].file = imageJob[u].file
            BY <2>1, <2>2
          <5>3. \A u \in Tasks : imageJob[u].pc = "write" => imageJob'[u].pc = "write"
            BY <2>1, <2>2
          <5> QED
            BY <2>7, <3>1, <5>1, <5>2, <5>3 DEF SizedInv
        <4> QED
          BY <4>1, <4>2
      <3> QED
        BY <2>5, <2>6, <3>2, <3>3 DEF ImageInv
    <2>9. CASE n = "sized"
      <3>1. Images!Resizing(t) /\ images'["original"] = images["original"]
                               /\ ~ Images!Updating(t)
        BY <1>f, <2>3, <2>4, <2>9 DEF Images!Resizing, Images!Updating, n
      <3>2. OriginalInv'
        BY <2>1, <2>2, <2>3, <2>7, <3>1 DEF OriginalInv
      <3>3. SizedInv'
        <4> SUFFICES ASSUME "sized" \notin raced, ~ Pending PROVE SizedInv'
          BY <2>3, <2>p DEF SizedInv
        <4>1. images["original"] # Absent /\ images["original"].version = imageJob[t].version
          BY <3>1 DEF SizedInv
        <4>2. \A u \in Tasks : imageJob'[u].version = imageJob[u].version /\ imageJob'[u].file = imageJob[u].file
          BY <2>1, <2>2
        <4>3. \A u \in Tasks : imageJob[u].pc = "write" => imageJob'[u].pc = "write"
          BY <2>1, <2>2
        <4>4. imageJob'[t].pc = "write" /\ imageJob'[t].file = "sized"
          BY <2>1, <2>2, <2>9 DEF n
        <4>5. \A u \in Tasks : Images!Resizing(u)' =>
                images'["original"] # Absent /\ images'["original"].version = imageJob'[u].version
          BY <2>7, <3>1, <4>2 DEF SizedInv
        <4>6. images'["sized"] # Absent =>
                \/ images'["sized"].version = images'["original"].version
                \/ \E u \in Tasks : /\ images'["sized"] = [by |-> u, version |-> 0]
                                    /\ imageJob'[u].pc = "write" /\ imageJob'[u].file = "sized"
          BY <2>4, <2>9, <3>1, <4>2, <4>3, <4>4 DEF SizedInv
        <4>7. images'["original"].version # 0
          BY <2>3, <3>1, <4>1
        <4> QED
          BY <3>1, <4>1, <4>5, <4>6, <4>7 DEF SizedInv
      <3> QED
        BY <2>5, <2>6, <3>2, <3>3 DEF ImageInv
    <2> QED
      BY <2>4, <2>8, <2>9
  <1>5. ASSUME NEW t \in Tasks, Images!Write(t) PROVE ImageInv'
    <2> DEFINE n == imageJob[t].file
    <2>1. PICK r \in ImageJob : /\ imageJob' = [imageJob EXCEPT ![t] = r] /\ r.pc = imageJob[t].then
                                /\ r.file = imageJob[t].file /\ r.version = imageJob[t].version
                                /\ r.wants = imageJob[t].wants /\ r.then = imageJob[t].then
      BY <1>5, <1>f, GoesFacts DEF Images!Write
    <2>2. /\ imageJob' \in [Tasks -> ImageJob] /\ imageJob'[t] = r
          /\ \A u \in Tasks : u # t => imageJob'[u] = imageJob[u]
      BY <2>1, ImageJobFacts
    <2>3. /\ imageJob[t].pc = "write" /\ imageJob[t].version # 0 /\ imageJob[t].version \in Nat
          /\ images' = IF images[n] = [by |-> t, version |-> 0]
                       THEN [images EXCEPT ![n].version = imageJob[t].version] ELSE images
          /\ shown' = IF n = "original" THEN imageJob[t].version ELSE shown
          /\ UNCHANGED <<kind, versions, raced>>
      BY <1>5, <1>f DEF Images!Write, Images!At, WritesInv
    <2>4. /\ DOMAIN images' = Images!Names
          /\ \A m \in Images!Names : m # n => images'[m] = images[m]
          /\ images'[n] = IF images[n] = [by |-> t, version |-> 0]
                          THEN [by |-> t, version |-> imageJob[t].version] ELSE images[n]
          /\ n \in {"original", "sized"}
      BY <1>f, <2>3
    <2> HIDE DEF n
    <2>5. ImageType'
      BY <1>f, <1>g, <2>2, <2>3, <2>4 DEF ImageType
    <2>a. r.pc \notin Busy /\ r.pc # "remove"
      BY <1>f, <2>1 DEF Busy
    <2>6. WritesInv'
      BY <2>1, <2>2, <2>3, <2>a DEF WritesInv, Busy
    <2>7. /\ \A u \in Tasks : u # t => /\ Images!Updating(u)' <=> Images!Updating(u)
                                       /\ Images!Resizing(u)' <=> Images!Resizing(u)
          /\ ~ Images!Updating(t)' /\ ~ Images!Resizing(t)'
      BY <2>1, <2>2, <2>a DEF Images!Updating, Images!Resizing, Busy
    <2>p. Pending' <=> Pending
      BY <2>1, <2>2, <2>3, <2>a DEF Pending, Busy
    <2>8. CASE n = "original"
      <3>1. Images!Updating(t) /\ images'["sized"] = images["sized"]
        BY <1>f, <2>3, <2>4, <2>8 DEF Images!Updating, n
      <3>2. OriginalInv'
        <4> SUFFICES ASSUME "original" \notin raced PROVE OriginalInv'
          BY <2>3 DEF OriginalInv
        <4>1. /\ images["original"] = [by |-> t, version |-> 0]
              /\ \A u \in Tasks : Images!Updating(u) => u = t
          BY <2>3, <3>1 DEF OriginalInv
        <4>2. images'["original"] = [by |-> t, version |-> imageJob[t].version] /\ shown' = imageJob[t].version
          BY <2>3, <2>4, <2>8, <4>1
        <4>3. images'["original"] # Absent /\ images'["original"].version = shown'
          BY <1>g, <2>3, <4>2
        <4>4. \A u \in Tasks : ~ Images!Updating(u)'
          BY <2>7, <4>1
        <4> QED
          BY <4>3, <4>4 DEF OriginalInv
      <3>3. SizedInv'
        <4> SUFFICES ASSUME "sized" \notin raced, ~ Pending PROVE SizedInv'
          BY <2>3, <2>p DEF SizedInv
        <4>1. CASE images["original"] = [by |-> t, version |-> 0]
          <5>1. images["sized"] = Absent
            BY <4>1 DEF SizedInv
          <5>2. ASSUME NEW u \in Tasks, Images!Resizing(u) PROVE FALSE
            <6>1. imageJob[u].version = 0
              BY <4>1, <5>2 DEF SizedInv
            <6> QED
              BY <5>2, <6>1 DEF WritesInv, Images!Resizing
          <5> QED
            BY <2>7, <3>1, <5>1, <5>2 DEF SizedInv
        <4>2. CASE images["original"] # [by |-> t, version |-> 0]
          <5>1. images'["original"] = images["original"]
            BY <2>4, <2>8, <4>2
          <5>2. \A u \in Tasks : imageJob'[u].version = imageJob[u].version /\ imageJob'[u].file = imageJob[u].file
            BY <2>1, <2>2
          <5>3. \A u \in Tasks : imageJob[u].pc = "write" /\ imageJob[u].file = "sized" =>
                   imageJob'[u].pc = "write" /\ imageJob'[u].file = "sized"
            BY <2>2, <2>8 DEF n
          <5> QED
            BY <2>7, <3>1, <5>1, <5>2, <5>3 DEF SizedInv
        <4> QED
          BY <4>1, <4>2
      <3> QED
        BY <2>5, <2>6, <3>2, <3>3 DEF ImageInv
    <2>9. CASE n = "sized"
      <3>1. Images!Resizing(t) /\ images'["original"] = images["original"]
                               /\ ~ Images!Updating(t) /\ shown' = shown
        BY <1>f, <2>3, <2>4, <2>9 DEF Images!Resizing, Images!Updating, n
      <3>2. OriginalInv'
        <4>1. \A u \in Tasks : Images!Updating(u)' <=> Images!Updating(u)
          BY <2>7, <3>1
        <4>2. \A u \in Tasks : Images!Updating(u) => imageJob'[u] = imageJob[u]
          BY <2>2, <3>1
        <4> QED
          BY <2>3, <3>1, <4>1, <4>2 DEF OriginalInv
      <3>3. SizedInv'
        <4> SUFFICES ASSUME "sized" \notin raced, ~ Pending PROVE SizedInv'
          BY <2>3, <2>p DEF SizedInv
        <4>1. images["original"] # Absent /\ images["original"].version = imageJob[t].version
          BY <3>1 DEF SizedInv
        <4>5. \A u \in Tasks : Images!Resizing(u)' =>
                images'["original"] # Absent /\ images'["original"].version = imageJob'[u].version
          BY <2>2, <2>7, <3>1 DEF SizedInv
        <4>6. images'["sized"] # Absent =>
                \/ images'["sized"].version = images'["original"].version
                \/ \E u \in Tasks : /\ images'["sized"] = [by |-> u, version |-> 0]
                                    /\ imageJob'[u].pc = "write" /\ imageJob'[u].file = "sized"
          <5>1. CASE images["sized"] = [by |-> t, version |-> 0]
            BY <1>f, <2>3, <2>4, <2>9, <3>1, <4>1, <5>1
          <5>2. CASE images["sized"] # [by |-> t, version |-> 0]
            <6>1. images'["sized"] = images["sized"]
              BY <2>4, <2>9, <5>2
            <6> QED
              BY <2>2, <3>1, <5>2, <6>1 DEF SizedInv
          <5> QED
            BY <5>1, <5>2
        <4>7. images'["original"].version # 0
          BY <2>3, <3>1, <4>1
        <4> QED
          BY <3>1, <4>1, <4>5, <4>6, <4>7 DEF SizedInv
      <3> QED
        BY <2>5, <2>6, <3>2, <3>3 DEF ImageInv
    <2> QED
      BY <2>4, <2>8, <2>9

  <1>6. ASSUME NEW t \in Tasks, NEW n \in Images!Names, Images!Ask(t, n) PROVE ImageInv'
    <2> DEFINE r == [imageJob[t] EXCEPT !.pc = IF kind.looks THEN "look" ELSE "read", !.wants = n]
    <2>1. /\ imageJob[t].pc = "idle" /\ imageJob' = [imageJob EXCEPT ![t] = r]
          /\ UNCHANGED <<kind, images, versions, shown, raced>>
      BY <1>6 DEF Images!Ask, Images!At
    <2>2. r \in ImageJob /\ r.pc \in {"look", "read"}
      BY <1>f DEF ImageJob
    <2> HIDE DEF r
    <2>3. r.pc \notin Busy /\ r.pc # "remove" /\ imageJob[t].pc \notin Busy
      BY <2>1, <2>2 DEF Busy
    <2> QED
      BY <1>f, <2>1, <2>2, <2>3, QuietStep
  <1>7. ASSUME NEW t \in Tasks, Images!has_library_image(t) PROVE ImageInv'
    <2>1. imageJob[t].pc \notin Busy
      BY <1>7 DEF Images!has_library_image, Images!At, Busy
    <2>2. /\ Images!Goes(t, "refresh") \/ Images!Goes(t, "read")
          /\ UNCHANGED <<kind, images, versions, shown, raced>>
      BY <1>7 DEF Images!has_library_image
    <2> QED
      BY <1>f, <1>s, <2>1, <2>2
  <1>8. ASSUME NEW t \in Tasks, Images!Refresh(t) PROVE ImageInv'
    <2>1. imageJob[t].pc \notin Busy
      BY <1>8 DEF Images!Refresh, Images!At, Busy
    <2>2. /\ \/ Images!Replaces(t, "reread") \/ Images!Replaces(t, "read")
             \/ (Images!Goes(t, "ended") \/ Images!Goes(t, "read")) /\ versions' = versions
          /\ UNCHANGED <<kind, images, shown, raced>>
      BY <1>8 DEF Images!Refresh
    <2> QED
      BY <1>f, <1>r, <1>s, <2>1, <2>2
  <1>9. ASSUME NEW t \in Tasks, Images!library_image(t) PROVE ImageInv'
    <2> DEFINE n == imageJob[t].wants
    <2>1. /\ imageJob[t].pc \in {"read", "reread"} /\ n \in Images!Names
          /\ \E pc \in {"resize", "refresh", "ended"} : Images!Goes(t, pc)
          /\ \/ images' = images /\ raced' = raced
             \/ /\ images[n] # Absent /\ images[n].version = 0
                /\ images' = [images EXCEPT ![n] = Absent] /\ raced' = raced \cup {n}
          /\ UNCHANGED <<kind, versions, shown>>
      BY <1>9, <1>f DEF Images!library_image, ImageJob
    <2>2. imageJob[t].pc \notin Busy
      BY <2>1 DEF Busy
    <2>3. CASE images' = images /\ raced' = raced
      BY <1>f, <1>s, <2>1, <2>2, <2>3
    <2>4. CASE /\ images[n] # Absent /\ images[n].version = 0
               /\ images' = [images EXCEPT ![n] = Absent] /\ raced' = raced \cup {n}
      <3>1. PICK r \in ImageJob : /\ imageJob' = [imageJob EXCEPT ![t] = r]
                                  /\ r.pc \in {"resize", "refresh", "ended"}
        BY <2>1, GoesFacts
      <3>2. /\ imageJob' \in [Tasks -> ImageJob] /\ imageJob'[t] = r
            /\ \A u \in Tasks : u # t => imageJob'[u] = imageJob[u]
        BY <3>1, ImageJobFacts
      <3>a. r.pc \notin Busy /\ r.pc # "remove"
        BY <3>1 DEF Busy
      <3>3. /\ DOMAIN images' = Images!Names /\ images'[n] = Absent
            /\ \A m \in Images!Names : m # n => images'[m] = images[m]
        BY <1>f, <2>1, <2>4
      <3> HIDE DEF n
      <3>4. ImageType'
        BY <1>f, <1>g, <2>1, <2>4, <3>2, <3>3 DEF ImageType
      <3>5. WritesInv'
        BY <3>2, <3>a DEF WritesInv, Busy
      <3>6. \A u \in Tasks : /\ Images!Updating(u)' <=> Images!Updating(u)
                             /\ Images!Resizing(u)' <=> Images!Resizing(u)
                             /\ Images!Updating(u) \/ Images!Resizing(u) => u # t
        BY <2>2, <3>2, <3>a DEF Images!Updating, Images!Resizing, Busy
      <3>7. Pending' <=> Pending
        BY <2>2, <3>2, <3>a DEF Pending, Busy
      <3>8. \A u \in Tasks : imageJob[u].pc = "write" => u # t
        BY <2>2 DEF Busy
      <3>9. OriginalInv'
        <4> SUFFICES ASSUME "original" \notin raced' PROVE OriginalInv'
          BY DEF OriginalInv
        <4>1. "original" \notin raced /\ images'["original"] = images["original"]
                                      /\ shown' = shown
          BY <1>f, <2>1, <2>4, <3>3
        <4> QED
          BY <3>2, <3>6, <4>1 DEF OriginalInv
      <3>10. SizedInv'
        <4> SUFFICES ASSUME "sized" \notin raced', ~ Pending PROVE SizedInv'
          BY <3>7 DEF SizedInv
        <4>1. "sized" \notin raced /\ images'["sized"] = images["sized"]
          BY <1>f, <2>4, <3>3
        <4>2. CASE n = "original"
          <5>1. images["original"].version = 0
            BY <2>4, <4>2
          <5>2. images["sized"] = Absent
            BY <4>1, <5>1 DEF SizedInv
          <5>3. ASSUME NEW u \in Tasks, Images!Resizing(u) PROVE FALSE
            <6>1. imageJob[u].version = 0
              BY <4>1, <5>1, <5>3 DEF SizedInv
            <6> QED
              BY <5>3, <6>1 DEF WritesInv, Images!Resizing
          <5> QED
            BY <3>6, <4>1, <5>2, <5>3 DEF SizedInv
        <4>3. CASE n # "original"
          <5>1. images'["original"] = images["original"]
            BY <1>f, <3>3, <4>3
          <5> QED
            BY <3>2, <3>6, <3>8, <4>1, <5>1 DEF SizedInv
        <4> QED
          BY <4>2, <4>3
      <3> QED
        BY <3>4, <3>5, <3>9, <3>10 DEF ImageInv
    <2> QED
      BY <2>1, <2>3, <2>4
  <1>10. ASSUME NEW t \in Tasks, Images!Resize(t) PROVE ImageInv'
    <2>1. imageJob[t].pc = "resize" /\ UNCHANGED <<kind, images, versions, shown, raced>>
      BY <1>10 DEF Images!Resize, Images!At
    <2>2. imageJob[t].pc \notin Busy
      BY <2>1 DEF Busy
    <2>3. CASE images["original"] = Absent \/ images["original"].version = 0
      <3>1. Images!Goes(t, "ended")
        BY <1>10, <2>3 DEF Images!Resize
      <3> QED
        BY <1>f, <1>s, <2>1, <2>2, <3>1
    <2>4. CASE ~ (images["original"] = Absent \/ images["original"].version = 0)
      <3> DEFINE r == [pc |-> "clear", wants |-> "sized", file |-> "sized",
                       version |-> images["original"].version, then |-> "ended"]
      <3>1. imageJob' = [imageJob EXCEPT ![t] = r]
        BY <1>10, <2>4 DEF Images!Resize
      <3>2. /\ r \in ImageJob /\ r.pc = "clear" /\ r.file = "sized"
            /\ r.version = images["original"].version
        BY <1>f, <1>g, <2>4 DEF ImageJob
      <3> HIDE DEF r
      <3>3. /\ imageJob' \in [Tasks -> ImageJob] /\ imageJob'[t] = r
            /\ \A u \in Tasks : u # t => imageJob'[u] = imageJob[u]
        BY <3>1, <3>2, ImageJobFacts
      <3>4. ImageType'
        BY <2>1, <3>3 DEF ImageType
      <3>5. WritesInv'
        BY <2>4, <3>2, <3>3 DEF WritesInv
      <3>6. /\ \A u \in Tasks : /\ Images!Updating(u)' <=> Images!Updating(u)
                                /\ Images!Updating(u) => u # t
            /\ \A u \in Tasks : Images!Resizing(u)' <=> Images!Resizing(u) \/ u = t
        BY <2>2, <3>2, <3>3 DEF Images!Updating, Images!Resizing, Busy
      <3>7. Pending' <=> Pending
        BY <2>2, <3>2, <3>3 DEF Pending, Busy
      <3>8. \A u \in Tasks : imageJob[u].pc = "write" => u # t
        BY <2>2 DEF Busy
      <3>9. OriginalInv'
        BY <2>1, <3>3, <3>6 DEF OriginalInv
      <3>10. SizedInv'
        <4> SUFFICES ASSUME "sized" \notin raced, ~ Pending PROVE SizedInv'
          BY <2>1, <3>7 DEF SizedInv
        <4>1. \A u \in Tasks : Images!Resizing(u)' =>
                images'["original"] # Absent /\ images'["original"].version = imageJob'[u].version
          BY <2>1, <2>4, <3>2, <3>3, <3>6 DEF SizedInv
        <4> QED
          BY <2>1, <3>3, <3>8, <4>1 DEF SizedInv
      <3> QED
        BY <3>4, <3>5, <3>9, <3>10 DEF ImageInv
    <2> QED
      BY <2>3, <2>4
  <1>11. ASSUME NEW t \in Tasks, Images!ClearSize(t) PROVE ImageInv'
    <2>1. PICK r \in ImageJob : /\ imageJob' = [imageJob EXCEPT ![t] = r] /\ r.pc = "open"
                                /\ r.file = imageJob[t].file /\ r.version = imageJob[t].version
      BY <1>11, GoesFacts DEF Images!ClearSize
    <2>2. /\ imageJob' \in [Tasks -> ImageJob] /\ imageJob'[t] = r
          /\ \A u \in Tasks : u # t => imageJob'[u] = imageJob[u]
      BY <2>1, ImageJobFacts
    <2>3. /\ imageJob[t].pc = "clear" /\ imageJob[t].file = "sized" /\ imageJob[t].version # 0
          /\ images' = [images EXCEPT !["sized"] = Absent]
          /\ UNCHANGED <<kind, versions, shown, raced>>
      BY <1>11 DEF Images!ClearSize, Images!At, WritesInv
    <2>4. /\ DOMAIN images' = Images!Names /\ images'["original"] = images["original"]
          /\ images'["sized"] = Absent
      BY <1>f, <2>3
    <2>5. ImageType'
      BY <1>f, <1>g, <2>2, <2>3, <2>4 DEF ImageType
    <2>6. WritesInv'
      BY <2>1, <2>2, <2>3 DEF WritesInv
    <2>7. \A u \in Tasks : /\ Images!Updating(u)' <=> Images!Updating(u)
                           /\ Images!Updating(u) => u # t
                           /\ Images!Resizing(u)' <=> Images!Resizing(u)
      BY <2>1, <2>2, <2>3 DEF Images!Updating, Images!Resizing
    <2>8. Pending' <=> Pending
      BY <2>1, <2>2, <2>3 DEF Pending
    <2>9. OriginalInv'
      BY <2>2, <2>3, <2>4, <2>7 DEF OriginalInv
    <2>10. \A u \in Tasks : imageJob'[u].version = imageJob[u].version
      BY <2>1, <2>2
    <2>11. SizedInv'
      BY <2>3, <2>4, <2>7, <2>8, <2>10 DEF SizedInv
    <2> QED
      BY <2>5, <2>6, <2>9, <2>11 DEF ImageInv
  <1>12. ASSUME NEW t \in Tasks, Images!serve_cached_entity_image(t) PROVE ImageInv'
    <2>1. imageJob[t].pc \notin Busy
      BY <1>12 DEF Images!serve_cached_entity_image, Images!At, Busy
    <2>2. /\ Images!Goes(t, "ended") \/ Images!Goes(t, "create")
          /\ UNCHANGED <<kind, images, versions, shown, raced>>
      BY <1>12 DEF Images!serve_cached_entity_image
    <2> QED
      BY <1>f, <1>s, <2>1, <2>2
  <1>13. ASSUME NEW t \in Tasks, Images!Create(t) PROVE ImageInv'
    <2>1. imageJob[t].pc \notin Busy
      BY <1>13 DEF Images!Create, Images!At, Busy
    <2>2. /\ Images!Goes(t, "fetch") /\ UNCHANGED <<kind, versions, shown, raced>>
          /\ images' = images \/ images' = [images EXCEPT !["external"] = [by |-> t, version |-> 0]]
      BY <1>13 DEF Images!Create
    <2>3. /\ DOMAIN images' = Images!Names /\ images'["original"] = images["original"]
          /\ images'["sized"] = images["sized"]
      BY <1>f, <2>2
    <2> QED
      BY <1>s, <2>1, <2>2, <2>3
  <1>14. ASSUME NEW t \in Tasks, Images!Fetch(t) PROVE ImageInv'
    <2>1. imageJob[t].pc \notin Busy
      BY <1>14 DEF Images!Fetch, Images!At, Busy
    <2>2. /\ Images!Goes(t, "ended") /\ UNCHANGED <<kind, versions, shown, raced>>
          /\ images' = images \/ images' = [images EXCEPT !["external"].version = 1]
      BY <1>14 DEF Images!Fetch
    <2>3. /\ DOMAIN images' = Images!Names /\ images'["original"] = images["original"]
          /\ images'["sized"] = images["sized"]
      BY <1>f, <2>2
    <2> QED
      BY <1>s, <2>1, <2>2, <2>3
  <1>15. ASSUME NEW t \in Tasks, Images!HangUp(t) PROVE ImageInv'
    <2>1. PICK r \in ImageJob : /\ imageJob' = [imageJob EXCEPT ![t] = r] /\ r.pc = "ended"
      BY <1>15, GoesFacts DEF Images!HangUp
    <2>2. /\ imageJob' \in [Tasks -> ImageJob] /\ imageJob'[t] = r
          /\ \A u \in Tasks : u # t => imageJob'[u] = imageJob[u]
      BY <2>1, ImageJobFacts
    <2>3. /\ raced' = raced \cup (IF Images!Updating(t) THEN {"original", "sized"}
                                  ELSE IF Images!Resizing(t) THEN {"sized"} ELSE {})
          /\ UNCHANGED <<kind, images, versions, shown>>
      BY <1>15 DEF Images!HangUp
    <2>4. ImageType'
      BY <1>f, <2>2, <2>3 DEF ImageType
    <2>5. WritesInv'
      BY <2>1, <2>2 DEF WritesInv
    <2>6. /\ \A u \in Tasks : u # t => /\ Images!Updating(u)' <=> Images!Updating(u)
                                       /\ Images!Resizing(u)' <=> Images!Resizing(u)
          /\ ~ Images!Updating(t)' /\ ~ Images!Resizing(t)'
      BY <2>1, <2>2 DEF Images!Updating, Images!Resizing
    <2>7. OriginalInv'
      <3> SUFFICES ASSUME "original" \notin raced' PROVE OriginalInv'
        BY DEF OriginalInv
      <3>1. "original" \notin raced /\ ~ Images!Updating(t)
        BY <2>3
      <3>2. \A u \in Tasks : Images!Updating(u)' <=> Images!Updating(u)
        BY <2>6, <3>1
      <3> QED
        BY <2>2, <2>3, <3>1, <3>2 DEF OriginalInv
    <2>8. SizedInv'
      <3> SUFFICES ASSUME "sized" \notin raced', ~ Pending' PROVE SizedInv'
        BY DEF SizedInv
      <3>1. "sized" \notin raced /\ ~ Images!Updating(t) /\ ~ Images!Resizing(t)
        BY <2>3
      <3>2. \A u \in Tasks : Images!Resizing(u)' <=> Images!Resizing(u)
        BY <2>6, <3>1
      <3>3. imageJob[t].pc \notin Busy
        BY <1>f, <3>1 DEF Busy, WritesInv, Images!Updating, Images!Resizing
      <3>4. ~ Pending
        BY <2>2, <3>3 DEF Pending, Busy
      <3>5. \A u \in Tasks : imageJob[u].pc = "write" => imageJob'[u] = imageJob[u]
        BY <2>2, <3>3 DEF Busy
      <3> QED
        BY <2>2, <2>3, <2>6, <3>1, <3>2, <3>4, <3>5 DEF SizedInv
    <2> QED
      BY <2>4, <2>5, <2>7, <2>8 DEF ImageInv
  <1>16. CASE UNCHANGED imageVars
    <2>1. UNCHANGED <<images, versions, imageJob, shown, raced>>
      BY <1>16 DEF imageVars
    <2> QED
      BY <2>1 DEF ImageInv, ImageType, WritesInv, OriginalInv, SizedInv, Pending,
                  Images!Updating, Images!Resizing
  <1> QED
    BY <1>1, <1>2, <1>3, <1>4, <1>5, <1>6, <1>7, <1>8, <1>9, <1>10, <1>11, <1>12, <1>13,
       <1>14, <1>15, <1>16 DEF Images!Next

\* There is no image in the beginning.
LEMMA ImagesInit == Images!Init => ImageInv
  <1> SUFFICES ASSUME Images!Init PROVE ImageInv
    OBVIOUS
  <1>1. /\ images = [n \in Images!Names |-> Absent] /\ versions = 0 /\ shown = 0 /\ raced = {}
        /\ imageJob = [t \in Tasks |-> Images!Idle]
    BY DEF Images!Init
  <1>2. Images!Idle \in ImageJob /\ Images!Idle.pc = "idle"
    BY DEF Images!Idle, ImageJob, Images!Names
  <1>3. "original" \in Images!Names /\ "sized" \in Images!Names
    BY DEF Images!Names
  <1>4. ImageType
    BY <1>1, <1>2, <1>3 DEF ImageType, ImageFile
  <1>5. \A t \in Tasks : ~ Images!Updating(t) /\ ~ Images!Resizing(t)
    BY <1>1, <1>2 DEF Images!Updating, Images!Resizing
  <1>6. WritesInv
    BY <1>1, <1>2 DEF WritesInv
  <1>7. OriginalInv /\ SizedInv
    BY <1>1, <1>3, <1>5 DEF OriginalInv, SizedInv
  <1> QED
    BY <1>4, <1>6, <1>7 DEF ImageInv

\* The last update is what is shown, whole and in a smaller size, but for the races
\* that the property names (UpdateShown): for any number of calls and versions.
THEOREM ShownCorrect == MCSpec => []UpdateShown
  <1> DEFINE Inv == subject = "images" => ImageInv
  <1>1. MCInit => Inv
    BY ImagesInit DEF MCInit
  <1>2. Inv /\ [MCNext]_<<subject, vars, formatVars, fileVars, imageVars, pluginVars,
                          viewVars, copyVars>> => Inv'
    <2> SUFFICES ASSUME Inv, subject' = "images",
                        [MCNext]_<<subject, vars, formatVars, fileVars, imageVars, pluginVars,
                                   viewVars, copyVars>>
                 PROVE  ImageInv'
      OBVIOUS
    <2>1. subject = "images"
      BY DEF MCNext
    <2>2. [Images!Next]_imageVars
      BY <2>1 DEF MCNext
    <2> QED
      BY <2>1, <2>2, ImagesStep
  <1>3. Inv => UpdateShown
    <2> SUFFICES ASSUME ImageInv, Images!Quiet PROVE Images!UpdateShown
      BY DEF UpdateShown, Images!UpdateShown
    <2>0. ImageType /\ WritesInv /\ OriginalInv /\ SizedInv
      BY DEF ImageInv
    <2>1. \A t \in Tasks : ~ Images!Updating(t) /\ ~ Images!Resizing(t)
      BY DEF Images!Quiet
    <2>2. ~ Pending
      BY <2>0, <2>1 DEF Pending, WritesInv, Images!Updating
    <2>3. \A u \in Tasks : ~ (imageJob[u].pc = "write" /\ imageJob[u].file = "sized")
      BY <2>1 DEF Images!Resizing
    <2> QED
      BY <2>0, <2>1, <2>2, <2>3 DEF Images!UpdateShown, OriginalInv, SizedInv
  <1> QED
    BY <1>1, <1>2, <1>3, PTL DEF MCSpec

-----------------------------------------------------------------------------
(* Files that are lost.                                                    *)

\* The migration of p has not listed the files.
Unmoved(p) == mig[p].pc \in {"none", "queued", "started"}

\* A migration is its request's own, and treats files that have rows.
OwnInv ==
  /\ \A p \in Patches :
       /\ mig[p].pc # "none" => Changing(p) /\ patch[p].pc = "done"
       /\ mig[p].pc # "running" => mig[p].todo = {}
       /\ mig[p].hand # None => mig[p].hand \in mig[p].todo
       /\ mig[p].todo \subseteq rows
  /\ \A m \in Medias : m \in rows <=> up[m].pc = "added"

\* Nobody changes the password but to decrypt, which leaves the row.
Steady == \A p \in Patches : Changing(p) => Decrypts(p)

\* One request at most changes the encryption.
Sole == \A p, q \in Patches : Changing(p) /\ Changing(q) => p = q

\* While nobody sets a password, all that was read of it is the stored one.
KeptFacts ==
  /\ cached = stored
  /\ \A p \in Patches :
       /\ patch[p].pc # "idle" => patch[p].old = stored
       /\ patch[p].pc = "reread" => patch[p].row = stored
       /\ mig[p].pc \in {"started", "running"} => mig[p].key = stored
  /\ \A m \in Medias : up[m].pc # "idle" => up[m].key = stored

\* KeptFacts, as long as nobody sets a password.
KeptInv == Steady => KeptFacts

\* The file is written.
There(m) == up[m].pc \in {"written", "added"}

\* No migration has treated it.
Untouched(m) == \A p \in Patches : Unmoved(p) \/ m \in mig[p].todo

\* With one request that changes it, files are whole, what a task has in hand is
\* what the file holds, and a file no migration has treated is as it was uploaded.
WholeFacts ==
  /\ \A m \in Medias : There(m) => file[m] # Garbage
  /\ \A p \in Patches : mig[p].hand # None => mig[p].data = file[mig[p].hand]
  /\ Steady => \A m \in Medias : There(m) /\ Untouched(m) => file[m] = Layer(stored)

\* WholeFacts, as long as one request at most changes the encryption.
WholeInv == Sole => WholeFacts

\* Nothing is read or written in the beginning.
LEMMA InitLost == Init => OwnInv /\ KeptInv /\ WholeInv
<1> SUFFICES ASSUME Init
             PROVE  OwnInv /\ KeptInv /\ WholeInv
  OBVIOUS
<1>1. /\ \A p \in Patches : patch[p].pc = "idle" /\ ~Changing(p)
      /\ \A p \in Patches : mig[p].pc = "none" /\ mig[p].todo = {} /\ mig[p].hand = None
      /\ \A m \in Medias : up[m].pc = "idle"
      /\ cached = stored /\ rows = {}
  BY DEF Init, Changing
<1>2. OwnInv
  BY <1>1 DEF OwnInv
<1>3. KeptInv
  BY <1>1 DEF KeptInv, KeptFacts
<1>4. WholeInv
  BY <1>1 DEF WholeInv, WholeFacts, There
<1>q. QED
  BY <1>2, <1>3, <1>4

\* What a request asks for stays what it was.
RequestsKept ==
  \A x \in Patches : patch[x].pc # "idle" =>
    patch'[x].pc # "idle" /\ patch'[x].old = patch[x].old /\ patch'[x].new = patch[x].new

\* No step changes what an earlier request asks for.
LEMMA RequestsStep ==
  ASSUME TypeOK, [Next]_vars
  PROVE  RequestsKept
<1> USE DEF TypeOK, Patch, RequestsKept
<1>1. ASSUME NEW p \in Patches, ReadOld(p)
      PROVE RequestsKept
  BY <1>1 DEF ReadOld
<1>2. ASSUME NEW p \in Patches, UpdateRow(p)
      PROVE RequestsKept
  BY <1>2 DEF UpdateRow
<1>3. ASSUME NEW p \in Patches, Reread(p)
      PROVE RequestsKept
  BY <1>3 DEF Reread
<1>4. ASSUME NEW p \in Patches, UpdateCache(p)
      PROVE RequestsKept
  BY <1>4 DEF UpdateCache
<1>5. ASSUME NEW p \in Patches, Schedule(p)
      PROVE RequestsKept
  BY <1>5 DEF Schedule
<1>6. ASSUME NEW p \in Patches, HangUp(p)
      PROVE RequestsKept
  BY <1>6 DEF HangUp
<1>7. ASSUME NEW p \in Patches, StartTask(p)
      PROVE RequestsKept
  BY <1>7 DEF StartTask
<1>8. ASSUME NEW p \in Patches, TakeSnapshot(p)
      PROVE RequestsKept
  BY <1>8 DEF TakeSnapshot
<1>9. ASSUME NEW p \in Patches, FinishTask(p)
      PROVE RequestsKept
  BY <1>9 DEF FinishTask
<1>10. ASSUME NEW p \in Patches, NEW m \in Medias, ReadFile(p, m)
      PROVE RequestsKept
  BY <1>10 DEF ReadFile
<1>11. ASSUME NEW p \in Patches, NEW m \in Medias, Replace(p, m)
      PROVE RequestsKept
  BY <1>11 DEF Replace
<1>12. ASSUME NEW p \in Patches, NEW m \in Medias, ProcessFails(p, m)
      PROVE RequestsKept
  BY <1>12 DEF ProcessFails
<1>13. ASSUME NEW m \in Medias, BeginUpload(m)
      PROVE RequestsKept
  BY <1>13 DEF BeginUpload
<1>14. ASSUME NEW m \in Medias, WriteFile(m)
      PROVE RequestsKept
  BY <1>14 DEF WriteFile
<1>15. ASSUME NEW m \in Medias, AddRow(m)
      PROVE RequestsKept
  BY <1>15 DEF AddRow
<1>16. ASSUME NEW m \in Medias, LoseUpload(m)
      PROVE RequestsKept
  BY <1>16 DEF LoseUpload
<1>17. CASE Crash
  BY <1>17 DEF Crash
<1>18. CASE UNCHANGED vars
  BY <1>18 DEF vars
<1>q. QED
  BY <1>1, <1>2, <1>3, <1>4, <1>5, <1>6, <1>7, <1>8, <1>9, <1>10, <1>11, <1>12, <1>13, <1>14,
     <1>15, <1>16, <1>17, <1>18
    DEF Next, Update, Task, Upload

\* A request that changes the password goes on to be one.
LEMMA ClassStep ==
  ASSUME TypeOK, [Next]_vars
  PROVE  /\ \A p \in Patches : Changing(p) => Changing(p)'
         /\ Steady' => Steady
         /\ Sole' => Sole
<1>1. \A p \in Patches : patch[p].pc # "idle" =>
        patch'[p].pc # "idle" /\ patch'[p].old = patch[p].old /\ patch'[p].new = patch[p].new
  BY RequestsStep DEF RequestsKept
<1>2. \A p \in Patches : Changing(p) => Changing(p)' /\ (Decrypts(p)' <=> Decrypts(p))
  BY <1>1 DEF Changing, Decrypts
<1>3. Steady' => Steady
  BY <1>2, Zenon DEF Steady
<1>4. Sole' => Sole
  BY <1>2, Zenon DEF Sole
<1>q. QED
  BY <1>2, <1>3, <1>4

\* Every step preserves OwnInv.
LEMMA OwnStep ==
  ASSUME TypeOK, TaskInv, OwnInv, [Next]_vars
  PROVE  OwnInv'
<1> USE EncryptionAssumption DEF OwnInv, TypeOK, Patch, Migration, Changing, Options
<1>1. ASSUME NEW p \in Patches, ReadOld(p)
      PROVE OwnInv'
  BY <1>1 DEF ReadOld
<1>2. ASSUME NEW p \in Patches, UpdateRow(p)
      PROVE OwnInv'
  BY <1>2 DEF UpdateRow
<1>3. ASSUME NEW p \in Patches, Reread(p)
      PROVE OwnInv'
  BY <1>3 DEF Reread
<1>4. ASSUME NEW p \in Patches, UpdateCache(p)
      PROVE OwnInv'
  BY <1>4 DEF UpdateCache
<1>5. ASSUME NEW p \in Patches, Schedule(p)
      PROVE OwnInv'
  <2>1. mig[p].pc = "none" /\ mig[p].hand = None /\ mig[p].todo = {}
    BY <1>5 DEF Schedule, TaskInv
  <2>2. CASE mig' = mig
    BY <1>5, <2>2 DEF Schedule
  <2>3. CASE mig' = [mig EXCEPT ![p].pc = "queued"] /\ patch[p].new # patch[p].old
    BY <1>5, <2>1, <2>3 DEF Schedule
  <2>q. QED
    BY <1>5, <2>2, <2>3 DEF Schedule
<1>6. ASSUME NEW p \in Patches, HangUp(p)
      PROVE OwnInv'
  BY <1>6 DEF HangUp
<1>7. ASSUME NEW p \in Patches, StartTask(p)
      PROVE OwnInv'
  BY <1>7 DEF StartTask
<1>8. ASSUME NEW p \in Patches, TakeSnapshot(p)
      PROVE OwnInv'
  BY <1>8 DEF TakeSnapshot
<1>9. ASSUME NEW p \in Patches, FinishTask(p)
      PROVE OwnInv'
  BY <1>9 DEF FinishTask
<1>10. ASSUME NEW p \in Patches, NEW m \in Medias, ReadFile(p, m)
      PROVE OwnInv'
  BY <1>10 DEF ReadFile
<1>11. ASSUME NEW p \in Patches, NEW m \in Medias, Replace(p, m)
      PROVE OwnInv'
  <2>1. /\ mig'[p].pc = mig[p].pc /\ mig'[p].hand = None /\ mig'[p].todo = mig[p].todo \ {m}
    BY <1>11 DEF Replace, Drop
  <2>2. \A q \in Patches : q # p =>
          /\ mig'[q].pc = mig[q].pc /\ mig'[q].hand = mig[q].hand
          /\ mig'[q].todo = IF m \in Remote /\ mig[q].hand # m THEN mig[q].todo \ {m}
                            ELSE mig[q].todo
    <3> SUFFICES ASSUME NEW q \in Patches, q # p
                 PROVE  /\ mig'[q].pc = mig[q].pc /\ mig'[q].hand = mig[q].hand
                        /\ mig'[q].todo = IF m \in Remote /\ mig[q].hand # m THEN mig[q].todo \ {m}
                                          ELSE mig[q].todo
      OBVIOUS
    <3>1. mig'[q] = IF m \in Remote /\ mig[q].hand # m THEN [mig[q] EXCEPT !.todo = @ \ {m}]
                    ELSE mig[q]
      BY <1>11 DEF Replace
    <3>2. mig[q] \in Migration
      BY DEF TypeOK
    <3> HIDE DEF TypeOK, OwnInv
    <3>q. QED
      BY <3>1, <3>2 DEF Migration
  <2>3. patch' = patch /\ rows' = rows /\ up' = up
    BY <1>11 DEF Replace
  <2>4. \A q \in Patches : /\ mig'[q].pc = mig[q].pc
                           /\ mig'[q].hand \in {None, mig[q].hand}
                           /\ mig'[q].todo \subseteq mig[q].todo
                           /\ mig'[q].hand # None /\ mig[q].hand \in mig[q].todo
                                => mig'[q].hand \in mig'[q].todo
    <3> HIDE DEF TypeOK, OwnInv
    <3>q. QED
      BY <2>1, <2>2
  <2> HIDE DEF TypeOK
  <2>q. QED
    BY <2>3, <2>4
<1>12. ASSUME NEW p \in Patches, NEW m \in Medias, ProcessFails(p, m)
      PROVE OwnInv'
  <2>1. \A q \in Patches : q # p => mig'[q] = mig[q]
    BY <1>12 DEF ProcessFails, Drop
  <2>2. mig'[p].pc = mig[p].pc /\ mig'[p].hand = None /\ mig'[p].todo = mig[p].todo \ {m}
    BY <1>12 DEF ProcessFails, Drop
  <2>3. patch' = patch /\ rows' = rows /\ up' = up
    BY <1>12 DEF ProcessFails
  <2> HIDE DEF TypeOK
  <2>q. QED
    BY <2>1, <2>2, <2>3
<1>13. ASSUME NEW m \in Medias, BeginUpload(m)
      PROVE OwnInv'
  BY <1>13 DEF BeginUpload
<1>14. ASSUME NEW m \in Medias, WriteFile(m)
      PROVE OwnInv'
  BY <1>14 DEF WriteFile
<1>15. ASSUME NEW m \in Medias, AddRow(m)
      PROVE OwnInv'
  BY <1>15 DEF AddRow
<1>16. ASSUME NEW m \in Medias, LoseUpload(m)
      PROVE OwnInv'
  BY <1>16 DEF LoseUpload
<1>17. CASE Crash
  <2>1. rows' = rows
    BY <1>17 DEF Crash
  <2> HIDE DEF TypeOK
  <2>q. QED
    BY <1>17, <2>1, CrashPatch, CrashMig, CrashUp
<1>18. CASE UNCHANGED vars
  BY <1>18 DEF vars
<1>q. QED
  BY <1>1, <1>2, <1>3, <1>4, <1>5, <1>6, <1>7, <1>8, <1>9, <1>10, <1>11, <1>12, <1>13, <1>14,
     <1>15, <1>16, <1>17, <1>18
    DEF Next, Update, Task, Upload

\* Every step preserves KeptFacts while nobody sets a password.
LEMMA KeptStep ==
  ASSUME TypeOK, TaskInv, Steady, KeptFacts, [Next]_vars
  PROVE  KeptFacts'
<1> USE EncryptionAssumption DEF KeptFacts, TypeOK, Patch, Migration, Options
<1>1. ASSUME NEW p \in Patches, ReadOld(p)
      PROVE KeptFacts'
  BY <1>1 DEF ReadOld
<1>2. ASSUME NEW p \in Patches, UpdateRow(p)
      PROVE KeptFacts'
  <2>1. patch[p].new # None => patch[p].new = patch[p].old
    BY <1>2 DEF UpdateRow, Steady, Changing, Decrypts
  <2>2. stored' = stored
    BY <1>2, <2>1 DEF UpdateRow
  <2>q. QED
    BY <1>2, <2>2 DEF UpdateRow
<1>3. ASSUME NEW p \in Patches, Reread(p)
      PROVE KeptFacts'
  BY <1>3 DEF Reread
<1>4. ASSUME NEW p \in Patches, UpdateCache(p)
      PROVE KeptFacts'
  BY <1>4 DEF UpdateCache
<1>5. ASSUME NEW p \in Patches, Schedule(p)
      PROVE KeptFacts'
  <2>1. mig[p].pc = "none"
    BY <1>5 DEF Schedule, TaskInv
  <2>2. mig' = mig \/ mig' = [mig EXCEPT ![p].pc = "queued"]
    BY <1>5 DEF Schedule
  <2>3. \A q \in Patches : mig'[q].pc \in {"started", "running"} =>
          mig[q].pc = mig'[q].pc /\ mig'[q].key = mig[q].key
    <3>1. CASE mig' = mig
      BY <3>1
    <3>2. CASE mig' = [mig EXCEPT ![p].pc = "queued"]
      <4>1. mig'[p].pc = "queued" /\ \A q \in Patches \ {p} : mig'[q] = mig[q]
        BY <3>2
      <4>q. QED
        BY <4>1
    <3>q. QED
      BY <2>2, <3>1, <3>2
  <2>4. /\ stored' = stored /\ cached' = cached /\ up' = up
        /\ patch' = [patch EXCEPT ![p].pc = "done"] /\ patch[p].pc = "cached"
    BY <1>5 DEF Schedule
  <2>5. \A q \in Patches : /\ patch'[q].pc # "idle" => patch[q].pc # "idle"
                           /\ patch'[q].old = patch[q].old
                           /\ patch'[q].pc = "reread" => patch[q].pc = "reread"
                           /\ patch'[q].row = patch[q].row
    BY <2>4
  <2> HIDE DEF TypeOK
  <2>q. QED
    BY <2>3, <2>4, <2>5
<1>6. ASSUME NEW p \in Patches, HangUp(p)
      PROVE KeptFacts'
  BY <1>6 DEF HangUp
<1>7. ASSUME NEW p \in Patches, StartTask(p)
      PROVE KeptFacts'
  BY <1>7 DEF StartTask
<1>8. ASSUME NEW p \in Patches, TakeSnapshot(p)
      PROVE KeptFacts'
  BY <1>8 DEF TakeSnapshot
<1>9. ASSUME NEW p \in Patches, FinishTask(p)
      PROVE KeptFacts'
  BY <1>9 DEF FinishTask
<1>10. ASSUME NEW p \in Patches, NEW m \in Medias, ReadFile(p, m)
      PROVE KeptFacts'
  BY <1>10 DEF ReadFile
<1>11. ASSUME NEW p \in Patches, NEW m \in Medias, Replace(p, m)
      PROVE KeptFacts'
  <2>1. \A q \in Patches : mig'[q].pc = mig[q].pc /\ mig'[q].key = mig[q].key
    <3> SUFFICES ASSUME NEW q \in Patches
                 PROVE  mig'[q].pc = mig[q].pc /\ mig'[q].key = mig[q].key
      OBVIOUS
    <3>1. \/ mig'[q] = mig[q]
          \/ mig'[q] = [mig[q] EXCEPT !.todo = @ \ {m}]
          \/ q = p /\ mig'[q] = Drop(p, m)[p]
      BY <1>11 DEF Replace
    <3>2. Drop(p, m)[p].pc = mig[p].pc /\ Drop(p, m)[p].key = mig[p].key
      BY DEF Drop
    <3>3. mig[q] \in Migration
      BY DEF TypeOK
    <3> HIDE DEF TypeOK, KeptFacts
    <3>q. QED
      BY <3>1, <3>2, <3>3 DEF Migration
  <2>2. stored' = stored /\ cached' = cached /\ patch' = patch /\ up' = up
    BY <1>11 DEF Replace
  <2> HIDE DEF TypeOK
  <2>q. QED
    BY <2>1, <2>2
<1>12. ASSUME NEW p \in Patches, NEW m \in Medias, ProcessFails(p, m)
      PROVE KeptFacts'
  <2>1. \A q \in Patches : mig'[q].pc = mig[q].pc /\ mig'[q].key = mig[q].key
    BY <1>12 DEF ProcessFails, Drop
  <2>2. stored' = stored /\ cached' = cached /\ patch' = patch /\ up' = up
    BY <1>12 DEF ProcessFails
  <2> HIDE DEF TypeOK
  <2>q. QED
    BY <2>1, <2>2
<1>13. ASSUME NEW m \in Medias, BeginUpload(m)
      PROVE KeptFacts'
  BY <1>13 DEF BeginUpload
<1>14. ASSUME NEW m \in Medias, WriteFile(m)
      PROVE KeptFacts'
  BY <1>14 DEF WriteFile
<1>15. ASSUME NEW m \in Medias, AddRow(m)
      PROVE KeptFacts'
  BY <1>15 DEF AddRow
<1>16. ASSUME NEW m \in Medias, LoseUpload(m)
      PROVE KeptFacts'
  BY <1>16 DEF LoseUpload
<1>17. CASE Crash
  <2>1. stored' = stored /\ cached' = stored
    BY <1>17 DEF Crash
  <2> HIDE DEF TypeOK
  <2>q. QED
    BY <1>17, <2>1, CrashPatch, CrashMig, CrashUp
<1>18. CASE UNCHANGED vars
  BY <1>18 DEF vars
<1>q. QED
  BY <1>1, <1>2, <1>3, <1>4, <1>5, <1>6, <1>7, <1>8, <1>9, <1>10, <1>11, <1>12, <1>13, <1>14,
     <1>15, <1>16, <1>17, <1>18
    DEF Next, Update, Task, Upload

\* A step that writes no file keeps the files whole.
LEMMA WholeQuiet ==
  ASSUME TypeOK, OwnInv, WholeFacts, Steady' => Steady,
         file' = file, Steady' => stored' = stored,
         \A m \in Medias : There(m)' => There(m),
         \A m \in Medias : There(m)' /\ Untouched(m)' => Untouched(m),
         \A p \in Patches : mig'[p].hand # None =>
           mig[p].hand = mig'[p].hand /\ mig'[p].data = mig[p].data
  PROVE  WholeFacts'
<1>1. \A m \in Medias : There(m)' => file'[m] # Garbage
  BY DEF WholeFacts
<1>2. \A p \in Patches : mig'[p].hand # None => mig'[p].data = file'[mig'[p].hand]
  BY DEF WholeFacts
<1>3. ASSUME Steady', NEW m \in Medias, There(m)', Untouched(m)'
      PROVE  file'[m] = Layer(stored)'
  <2>1. file[m] = Layer(stored) /\ stored' = stored
    BY <1>3 DEF WholeFacts
  <2>q. QED
    BY <2>1 DEF Layer
<1>q. QED
  BY <1>1, <1>2, <1>3 DEF WholeFacts

\* Nobody but the one that changes the password has a task.
LEMMA OnlyTask ==
  ASSUME OwnInv, Sole, NEW p \in Patches, mig[p].pc # "none", NEW q \in Patches, q # p
  PROVE  mig[q].pc = "none" /\ mig[q].todo = {} /\ mig[q].hand = None
<1>1. mig[q].pc = "none"
  BY DEF OwnInv, Sole
<1>2. mig[q].todo = {}
  BY <1>1 DEF OwnInv
<1>q. QED
  BY <1>1, <1>2 DEF OwnInv

\* The types of single fields.
LEMMA TypeFacts ==
  ASSUME TypeOK
  PROVE  /\ \A p \in Patches : patch[p] \in Patch /\ mig[p] \in Migration
         /\ \A m \in Medias : up[m].pc \in UpStates /\ up[m].key \in Options /\ file[m] \in Contents
BY DEF TypeOK

\* Every step preserves WholeFacts while one request at most changes the encryption.
LEMMA WholeStep ==
  ASSUME TypeOK, TaskInv, OwnInv, OwnInv', KeptInv, Sole, WholeFacts, Steady' => Steady, [Next]_vars
  PROVE  WholeFacts'
<1> USE EncryptionAssumption
<1>1. ASSUME NEW p \in Patches, ReadOld(p)
      PROVE WholeFacts'
  <2>1. file' = file /\ up' = up /\ (Steady' => stored' = stored)
    BY <1>1 DEF ReadOld
  <2>2. \A q \in Patches : /\ mig'[q].todo = mig[q].todo /\ mig'[q].hand = mig[q].hand
                           /\ mig'[q].data = mig[q].data
                           /\ Unmoved(q)' => Unmoved(q)
    BY <1>1 DEF ReadOld, TypeOK, Migration, Unmoved
  <2>3. \A x \in Medias : (There(x)' => There(x)) /\ (Untouched(x)' => Untouched(x))
    BY <2>1, <2>2 DEF There, Untouched
  <2>q. QED
    BY <2>1, <2>2, <2>3, WholeQuiet
<1>2. ASSUME NEW p \in Patches, UpdateRow(p)
      PROVE WholeFacts'
  <2>1. file' = file /\ up' = up /\ mig' = mig
    BY <1>2 DEF UpdateRow
  <2>2. ASSUME Steady'
        PROVE  stored' = stored
    <3>1. Steady /\ patch[p].old = stored
      BY <1>2, <2>2 DEF UpdateRow, KeptInv, KeptFacts
    <3>2. patch[p].new # None => patch[p].new = patch[p].old
      BY <1>2, <3>1 DEF UpdateRow, Steady, Changing, Decrypts
    <3>q. QED
      BY <1>2, <3>1, <3>2 DEF UpdateRow
  <2>3. \A x \in Medias : (There(x)' => There(x)) /\ (Untouched(x)' => Untouched(x))
    BY <2>1 DEF There, Untouched, Unmoved
  <2>q. QED
    BY <2>1, <2>2, <2>3, WholeQuiet
<1>3. ASSUME NEW p \in Patches, Reread(p)
      PROVE WholeFacts'
  <2>1. file' = file /\ up' = up /\ (Steady' => stored' = stored)
    BY <1>3 DEF Reread
  <2>2. \A q \in Patches : /\ mig'[q].todo = mig[q].todo /\ mig'[q].hand = mig[q].hand
                           /\ mig'[q].data = mig[q].data
                           /\ Unmoved(q)' => Unmoved(q)
    BY <1>3 DEF Reread, TypeOK, Migration, Unmoved
  <2>3. \A x \in Medias : (There(x)' => There(x)) /\ (Untouched(x)' => Untouched(x))
    BY <2>1, <2>2 DEF There, Untouched
  <2>q. QED
    BY <2>1, <2>2, <2>3, WholeQuiet
<1>4. ASSUME NEW p \in Patches, UpdateCache(p)
      PROVE WholeFacts'
  <2>1. file' = file /\ up' = up /\ (Steady' => stored' = stored)
    BY <1>4 DEF UpdateCache
  <2>2. \A q \in Patches : /\ mig'[q].todo = mig[q].todo /\ mig'[q].hand = mig[q].hand
                           /\ mig'[q].data = mig[q].data
                           /\ Unmoved(q)' => Unmoved(q)
    BY <1>4 DEF UpdateCache, TypeOK, Migration, Unmoved
  <2>3. \A x \in Medias : (There(x)' => There(x)) /\ (Untouched(x)' => Untouched(x))
    BY <2>1, <2>2 DEF There, Untouched
  <2>q. QED
    BY <2>1, <2>2, <2>3, WholeQuiet
<1>5. ASSUME NEW p \in Patches, Schedule(p)
      PROVE WholeFacts'
  <2>1. file' = file /\ up' = up /\ stored' = stored
    BY <1>5 DEF Schedule
  <2>2. mig[p].pc = "none"
    BY <1>5 DEF Schedule, TaskInv
  <2>3. mig' = mig \/ mig' = [mig EXCEPT ![p].pc = "queued"]
    BY <1>5 DEF Schedule
  <2>4. \A q \in Patches : /\ mig'[q].todo = mig[q].todo /\ mig'[q].hand = mig[q].hand
                           /\ mig'[q].data = mig[q].data
                           /\ Unmoved(q)' => Unmoved(q)
    BY <2>2, <2>3 DEF TypeOK, Migration, Unmoved
  <2>5. \A x \in Medias : (There(x)' => There(x)) /\ (Untouched(x)' => Untouched(x))
    BY <2>1, <2>4 DEF There, Untouched
  <2>q. QED
    BY <2>1, <2>4, <2>5, WholeQuiet
<1>6. ASSUME NEW p \in Patches, HangUp(p)
      PROVE WholeFacts'
  <2>1. file' = file /\ up' = up /\ (Steady' => stored' = stored)
    BY <1>6 DEF HangUp
  <2>2. \A q \in Patches : /\ mig'[q].todo = mig[q].todo /\ mig'[q].hand = mig[q].hand
                           /\ mig'[q].data = mig[q].data
                           /\ Unmoved(q)' => Unmoved(q)
    BY <1>6 DEF HangUp, TypeOK, Migration, Unmoved
  <2>3. \A x \in Medias : (There(x)' => There(x)) /\ (Untouched(x)' => Untouched(x))
    BY <2>1, <2>2 DEF There, Untouched
  <2>q. QED
    BY <2>1, <2>2, <2>3, WholeQuiet
<1>7. ASSUME NEW p \in Patches, StartTask(p)
      PROVE WholeFacts'
  <2>1. file' = file /\ up' = up /\ (Steady' => stored' = stored)
    BY <1>7 DEF StartTask
  <2>2. \A q \in Patches : /\ mig'[q].todo = mig[q].todo /\ mig'[q].hand = mig[q].hand
                           /\ mig'[q].data = mig[q].data
                           /\ Unmoved(q)' => Unmoved(q)
    BY <1>7 DEF StartTask, TypeOK, Migration, Unmoved
  <2>3. \A x \in Medias : (There(x)' => There(x)) /\ (Untouched(x)' => Untouched(x))
    BY <2>1, <2>2 DEF There, Untouched
  <2>q. QED
    BY <2>1, <2>2, <2>3, WholeQuiet
<1>8. ASSUME NEW p \in Patches, TakeSnapshot(p)
      PROVE WholeFacts'
  <2>1. file' = file /\ up' = up /\ stored' = stored
    BY <1>8 DEF TakeSnapshot
  <2>2. \A q \in Patches : /\ mig'[q].hand = mig[q].hand /\ mig'[q].data = mig[q].data
                           /\ q # p => mig'[q] = mig[q]
    BY <1>8 DEF TakeSnapshot, TypeOK, Migration
  <2>3. mig[p].pc = "started"
    BY <1>8 DEF TakeSnapshot
  <2>4. \A x \in Medias : There(x)' => There(x)
    BY <2>1 DEF There
  <2>5. \A x \in Medias : Untouched(x)' => Untouched(x)
    BY <2>2, <2>3 DEF Untouched, Unmoved
  <2>q. QED
    BY <2>1, <2>2, <2>4, <2>5, WholeQuiet
<1>9. ASSUME NEW p \in Patches, FinishTask(p)
      PROVE WholeFacts'
  <2>1. file' = file /\ up' = up /\ (Steady' => stored' = stored)
    BY <1>9 DEF FinishTask
  <2>2. \A q \in Patches : /\ mig'[q].todo = mig[q].todo /\ mig'[q].hand = mig[q].hand
                           /\ mig'[q].data = mig[q].data
                           /\ Unmoved(q)' => Unmoved(q)
    BY <1>9 DEF FinishTask, TypeOK, Migration, Unmoved
  <2>3. \A x \in Medias : (There(x)' => There(x)) /\ (Untouched(x)' => Untouched(x))
    BY <2>1, <2>2 DEF There, Untouched
  <2>q. QED
    BY <2>1, <2>2, <2>3, WholeQuiet
<1>10. ASSUME NEW p \in Patches, NEW m \in Medias, ReadFile(p, m)
      PROVE WholeFacts'
  <2>1. file' = file /\ up' = up /\ stored' = stored
    BY <1>10 DEF ReadFile
  <2>2. /\ mig'[p].hand = m /\ mig'[p].data = file[m]
        /\ \A q \in Patches : q # p => mig'[q] = mig[q]
        /\ \A q \in Patches : mig'[q].pc = mig[q].pc /\ mig'[q].todo = mig[q].todo
    BY <1>10 DEF ReadFile, TypeOK, Migration
  <2>3. \A x \in Medias : (There(x)' <=> There(x)) /\ (Untouched(x)' <=> Untouched(x))
    BY <2>1, <2>2 DEF There, Untouched, Unmoved
  <2>4. \A q \in Patches : mig'[q].hand # None => mig'[q].data = file'[mig'[q].hand]
    BY <2>1, <2>2 DEF WholeFacts
  <2>5. Layer(stored)' = Layer(stored)
    BY <2>1 DEF Layer
  <2>q. QED
    BY <2>1, <2>3, <2>4, <2>5 DEF WholeFacts
<1>11. ASSUME NEW p \in Patches, NEW m \in Medias, Replace(p, m)
      PROVE WholeFacts'
  <2>1. m = mig[p].hand /\ m # None /\ mig[p].pc = "running"
    BY <1>11 DEF Replace, TaskInv
  <2>2. /\ m \in mig[p].todo /\ m \in rows /\ up[m].pc = "added" /\ Changing(p)
        /\ mig[p].data = file[m] /\ mig[p].key \in Passwords
    <3>1. m \in mig[p].todo /\ Changing(p)
      BY <2>1 DEF OwnInv
    <3>2. m \in rows /\ mig[p].data = file[m] /\ mig[p].key \in Passwords
      BY <2>1, <3>1 DEF OwnInv, WholeFacts, TaskInv
    <3>q. QED
      BY <3>1, <3>2 DEF OwnInv
  <2>3. \A q \in Patches : q # p => mig[q].pc = "none" /\ mig[q].todo = {} /\ mig[q].hand = None
    BY <2>1, OnlyTask
  <2>4. ~SharesTemp(p, m)
    BY <2>1, <2>3 DEF SharesTemp
  <2>5. file' = [file EXCEPT ![m] = Processed(p)]
    BY <1>11, <2>4 DEF Replace
  <2>6. There(m) /\ file[m] # Garbage /\ file[m] \in Contents
    BY <2>2, TypeFacts DEF There, WholeFacts
  <2>7. Processed(p) # Garbage
    <3>1. CASE Decrypts(p)
      <4>1. Steady
        BY <2>2, <3>1 DEF Sole, Steady
      <4>2. Untouched(m)
        BY <2>2, <2>3 DEF Untouched, Unmoved
      <4>3. patch[p].old = stored /\ mig[p].key = stored
        BY <2>1, <2>2, <4>1 DEF KeptInv, KeptFacts, Changing
      <4>4. stored # None
        BY <2>2, <3>1, <4>3 DEF Changing, Decrypts
      <4>5. file[m] = <<stored>>
        BY <2>6, <4>1, <4>2, <4>4 DEF WholeFacts, Layer
      <4>6. stored \in Passwords
        BY <2>2, <4>3
      <4>7. Decrypt(<<stored>>, stored) = <<>>
        <5>1. <<stored>> # Garbage /\ <<stored>> # <<>>
          BY <2>6, <4>5
        <5>2. Len(<<stored>>) = 1 /\ <<stored>>[1] = stored
          OBVIOUS
        <5>3. SubSeq(<<stored>>, 1, 0) = <<>>
          BY <4>6
        <5>q. QED
          BY <5>1, <5>2, <5>3 DEF Decrypt
      <4>8. <<>> # Garbage
        <5>1. <<>> \in Seq(Passwords)
          OBVIOUS
        <5>q. QED
          BY <5>1, EncryptionAssumption
      <4>q. QED
        BY <2>2, <3>1, <4>3, <4>5, <4>7, <4>8 DEF Processed
    <3>2. CASE ~Decrypts(p)
      <4>1. file[m] \in Seq(Passwords)
        BY <2>6 DEF Contents
      <4>2. Append(file[m], mig[p].key) \in Seq(Passwords)
        BY <2>2, <4>1
      <4>q. QED
        BY <2>2, <2>6, <3>2, <4>2, EncryptionAssumption DEF Processed, Encrypt
    <3>q. QED
      BY <3>1, <3>2
  <2>8. \A x \in Medias : file'[x] = IF x = m THEN Processed(p) ELSE file[x]
    BY <2>5 DEF TypeOK
  <2>9. /\ mig'[p].pc = mig[p].pc /\ mig'[p].hand = None /\ mig'[p].todo = mig[p].todo \ {m}
    BY <1>11, TypeFacts DEF Replace, Drop, Migration, TypeOK
  <2>10. \A q \in Patches : q # p => mig'[q].pc = "none" /\ mig'[q].hand = None
    BY <1>11, OwnStep, <2>3, TypeFacts DEF Replace, Migration
  <2>11. up' = up /\ stored' = stored
    BY <1>11 DEF Replace
  <2>12. \A x \in Medias : There(x)' <=> There(x)
    BY <2>11 DEF There
  <2>13. \A x \in Medias : Untouched(x)' => Untouched(x) /\ x # m
    BY <2>1, <2>3, <2>9 DEF Untouched, Unmoved
  <2>14. \A x \in Medias : There(x)' => file'[x] # Garbage
    BY <2>7, <2>8, <2>12 DEF WholeFacts
  <2>15. \A q \in Patches : mig'[q].hand = None
    BY <2>9, <2>10
  <2>16. Layer(stored)' = Layer(stored)
    BY <2>11 DEF Layer
  <2>17. Steady' => \A x \in Medias : There(x)' /\ Untouched(x)' => file'[x] = Layer(stored)'
    BY <2>8, <2>12, <2>13, <2>16 DEF WholeFacts
  <2>q. QED
    BY <2>14, <2>15, <2>17 DEF WholeFacts
<1>12. ASSUME NEW p \in Patches, NEW m \in Medias, ProcessFails(p, m)
      PROVE WholeFacts'
  <2>1. m = mig[p].hand /\ m # None /\ mig[p].pc = "running"
    BY <1>12 DEF ProcessFails, TaskInv
  <2>2. \A q \in Patches : q # p => mig[q].pc = "none" /\ mig[q].todo = {} /\ mig[q].hand = None
    BY <2>1, OnlyTask
  <2>3. ~SharesTemp(p, m)
    BY <2>1, <2>2 DEF SharesTemp
  <2>4. file' = file /\ up' = up /\ stored' = stored
    BY <1>12, <2>3 DEF ProcessFails, TypeOK
  <2>5. /\ mig'[p].pc = mig[p].pc /\ mig'[p].hand = None /\ mig'[p].todo = mig[p].todo \ {m}
        /\ \A q \in Patches : q # p => mig'[q] = mig[q]
    BY <1>12 DEF ProcessFails, Drop, TypeOK, Migration
  <2>6. \A x \in Medias : There(x)' => There(x)
    BY <2>4 DEF There
  <2>7. \A x \in Medias : Untouched(x)' => Untouched(x)
    BY <2>5 DEF Untouched, Unmoved
  <2>q. QED
    BY <2>4, <2>5, <2>6, <2>7, WholeQuiet
<1>13. ASSUME NEW m \in Medias, BeginUpload(m)
      PROVE WholeFacts'
  <2>1. file' = file /\ mig' = mig /\ stored' = stored
    BY <1>13 DEF BeginUpload
  <2>2. \A x \in Medias : There(x)' => There(x)
    BY <1>13, TypeFacts DEF BeginUpload, There, TypeOK
  <2>3. \A x \in Medias : Untouched(x)' => Untouched(x)
    BY <2>1 DEF Untouched, Unmoved
  <2>q. QED
    BY <2>1, <2>2, <2>3, WholeQuiet
<1>14. ASSUME NEW m \in Medias, WriteFile(m)
      PROVE WholeFacts'
  <2>1. /\ mig' = mig /\ stored' = stored /\ up[m].pc = "writing"
        /\ file' = [file EXCEPT ![m] = Layer(up[m].key)]
        /\ up' = [up EXCEPT ![m].pc = "written"]
    BY <1>14 DEF WriteFile
  <2>2. /\ \A x \in Medias : file'[x] = IF x = m THEN Layer(up[m].key) ELSE file[x]
        /\ \A x \in Medias : x # m => up'[x] = up[x]
    BY <2>1 DEF TypeOK
  <2>3. \A x \in Medias : x # m => (There(x)' <=> There(x))
    BY <2>2 DEF There
  <2>4. \A x \in Medias : Untouched(x)' <=> Untouched(x)
    BY <2>1 DEF Untouched, Unmoved
  <2>5. Layer(up[m].key) # Garbage
    BY LayerType, TypeFacts
  <2>6. \A x \in Medias : There(x)' => file'[x] # Garbage
    BY <2>2, <2>3, <2>5 DEF WholeFacts
  <2>7. \A q \in Patches : mig[q].hand # None => mig[q].hand # m /\ mig[q].hand \in Medias
    BY <2>1, TypeFacts DEF OwnInv, Migration
  <2>8. \A q \in Patches : mig'[q].hand # None => mig'[q].data = file'[mig'[q].hand]
    BY <2>1, <2>2, <2>7 DEF WholeFacts
  <2>9. Layer(stored)' = Layer(stored)
    BY <2>1 DEF Layer
  <2>10. Steady' => up[m].key = stored
    BY <2>1 DEF KeptInv, KeptFacts
  <2>11. Steady' => \A x \in Medias : There(x)' /\ Untouched(x)' => file'[x] = Layer(stored)'
    BY <2>2, <2>3, <2>4, <2>9, <2>10 DEF WholeFacts
  <2>q. QED
    BY <2>6, <2>8, <2>11 DEF WholeFacts
<1>15. ASSUME NEW m \in Medias, AddRow(m)
      PROVE WholeFacts'
  <2>1. file' = file /\ mig' = mig /\ stored' = stored
    BY <1>15 DEF AddRow
  <2>2. \A x \in Medias : There(x)' => There(x)
    BY <1>15, TypeFacts DEF AddRow, There, TypeOK
  <2>3. \A x \in Medias : Untouched(x)' => Untouched(x)
    BY <2>1 DEF Untouched, Unmoved
  <2>q. QED
    BY <2>1, <2>2, <2>3, WholeQuiet
<1>16. ASSUME NEW m \in Medias, LoseUpload(m)
      PROVE WholeFacts'
  <2>1. file' = file /\ mig' = mig /\ stored' = stored
    BY <1>16 DEF LoseUpload
  <2>2. \A x \in Medias : There(x)' => There(x)
    BY <1>16, TypeFacts DEF LoseUpload, There, TypeOK
  <2>3. \A x \in Medias : Untouched(x)' => Untouched(x)
    BY <2>1 DEF Untouched, Unmoved
  <2>q. QED
    BY <2>1, <2>2, <2>3, WholeQuiet
<1>17. CASE Crash
  <2>1. file' = file /\ stored' = stored
    BY <1>17 DEF Crash
  <2>2. \A x \in Medias : There(x)' => There(x)
    BY <1>17, CrashUp DEF There
  <2>3. \A q \in Patches : mig'[q].hand # None => mig'[q] = mig[q]
    BY <1>17, CrashMig
  <2>4. \A q \in Patches : /\ Unmoved(q)' => Unmoved(q)
                           /\ mig'[q].todo \subseteq mig[q].todo
    BY <1>17, CrashMig DEF Unmoved
  <2>5. \A x \in Medias : Untouched(x)' => Untouched(x)
    BY <2>4 DEF Untouched
  <2>q. QED
    BY <2>1, <2>2, <2>3, <2>5, WholeQuiet
<1>18. CASE UNCHANGED vars
  <2>1. file' = file /\ up' = up /\ stored' = stored /\ mig' = mig
    BY <1>18 DEF vars
  <2>2. \A x \in Medias : (There(x)' => There(x)) /\ (Untouched(x)' => Untouched(x))
    BY <2>1 DEF There, Untouched, Unmoved
  <2>q. QED
    BY <2>1, <2>2, WholeQuiet
<1>q. QED
  BY <1>1, <1>2, <1>3, <1>4, <1>5, <1>6, <1>7, <1>8, <1>9, <1>10, <1>11, <1>12, <1>13, <1>14,
     <1>15, <1>16, <1>17, <1>18
    DEF Next, Update, Task, Upload

\* The inductive invariant of LostOnlyByTwoChanges.
LostInv == OwnInv /\ KeptInv /\ WholeInv

\* A file that is lost was migrated by two requests at once (LostOnlyByTwoChanges):
\* for any number of requests, files and passwords.
THEOREM LostCorrect == Spec => []LostOnlyByTwoChanges
<1>1. TypeOK /\ TaskInv /\ LostInv /\ [Next]_vars => LostInv'
  <2> SUFFICES ASSUME TypeOK, TaskInv, OwnInv, KeptInv, WholeInv, [Next]_vars
               PROVE  LostInv'
    BY DEF LostInv
  <2>1. OwnInv'
    BY OwnStep
  <2>2. (Steady' => Steady) /\ (Sole' => Sole)
    BY ClassStep
  <2>3. ASSUME Steady'
        PROVE  KeptFacts'
    <3>1. Steady /\ KeptFacts
      BY <2>2, <2>3 DEF KeptInv
    <3>q. QED
      BY <3>1, KeptStep
  <2>4. ASSUME Sole'
        PROVE  WholeFacts'
    <3>1. Sole /\ WholeFacts
      BY <2>2, <2>4 DEF WholeInv
    <3>q. QED
      BY <2>1, <2>2, <3>1, WholeStep
  <2>q. QED
    BY <2>1, <2>3, <2>4 DEF LostInv, KeptInv, WholeInv
<1>2. Init => LostInv
  BY InitLost DEF LostInv
<1>3. TypeOK /\ LostInv => LostOnlyByTwoChanges
  <2> SUFFICES ASSUME TypeOK, LostInv, NEW m \in rows, file[m] = Garbage
               PROVE  \E p, q \in Patches : p # q /\ Changing(p) /\ Changing(q)
    BY DEF LostOnlyByTwoChanges
  <2>1. m \in Medias /\ There(m)
    BY DEF LostInv, OwnInv, TypeOK, There
  <2>2. ~Sole
    BY <2>1 DEF LostInv, WholeInv, WholeFacts
  <2>q. QED
    BY <2>2 DEF Sole
<1>q. QED
  BY <1>1, <1>2, <1>3, TypeCorrect, PTL DEF Spec

-----------------------------------------------------------------------------
(* Plugins.                                                                *)

\* Who holds or waits for the lock of the plugins.
Everyone == Callers \cup {Startup}

\* A loaded module: its file and the version it was built from.
Module == [file : PluginFiles, version : Nat]

\* Where a task is in the queue of the lock.
Waiting == {"clear", "append", "enrich", "position", "swap", "push", "last", "find", "take",
            "reread"}

\* The states of Plugins.
PluginKinds == Plugins!Calls \cup {Plugins!NoCall}

PluginJob ==
  [kind : PluginKinds,
   pc : Waiting \cup {"idle", "ended", "list", "build", "insert", "calling", "running"},
   file : PluginFiles \cup {Plugins!Start.file}, at : Nat, todo : Seq(PluginFiles),
   got : Seq(Module)]

PluginType ==
  /\ wasm \in [PluginFiles -> Nat]
  /\ installed \subseteq PluginFiles
  /\ loaded \in Seq(Module)
  /\ readers \subseteq Everyone
  /\ queue \in Seq([task : Everyone, mode : {"read", "write"}])
  /\ job \in [Everyone -> PluginJob]
  /\ known \subseteq PluginFiles
  /\ spoiled \in BOOLEAN
  /\ \A t \in Everyone :
       /\ job[t].pc \in {"take", "calling"} => job[t].todo # <<>>
       /\ job[t].pc \in {"insert", "enrich", "position", "swap", "build", "push"}
            => job[t].file \in PluginFiles

\* The queue of the lock holds those who wait, each once, and its readers are at work.
QueueInv ==
  /\ \A i \in DOMAIN queue : job[queue[i].task].pc \in Waiting
  /\ \A i, j \in DOMAIN queue : queue[i].task = queue[j].task => i = j
  /\ \A t \in readers : job[t].pc \in {"insert", "reread", "calling"}

\* s holds modules of `files`, one of each at most, and as on the disk but for `older`.
Lists(w, s, files, older) ==
  /\ \A i \in DOMAIN s :
       /\ s[i].file \in files
       /\ s[i].file \notin older => s[i].version = w[s[i].file]
  /\ \A i, j \in DOMAIN s : s[i].file = s[j].file => i = j
  /\ \A f \in files : \E i \in DOMAIN s : s[i].file = f

\* What the module list and what t has gathered are, by what t is about to do.
PhaseInv(t) ==
  /\ job[t].pc = "clear" => Lists(wasm, job[t].got, known, {})
  /\ job[t].pc = "append" => loaded = <<>> /\ Lists(wasm, job[t].got, known, {})
  /\ job[t].pc \in {"enrich", "position", "swap"} => Lists(wasm, loaded, known, {job[t].file})
  /\ job[t].pc = "swap" => job[t].at \in DOMAIN loaded /\ loaded[job[t].at].file = job[t].file
  /\ job[t].pc \in {"build", "push"} => Lists(wasm, loaded, known \ {job[t].file}, {})
  /\ job[t].pc = "push" =>
       /\ wasm[job[t].file] > 0
       /\ job[t].got = <<[file |-> job[t].file, version |-> wasm[job[t].file]]>>

\* Unless two changed the plugins at once, one changes them at a time, and the modules
\* that are loaded are those on the disk once it has.
LoadInv ==
  ~spoiled =>
    /\ \A t, u \in Everyone :
         job[t].pc \in Plugins!Changing /\ job[u].pc \in Plugins!Changing => t = u
    /\ (\A t \in Everyone : job[t].pc # "list") => \A f \in known : wasm[f] > 0
    /\ Plugins!Quiet => Lists(wasm, loaded, known, {})
    /\ \A t \in Everyone : PhaseInv(t)

\* The inductive invariant of Plugins.
PluginInv == PluginType /\ QueueInv /\ LoadInv

\* q is the queue when t has waited its turn.
Freed(t, q) ==
  \/ q = queue /\ job[t].pc \notin Waiting
  \/ q = Tail(queue) /\ queue # <<>> /\ Head(queue).task = t

\* An entry of the queue.
Request == [task : Everyone, mode : {"read", "write"}]

\* Whoever is served leaves the queue.
LEMMA FreedFacts ==
  ASSUME PluginType, QueueInv, NEW t \in Everyone, NEW q, Freed(t, q)
  PROVE  /\ q \in Seq(Request)
         /\ \A i \in DOMAIN q : q[i].task # t /\ job[q[i].task].pc \in Waiting
         /\ \A i, j \in DOMAIN q : q[i].task = q[j].task => i = j
  <1>0. queue \in Seq(Request)
    BY DEF PluginType, Request
  <1>1. CASE q = queue /\ job[t].pc \notin Waiting
    BY <1>0, <1>1 DEF QueueInv
  <1>2. CASE q = Tail(queue) /\ queue # <<>> /\ Head(queue).task = t
    <2>1. /\ q \in Seq(Request) /\ Len(q) = Len(queue) - 1 /\ Len(queue) \in Nat
          /\ Len(queue) > 0
          /\ \A i \in 1..Len(q) : q[i] = queue[i + 1]
      BY <1>0, <1>2
    <2>2. DOMAIN q = 1..Len(q) /\ DOMAIN queue = 1..Len(queue) /\ queue[1].task = t
      BY <1>0, <1>2, <2>1
    <2>3. \A i \in DOMAIN q : i \in Nat /\ i + 1 \in DOMAIN queue /\ q[i] = queue[i + 1] /\ i + 1 # 1
      BY <2>1, <2>2
    <2>4. 1 \in DOMAIN queue
      BY <2>1, <2>2
    <2>5. \A i \in DOMAIN q : q[i].task # t /\ job[q[i].task].pc \in Waiting
      BY <2>2, <2>3, <2>4 DEF QueueInv
    <2>6. ASSUME NEW i \in DOMAIN q, NEW j \in DOMAIN q, q[i].task = q[j].task
          PROVE  i = j
      <3>1. i + 1 = j + 1
        BY <2>3, <2>6 DEF QueueInv
      <3> QED
        BY <2>3, <3>1
    <2> QED
      BY <2>1, <2>5, <2>6
  <1> QED
    BY <1>1, <1>2 DEF Freed

\* A step of one task, that goes on or waits, preserves the types and the queue.
LEMMA QueueStep ==
  ASSUME PluginType, QueueInv, NEW t \in Everyone, NEW r \in PluginJob,
         job' = [job EXCEPT ![t] = r],
         r.pc \in {"take", "calling"} => r.todo # <<>>,
         r.pc \in {"insert", "enrich", "position", "swap", "build", "push"} => r.file \in PluginFiles,
         wasm' \in [PluginFiles -> Nat], installed' \subseteq PluginFiles,
         loaded' \in Seq(Module), known' \subseteq PluginFiles, spoiled' \in BOOLEAN,
         readers' \subseteq readers \cup {t},
         t \in readers' => r.pc \in {"insert", "reread", "calling"},
         NEW q, Freed(t, q),
         \/ queue' = q
         \/ r.pc \in Waiting /\ \E mode \in {"read", "write"} :
                                  queue' = Append(q, [task |-> t, mode |-> mode])
  PROVE  PluginType' /\ QueueInv'
  <1>1. /\ job' \in [Everyone -> PluginJob] /\ job'[t] = r
        /\ \A u \in Everyone : u # t => job'[u] = job[u]
    BY DEF PluginType
  <1>2. /\ q \in Seq(Request)
        /\ \A i \in DOMAIN q : q[i].task # t /\ job[q[i].task].pc \in Waiting
        /\ \A i, j \in DOMAIN q : q[i].task = q[j].task => i = j
    BY FreedFacts
  <1>3. \A i \in DOMAIN q : q[i].task \in Everyone /\ job'[q[i].task].pc \in Waiting
    <2>1. \A i \in DOMAIN q : q[i] \in Request
      BY <1>2
    <2> QED
      BY <1>1, <1>2, <2>1 DEF Request
  <1>4. \A u \in readers' : job'[u].pc \in {"insert", "reread", "calling"}
    BY <1>1 DEF QueueInv, PluginType
  <1>5. /\ queue' \in Seq(Request)
        /\ \A i \in DOMAIN queue' : job'[queue'[i].task].pc \in Waiting
        /\ \A i, j \in DOMAIN queue' : queue'[i].task = queue'[j].task => i = j
    <2>1. CASE queue' = q
      BY <1>2, <1>3, <2>1
    <2>2. ASSUME r.pc \in Waiting, NEW mode \in {"read", "write"},
                 queue' = Append(q, [task |-> t, mode |-> mode])
          PROVE  /\ queue' \in Seq(Request)
                 /\ \A i \in DOMAIN queue' : job'[queue'[i].task].pc \in Waiting
                 /\ \A i, j \in DOMAIN queue' : queue'[i].task = queue'[j].task => i = j
      <3> DEFINE w == [task |-> t, mode |-> mode]
      <3>1. w \in Request /\ w.task = t
        BY DEF Request
      <3> HIDE DEF w
      <3>2. /\ queue' \in Seq(Request) /\ Len(q) \in Nat /\ DOMAIN q = 1..Len(q)
            /\ DOMAIN queue' = 1..Len(q) + 1
            /\ queue'[Len(q) + 1] = w /\ \A i \in 1..Len(q) : queue'[i] = q[i]
        BY <1>2, <2>2, <3>1 DEF w
      <3> DEFINE n == Len(q)
      <3>a. n \in Nat
        BY <3>2
      <3> HIDE DEF n
      <3>b. \A i \in 1..n + 1 : i \in 1..n \/ i = n + 1
        BY <3>a
      <3>3. \A i \in DOMAIN queue' : (i \in DOMAIN q /\ queue'[i] = q[i]) \/ (i = Len(q) + 1 /\ queue'[i] = w)
        <4>1. DOMAIN queue' = 1..n + 1 /\ DOMAIN q = 1..n /\ queue'[n + 1] = w /\ n = Len(q)
          BY <3>2 DEF n
        <4>2. \A i \in 1..n : queue'[i] = q[i]
          BY <3>2 DEF n
        <4>3. ASSUME NEW i \in DOMAIN queue'
              PROVE  (i \in DOMAIN q /\ queue'[i] = q[i]) \/ (i = Len(q) + 1 /\ queue'[i] = w)
          <5>1. i \in 1..n \/ i = n + 1
            BY <3>b, <4>1, <4>3
          <5> QED
            BY <4>1, <4>2, <5>1
        <4> QED
          BY <4>3
      <3>4. \A i \in DOMAIN queue' : job'[queue'[i].task].pc \in Waiting
        BY <1>1, <1>3, <2>2, <3>1, <3>3
      <3>5. \A i, j \in DOMAIN queue' : queue'[i].task = queue'[j].task => i = j
        BY <1>2, <3>1, <3>3
      <3> QED
        BY <3>2, <3>4, <3>5
    <2> QED
      BY <2>1, <2>2
  <1>6. \A u \in Everyone :
          /\ job'[u].pc \in {"take", "calling"} => job'[u].todo # <<>>
          /\ job'[u].pc \in {"insert", "enrich", "position", "swap", "build", "push"}
               => job'[u].file \in PluginFiles
    BY <1>1 DEF PluginType
  <1>7. QueueInv'
    BY <1>4, <1>5 DEF QueueInv
  <1>8. readers' \subseteq Everyone
    BY DEF PluginType
  <1> QED
    BY <1>1, <1>5, <1>6, <1>7, <1>8 DEF PluginType, Request

\* What a list says hangs on the versions of its files.
LEMMA ListsKept ==
  ASSUME NEW w, NEW v, NEW s, NEW files, NEW older, Lists(w, s, files, older),
         \A f \in files : f \notin older => v[f] = w[f]
  PROVE  Lists(v, s, files, older)
  BY DEF Lists

\* A step of a task that changes no plugin.
LEMMA OtherStep ==
  ASSUME PluginType, LoadInv, NEW t \in Everyone, NEW r \in PluginJob,
         job' = [job EXCEPT ![t] = r], job[t].pc \notin Plugins!Changing,
         r.pc \notin Plugins!Changing, UNCHANGED <<loaded, known, spoiled>>,
         \A f \in PluginFiles : wasm[f] > 0 => wasm'[f] = wasm[f]
  PROVE  LoadInv'
  <1> SUFFICES ASSUME ~spoiled
               PROVE  LoadInv'
    BY DEF LoadInv
  <1>1. /\ job'[t] = r /\ \A u \in Everyone : u # t => job'[u] = job[u]
    BY DEF PluginType
  <1>2. \A u \in Everyone : /\ job'[u].pc \in Plugins!Changing => job'[u] = job[u]
                            /\ job[u].pc \in Plugins!Changing => job'[u] = job[u]
    BY <1>1
  <1>3. \A u, x \in Everyone :
          job'[u].pc \in Plugins!Changing /\ job'[x].pc \in Plugins!Changing => u = x
    BY <1>2 DEF LoadInv
  <1>4. CASE \A u \in Everyone : job[u].pc # "list"
    <2>1. \A f \in known : f \in PluginFiles /\ wasm[f] > 0 /\ wasm'[f] = wasm[f]
      BY <1>4 DEF LoadInv, PluginType
    <2>2. Plugins!Quiet' => Lists(wasm', loaded', known', {})
      <3>1. Plugins!Quiet' => Plugins!Quiet
        BY <1>2 DEF Plugins!Quiet, Plugins!All, Everyone
      <3>2. Lists(wasm, loaded, known, {}) => Lists(wasm', loaded, known, {})
        BY <2>1, ListsKept
      <3> QED
        BY <3>1, <3>2 DEF LoadInv
    <2>3. ASSUME NEW u \in Everyone
          PROVE  PhaseInv(u)'
      <3>1. CASE job'[u].pc \notin Plugins!Changing
        BY <3>1 DEF PhaseInv, Plugins!Changing
      <3>2. CASE job'[u].pc \in Plugins!Changing
        <4>1. job'[u] = job[u] /\ PhaseInv(u)
          BY <1>2, <3>2 DEF LoadInv
        <4>2. \A s, older : Lists(wasm, s, known, older) => Lists(wasm', s, known, older)
          BY <2>1, ListsKept
        <4>3. \A s, f : Lists(wasm, s, known \ {f}, {}) => Lists(wasm', s, known \ {f}, {})
          BY <2>1, ListsKept
        <4>4. job[u].pc = "push" => wasm'[job[u].file] = wasm[job[u].file]
          BY <4>1 DEF PhaseInv, PluginType
        <4> QED
          BY <4>1, <4>2, <4>3, <4>4 DEF PhaseInv
      <3> QED
        BY <3>1, <3>2
    <2> QED
      BY <1>3, <2>1, <2>2, <2>3 DEF LoadInv
  <1>5. ASSUME NEW x \in Everyone, job[x].pc = "list"
        PROVE  LoadInv'
    <2>1. job'[x].pc = "list" /\ "list" \in Plugins!Changing
      BY <1>2, <1>5 DEF Plugins!Changing
    <2>2. \A u \in Everyone : u # x => job'[u].pc \notin Plugins!Changing
      BY <1>3, <2>1
    <2>3. ~Plugins!Quiet'
      BY <2>1 DEF Plugins!Quiet, Plugins!All, Everyone
    <2>4. \A u \in Everyone : PhaseInv(u)'
      BY <2>1, <2>2 DEF PhaseInv, Plugins!Changing
    <2> QED
      BY <1>3, <2>1, <2>3, <2>4 DEF LoadInv
  <1> QED
    BY <1>4, <1>5

\* A step of the task that changes the plugins, or of one that begins to when nobody does.
LEMMA ChangerStep ==
  ASSUME PluginType, LoadInv, NEW t \in Everyone, NEW r \in PluginJob,
         job' = [job EXCEPT ![t] = r], ~spoiled,
         job[t].pc \in Plugins!Changing \/ Plugins!Quiet,
         r.pc # "list" => \A f \in known' : wasm'[f] > 0,
         r.pc \notin Plugins!Changing => Lists(wasm', loaded', known', {}),
         PhaseInv(t)'
  PROVE  LoadInv'
  <1>1. job'[t] = r /\ \A u \in Everyone : u # t => job'[u] = job[u]
    BY DEF PluginType
  <1>2. \A u \in Everyone : u # t => job'[u].pc \notin Plugins!Changing
    BY <1>1 DEF LoadInv, Plugins!Quiet, Plugins!All, Everyone
  <1>3. \A u \in Everyone : PhaseInv(u)'
    BY <1>2 DEF PhaseInv, Plugins!Changing
  <1>4. Plugins!Quiet' => r.pc \notin Plugins!Changing
    BY <1>1 DEF Plugins!Quiet, Plugins!All, Everyone
  <1>5. (\A u \in Everyone : job'[u].pc # "list") => r.pc # "list"
    BY <1>1
  <1>6. \A u, x \in Everyone :
          job'[u].pc \in Plugins!Changing /\ job'[x].pc \in Plugins!Changing => u = x
    BY <1>2
  <1> QED
    BY <1>3, <1>4, <1>5, <1>6 DEF LoadInv

\* Where a task can be.
Pcs == Waiting \cup {"idle", "ended", "list", "build", "insert", "calling", "running"}

\* What Set does to a task.
LEMMA SetFacts ==
  ASSUME PluginType, NEW t \in Everyone, NEW pc \in Pcs, Plugins!Set(t, pc)
  PROVE  \E r \in PluginJob :
           /\ job' = [job EXCEPT ![t] = r]
           /\ r.pc = pc /\ r.file = job[t].file /\ r.at = job[t].at
           /\ r.todo = job[t].todo /\ r.got = job[t].got
  <1> DEFINE r == [job[t] EXCEPT !.pc = pc]
  <1>1. job[t] \in PluginJob
    BY DEF PluginType
  <1>2. /\ r \in PluginJob /\ r.pc = pc /\ r.file = job[t].file /\ r.at = job[t].at
        /\ r.todo = job[t].todo /\ r.got = job[t].got
    BY <1>1 DEF PluginJob, Pcs
  <1>3. job' = [job EXCEPT ![t] = r]
    BY DEF Plugins!Set
  <1> QED
    BY <1>2, <1>3

\* A task that starts.
LEMMA StartFacts ==
  /\ Plugins!Start.pc = "idle" /\ Plugins!Start.at = 0
  /\ \A pc \in Pcs : /\ [Plugins!Start EXCEPT !.pc = pc] \in PluginJob
                     /\ [Plugins!Start EXCEPT !.pc = pc].pc = pc
  /\ Plugins!Start \in PluginJob
  <1> DEFINE f == CHOOSE f \in PluginFiles : TRUE
  <1>1. /\ Plugins!Start = [kind |-> Plugins!NoCall, pc |-> "idle", file |-> f,
                         at |-> 0, todo |-> <<>>, got |-> <<>>]
    BY DEF Plugins!Start
  <1>2. f = Plugins!Start.file
    BY <1>1
  <1> HIDE DEF f
  <1>3. Plugins!NoCall \in PluginKinds /\ <<>> \in Seq(PluginFiles) /\ <<>> \in Seq(Module)
    BY DEF PluginKinds
  <1>4. Plugins!Start \in PluginJob
    BY <1>1, <1>2, <1>3 DEF PluginJob
  <1>5. Plugins!Start.pc = "idle" /\ Plugins!Start.at = 0
    BY <1>1
  <1>6. \A pc \in Pcs : /\ [Plugins!Start EXCEPT !.pc = pc] \in PluginJob
                        /\ [Plugins!Start EXCEPT !.pc = pc].pc = pc
    BY <1>4 DEF PluginJob, Pcs
  <1> QED
    BY <1>4, <1>5, <1>6

\* A task that ends.
LEMMA EndsFacts ==
  ASSUME PluginType, NEW t \in Everyone, Plugins!Ends(t)
  PROVE  \E r \in PluginJob : job' = [job EXCEPT ![t] = r] /\ r.pc = "ended"
  BY StartFacts DEF Plugins!Ends, Pcs

\* A task whose turn it is leaves the queue.
LEMMA TurnFacts ==
  ASSUME PluginType, QueueInv, NEW t \in Everyone, NEW mode, Plugins!Turn(t, mode)
  PROVE  Freed(t, Tail(queue))
  BY DEF Plugins!Turn, Freed

\* FirstAt is 0, or a position of the file in the list.
LEMMA FirstFacts ==
  ASSUME PluginType, NEW f
  PROVE  \/ Plugins!FirstAt(f) = 0 /\ \A i \in DOMAIN loaded : loaded[i].file # f
         \/ /\ Plugins!FirstAt(f) # 0 /\ Plugins!FirstAt(f) \in DOMAIN loaded
            /\ loaded[Plugins!FirstAt(f)].file = f
  <1> DEFINE at == {i \in DOMAIN loaded : loaded[i].file = f}
  <1>1. at \subseteq Nat /\ 0 \notin at
    BY DEF PluginType
  <1>2. Plugins!FirstAt(f) = IF at = {} THEN 0 ELSE CHOOSE i \in at : \A j \in at : i <= j
    BY Zenon DEF Plugins!FirstAt
  <1>3. CASE at = {}
    BY <1>2, <1>3
  <1>4. CASE at # {}
    <2>1. \E i \in at : \A j \in at : i <= j
      BY <1>1, <1>4, LeastOf
    <2> DEFINE k == CHOOSE i \in at : \A j \in at : i <= j
    <2>2. k \in at
      BY <2>1
    <2>3. Plugins!FirstAt(f) = k
      BY <1>2, <1>4
    <2> HIDE DEF k
    <2> QED
      BY <1>1, <2>2, <2>3
  <1> QED
    BY <1>3, <1>4

\* The first steps of a call.
LEMMA BeginFacts ==
  ASSUME PluginType, NEW t \in Everyone, NEW pc \in Pcs, NEW f \in PluginFiles \cup {Plugins!Start.file},
         Plugins!Begin(t, pc, f)
  PROVE  /\ job[t].pc = "idle"
         /\ spoiled' = (spoiled \/ (pc \in Plugins!Changing /\ ~Plugins!Quiet))
         /\ \E r \in PluginJob : job' = [job EXCEPT ![t] = r] /\ r.pc = pc /\ r.file = f
  <1> DEFINE r == [job[t] EXCEPT !.pc = pc, !.file = f]
  <1>1. job[t] \in PluginJob
    BY DEF PluginType
  <1>2. r \in PluginJob /\ r.pc = pc /\ r.file = f
    BY <1>1 DEF PluginJob, Pcs
  <1>3. job' = [job EXCEPT ![t] = r]
    BY DEF Plugins!Begin
  <1>4. spoiled' = (spoiled \/ (pc \in Plugins!Changing /\ ~Plugins!Quiet))
    BY DEF Plugins!Begin, Plugins!Overlaps
  <1> QED
    BY <1>2, <1>3, <1>4 DEF Plugins!Begin, Plugins!At

\* A call that begins: one that lists the files, one that loads a file anew, one that
\* changes no plugin.
LEMMA ListingBegins ==
  ASSUME PluginInv, NEW t \in Everyone, NEW f \in PluginFiles \cup {Plugins!Start.file},
         Plugins!Begin(t, "list", f), wasm' \in [PluginFiles -> Nat],
         installed' \subseteq PluginFiles, UNCHANGED <<loaded, readers, queue, known>>
  PROVE  PluginInv'
  <1>0. PluginType /\ QueueInv /\ LoadInv
    BY DEF PluginInv
  <1>1. /\ job[t].pc = "idle"
        /\ spoiled' = (spoiled \/ ("list" \in Plugins!Changing /\ ~Plugins!Quiet))
        /\ \E r \in PluginJob : job' = [job EXCEPT ![t] = r] /\ r.pc = "list" /\ r.file = f
    BY <1>0, BeginFacts DEF Pcs
  <1>2. PICK r \in PluginJob : job' = [job EXCEPT ![t] = r] /\ r.pc = "list" /\ r.file = f
    BY <1>1
  <1>3. Freed(t, queue)
    BY <1>1 DEF Freed, Waiting
  <1>4. t \notin readers
    BY <1>0, <1>1 DEF QueueInv
  <1>a. spoiled' \in BOOLEAN /\ loaded' \in Seq(Module) /\ known' \subseteq PluginFiles
                             /\ readers' = readers
    BY <1>0, <1>1 DEF PluginType
  <1>5. PluginType' /\ QueueInv'
    BY <1>0, <1>2, <1>3, <1>4, <1>a, QueueStep
  <1>6. LoadInv'
    <2>1. CASE spoiled'
      BY <2>1 DEF LoadInv
    <2>2. CASE ~spoiled'
      <3>1. ~spoiled /\ Plugins!Quiet
        BY <1>1, <2>2 DEF Plugins!Changing
      <3>2. job'[t] = r
        BY <1>0, <1>2 DEF PluginType
      <3>3. PhaseInv(t)'
        BY <1>2, <3>2 DEF PhaseInv
      <3>4. r.pc \in Plugins!Changing
        BY <1>2 DEF Plugins!Changing
      <3> QED
        BY <1>0, <1>2, <3>1, <3>3, <3>4, ChangerStep
    <2> QED
      BY <2>1, <2>2
  <1> QED
    BY <1>5, <1>6 DEF PluginInv

\* A call that replaces a file begins.
LEMMA LoadingBegins ==
  ASSUME PluginInv, NEW t \in Everyone, NEW f \in PluginFiles,
         Plugins!Begin(t, "enrich", f), wasm' \in [PluginFiles -> Nat],
         \A x \in PluginFiles : x # f => wasm'[x] = wasm[x], wasm'[f] >= wasm[f],
         queue' = Plugins!Wait(queue, t, "read"),
         UNCHANGED <<installed, loaded, readers, known>>
  PROVE  PluginInv'
  <1>0. PluginType /\ QueueInv /\ LoadInv
    BY DEF PluginInv
  <1>1. /\ job[t].pc = "idle"
        /\ spoiled' = (spoiled \/ ("enrich" \in Plugins!Changing /\ ~Plugins!Quiet))
        /\ \E r \in PluginJob : job' = [job EXCEPT ![t] = r] /\ r.pc = "enrich" /\ r.file = f
    BY <1>0, BeginFacts DEF Pcs, Waiting
  <1>2. PICK r \in PluginJob : job' = [job EXCEPT ![t] = r] /\ r.pc = "enrich" /\ r.file = f
    BY <1>1
  <1>3. Freed(t, queue)
    BY <1>1 DEF Freed, Waiting
  <1>4. t \notin readers
    BY <1>0, <1>1 DEF QueueInv
  <1>a. /\ spoiled' \in BOOLEAN /\ loaded' \in Seq(Module) /\ known' \subseteq PluginFiles
        /\ readers' = readers /\ installed' \subseteq PluginFiles
    BY <1>0, <1>1 DEF PluginType
  <1>b. r.pc \in Waiting /\ queue' = Append(queue, [task |-> t, mode |-> "read"])
    BY <1>2 DEF Waiting, Plugins!Wait
  <1>5. PluginType' /\ QueueInv'
    BY <1>0, <1>2, <1>3, <1>4, <1>a, <1>b, QueueStep
  <1>6. LoadInv'
    <2>1. CASE spoiled'
      BY <2>1 DEF LoadInv
    <2>2. CASE ~spoiled'
      <3>1. ~spoiled /\ Plugins!Quiet
        BY <1>1, <2>2 DEF Plugins!Changing
      <3>2. job'[t] = r
        BY <1>0, <1>2 DEF PluginType
      <3>3. Lists(wasm, loaded, known, {}) /\ \A u \in Everyone : job[u].pc # "list"
        BY <1>0, <3>1 DEF LoadInv, Plugins!Quiet, Plugins!Changing, Plugins!All, Everyone
      <3>4. \A x \in known : wasm[x] > 0
        BY <1>0, <3>1, <3>3 DEF LoadInv
      <3>5. \A x \in known : wasm'[x] > 0
        <4>1. \A x \in known : x \in PluginFiles /\ wasm[x] \in Nat /\ wasm'[x] \in Nat
          BY <1>0 DEF PluginType
        <4>2. \A x \in known : wasm'[x] = wasm[x] \/ wasm'[x] >= wasm[x]
          BY <4>1
        <4> QED
          BY <3>4, <4>1, <4>2
      <3>6. Lists(wasm', loaded, known, {f})
        BY <1>0, <3>3 DEF Lists, PluginType
      <3>7. PhaseInv(t)'
        BY <1>2, <3>2, <3>6 DEF PhaseInv
      <3>8. r.pc \in Plugins!Changing
        BY <1>2 DEF Plugins!Changing
      <3> QED
        BY <1>0, <1>2, <3>1, <3>5, <3>7, <3>8, ChangerStep
    <2> QED
      BY <2>1, <2>2
  <1> QED
    BY <1>5, <1>6 DEF PluginInv

\* A step of a task that changes no plugin, whatever it does to the lock.
LEMMA QuietTask ==
  ASSUME PluginInv, NEW t \in Everyone, NEW r \in PluginJob, job' = [job EXCEPT ![t] = r],
         job[t].pc \notin Plugins!Changing, r.pc \notin Plugins!Changing,
         r.pc \in {"take", "calling"} => r.todo # <<>>,
         r.pc = "insert" => r.file \in PluginFiles,
         wasm' \in [PluginFiles -> Nat], installed' \subseteq PluginFiles,
         \A f \in PluginFiles : wasm[f] > 0 => wasm'[f] = wasm[f],
         UNCHANGED <<loaded, known, spoiled>>,
         readers' \subseteq readers \cup {t},
         t \in readers' => r.pc \in {"insert", "reread", "calling"},
         NEW q, Freed(t, q),
         \/ queue' = q
         \/ r.pc \in Waiting /\ \E mode \in {"read", "write"} :
                                  queue' = Append(q, [task |-> t, mode |-> mode])
  PROVE  PluginInv'
  <1>0. PluginType /\ QueueInv /\ LoadInv
    BY DEF PluginInv
  <1>1. spoiled' \in BOOLEAN /\ loaded' \in Seq(Module) /\ known' \subseteq PluginFiles
    BY <1>0 DEF PluginType
  <1>2. r.pc \in {"insert", "enrich", "position", "swap", "build", "push"} => r.file \in PluginFiles
    BY DEF Plugins!Changing
  <1>3. PluginType' /\ QueueInv'
    BY <1>0, <1>1, <1>2, QueueStep
  <1>4. LoadInv'
    BY <1>0, OtherStep
  <1> QED
    BY <1>3, <1>4 DEF PluginInv

\* A step of a task that changes the plugins.
LEMMA ChangingTask ==
  ASSUME PluginInv, NEW t \in Everyone, NEW r \in PluginJob, job' = [job EXCEPT ![t] = r],
         job[t].pc \in Plugins!Changing, r.pc # "list",
         r.pc \notin {"insert", "reread", "calling", "take"},
         r.pc \in {"enrich", "position", "swap", "build", "push"} => r.file \in PluginFiles,
         UNCHANGED <<wasm, installed, readers, spoiled>>,
         loaded' \in Seq(Module), known' \subseteq PluginFiles,
         ~spoiled /\ PhaseInv(t) /\ (job[t].pc # "list" => \A f \in known : wasm[f] > 0) =>
           /\ \A f \in known' : wasm[f] > 0
           /\ r.pc \notin Plugins!Changing => Lists(wasm, loaded', known', {})
           /\ PhaseInv(t)',
         NEW q, Freed(t, q),
         \/ queue' = q
         \/ r.pc \in Waiting /\ \E mode \in {"read", "write"} :
                                  queue' = Append(q, [task |-> t, mode |-> mode])
  PROVE  PluginInv'
  <1>0. PluginType /\ QueueInv /\ LoadInv
    BY DEF PluginInv
  <1>1. /\ spoiled' \in BOOLEAN /\ wasm' \in [PluginFiles -> Nat]
        /\ installed' \subseteq PluginFiles
        /\ readers' = readers /\ wasm' = wasm /\ spoiled' = spoiled
    BY <1>0 DEF PluginType
  <1>2. t \notin readers
    BY <1>0 DEF QueueInv, Plugins!Changing
  <1>3. PluginType' /\ QueueInv'
    BY <1>0, <1>1, <1>2, QueueStep
  <1>4. LoadInv'
    <2>1. CASE spoiled
      BY <1>1, <2>1 DEF LoadInv
    <2>2. CASE ~spoiled
      <3>1. job[t].pc # "list" => \A u \in Everyone : job[u].pc # "list"
        BY <1>0, <2>2 DEF LoadInv, Plugins!Changing
      <3>2. PhaseInv(t) /\ (job[t].pc # "list" => \A f \in known : wasm[f] > 0)
        BY <1>0, <2>2, <3>1 DEF LoadInv
      <3>3. /\ \A f \in known' : wasm'[f] > 0
            /\ r.pc \notin Plugins!Changing => Lists(wasm', loaded', known', {})
            /\ PhaseInv(t)'
        BY <1>1, <2>2, <3>2
      <3> QED
        BY <1>0, <2>2, <3>3, ChangerStep
    <2> QED
      BY <2>1, <2>2
  <1> QED
    BY <1>3, <1>4 DEF PluginInv

\* A list loaded twice over is what both lists hold.
LEMMA ListsJoin ==
  ASSUME NEW w, NEW s \in Seq(Module), NEW u \in Seq(Module), NEW F, NEW G,
         Lists(w, s, F, {}), Lists(w, u, G, {}), F \cap G = {}
  PROVE  Lists(w, s \o u, F \cup G, {})
  <1> DEFINE m == Len(s)
             n == Len(u)
             z == s \o u
  <1>1. /\ m \in Nat /\ n \in Nat /\ DOMAIN s = 1..m /\ DOMAIN u = 1..n /\ DOMAIN z = 1..m + n
        /\ \A i \in 1..m + n : z[i] = IF i <= m THEN s[i] ELSE u[i - m]
    OBVIOUS
  <1> HIDE DEF m, n, z
  <1>2. \A i \in DOMAIN z : \/ i \in DOMAIN s /\ z[i] = s[i]
                            \/ i - m \in DOMAIN u /\ z[i] = u[i - m] /\ i = (i - m) + m
    BY <1>1
  <1>3. /\ \A i \in DOMAIN s : i \in DOMAIN z /\ z[i] = s[i]
        /\ \A i \in DOMAIN u : i + m \in DOMAIN z /\ z[i + m] = u[i]
    BY <1>1
  <1>4. \A i \in DOMAIN z : z[i].file \in F \cup G /\ z[i].version = w[z[i].file]
    BY <1>2 DEF Lists
  <1>5. ASSUME NEW i \in DOMAIN z, NEW j \in DOMAIN z, z[i].file = z[j].file
        PROVE  i = j
    <2>1. CASE z[i].file \in F
      <3>1. i \in DOMAIN s /\ z[i] = s[i] /\ j \in DOMAIN s /\ z[j] = s[j]
        BY <1>2, <1>5, <2>1 DEF Lists
      <3> QED
        BY <1>5, <3>1 DEF Lists
    <2>2. CASE z[i].file \notin F
      <3>1. /\ i - m \in DOMAIN u /\ z[i] = u[i - m] /\ i = (i - m) + m
            /\ j - m \in DOMAIN u /\ z[j] = u[j - m] /\ j = (j - m) + m
        BY <1>2, <1>5, <2>2 DEF Lists
      <3>2. i - m = j - m
        BY <1>5, <3>1 DEF Lists
      <3> QED
        BY <3>1, <3>2
    <2> QED
      BY <2>1, <2>2
  <1>6. \A f \in F \cup G : \E i \in DOMAIN z : z[i].file = f
    BY <1>3 DEF Lists
  <1>7. Lists(w, z, F \cup G, {})
    BY <1>4, <1>5, <1>6 DEF Lists
  <1> QED
    BY <1>7 DEF z

\* Vec::swap_remove takes the one plugin out and leaves the others, in another order.
LEMMA SwapFacts ==
  ASSUME NEW w, NEW s \in Seq(Module), NEW k \in DOMAIN s, NEW F, NEW f,
         Lists(w, s, F, {f}), s[k].file = f,
         NEW z, z = SubSeq([s EXCEPT ![k] = s[Len(s)]], 1, Len(s) - 1)
  PROVE  Lists(w, z, F \ {f}, {})
  <1> DEFINE n == Len(s)
             x == [s EXCEPT ![k] = s[n]]
  <1>1. n \in Nat /\ DOMAIN s = 1..n /\ k \in 1..n
    OBVIOUS
  <1>2. n \in 1..n /\ n - 1 \in Nat
    BY <1>1
  <1>3. \A i \in 1..n : x[i] = IF i = k THEN s[n] ELSE s[i]
    BY <1>1
  <1>4. x \in Seq(Module) /\ Len(x) = n
    BY <1>1, <1>2
  <1>5. z = SubSeq(x, 1, n - 1)
    OBVIOUS
  <1> HIDE DEF n, x
  <1>6. DOMAIN z = 1..n - 1 /\ \A i \in 1..n - 1 : z[i] = x[i]
    BY <1>1, <1>2, <1>4, <1>5
  <1> DEFINE h(i) == IF i = k THEN n ELSE i
  <1>7. \A i \in DOMAIN z : h(i) \in DOMAIN s /\ h(i) # k /\ z[i] = s[h(i)]
    BY <1>1, <1>2, <1>3, <1>6
  <1>8. \A i \in DOMAIN s : i # k => \E j \in DOMAIN z : h(j) = i
    <2> SUFFICES ASSUME NEW i \in DOMAIN s, i # k
                 PROVE  \E j \in DOMAIN z : h(j) = i
      OBVIOUS
    <2>1. CASE i # n
      <3>1. i \in DOMAIN z
        BY <1>1, <1>6, <2>1
      <3> QED
        BY <3>1
    <2>2. CASE i = n
      <3>1. k \in DOMAIN z
        BY <1>1, <1>6, <2>2
      <3> QED
        BY <2>2, <3>1
    <2> QED
      BY <2>1, <2>2
  <1>9. \A i, j \in DOMAIN z : h(i) = h(j) => i = j
    BY <1>1, <1>6
  <1> HIDE DEF h
  <1>10. \A i \in DOMAIN z : z[i].file \in F \ {f} /\ z[i].version = w[z[i].file]
    BY <1>7 DEF Lists
  <1>11. \A i, j \in DOMAIN z : z[i].file = z[j].file => i = j
    BY <1>7, <1>9 DEF Lists
  <1>12. ASSUME NEW g \in F \ {f}
         PROVE  \E i \in DOMAIN z : z[i].file = g
    <2>1. PICK i \in DOMAIN s : s[i].file = g
      BY <1>12 DEF Lists
    <2>2. PICK j \in DOMAIN z : h(j) = i
      BY <1>8, <1>12, <2>1
    <2> QED
      BY <1>7, <2>1, <2>2
  <1> QED
    BY <1>10, <1>11, <1>12 DEF Lists

\* A list without one of its entries is a list.
LEMMA SwapType ==
  ASSUME NEW s \in Seq(Module), NEW k \in DOMAIN s
  PROVE  SubSeq([s EXCEPT ![k] = s[Len(s)]], 1, Len(s) - 1) \in Seq(Module)
  <1>1. Len(s) \in Nat /\ DOMAIN s = 1..Len(s) /\ Len(s) \in DOMAIN s
    OBVIOUS
  <1>2. [s EXCEPT ![k] = s[Len(s)]] \in Seq(Module) /\ Len([s EXCEPT ![k] = s[Len(s)]]) = Len(s)
    BY <1>1
  <1> QED
    BY <1>1, <1>2

\* Each operation of the plugins preserves the invariant.
LEMMA UploadStep ==
  ASSUME PluginInv, NEW t \in Everyone, NEW f \in PluginFiles,
         Plugins!Upload(t, f) \/ Plugins!AddPlugin(t, f)
  PROVE  PluginInv'
  <1>0. PluginType /\ QueueInv
    BY DEF PluginInv
  <1>1. /\ Plugins!Begin(t, "ended", f) /\ UNCHANGED <<loaded, readers, queue, known>>
        /\ wasm' \in [PluginFiles -> Nat] /\ installed' \subseteq PluginFiles
        /\ \A x \in PluginFiles : wasm[x] > 0 => wasm'[x] = wasm[x]
    <2>1. CASE Plugins!Upload(t, f)
      BY <1>0, <2>1 DEF Plugins!Upload, PluginType
    <2>2. CASE Plugins!AddPlugin(t, f)
      BY <1>0, <2>2 DEF Plugins!AddPlugin, PluginType
    <2> QED
      BY <2>1, <2>2
  <1>2. /\ job[t].pc = "idle"
        /\ spoiled' = (spoiled \/ ("ended" \in Plugins!Changing /\ ~Plugins!Quiet))
        /\ \E r \in PluginJob : job' = [job EXCEPT ![t] = r] /\ r.pc = "ended" /\ r.file = f
    BY <1>0, <1>1, BeginFacts DEF Pcs
  <1>3. PICK r \in PluginJob : job' = [job EXCEPT ![t] = r] /\ r.pc = "ended"
    BY <1>2
  <1>4. spoiled' = spoiled
    BY <1>0, <1>2 DEF Plugins!Changing, PluginType
  <1>5. Freed(t, queue) /\ t \notin readers
    BY <1>0, <1>2 DEF Freed, Waiting, QueueInv
  <1>6. job[t].pc \notin Plugins!Changing /\ r.pc \notin Plugins!Changing
    BY <1>2, <1>3 DEF Plugins!Changing
  <1> QED
    BY <1>1, <1>2, <1>3, <1>4, <1>5, <1>6, QuietTask

\* No step changes what an earlier request asks for.
LEMMA RequestStep ==
  ASSUME PluginInv, NEW t \in Everyone,
         \/ Plugins!ReloadPlugins(t)
         \/ \E f \in PluginFiles : \/ Plugins!UploadRepo(t, f) \/ Plugins!RemovePlugin(t, f)
                                   \/ Plugins!RemoveWasm(t, f)
                                   \/ Plugins!ReloadPlugin(t, f) \/ Plugins!RefreshRepo(t, f)
  PROVE  PluginInv'
  <1>0. PluginType
    BY DEF PluginInv
  <1>1. CASE Plugins!ReloadPlugins(t)
    <2>1. /\ Plugins!Begin(t, "list", Plugins!Start.file) /\ wasm' \in [PluginFiles -> Nat]
          /\ installed' \subseteq PluginFiles /\ UNCHANGED <<loaded, readers, queue, known>>
      BY <1>0, <1>1 DEF Plugins!ReloadPlugins, PluginType
    <2> QED
      BY <2>1, ListingBegins
  <1>2. ASSUME NEW f \in PluginFiles,
               Plugins!UploadRepo(t, f) \/ Plugins!RemovePlugin(t, f) \/ Plugins!RemoveWasm(t, f)
        PROVE  PluginInv'
    <2>1. /\ Plugins!Begin(t, "list", f) /\ wasm' \in [PluginFiles -> Nat]
          /\ installed' \subseteq PluginFiles /\ UNCHANGED <<loaded, readers, queue, known>>
      BY <1>0, <1>2 DEF Plugins!UploadRepo, Plugins!RemovePlugin, Plugins!RemoveWasm, PluginType
    <2> QED
      BY <2>1, ListingBegins
  <1>3. ASSUME NEW f \in PluginFiles, Plugins!ReloadPlugin(t, f) \/ Plugins!RefreshRepo(t, f)
        PROVE  PluginInv'
    <2>1. /\ Plugins!Begin(t, "enrich", f) /\ wasm' \in [PluginFiles -> Nat]
          /\ \A x \in PluginFiles : x # f => wasm'[x] = wasm[x]
          /\ wasm'[f] >= wasm[f]
          /\ queue' = Plugins!Wait(queue, t, "read")
          /\ UNCHANGED <<installed, loaded, readers, known>>
      BY <1>0, <1>3, SMTT(30) DEF Plugins!ReloadPlugin, Plugins!RefreshRepo, PluginType
    <2> QED
      BY <2>1, LoadingBegins
  <1> QED
    BY <1>1, <1>2, <1>3

LEMMA InstallStep ==
  ASSUME PluginInv, NEW t \in Everyone, Plugins!Install(t)
  PROVE  PluginInv'
  <1>0. PluginType /\ QueueInv
    BY DEF PluginInv
  <1>1. Plugins!Begin(t, "find", Plugins!Start.file)
    BY DEF Plugins!Install
  <1>2. /\ job[t].pc = "idle"
        /\ spoiled' = (spoiled \/ ("find" \in Plugins!Changing /\ ~Plugins!Quiet))
        /\ \E r \in PluginJob : job' = [job EXCEPT ![t] = r] /\ r.pc = "find"
    BY <1>0, <1>1, BeginFacts DEF Pcs, Waiting
  <1>3. PICK r \in PluginJob : job' = [job EXCEPT ![t] = r] /\ r.pc = "find"
    BY <1>2
  <1>4. spoiled' = spoiled
    BY <1>0, <1>2 DEF Plugins!Changing, PluginType
  <1>5. Freed(t, queue) /\ t \notin readers
    BY <1>0, <1>2 DEF Freed, Waiting, QueueInv
  <1>6. /\ job[t].pc \notin Plugins!Changing /\ r.pc \notin Plugins!Changing
        /\ r.pc \in Waiting
    BY <1>2, <1>3 DEF Plugins!Changing, Waiting
  <1>7. /\ wasm' = wasm /\ installed' = installed /\ loaded' = loaded /\ readers' = readers
        /\ known' = known /\ queue' = Append(queue, [task |-> t, mode |-> "read"])
    BY DEF Plugins!Install, Plugins!Wait
  <1>8. wasm' \in [PluginFiles -> Nat] /\ installed' \subseteq PluginFiles
    BY <1>0, <1>7 DEF PluginType
  <1> QED
    BY <1>3, <1>4, <1>5, <1>6, <1>7, <1>8, QuietTask

LEMMA ListStep ==
  ASSUME PluginInv, NEW t \in Everyone, Plugins!List(t)
  PROVE  PluginInv'
  <1>0. PluginType /\ job[t].pc = "list"
    BY DEF PluginInv, Plugins!List, Plugins!At
  <1>a. PICK good \in SUBSET {f \in PluginFiles : wasm[f] > 0} : \E s \in Plugins!Orders(good) :
          /\ job' = [job EXCEPT ![t].pc = "clear",
                       ![t].got = [i \in DOMAIN s |-> [file |-> s[i], version |-> wasm[s[i]]]]]
          /\ known' = good
    BY DEF Plugins!List
  <1>1. PICK s \in Plugins!Orders(good) :
          /\ job' = [job EXCEPT ![t].pc = "clear",
                       ![t].got = [i \in DOMAIN s |-> [file |-> s[i], version |-> wasm[s[i]]]]]
          /\ known' = good
    BY <1>a
  <1> DEFINE got == [i \in DOMAIN s |-> [file |-> s[i], version |-> wasm[s[i]]]]
             r == [job[t] EXCEPT !.pc = "clear", !.got = got]
  <1>2. PICK n \in 0..MaxFiles :
          /\ s \in [1..n -> good]
          /\ \A f \in good : \E i \in DOMAIN s : \A j \in DOMAIN s : s[j] = f <=> j = i
    BY <1>1 DEF Plugins!Orders
  <1>3. n \in Nat /\ DOMAIN s = 1..n /\ \A i \in 1..n : s[i] \in good
    BY <1>2
  <1>4. /\ DOMAIN got = 1..n
        /\ \A i \in 1..n : got[i] = [file |-> s[i], version |-> wasm[s[i]]]
    BY <1>3
  <1>5. \A i \in 1..n : got[i] \in Module /\ got[i].file = s[i] /\ got[i].version = wasm[s[i]]
    BY <1>0, <1>3, <1>4 DEF Module, PluginType
  <1>6. got \in Seq(Module)
    <2>1. got = [i \in 1..n |-> got[i]]
      BY <1>3
    <2> HIDE DEF got
    <2> QED
      BY <1>3, <1>5, <2>1
  <1>7. Lists(wasm, got, good, {})
    BY <1>2, <1>3, <1>4, <1>5, SMTT(30) DEF Lists
  <1> HIDE DEF got
  <1>8. /\ r \in PluginJob /\ r.pc = "clear" /\ r.got = got /\ job' = [job EXCEPT ![t] = r]
    <2>1. job[t] \in PluginJob
      BY <1>0 DEF PluginType
    <2> QED
      BY <1>1, <1>6, <2>1 DEF PluginJob, Waiting, got
  <1> HIDE DEF r
  <1>9. job'[t] = r /\ loaded' = loaded /\ UNCHANGED <<wasm, installed, readers, spoiled>>
    BY <1>0, <1>8 DEF PluginType, Plugins!List
  <1>10. PhaseInv(t)'
    BY <1>1, <1>7, <1>8, <1>9 DEF PhaseInv
  <1>11. /\ job[t].pc \in Plugins!Changing /\ r.pc \in Plugins!Changing /\ r.pc \in Waiting
         /\ Freed(t, queue)
    BY <1>0, <1>8 DEF Plugins!Changing, Waiting, Freed
  <1>12. queue' = Append(queue, [task |-> t, mode |-> "write"])
    BY DEF Plugins!List, Plugins!Wait
  <1>13. /\ known' \subseteq PluginFiles /\ loaded' \in Seq(Module)
         /\ \A f \in known' : wasm[f] > 0
    BY <1>0, <1>1, <1>9 DEF PluginType
  <1> QED
    BY <1>8, <1>9, <1>10, <1>11, <1>12, <1>13, ChangingTask

LEMMA ClearStep ==
  ASSUME PluginInv, NEW t \in Everyone, Plugins!Clear(t)
  PROVE  PluginInv'
  <1>0. PluginType /\ QueueInv /\ job[t].pc = "clear"
    BY DEF PluginInv, Plugins!Clear, Plugins!At
  <1>1. Freed(t, Tail(queue))
    BY <1>0, TurnFacts DEF Plugins!Clear
  <1>2. PICK r \in PluginJob : /\ job' = [job EXCEPT ![t] = r]
                               /\ r.pc = "append" /\ r.file = job[t].file /\ r.got = job[t].got
    <2>1. Plugins!Set(t, "append") /\ "append" \in Pcs
      BY DEF Plugins!Clear, Pcs, Waiting
    <2> QED
      BY <1>0, <2>1, SetFacts
  <1>3. /\ queue' = Append(Tail(queue), [task |-> t, mode |-> "write"]) /\ loaded' = <<>>
        /\ UNCHANGED <<wasm, installed, readers, spoiled>>
    BY DEF Plugins!Clear, Plugins!Wait
  <1>4. /\ job'[t] = r /\ job[t].pc \in Plugins!Changing
        /\ r.pc \in Plugins!Changing /\ r.pc \in Waiting
        /\ job[t] \in PluginJob
    BY <1>0, <1>2 DEF PluginType, Plugins!Changing, Waiting
  <1>5. known' = known /\ loaded' \in Seq(Module) /\ known' \subseteq PluginFiles
    BY <1>0, <1>3 DEF Plugins!Clear, PluginType
  <1>6. PhaseInv(t) => PhaseInv(t)'
    BY <1>0, <1>2, <1>3, <1>4, <1>5 DEF PhaseInv
  <1> QED
    BY <1>0, <1>1, <1>2, <1>3, <1>4, <1>5, <1>6, ChangingTask

LEMMA AppendAllStep ==
  ASSUME PluginInv, NEW t \in Everyone, Plugins!AppendAll(t)
  PROVE  PluginInv'
  <1>0. PluginType /\ QueueInv /\ job[t].pc = "append"
    BY DEF PluginInv, Plugins!AppendAll, Plugins!At
  <1>1. Freed(t, Tail(queue))
    BY <1>0, TurnFacts DEF Plugins!AppendAll
  <1>2. PICK r \in PluginJob : job' = [job EXCEPT ![t] = r] /\ r.pc = "ended"
    BY <1>0, EndsFacts DEF Plugins!AppendAll
  <1>3. /\ queue' = Tail(queue) /\ loaded' = loaded \o job[t].got
        /\ UNCHANGED <<wasm, installed, readers, spoiled>>
    BY DEF Plugins!AppendAll, Plugins!Wait
  <1>4. /\ job'[t] = r /\ job[t].pc \in Plugins!Changing
        /\ r.pc \notin Plugins!Changing
        /\ job[t] \in PluginJob
    BY <1>0, <1>2 DEF PluginType, Plugins!Changing, Waiting
  <1>5. known' = known /\ loaded' \in Seq(Module) /\ known' \subseteq PluginFiles
    BY <1>0, <1>3, <1>4 DEF Plugins!AppendAll, PluginType, PluginJob
  <1>6. PhaseInv(t) => Lists(wasm, loaded', known', {}) /\ PhaseInv(t)'
    <2>1. ASSUME PhaseInv(t)
          PROVE  Lists(wasm, loaded', known', {})
      <3>1. loaded = <<>> /\ Lists(wasm, job[t].got, known, {})
        BY <1>0, <2>1 DEF PhaseInv
      <3>2. loaded' = job[t].got
        BY <1>3, <1>4, <3>1 DEF PluginJob
      <3> QED
        BY <1>5, <3>1, <3>2
    <2> QED
      BY <1>2, <1>4, <2>1 DEF PhaseInv
  <1> QED
    BY <1>0, <1>1, <1>2, <1>3, <1>4, <1>5, <1>6, ChangingTask

LEMMA EnrichStep ==
  ASSUME PluginInv, NEW t \in Everyone, Plugins!Enrich(t)
  PROVE  PluginInv'
  <1>0. PluginType /\ QueueInv /\ job[t].pc = "enrich"
    BY DEF PluginInv, Plugins!Enrich, Plugins!At
  <1>1. Freed(t, Tail(queue))
    BY <1>0, TurnFacts DEF Plugins!Enrich
  <1>2. PICK r \in PluginJob : /\ job' = [job EXCEPT ![t] = r]
                               /\ r.pc = "position" /\ r.file = job[t].file
                               /\ r.got = job[t].got
    <2>1. Plugins!Set(t, "position") /\ "position" \in Pcs
      BY DEF Plugins!Enrich, Pcs, Waiting
    <2> QED
      BY <1>0, <2>1, SetFacts
  <1>3. /\ queue' = Append(Tail(queue), [task |-> t, mode |-> "read"]) /\ loaded' = loaded
        /\ UNCHANGED <<wasm, installed, readers, spoiled>>
    BY DEF Plugins!Enrich, Plugins!Wait
  <1>4. /\ job'[t] = r /\ job[t].pc \in Plugins!Changing
        /\ r.pc \in Plugins!Changing /\ r.pc \in Waiting
        /\ job[t] \in PluginJob
    BY <1>0, <1>2 DEF PluginType, Plugins!Changing, Waiting
  <1>5. known' = known /\ loaded' \in Seq(Module) /\ known' \subseteq PluginFiles
                       /\ r.file \in PluginFiles
    BY <1>0, <1>2, <1>3 DEF Plugins!Enrich, PluginType
  <1>6. PhaseInv(t) => PhaseInv(t)'
    BY <1>0, <1>2, <1>3, <1>4, <1>5 DEF PhaseInv
  <1> QED
    BY <1>0, <1>1, <1>2, <1>3, <1>4, <1>5, <1>6, ChangingTask

LEMMA PushStep ==
  ASSUME PluginInv, NEW t \in Everyone, Plugins!Push(t)
  PROVE  PluginInv'
  <1>0. PluginType /\ QueueInv /\ job[t].pc = "push"
    BY DEF PluginInv, Plugins!Push, Plugins!At
  <1>1. Freed(t, Tail(queue))
    BY <1>0, TurnFacts DEF Plugins!Push
  <1>2. PICK r \in PluginJob : /\ job' = [job EXCEPT ![t] = r]
                               /\ r.pc = "last" /\ r.file = job[t].file /\ r.got = job[t].got
    <2>1. Plugins!Set(t, "last") /\ "last" \in Pcs
      BY DEF Plugins!Push, Pcs, Waiting
    <2> QED
      BY <1>0, <2>1, SetFacts
  <1>3. /\ queue' = Append(Tail(queue), [task |-> t, mode |-> "read"])
        /\ loaded' = loaded \o job[t].got
        /\ UNCHANGED <<wasm, installed, readers, spoiled>>
    BY DEF Plugins!Push, Plugins!Wait
  <1>4. /\ job'[t] = r /\ job[t].pc \in Plugins!Changing
        /\ r.pc \notin Plugins!Changing /\ r.pc \in Waiting
        /\ job[t] \in PluginJob
    BY <1>0, <1>2 DEF PluginType, Plugins!Changing, Waiting
  <1>5. /\ known' = known \cup {job[t].file} /\ loaded' \in Seq(Module)
        /\ known' \subseteq PluginFiles
    <2>1. known' = known \cup {job[t].file}
      BY DEF Plugins!Push
    <2>2. job[t].file \in PluginFiles /\ known \subseteq PluginFiles
      BY <1>0 DEF PluginType
    <2>3. loaded \in Seq(Module) /\ job[t].got \in Seq(Module)
      BY <1>0, <1>4 DEF PluginType, PluginJob
    <2> QED
      BY <1>3, <2>1, <2>2, <2>3
  <1>6. ASSUME PhaseInv(t), \A f \in known : wasm[f] > 0
        PROVE  /\ Lists(wasm, loaded', known', {}) /\ PhaseInv(t)'
               /\ \A f \in known' : wasm[f] > 0
    <2> DEFINE f == job[t].file
    <2>1. /\ Lists(wasm, loaded, known \ {f}, {}) /\ wasm[f] > 0
          /\ job[t].got = <<[file |-> f, version |-> wasm[f]]>>
      BY <1>0, <1>6 DEF PhaseInv
    <2>2. Lists(wasm, job[t].got, {f}, {})
      <3> DEFINE g == [file |-> f, version |-> wasm[f]]
      <3>1. g.file = f /\ g.version = wasm[f]
        OBVIOUS
      <3> HIDE DEF g, f
      <3>2. job[t].got = <<g>>
        BY <2>1 DEF g
      <3>3. DOMAIN <<g>> = {1} /\ <<g>>[1] = g
        OBVIOUS
      <3> QED
        BY <3>1, <3>2, <3>3 DEF Lists
    <2>3. loaded \in Seq(Module) /\ job[t].got \in Seq(Module)
      BY <1>0, <1>4 DEF PluginType, PluginJob
    <2>4. Lists(wasm, loaded', (known \ {f}) \cup {f}, {})
      <3> HIDE DEF f
      <3> QED
        BY <1>3, <2>1, <2>2, <2>3, ListsJoin
    <2>5. (known \ {f}) \cup {f} = known'
      BY <1>5
    <2>6. PhaseInv(t)'
      BY <1>2, <1>4 DEF PhaseInv
    <2> QED
      BY <1>5, <1>6, <2>1, <2>4, <2>5, <2>6
  <1> QED
    BY <1>0, <1>1, <1>2, <1>3, <1>4, <1>5, <1>6, ChangingTask

LEMMA PositionStep ==
  ASSUME PluginInv, NEW t \in Everyone, Plugins!Position(t)
  PROVE  PluginInv'
  <1> DEFINE f == job[t].file
             at == Plugins!FirstAt(f)
  <1>0. PluginType /\ QueueInv /\ job[t].pc = "position" /\ f \in PluginFiles
    BY DEF PluginInv, Plugins!Position, Plugins!At, PluginType
  <1>1. Freed(t, Tail(queue))
    BY <1>0, TurnFacts DEF Plugins!Position
  <1>2. /\ UNCHANGED <<wasm, installed, readers, spoiled>> /\ known' = known /\ loaded' = loaded
        /\ loaded' \in Seq(Module) /\ known' \subseteq PluginFiles
    BY <1>0 DEF Plugins!Position, PluginType
  <1>3. job[t] \in PluginJob /\ job[t].pc \in Plugins!Changing
    BY <1>0 DEF PluginType, Plugins!Changing
  <1>4. \/ at = 0 /\ \A i \in DOMAIN loaded : loaded[i].file # f
        \/ at # 0 /\ at \in DOMAIN loaded /\ loaded[at].file = f
    BY <1>0, FirstFacts
  <1>5. \/ at = 0 /\ Plugins!Set(t, "build") /\ queue' = Tail(queue)
        \/ /\ at # 0
           /\ job' = [job EXCEPT ![t].pc = "swap", ![t].at = at]
           /\ queue' = Append(Tail(queue), [task |-> t, mode |-> "write"])
    BY DEF Plugins!Position, Plugins!Wait
  <1> HIDE DEF at, f
  <1>6. CASE at = 0
    <2>1. PICK r \in PluginJob : job' = [job EXCEPT ![t] = r] /\ r.pc = "build" /\ r.file = f
      BY <1>0, <1>5, <1>6, SetFacts DEF Pcs, f
    <2>2. job'[t] = r /\ r.pc \in Plugins!Changing
      BY <1>0, <2>1 DEF PluginType, Plugins!Changing
    <2>3. PhaseInv(t) => PhaseInv(t)'
      <3>1. ASSUME Lists(wasm, loaded, known, {f})
            PROVE  Lists(wasm, loaded, known \ {f}, {})
        BY <1>4, <1>6, <3>1 DEF Lists
      <3> QED
        BY <1>0, <1>2, <2>1, <2>2, <3>1 DEF PhaseInv, f
    <2> QED
      BY <1>0, <1>1, <1>2, <1>3, <1>5, <1>6, <2>1, <2>2, <2>3, ChangingTask
  <1>7. CASE at # 0
    <2> DEFINE r == [job[t] EXCEPT !.pc = "swap", !.at = at]
    <2>0. at \in Nat
      BY <1>0, <1>4, <1>7 DEF PluginType
    <2>1. r \in PluginJob /\ r.pc = "swap" /\ r.file = f /\ r.at = at
                          /\ job' = [job EXCEPT ![t] = r]
      BY <1>3, <1>5, <1>7, <2>0 DEF PluginJob, Waiting, f
    <2> HIDE DEF r
    <2>2. job'[t] = r /\ r.pc \in Plugins!Changing /\ r.pc \in Waiting
      BY <1>0, <2>1 DEF PluginType, Plugins!Changing, Waiting
    <2>3. PhaseInv(t) => PhaseInv(t)'
      BY <1>0, <1>2, <1>4, <1>7, <2>1, <2>2 DEF PhaseInv, f
    <2> QED
      BY <1>0, <1>1, <1>2, <1>3, <1>5, <1>7, <2>1, <2>2, <2>3, ChangingTask
  <1> QED
    BY <1>6, <1>7

LEMMA SwapRemoveStep ==
  ASSUME PluginInv, NEW t \in Everyone, Plugins!SwapRemove(t)
  PROVE  PluginInv'
  <1> DEFINE f == job[t].file
             at == job[t].at
             n == Len(loaded)
  <1>0. PluginType /\ QueueInv /\ job[t].pc = "swap" /\ f \in PluginFiles
    BY DEF PluginInv, Plugins!SwapRemove, Plugins!At, PluginType
  <1>1. Freed(t, Tail(queue))
    BY <1>0, TurnFacts DEF Plugins!SwapRemove
  <1>2. /\ UNCHANGED <<wasm, installed, readers, spoiled>> /\ known' = known
        /\ known' \subseteq PluginFiles /\ queue' = Tail(queue)
    BY <1>0 DEF Plugins!SwapRemove, PluginType
  <1>3. job[t] \in PluginJob /\ job[t].pc \in Plugins!Changing
    BY <1>0 DEF PluginType, Plugins!Changing
  <1>4. loaded \in Seq(Module) /\ n \in Nat /\ DOMAIN loaded = 1..n /\ at \in Nat
    BY <1>0, <1>3 DEF PluginType, PluginJob
  <1>5. \/ at > n /\ Plugins!Ends(t) /\ loaded' = loaded
        \/ /\ ~(at > n) /\ Plugins!Set(t, "build")
           /\ loaded' = SubSeq([loaded EXCEPT ![at] = loaded[n]], 1, n - 1)
    BY DEF Plugins!SwapRemove
  <1>6. CASE at > n
    <2>1. PICK r \in PluginJob : job' = [job EXCEPT ![t] = r] /\ r.pc = "ended"
      BY <1>0, <1>5, <1>6, EndsFacts
    <2>2. ~PhaseInv(t)
      <3>1. at \notin DOMAIN loaded
        BY <1>4, <1>6
      <3> QED
        BY <1>0, <3>1 DEF PhaseInv
    <2> QED
      BY <1>0, <1>1, <1>2, <1>3, <1>4, <1>5, <1>6, <2>1, <2>2, ChangingTask
  <1>7. CASE ~(at > n)
    <2>1. PICK r \in PluginJob : job' = [job EXCEPT ![t] = r] /\ r.pc = "build" /\ r.file = f
      BY <1>0, <1>5, <1>7, SetFacts DEF Pcs
    <2>2. job'[t] = r /\ r.pc \in Plugins!Changing
      BY <1>0, <2>1 DEF PluginType, Plugins!Changing
    <2>3. ASSUME PhaseInv(t)
          PROVE  PhaseInv(t)'
      <3>1. Lists(wasm, loaded, known, {f}) /\ at \in DOMAIN loaded /\ loaded[at].file = f
        BY <1>0, <2>3 DEF PhaseInv
      <3>2. Lists(wasm, loaded', known \ {f}, {})
        <4> HIDE DEF f, at
        <4> QED
          BY <1>4, <1>5, <1>7, <3>1, SwapFacts DEF n
      <3> QED
        BY <1>2, <2>1, <2>2, <3>2 DEF PhaseInv
    <2>4. loaded' \in Seq(Module)
      <3>1. CASE at \in DOMAIN loaded
        BY <1>4, <1>5, <1>7, <3>1, SwapType
      <3>2. CASE at \notin DOMAIN loaded
        <4>1. [loaded EXCEPT ![at] = loaded[n]] = loaded
          BY <1>4, <3>2
        <4>2. loaded' = SubSeq(loaded, 1, n - 1)
          BY <1>5, <1>7, <4>1
        <4>3. CASE n = 0
          <5>1. loaded' = <<>>
            BY <1>4, <4>2, <4>3
          <5> QED
            BY <5>1
        <4>4. CASE n # 0
          BY <1>4, <4>2, <4>4
        <4> QED
          BY <4>3, <4>4
      <3> QED
        BY <3>1, <3>2
    <2> QED
      BY <1>0, <1>1, <1>2, <1>3, <2>1, <2>2, <2>3, <2>4, ChangingTask
  <1> QED
    BY <1>6, <1>7

LEMMA BuildStep ==
  ASSUME PluginInv, NEW t \in Everyone, Plugins!Build(t)
  PROVE  PluginInv'
  <1> DEFINE f == job[t].file
  <1>0. PluginType /\ QueueInv /\ job[t].pc = "build" /\ f \in PluginFiles
    BY DEF PluginInv, Plugins!Build, Plugins!At, PluginType
  <1>1. Freed(t, queue)
    BY <1>0 DEF Freed, Waiting
  <1>2. /\ UNCHANGED <<wasm, installed, readers, spoiled>> /\ loaded' = loaded
        /\ loaded' \in Seq(Module)
    BY <1>0 DEF Plugins!Build, PluginType
  <1>3. job[t] \in PluginJob /\ job[t].pc \in Plugins!Changing
    BY <1>0 DEF PluginType, Plugins!Changing
  <1>4. CASE Plugins!Ends(t) /\ known' = known \ {f} /\ queue' = queue
    <2>1. PICK r \in PluginJob : job' = [job EXCEPT ![t] = r] /\ r.pc = "ended"
      BY <1>0, <1>4, EndsFacts
    <2>2. job'[t] = r /\ r.pc \notin Plugins!Changing /\ known' \subseteq PluginFiles
      BY <1>0, <1>4, <2>1 DEF PluginType, Plugins!Changing
    <2>3. PhaseInv(t) => Lists(wasm, loaded', known', {}) /\ PhaseInv(t)'
      BY <1>0, <1>2, <1>4, <2>1, <2>2 DEF PhaseInv
    <2>4. (\A x \in known : wasm[x] > 0) => \A x \in known' : wasm[x] > 0
      BY <1>4
    <2> QED
      BY <1>0, <1>1, <1>2, <1>3, <1>4, <2>1, <2>2, <2>3, <2>4, ChangingTask
  <1>5. CASE /\ wasm[f] > 0 /\ known' = known
             /\ job' = [job EXCEPT ![t].pc = "push",
                              ![t].got = <<[file |-> f, version |-> wasm[f]]>>]
             /\ queue' = Plugins!Wait(queue, t, "write")
    <2> DEFINE g == <<[file |-> f, version |-> wasm[f]]>>
               r == [job[t] EXCEPT !.pc = "push", !.got = g]
    <2>0. g \in Seq(Module)
      <3>1. [file |-> f, version |-> wasm[f]] \in Module
        BY <1>0 DEF PluginType, Module
      <3> QED
        BY <3>1
    <2>1. /\ r \in PluginJob /\ r.pc = "push" /\ r.file = f /\ r.got = g
          /\ job' = [job EXCEPT ![t] = r]
      <3> HIDE DEF g
      <3>1. job' = [job EXCEPT ![t].pc = "push", ![t].got = g]
        BY <1>5 DEF g
      <3> QED
        BY <1>3, <2>0, <3>1 DEF PluginJob, Waiting
    <2> HIDE DEF r
    <2>2. /\ job'[t] = r /\ r.pc \in Plugins!Changing /\ r.pc \in Waiting
          /\ known' \subseteq PluginFiles
      BY <1>0, <1>5, <2>1 DEF PluginType, Plugins!Changing, Waiting
    <2>3. PhaseInv(t) => PhaseInv(t)'
      BY <1>0, <1>2, <1>5, <2>1, <2>2 DEF PhaseInv
    <2>4. queue' = Append(queue, [task |-> t, mode |-> "write"])
      BY <1>5 DEF Plugins!Wait
    <2> QED
      BY <1>0, <1>1, <1>2, <1>3, <1>5, <2>1, <2>2, <2>3, <2>4, ChangingTask
  <1> QED
    BY <1>4, <1>5 DEF Plugins!Build

\* A task that leaves the modules alone preserves the invariant.
LEMMA QuietCall ==
  ASSUME PluginInv, NEW t \in Everyone, NEW r \in PluginJob, job' = [job EXCEPT ![t] = r],
         job[t].pc \notin Plugins!Changing, r.pc \notin Plugins!Changing,
         r.pc \in {"take", "calling"} => r.todo # <<>>,
         r.pc = "insert" => r.file \in PluginFiles,
         installed' \subseteq PluginFiles, UNCHANGED <<wasm, loaded, known, spoiled>>,
         readers' \subseteq readers \cup {t},
         t \in readers' => r.pc \in {"insert", "reread", "calling"},
         NEW q, Freed(t, q),
         queue' = q \/ (r.pc \in Waiting /\ queue' = Append(q, [task |-> t, mode |-> "read"]))
  PROVE  PluginInv'
  <1>1. wasm' \in [PluginFiles -> Nat] /\ \A f \in PluginFiles : wasm[f] > 0 => wasm'[f] = wasm[f]
    BY DEF PluginInv, PluginType
  <1> QED
    BY <1>1, QuietTask

LEMMA EnrichUpdatedStep ==
  ASSUME PluginInv, NEW t \in Everyone, Plugins!EnrichUpdated(t)
  PROVE  PluginInv'
  <1>0. PluginType /\ QueueInv /\ job[t].pc = "last"
    BY DEF PluginInv, Plugins!EnrichUpdated, Plugins!At
  <1>1. Freed(t, Tail(queue)) /\ t \notin readers
    BY <1>0, TurnFacts DEF Plugins!EnrichUpdated, QueueInv
  <1>2. PICK r \in PluginJob : job' = [job EXCEPT ![t] = r] /\ r.pc = "ended"
    BY <1>0, EndsFacts DEF Plugins!EnrichUpdated
  <1>3. /\ queue' = Tail(queue) /\ UNCHANGED <<wasm, loaded, known, spoiled>>
        /\ readers' = readers /\ installed' \subseteq PluginFiles
    BY <1>0 DEF Plugins!EnrichUpdated, PluginType
  <1>4. job[t].pc \notin Plugins!Changing /\ r.pc \notin Plugins!Changing
    BY <1>0, <1>2 DEF Plugins!Changing
  <1> QED
    BY <1>1, <1>2, <1>3, <1>4, QuietCall

LEMMA FindStep ==
  ASSUME PluginInv, NEW t \in Everyone, Plugins!Find(t)
  PROVE  PluginInv'
  <1>0. PluginType /\ QueueInv /\ job[t].pc = "find"
    BY DEF PluginInv, Plugins!Find, Plugins!At
  <1>1. Freed(t, Tail(queue)) /\ t \notin readers /\ job[t] \in PluginJob
    BY <1>0, TurnFacts DEF Plugins!Find, QueueInv, PluginType
  <1>2. /\ queue' = Tail(queue) /\ UNCHANGED <<wasm, loaded, known, spoiled>>
        /\ installed' \subseteq PluginFiles
    BY <1>0 DEF Plugins!Find, PluginType
  <1>3. job[t].pc \notin Plugins!Changing
    BY <1>0 DEF Plugins!Changing
  <1>4. CASE Plugins!Ends(t) /\ readers' = readers
    <2>1. PICK r \in PluginJob : job' = [job EXCEPT ![t] = r] /\ r.pc = "ended"
      BY <1>0, <1>4, EndsFacts
    <2>2. r.pc \notin Plugins!Changing
      BY <2>1 DEF Plugins!Changing
    <2> QED
      BY <1>1, <1>2, <1>3, <1>4, <2>1, <2>2, QuietCall
  <1>5. ASSUME NEW i \in DOMAIN loaded, readers' = readers \cup {t},
               job' = [job EXCEPT ![t].pc = "insert", ![t].file = loaded[i].file]
        PROVE  PluginInv'
    <2> DEFINE f == loaded[i].file
               r == [job[t] EXCEPT !.pc = "insert", !.file = f]
    <2>0. loaded[i] \in Module
      BY <1>0 DEF PluginType
    <2>1. f \in PluginFiles
      BY <2>0 DEF Module
    <2> HIDE DEF f
    <2>2. r \in PluginJob /\ r.pc = "insert" /\ r.file = f
      BY <1>1, <2>1 DEF PluginJob
    <2>3. job' = [job EXCEPT ![t] = r]
      BY <1>5 DEF f
    <2> HIDE DEF r
    <2>4. r.pc \notin Plugins!Changing
      BY <2>2 DEF Plugins!Changing
    <2> QED
      BY <1>1, <1>2, <1>3, <1>5, <2>1, <2>2, <2>3, <2>4, QuietCall
  <1> QED
    BY <1>4, <1>5 DEF Plugins!Find

LEMMA InsertStep ==
  ASSUME PluginInv, NEW t \in Everyone, Plugins!Insert(t)
  PROVE  PluginInv'
  <1>0. PluginType /\ QueueInv /\ job[t].pc = "insert"
    BY DEF PluginInv, Plugins!Insert, Plugins!At
  <1>1. Freed(t, queue)
    BY <1>0 DEF Freed, Waiting
  <1>2. PICK r \in PluginJob : job' = [job EXCEPT ![t] = r] /\ r.pc = "reread"
    BY <1>0, SetFacts DEF Plugins!Insert, Pcs, Waiting
  <1>3. /\ queue' = Append(queue, [task |-> t, mode |-> "read"]) /\ r.pc \in Waiting
        /\ UNCHANGED <<wasm, loaded, known, spoiled>> /\ readers' = readers
    BY <1>2 DEF Plugins!Insert, Plugins!Wait, Waiting
  <1>4. installed' \subseteq PluginFiles
    BY <1>0 DEF Plugins!Insert, PluginType
  <1>5. job[t].pc \notin Plugins!Changing /\ r.pc \notin Plugins!Changing
    BY <1>0, <1>2 DEF Plugins!Changing
  <1> QED
    BY <1>1, <1>2, <1>3, <1>4, <1>5, QuietCall

LEMMA RereadStep ==
  ASSUME PluginInv, NEW t \in Everyone, Plugins!Reread(t)
  PROVE  PluginInv'
  <1>0. PluginType /\ QueueInv /\ job[t].pc = "reread"
    BY DEF PluginInv, Plugins!Reread, Plugins!At
  <1>1. Freed(t, Tail(queue))
    BY <1>0, TurnFacts DEF Plugins!Reread
  <1>2. PICK r \in PluginJob : job' = [job EXCEPT ![t] = r] /\ r.pc = "ended"
    BY <1>0, EndsFacts DEF Plugins!Reread
  <1>3. /\ queue' = Tail(queue) /\ UNCHANGED <<wasm, loaded, known, spoiled>>
        /\ readers' = readers \ {t} /\ installed' \subseteq PluginFiles
    BY <1>0 DEF Plugins!Reread, PluginType
  <1>4. job[t].pc \notin Plugins!Changing /\ r.pc \notin Plugins!Changing
    BY <1>0, <1>2 DEF Plugins!Changing
  <1> QED
    BY <1>1, <1>2, <1>3, <1>4, QuietCall

LEMMA CallStep ==
  ASSUME PluginInv, NEW t \in Everyone, NEW k \in Plugins!Calls, Plugins!Call(t, k)
  PROVE  PluginInv'
  <1>0. PluginType /\ QueueInv /\ job[t].pc = "idle"
    BY DEF PluginInv, Plugins!Call, Plugins!At
  <1>1. Freed(t, queue) /\ t \notin readers /\ job[t] \in PluginJob /\ k \in PluginKinds
    BY <1>0 DEF Freed, Waiting, QueueInv, PluginType, PluginKinds
  <1>2. PICK s \in Plugins!Orders(installed) :
          /\ s # <<>>
          /\ job' = [job EXCEPT ![t].kind = k, ![t].pc = "take",
                                ![t].todo = IF k.upto = "one" THEN <<Head(s)>> ELSE s]
    BY DEF Plugins!Call
  <1> DEFINE todo == IF k.upto = "one" THEN <<Head(s)>> ELSE s
             r == [job[t] EXCEPT !.kind = k, !.pc = "take", !.todo = todo]
  <1>3. todo \in Seq(PluginFiles) /\ todo # <<>>
    <2>1. PICK n \in 0..MaxFiles : s \in [1..n -> installed]
      BY DEF Plugins!Orders
    <2>2. n \in Nat /\ s \in [1..n -> PluginFiles]
      BY <1>0, <2>1 DEF PluginType
    <2>3. s \in Seq(PluginFiles)
      BY <2>2
    <2>4. Head(s) \in PluginFiles
      BY <1>2, <2>3
    <2>5. <<Head(s)>> \in Seq(PluginFiles) /\ <<Head(s)>> # <<>>
      BY <2>4
    <2> QED
      BY <1>2, <2>3, <2>5
  <1> HIDE DEF todo
  <1>4. r \in PluginJob /\ r.pc = "take" /\ r.todo = todo /\ job' = [job EXCEPT ![t] = r]
    BY <1>1, <1>2, <1>3 DEF PluginJob, Waiting, todo
  <1> HIDE DEF r
  <1>5. /\ queue' = Append(queue, [task |-> t, mode |-> "read"]) /\ r.pc \in Waiting
        /\ UNCHANGED <<wasm, loaded, known, spoiled>> /\ readers' = readers
    BY <1>4 DEF Plugins!Call, Plugins!Wait, Waiting
  <1>6. installed' \subseteq PluginFiles
    BY <1>0 DEF Plugins!Call, PluginType
  <1>7. job[t].pc \notin Plugins!Changing /\ r.pc \notin Plugins!Changing
    BY <1>0, <1>4 DEF Plugins!Changing
  <1> QED
    BY <1>1, <1>3, <1>4, <1>5, <1>6, <1>7, QuietCall

\* After a plugin: the next one, or the end.
LEMMA ContinueStep ==
  ASSUME PluginInv, NEW t \in Everyone, NEW q, Freed(t, q), NEW todo \in Seq(PluginFiles),
         Plugins!Continue(t, todo, q), job[t].pc \notin Plugins!Changing,
         installed' \subseteq PluginFiles, UNCHANGED <<wasm, loaded, known, spoiled>>,
         readers' \subseteq readers, t \notin readers'
  PROVE  PluginInv'
  <1>0. PluginType /\ job[t] \in PluginJob
    BY DEF PluginInv, PluginType
  <1>1. CASE todo = <<>>
    <2>1. PICK r \in PluginJob : job' = [job EXCEPT ![t] = r] /\ r.pc = "ended"
      BY <1>0, <1>1, EndsFacts DEF Plugins!Continue
    <2>2. r.pc \notin Plugins!Changing /\ queue' = q
      BY <1>1, <2>1 DEF Plugins!Changing, Plugins!Continue
    <2> QED
      BY <2>1, <2>2, QuietCall
  <1>2. CASE todo # <<>>
    <2> DEFINE r == [job[t] EXCEPT !.pc = "take", !.todo = todo]
    <2>1. r \in PluginJob /\ r.pc = "take" /\ r.todo = todo
      BY <1>0 DEF PluginJob, Waiting
    <2>2. job' = [job EXCEPT ![t] = r] /\ queue' = Append(q, [task |-> t, mode |-> "read"])
      BY <1>2 DEF Plugins!Continue, Plugins!Wait
    <2> HIDE DEF r
    <2>3. r.pc \notin Plugins!Changing /\ r.pc \in Waiting
      BY <2>1 DEF Plugins!Changing, Waiting
    <2> QED
      BY <1>2, <2>1, <2>2, <2>3, QuietCall
  <1> QED
    BY <1>1, <1>2

LEMMA TakeStep ==
  ASSUME PluginInv, NEW t \in Everyone, Plugins!Take(t)
  PROVE  PluginInv'
  <1>0. PluginType /\ QueueInv /\ job[t].pc = "take"
    BY DEF PluginInv, Plugins!Take, Plugins!At
  <1>1. /\ Freed(t, Tail(queue)) /\ t \notin readers /\ job[t] \in PluginJob
        /\ job[t].todo # <<>> /\ job[t].todo \in Seq(PluginFiles)
    BY <1>0, TurnFacts DEF Plugins!Take, QueueInv, PluginType, PluginJob
  <1>2. UNCHANGED <<wasm, loaded, known, spoiled>> /\ installed' \subseteq PluginFiles
    BY <1>0 DEF Plugins!Take, PluginType
  <1>3. job[t].pc \notin Plugins!Changing
    BY <1>0 DEF Plugins!Changing
  <1>4. \/ Plugins!Set(t, "running") /\ queue' = Tail(queue) /\ readers' = readers
        \/ Plugins!Set(t, "calling") /\ queue' = Tail(queue) /\ readers' = readers \cup {t}
        \/ /\ Plugins!Set(t, "reread") /\ queue' = Plugins!Wait(Tail(queue), t, "read")
           /\ readers' = readers \cup {t}
        \/ Plugins!Continue(t, Tail(job[t].todo), Tail(queue)) /\ readers' = readers
    BY DEF Plugins!Take
  <1>5. ASSUME NEW pc \in {"running", "calling", "reread"}, Plugins!Set(t, pc),
               pc = "running" => readers' = readers, readers' \subseteq readers \cup {t},
               \/ queue' = Tail(queue)
               \/ pc = "reread" /\ queue' = Plugins!Wait(Tail(queue), t, "read")
        PROVE  PluginInv'
    <2>1. PICK r \in PluginJob : /\ job' = [job EXCEPT ![t] = r]
                                 /\ r.pc = pc /\ r.todo = job[t].todo
      BY <1>0, <1>5, SetFacts DEF Pcs, Waiting
    <2>2. /\ r.pc \notin Plugins!Changing /\ (r.pc = "reread" => r.pc \in Waiting)
          /\ r.pc # "insert" /\ r.todo # <<>>
          /\ t \in readers' => r.pc \in {"insert", "reread", "calling"}
      BY <1>1, <1>5, <2>1 DEF Plugins!Changing, Waiting
    <2>3. queue' = Tail(queue) \/ (r.pc \in Waiting /\ queue' = Append(Tail(queue), [task |-> t, mode |-> "read"]))
      BY <1>5, <2>1, <2>2 DEF Plugins!Wait
    <2> QED
      BY <1>1, <1>2, <1>3, <1>5, <2>1, <2>2, <2>3, QuietCall
  <1>6. CASE Plugins!Continue(t, Tail(job[t].todo), Tail(queue)) /\ readers' = readers
    <2>1. Tail(job[t].todo) \in Seq(PluginFiles)
      BY <1>1
    <2> QED
      BY <1>1, <1>2, <1>3, <1>6, <2>1, ContinueStep
  <1> QED
    BY <1>4, <1>5, <1>6

LEMMA ReturnStep ==
  ASSUME PluginInv, NEW t \in Everyone, Plugins!Return(t)
  PROVE  PluginInv'
  <1>0. PluginType /\ QueueInv /\ job[t].pc = "calling"
    BY DEF PluginInv, Plugins!Return, Plugins!At
  <1>1. /\ Freed(t, queue) /\ job[t] \in PluginJob
        /\ job[t].todo # <<>> /\ job[t].todo \in Seq(PluginFiles)
    BY <1>0 DEF Freed, Waiting, PluginType, PluginJob
  <1>2. /\ UNCHANGED <<wasm, loaded, known, spoiled>> /\ installed' \subseteq PluginFiles
        /\ readers' = readers \ {t}
    BY <1>0 DEF Plugins!Return, PluginType
  <1>3. job[t].pc \notin Plugins!Changing
    BY <1>0 DEF Plugins!Changing
  <1>4. CASE Plugins!Continue(t, Tail(job[t].todo), queue)
    <2>1. Tail(job[t].todo) \in Seq(PluginFiles)
      BY <1>1
    <2> QED
      BY <1>1, <1>2, <1>3, <1>4, <2>1, ContinueStep
  <1>5. CASE Plugins!Ends(t) /\ queue' = queue
    <2>1. PICK r \in PluginJob : job' = [job EXCEPT ![t] = r] /\ r.pc = "ended"
      BY <1>0, <1>5, EndsFacts
    <2>2. r.pc \notin Plugins!Changing
      BY <2>1 DEF Plugins!Changing
    <2> QED
      BY <1>1, <1>2, <1>3, <1>5, <2>1, <2>2, QuietCall
  <1> QED
    BY <1>4, <1>5 DEF Plugins!Return

LEMMA GatherStep ==
  ASSUME PluginInv, NEW t \in Everyone, Plugins!Gather(t)
  PROVE  PluginInv'
  <1>0. PluginType /\ QueueInv /\ job[t].pc = "running"
    BY DEF PluginInv, Plugins!Gather, Plugins!At
  <1>1. Freed(t, queue) /\ t \notin readers
    BY <1>0 DEF Freed, Waiting, QueueInv
  <1>2. PICK r \in PluginJob : job' = [job EXCEPT ![t] = r] /\ r.pc = "ended"
    BY <1>0, EndsFacts DEF Plugins!Gather
  <1>3. /\ queue' = queue /\ UNCHANGED <<wasm, loaded, known, spoiled>>
        /\ readers' = readers /\ installed' \subseteq PluginFiles
    BY <1>0 DEF Plugins!Gather, PluginType
  <1>4. job[t].pc \notin Plugins!Changing /\ r.pc \notin Plugins!Changing
    BY <1>0, <1>2 DEF Plugins!Changing
  <1> QED
    BY <1>1, <1>2, <1>3, <1>4, QuietCall

\* The entries of two lists put one behind the other.
LEMMA JoinFacts ==
  ASSUME NEW S, NEW x \in Seq(S), NEW y \in Seq(S)
  PROVE  /\ x \o y \in Seq(S) /\ DOMAIN (x \o y) = 1..Len(x) + Len(y)
         /\ \A k \in 1..Len(x) + Len(y) : (x \o y)[k] = IF k <= Len(x) THEN x[k] ELSE y[k - Len(x)]
  OBVIOUS

\* Who waits once and leaves the queue is not in it any more.
LEMMA LeaveFacts ==
  ASSUME PluginType, QueueInv, NEW i \in DOMAIN queue, NEW q,
         q = SubSeq(queue, 1, i - 1) \o SubSeq(queue, i + 1, Len(queue))
  PROVE  /\ q \in Seq(Request)
         /\ \A k \in DOMAIN q : q[k].task # queue[i].task /\ job[q[k].task].pc \in Waiting
         /\ \A j, k \in DOMAIN q : q[j].task = q[k].task => j = k
  <1> DEFINE n == Len(queue)
  <1>0. queue \in Seq(Request) /\ n \in Nat /\ DOMAIN queue = 1..n /\ i \in 1..n
    BY DEF PluginType, Request
  <1>a. n \in Nat /\ i \in 1..n
    BY <1>0
  <1>1. /\ SubSeq(queue, 1, i - 1) \in Seq(Request) /\ Len(SubSeq(queue, 1, i - 1)) = i - 1
        /\ \A k \in 1..i - 1 : SubSeq(queue, 1, i - 1)[k] = queue[k]
    BY <1>0
  <1>2. /\ SubSeq(queue, i + 1, n) \in Seq(Request) /\ Len(SubSeq(queue, i + 1, n)) = n - i
        /\ \A k \in 1..n - i : SubSeq(queue, i + 1, n)[k] = queue[k + i]
    BY <1>0, SMTT(30)
  <1>3. /\ q \in Seq(Request) /\ DOMAIN q = 1..n - 1
        /\ \A k \in 1..n - 1 : q[k] = IF k < i THEN queue[k] ELSE queue[k + 1]
    <2> DEFINE x == SubSeq(queue, 1, i - 1)
               y == SubSeq(queue, i + 1, n)
    <2>1. /\ x \in Seq(Request) /\ y \in Seq(Request) /\ Len(x) = i - 1 /\ Len(y) = n - i
          /\ \A k \in 1..i - 1 : x[k] = queue[k]
          /\ \A k \in 1..n - i : y[k] = queue[k + i]
          /\ q = x \o y
      BY <1>1, <1>2
    <2> HIDE DEF x, y, n
    <2>2. /\ q \in Seq(Request) /\ DOMAIN q = 1..Len(x) + Len(y)
          /\ \A k \in 1..Len(x) + Len(y) : q[k] = IF k <= Len(x) THEN x[k] ELSE y[k - Len(x)]
      <3>1. /\ x \o y \in Seq(Request) /\ DOMAIN (x \o y) = 1..Len(x) + Len(y)
            /\ \A k \in 1..Len(x) + Len(y) :
                 (x \o y)[k] = IF k <= Len(x) THEN x[k] ELSE y[k - Len(x)]
        BY <2>1, JoinFacts, Zenon
      <3> QED
        BY <2>1, <3>1, Zenon
    <2>3. Len(x) + Len(y) = n - 1
      BY <1>0, <2>1
    <2>4. \A k \in 1..n - 1 : q[k] = IF k <= Len(x) THEN x[k] ELSE y[k - Len(x)]
      BY <2>2, <2>3
    <2>5. ASSUME NEW k \in 1..n - 1
          PROVE  q[k] = IF k < i THEN queue[k] ELSE queue[k + 1]
      <3>1. CASE k < i
        BY <1>0, <2>1, <2>4, <3>1
      <3>2. CASE ~(k < i)
        <4>1. k - Len(x) \in 1..n - i /\ (k - Len(x)) + i = k + 1 /\ ~(k <= Len(x))
          <5>1. Len(x) = i - 1 /\ i \in Int /\ k \in Int /\ n \in Int /\ i >= 1 /\ k <= n - 1
            BY <1>a, <2>1
          <5>2. k >= i
            BY <3>2, <5>1
          <5> QED
            BY <5>1, <5>2
        <4> QED
          BY <2>1, <2>4, <3>2, <4>1
      <3> QED
        BY <3>1, <3>2
    <2> QED
      BY <2>2, <2>3, <2>5
  <1> HIDE DEF n
  <1> DEFINE h(k) == IF k < i THEN k ELSE k + 1
  <1>b. /\ \A k \in 1..n - 1 : h(k) \in 1..n /\ h(k) # i
        /\ \A j, k \in 1..n - 1 : h(j) = h(k) => j = k
    <2>1. i \in Int /\ n \in Int /\ 1 <= i /\ i <= n
      BY <1>a
    <2>2. ASSUME NEW k \in 1..n - 1
          PROVE  h(k) \in 1..n /\ h(k) # i
      <3>1. CASE k < i
        BY <2>1, <3>1
      <3>2. CASE ~(k < i)
        BY <2>1, <3>2
      <3> QED
        BY <3>1, <3>2
    <2>3. ASSUME NEW j \in 1..n - 1, NEW k \in 1..n - 1, h(j) = h(k)
          PROVE  j = k
      BY <2>1, <2>3
    <2> QED
      BY <2>2, <2>3
  <1>c. \A k \in 1..n - 1 : q[k] = queue[h(k)]
    BY <1>3
  <1> HIDE DEF h
  <1>4. \A k \in DOMAIN q : h(k) \in DOMAIN queue /\ h(k) # i /\ q[k] = queue[h(k)]
    BY <1>0, <1>3, <1>b, <1>c
  <1>5. \A j, k \in DOMAIN q : h(j) = h(k) => j = k
    BY <1>3, <1>b
  <1>6. \A k \in DOMAIN q : q[k].task # queue[i].task /\ job[q[k].task].pc \in Waiting
    BY <1>4 DEF QueueInv
  <1>7. \A j, k \in DOMAIN q : q[j].task = q[k].task => j = k
    <2> SUFFICES ASSUME NEW j \in DOMAIN q, NEW k \in DOMAIN q, q[j].task = q[k].task
                 PROVE  j = k
      OBVIOUS
    <2>1. h(j) \in DOMAIN queue /\ h(k) \in DOMAIN queue /\ queue[h(j)].task = queue[h(k)].task
      BY <1>4
    <2>2. h(j) = h(k)
      BY <2>1 DEF QueueInv
    <2> QED
      BY <1>5, <2>2
  <1> QED
    BY <1>3, <1>6, <1>7

LEMMA HangUpStep ==
  ASSUME PluginInv, NEW t \in Everyone, Plugins!HangUp(t)
  PROVE  PluginInv'
  <1>0. PluginType /\ QueueInv /\ LoadInv
    BY DEF PluginInv
  <1>1. PICK i \in DOMAIN queue :
          /\ queue[i].task = t
          /\ queue' = SubSeq(queue, 1, i - 1) \o SubSeq(queue, i + 1, Len(queue))
    BY DEF Plugins!HangUp
  <1>2. PICK r \in PluginJob : job' = [job EXCEPT ![t] = r] /\ r.pc = "ended"
    BY <1>0, EndsFacts DEF Plugins!HangUp
  <1>3. /\ queue' \in Seq(Request)
        /\ \A k \in DOMAIN queue' : queue'[k].task # t /\ job[queue'[k].task].pc \in Waiting
        /\ \A j, k \in DOMAIN queue' : queue'[j].task = queue'[k].task => j = k
    BY ZenonT(60), <1>0, <1>1, LeaveFacts
  <1>4. /\ UNCHANGED <<wasm, installed, loaded, known>> /\ readers' = readers \ {t}
        /\ spoiled' = (spoiled \/ job[t].pc \in Plugins!Changing)
    BY DEF Plugins!HangUp
  <1>5. /\ job' \in [Everyone -> PluginJob] /\ job'[t] = r
        /\ \A u \in Everyone : u # t => job'[u] = job[u]
    BY <1>0, <1>2 DEF PluginType
  <1>6. \A k \in DOMAIN queue' : queue'[k].task \in Everyone /\ job'[queue'[k].task].pc \in Waiting
    <2>1. \A k \in DOMAIN queue' : queue'[k] \in Request
      BY <1>3
    <2> QED
      BY <1>3, <1>5, <2>1 DEF Request
  <1>7. \A u \in readers' : job'[u].pc \in {"insert", "reread", "calling"}
    BY <1>0, <1>4, <1>5 DEF QueueInv, PluginType
  <1>8. QueueInv'
    BY <1>3, <1>6, <1>7 DEF QueueInv
  <1>9. PluginType'
    <2>1. /\ readers' \subseteq Everyone /\ spoiled' \in BOOLEAN
          /\ wasm' \in [PluginFiles -> Nat]
          /\ installed' \subseteq PluginFiles /\ loaded' \in Seq(Module)
          /\ known' \subseteq PluginFiles
      BY <1>0, <1>4 DEF PluginType
    <2>2. \A u \in Everyone :
            /\ job'[u].pc \in {"take", "calling"} => job'[u].todo # <<>>
            /\ job'[u].pc \in {"insert", "enrich", "position", "swap", "build", "push"}
                 => job'[u].file \in PluginFiles
      BY <1>0, <1>2, <1>5 DEF PluginType
    <2> QED
      BY <1>3, <1>5, <2>1, <2>2 DEF PluginType, Request
  <1>10. LoadInv'
    <2>1. CASE spoiled'
      BY <2>1 DEF LoadInv
    <2>2. CASE ~spoiled'
      <3>1. /\ job[t].pc \notin Plugins!Changing /\ r.pc \notin Plugins!Changing
            /\ spoiled' = spoiled
        BY <1>0, <1>2, <1>4, <2>2 DEF Plugins!Changing, PluginType
      <3> QED
        BY <1>0, <1>2, <1>4, <3>1, OtherStep
    <2> QED
      BY <2>1, <2>2
  <1> QED
    BY <1>8, <1>9, <1>10 DEF PluginInv

\* A step of something else.
LEMMA PluginStutter ==
  ASSUME PluginInv, UNCHANGED pluginVars
  PROVE  PluginInv'
  <1>1. /\ wasm' = wasm /\ installed' = installed /\ loaded' = loaded /\ readers' = readers
        /\ queue' = queue /\ job' = job /\ known' = known /\ spoiled' = spoiled
    BY DEF pluginVars
  <1>2. PluginType'
    BY <1>1 DEF PluginInv, PluginType
  <1>3. QueueInv'
    BY <1>1 DEF PluginInv, QueueInv
  <1>4. LoadInv'
    <2>1. \A t \in Everyone : PhaseInv(t)' <=> PhaseInv(t)
      BY <1>1 DEF PhaseInv
    <2>2. Plugins!Quiet' <=> Plugins!Quiet
      BY <1>1 DEF Plugins!Quiet
    <2> QED
      BY <1>1, <2>1, <2>2 DEF PluginInv, LoadInv
  <1> QED
    BY <1>2, <1>3, <1>4 DEF PluginInv

\* Every step of the tasks preserves the invariant.
LEMMA PluginStep ==
  ASSUME PluginInv, Plugins!Next
  PROVE  PluginInv'
  <1>1. PICK t \in Everyone :
          \/ Plugins!ReloadPlugins(t) \/ Plugins!Install(t)
          \/ \E f \in PluginFiles :
               \/ Plugins!UploadRepo(t, f) \/ Plugins!Upload(t, f) \/ Plugins!RemovePlugin(t, f)
               \/ Plugins!RemoveWasm(t, f) \/ Plugins!AddPlugin(t, f)
               \/ Plugins!ReloadPlugin(t, f) \/ Plugins!RefreshRepo(t, f)
          \/ Plugins!List(t) \/ Plugins!Clear(t) \/ Plugins!AppendAll(t)
          \/ Plugins!Enrich(t) \/ Plugins!Position(t) \/ Plugins!SwapRemove(t) \/ Plugins!Build(t)
          \/ Plugins!Push(t) \/ Plugins!EnrichUpdated(t)
          \/ Plugins!Find(t) \/ Plugins!Insert(t) \/ Plugins!Reread(t)
          \/ \E k \in Plugins!Calls : Plugins!Call(t, k)
          \/ Plugins!Take(t) \/ Plugins!Return(t) \/ Plugins!Gather(t) \/ Plugins!HangUp(t)
    BY Zenon DEF Plugins!Next, Plugins!All, Everyone
  <1> QED
    BY <1>1, UploadStep, RequestStep, InstallStep, ListStep, ClearStep, AppendAllStep,
       EnrichStep, PositionStep, SwapRemoveStep, BuildStep, PushStep, EnrichUpdatedStep,
       FindStep, InsertStep, RereadStep, CallStep, TakeStep, ReturnStep, GatherStep, HangUpStep

\* The server starts with no module loaded.
LEMMA PluginInit ==
  ASSUME Plugins!Init
  PROVE  PluginInv
  <1>1. /\ wasm \in [PluginFiles -> {0, 1}] /\ installed = {f \in PluginFiles : wasm[f] = 1}
        /\ loaded = <<>> /\ known = {} /\ readers = {} /\ queue = <<>> /\ spoiled = FALSE
        /\ job = [t \in Everyone |-> IF t = Startup THEN [Plugins!Start EXCEPT !.pc = "list"]
                                     ELSE Plugins!Start]
    BY DEF Plugins!Init, Plugins!All, Everyone
  <1>2. /\ Plugins!Start \in PluginJob /\ [Plugins!Start EXCEPT !.pc = "list"] \in PluginJob
        /\ Plugins!Start.pc = "idle" /\ [Plugins!Start EXCEPT !.pc = "list"].pc = "list"
    BY StartFacts DEF Pcs
  <1>3. \A t \in Everyone : job[t].pc \in {"idle", "list"} /\ (job[t].pc = "list" => t = Startup)
    BY <1>1, <1>2
  <1>4. PluginType
    <2>1. job \in [Everyone -> PluginJob]
      BY <1>1, <1>2
    <2>2. /\ wasm \in [PluginFiles -> Nat] /\ installed \subseteq PluginFiles
          /\ loaded \in Seq(Module) /\ readers \subseteq Everyone
          /\ queue \in Seq([task : Everyone, mode : {"read", "write"}])
          /\ known \subseteq PluginFiles /\ spoiled \in BOOLEAN
      <3>1. wasm \in [PluginFiles -> Nat] /\ installed \subseteq PluginFiles
        BY <1>1
      <3>2. loaded \in Seq(Module) /\ queue \in Seq([task : Everyone, mode : {"read", "write"}])
        BY <1>1
      <3> QED
        BY <1>1, <3>1, <3>2
    <2> QED
      BY <1>3, <2>1, <2>2 DEF PluginType
  <1>5. QueueInv
    BY <1>1 DEF QueueInv
  <1>6. Lists(wasm, loaded, known, {})
    BY <1>1 DEF Lists
  <1>7. LoadInv
    BY <1>1, <1>3, <1>6 DEF LoadInv, PhaseInv, Plugins!Changing
  <1> QED
    BY <1>4, <1>5, <1>7 DEF PluginInv

\* What the invariant says of the modules and of the lock.
LEMMA PluginProperties ==
  ASSUME PluginInv
  PROVE  Plugins!LoadedAsOnDisk /\ Plugins!HoldersWaitOnlyToReread
  <1>1. Plugins!LoadedAsOnDisk
    <2> SUFFICES ASSUME Plugins!Quiet, ~spoiled, NEW f \in known
                 PROVE  \E i \in DOMAIN loaded :
                          /\ loaded[i] = [file |-> f, version |-> wasm[f]]
                          /\ \A j \in DOMAIN loaded : loaded[j].file = f => j = i
      BY DEF Plugins!LoadedAsOnDisk
    <2>1. Lists(wasm, loaded, known, {})
      BY DEF PluginInv, LoadInv
    <2>2. PICK i \in DOMAIN loaded : loaded[i].file = f
      BY <2>1 DEF Lists
    <2>3. loaded[i] \in Module
      BY DEF PluginInv, PluginType
    <2>4. loaded[i].version = wasm[f]
      BY <2>1, <2>2 DEF Lists
    <2>5. loaded[i] = [file |-> f, version |-> wasm[f]]
      BY <2>2, <2>3, <2>4 DEF Module
    <2> QED
      BY <2>1, <2>2, <2>5 DEF Lists
  <1>2. Plugins!HoldersWaitOnlyToReread
    BY DEF PluginInv, QueueInv, Waiting, Plugins!HoldersWaitOnlyToReread
  <1> QED
    BY <1>1, <1>2

\* The invariant, in the behaviours that are of the plugins.
PluginsInv == subject = "plugins" => PluginInv

\* The invariant holds throughout: for any tasks, files and versions.
THEOREM PluginsSound == MCSpec => []PluginsInv
  <1>1. MCInit => PluginsInv
    BY PluginInit DEF MCInit, PluginsInv
  <1>2. PluginsInv /\ [MCNext]_<<subject, vars, formatVars, fileVars, imageVars, pluginVars,
                          viewVars, copyVars>> => PluginsInv'
    <2> SUFFICES ASSUME PluginsInv, subject' = "plugins",
                        [MCNext]_<<subject, vars, formatVars, fileVars, imageVars, pluginVars,
                                   viewVars, copyVars>>
                 PROVE  PluginInv'
      BY DEF PluginsInv
    <2>1. CASE MCNext
      BY <2>1, PluginStep DEF MCNext, PluginsInv
    <2>2. CASE UNCHANGED <<subject, vars, formatVars, fileVars, imageVars, pluginVars, viewVars,
                copyVars>>
      BY <2>2, PluginStutter DEF PluginsInv
    <2> QED
      BY <2>1, <2>2
  <1> QED
    BY <1>1, <1>2, PTL DEF MCSpec

\* When nobody is at work, each file that was there for all of it is loaded, and as it
\* is on the disk, unless two changed the plugins at once (LoadedAsOnDisk).
THEOREM LoadedCorrect == MCSpec => []LoadedAsOnDisk
  <1>1. PluginsInv => LoadedAsOnDisk
    BY PluginProperties DEF PluginsInv, LoadedAsOnDisk
  <1> QED
    BY <1>1, PluginsSound, PTL

\* Nobody who holds the lock waits for it, but a request that reads it again behind
\* a writer (HoldersWaitOnlyToReread).
THEOREM HoldersCorrect == MCSpec => []HoldersWaitOnlyToReread
  <1>1. PluginsInv => HoldersWaitOnlyToReread
    BY PluginProperties DEF PluginsInv, HoldersWaitOnlyToReread
  <1> QED
    BY <1>1, PluginsSound, PTL

-----------------------------------------------------------------------------
(* LibraryFiles.                                                           *)

\* The size of the nonce.
Nonce == 16

\* The states of LibraryFiles.
ByteType ==
  /\ bytes \in [size : Sizes, kind : Served!Kinds]
  /\ header \in BOOLEAN /\ sound \in BOOLEAN
  /\ kept \in Nat /\ cipher \in Nat /\ nonce \in 0..Nonce /\ sent \in Nat
  /\ asked \in Served!Ranges \cup {Absent}
  /\ bytesAt \in {"storing", "stored", "serving", "served", "failed"}
  /\ bytesAt \in {"serving", "served"} => reply.from \in Nat /\ reply.len \in Nat

\* What is stored of a file is its beginning, each byte in its place, and all of it
\* once it can be served.
TakenInv ==
  /\ kept <= bytes.size
  /\ header => bytes.kind = "password" /\ bytes.size > 0
  /\ ~header => kept = 0
  /\ bytesAt \in {"storing", "stored"} => sound /\ cipher = kept /\ sent = 0
  /\ bytes.kind = "password" /\ bytesAt \in {"stored", "serving", "served"} => kept = bytes.size

\* The range starts behind the end of the file.
Beyond == asked # Absent /\ Served!OrZero(asked.start) >= bytes.size

\* The cipher of the reader is where the byte is that is read next, unless the range
\* starts behind the end.
PlaceInv ==
  bytes.kind = "password" /\ bytesAt \in {"serving", "served"} =>
    /\ ~header => nonce = 0 /\ reply.len = 0
    /\ bytesAt = "served" => nonce = Nonce
    /\ asked # Absent => reply.from = Nonce + Served!OrZero(asked.start) \/ Beyond
    /\ \/ sound /\ IF nonce < Nonce THEN asked = Absent /\ cipher = 0 /\ sent = nonce /\ reply.from = 0
                   ELSE Nonce + cipher = reply.from + sent
       \/ Beyond

\* AsAnnounced, of a reply of n bytes.
Announced(n) ==
  \/ /\ reply.size = n - IF asked = Absent THEN Served!Start ELSE 0
     /\ reply.range # Absent /\ n > 0 =>
          /\ Served!First(reply.range) = reply.from
          /\ Served!Last(reply.range) = reply.from + n - 1
  \/ /\ asked # Absent /\ asked.end # Absent
     /\ \/ asked.end < Served!OrZero(asked.start)
        \/ asked.end >= bytes.size
        \/ Served!Start + asked.end > bytes.size - Served!OrZero(asked.start)

\* No more is sent than the reply is long, and it is announced as what it is.
ReplyInv ==
  /\ bytesAt \in {"serving", "served"} => sent <= reply.len
  /\ bytesAt = "served" => sent = reply.len
  /\ bytesAt \in {"serving", "served"} /\ (bytes.kind = "plain" \/ header) => Announced(reply.len)

\* The inductive invariant of LibraryFiles.
ByteInv == ByteType /\ TakenInv /\ PlaceInv /\ ReplyInv

\* What the provider returns for a range.
Reply(total, s, e) == Served!get_file(total, [start |-> s, end |-> e])

\* An unsigned integer that fits does not wrap around.
LEMMA U64Small == ASSUME BytesAssumption, NEW n \in Nat, n < Wrap PROVE Served!U64(n) = n
  BY DEF BytesAssumption, Served!U64

\* The size and the kind of the file.
LEMMA SizeOfBytes ==
  ASSUME BytesAssumption, ByteType
  PROVE  bytes.size \in Nat /\ bytes.size + 17 < Wrap /\ bytes.kind \in Served!Kinds
  BY DEF BytesAssumption, ByteType

\* The ends of a range.
LEMMA RangesOfBytes ==
  ASSUME BytesAssumption, NEW r \in Served!Ranges
  PROVE  /\ r # Absent
         /\ r.start \in Nat \cup {Absent} /\ r.end \in Nat \cup {Absent}
         /\ r.end # Absent => r.end + 17 < Wrap
         /\ Served!OrZero(r.start) \in Nat
         /\ r = [start |-> r.start, end |-> r.end]
  <1>1. r \in [start : Bounds \cup {Absent}, end : Bounds \cup {Absent}]
    BY DEF Served!Ranges
  <1>2. r.start \in Bounds \cup {Absent} /\ r.end \in Bounds \cup {Absent}
                                         /\ r = [start |-> r.start, end |-> r.end]
    BY <1>1
  <1>3. Bounds \cup {Absent} \subseteq Nat \cup {Absent}
    BY DEF BytesAssumption
  <1>4. r \in [start : Nat \cup {Absent}, end : Nat \cup {Absent}]
    BY <1>1, <1>3
  <1>5. r # Absent
    BY <1>4 DEF BytesAssumption
  <1>6. r.end # Absent => r.end + 17 < Wrap
    BY <1>2 DEF BytesAssumption
  <1> QED
    BY <1>2, <1>3, <1>5, <1>6 DEF Served!OrZero

\* The provider's reply starts where it was asked to, or at the start of the file, and
\* its sizes are those of its bytes, but for the ranges that AsAnnounced excepts.
LEMMA Replied ==
  ASSUME BytesAssumption, NEW total \in Nat, total < Wrap,
         NEW s \in Nat \cup {Absent}, NEW e \in Nat \cup {Absent},
         e # Absent => e + 1 < Wrap
  PROVE  /\ Reply(total, s, e).from = IF s # Absent /\ s < total THEN s ELSE 0
         /\ Reply(total, s, e).len \in Nat
         /\ total = 0 => e = 0 \/ Reply(total, s, e).len = 0
         /\ \/ /\ Reply(total, s, e).size = Reply(total, s, e).len
               /\ Reply(total, s, e).len > 0 =>
                    /\ Served!First(Reply(total, s, e).range) = Reply(total, s, e).from
                    /\ Served!Last(Reply(total, s, e).range) =
                         Reply(total, s, e).from + Reply(total, s, e).len - 1
            \/ /\ e # Absent
               /\ \/ e < Served!OrZero(s)
                  \/ e >= total
                  \/ e > total - Served!OrZero(s)
  <1> DEFINE rg    == [start |-> s, end |-> e]
             seeks == s # Absent /\ s < total
             from  == IF seeks THEN s ELSE 0
             left  == total - from
             takes == e # Absent /\ e <= left
             taken == Served!U64(e - Served!OrZero(s) + 1)
             len   == IF takes /\ taken < left THEN taken ELSE left
             sz    == IF takes THEN taken ELSE left
             rs    == IF seeks THEN from ELSE Absent
             re    == IF takes THEN e ELSE IF e = Absent THEN Served!U64(total - 1) ELSE Absent
             rz    == IF takes \/ e = Absent THEN total ELSE left
             o     == Served!OrZero(s)
  <1>1. rg.start = s /\ rg.end = e
    OBVIOUS
  <1>2. rg # Absent
    BY DEF BytesAssumption
  <1>3. Reply(total, s, e) =
          [from |-> from, len |-> len, size |-> sz, range |-> [start |-> rs, end |-> re, size |-> rz]]
    BY <1>1, <1>2 DEF Reply, Served!get_file
  <1>4. /\ Reply(total, s, e).from = from /\ Reply(total, s, e).len = len
        /\ Reply(total, s, e).size = sz
        /\ Reply(total, s, e).range.start = rs /\ Reply(total, s, e).range.end = re
        /\ Reply(total, s, e).range.size = rz
    BY <1>3
  <1>5. from \in Nat /\ from <= total /\ left \in Nat /\ left = total - from /\ o \in Nat
    BY DEF Served!OrZero
  <1>a. Absent \notin Nat
    BY DEF BytesAssumption
  <1>6. Served!First(Reply(total, s, e).range) = from
    BY <1>4, <1>5, <1>a DEF Served!First, Served!OrZero
  <1>7. Served!Last(Reply(total, s, e).range) = IF re # Absent THEN re ELSE Served!U64(rz - 1)
    BY <1>4 DEF Served!Last
  <1>8. takes /\ e >= o => taken = e - o + 1
    BY U64Small, <1>5
  <1>9. takes => taken \in Nat
    <2> SUFFICES ASSUME takes PROVE (e - o + 1) % Wrap \in Nat
      BY DEF Served!U64
    <2> HIDE DEF o, left
    <2>1. e \in Nat /\ o \in Nat
      BY <1>5, <1>a
    <2>2. Wrap \in Nat /\ Wrap > 0
      BY DEF BytesAssumption
    <2> QED
      BY <2>1, <2>2
  <1>10. len \in Nat
    BY <1>5, <1>9
  <1>12. ~ takes => len = left /\ sz = left
    OBVIOUS
  <1>11. total = 0 => e = 0 \/ len = 0
    <2>1. total = 0 => left = 0
      <3> HIDE DEF from
      <3> QED
        BY <1>5
    <2>2. total = 0 /\ takes => e = 0
      <3> HIDE DEF left
      <3> QED
        BY <2>1, <1>a
    <2> QED
      BY <2>1, <2>2, <1>12
  <1> HIDE DEF taken
  <1>13. takes => /\ e < o \/ e >= total \/ (taken <= left /\ from = o)
    <2> SUFFICES ASSUME takes, e >= o, e < total PROVE taken <= left /\ from = o
      BY <1>5, <1>a
    <2>1. taken = e - o + 1
      BY <1>8
    <2>2. from = o
      BY <1>a DEF Served!OrZero
    <2> QED
      BY <2>1, <2>2, <1>5
  <1>14. CASE takes /\ (e < o \/ e >= total)
    BY <1>14, <1>4, <1>5, <1>10, <1>11
  <1>15. CASE takes /\ taken <= left /\ from = o /\ e >= o
    <2>1. len = taken /\ sz = taken /\ re = e /\ taken = e - o + 1
      BY <1>15, <1>5, <1>8, <1>9
    <2>2. Served!Last(Reply(total, s, e).range) = from + len - 1
      BY <2>1, <1>7, <1>5, <1>15
    <2> QED
      BY <2>1, <2>2, <1>4, <1>6, <1>10, <1>11
  <1>16. CASE ~ takes /\ e = Absent
    <2>1. re = Served!U64(total - 1)
      BY <1>16
    <2>2. len > 0 => re = from + len - 1
      <3> SUFFICES ASSUME len > 0 PROVE re = from + len - 1
        OBVIOUS
      <3>1. total - 1 \in Nat /\ total - 1 < Wrap
        BY <1>5, <1>12, <1>16
      <3>2. re = total - 1
        BY <3>1, <2>1, U64Small DEF BytesAssumption
      <3> QED
        BY <3>2, <1>5, <1>12, <1>16
    <2>3. len > 0 => re # Absent
      BY <2>2, <1>5, <1>10, <1>a
    <2>4. len > 0 => Served!Last(Reply(total, s, e).range) = from + len - 1
      BY <2>2, <2>3, <1>7
    <2> QED
      BY <2>4, <1>4, <1>6, <1>10, <1>11, <1>12, <1>16
  <1>17. CASE ~ takes /\ e # Absent
    <2>1. e \in Nat /\ e > left
      BY <1>17, <1>5
    <2>2. e < o \/ e >= total \/ e > total - o
      BY <2>1, <1>5 DEF Served!OrZero
    <2> QED
      BY <2>2, <1>17, <1>4, <1>10, <1>11
  <1>18. takes => e \in Nat
    OBVIOUS
  <1> QED
    BY <1>13, <1>14, <1>15, <1>16, <1>17, <1>18, <1>5

\* What there is to be served.
LEMMA BytesOut ==
  ASSUME BytesAssumption, ByteType, bytes.kind # "crypted"
  PROVE  Served!StoredSize = IF bytes.kind = "plain" THEN bytes.size
                                ELSE IF header THEN 16 + bytes.size ELSE 0
  BY SizeOfBytes DEF Served!StoredSize, Served!Kinds, Served!CTR_NONCE_SIZE

\* The reply of library_file.
ServedFields(r) ==
  LET g == Served!get_file(Served!StoredSize, Served!Shifted(r))
  IN  CASE bytes.kind = "crypted" -> [g EXCEPT !.size = bytes.size, !.range = Absent]
        [] bytes.kind = "password" /\ r = Absent -> [g EXCEPT !.size = @ - Served!CTR_NONCE_SIZE]
        [] OTHER -> g

\* The reply for a range of a file that is not encrypted,
LEMMA AskPlain ==
  ASSUME BytesAssumption, ByteInv, NEW r \in Served!Ranges, bytes.kind = "plain"
  PROVE  LET g == ServedFields(r)
         IN  /\ g.from \in Nat /\ g.len \in Nat
             /\ \/ /\ g.size = g.len
                   /\ g.len > 0 => /\ Served!First(g.range) = g.from
                                   /\ Served!Last(g.range) = g.from + g.len - 1
                \/ /\ r.end # Absent
                   /\ \/ r.end < Served!OrZero(r.start)
                      \/ r.end >= bytes.size
                      \/ r.end > bytes.size - Served!OrZero(r.start)
  <1> DEFINE N == bytes.size
             s == r.start
             e == r.end
  <1>1. N \in Nat /\ N + 17 < Wrap
    BY SizeOfBytes DEF ByteInv
  <1>2. s \in Nat \cup {Absent} /\ e \in Nat \cup {Absent} /\ (e # Absent => e + 1 < Wrap)
    BY RangesOfBytes DEF BytesAssumption
  <1>3. Served!StoredSize = N
    BY BytesOut DEF ByteInv
  <1>4. Served!Shifted(r) = r
    BY DEF Served!Shifted
  <1>5. r = [start |-> s, end |-> e]
    BY RangesOfBytes
  <1>6. ServedFields(r) = Served!get_file(N, r)
    BY <1>3, <1>4 DEF ServedFields
  <1>7. ServedFields(r) = Reply(N, s, e)
    BY <1>5, <1>6 DEF Reply
  <1>8. N < Wrap
    BY <1>1 DEF BytesAssumption
  <1> HIDE DEF N, s, e
  <1>9. Reply(N, s, e).from \in Nat
    BY <1>1, <1>2, <1>8, Replied
  <1>10. /\ Reply(N, s, e).len \in Nat
         /\ \/ /\ Reply(N, s, e).size = Reply(N, s, e).len
               /\ Reply(N, s, e).len > 0 =>
                    /\ Served!First(Reply(N, s, e).range) = Reply(N, s, e).from
                    /\ Served!Last(Reply(N, s, e).range) = Reply(N, s, e).from + Reply(N, s, e).len - 1
            \/ /\ e # Absent
               /\ \/ e < Served!OrZero(s)
                  \/ e >= N
                  \/ e > N - Served!OrZero(s)
    BY <1>1, <1>2, <1>8, Replied, Zenon
  <1> QED
    BY <1>7, <1>9, <1>10, Zenon DEF N, s, e

\* of one that the server has encrypted,
LEMMA AskPassword ==
  ASSUME BytesAssumption, ByteInv, NEW r \in Served!Ranges, bytes.kind = "password",
         ~ header => bytes.size = 0
  PROVE  LET g == ServedFields(r)
             o == Served!OrZero(r.start)
         IN  /\ g.from \in Nat /\ g.len \in Nat
             /\ g.from = 16 + o \/ o >= bytes.size
             /\ ~ header => g.len = 0
             /\ header =>
                \/ /\ g.size = g.len
                   /\ g.len > 0 => /\ Served!First(g.range) = g.from
                                   /\ Served!Last(g.range) = g.from + g.len - 1
                \/ /\ r.end # Absent
                   /\ \/ r.end < o
                      \/ r.end >= bytes.size
                      \/ 16 + r.end > bytes.size - o
  <1> DEFINE N == bytes.size
             o == Served!OrZero(r.start)
             e == r.end
             s2 == 16 + o
             e2 == IF e = Absent THEN Absent ELSE e + 16
             total == IF header THEN 16 + N ELSE 0
  <1>1. N \in Nat /\ N + 17 < Wrap
    BY SizeOfBytes DEF ByteInv
  <1>2. o \in Nat /\ e \in Nat \cup {Absent} /\ (e # Absent => e + 17 < Wrap) /\ r # Absent /\ Absent \notin Nat
    BY RangesOfBytes DEF BytesAssumption
  <1>3. Served!StoredSize = total
    BY BytesOut DEF ByteInv
  <1>4. Served!Shifted(r) = [start |-> s2, end |-> e2]
    BY <1>2 DEF Served!Shifted, Served!CTR_NONCE_SIZE
  <1>5. ServedFields(r) = Served!get_file(Served!StoredSize, Served!Shifted(r))
    BY <1>2 DEF ServedFields
  <1>6. ServedFields(r) = Reply(total, s2, e2)
    BY <1>3, <1>4, <1>5 DEF Reply
  <1> HIDE DEF N, o, e
  <1>7. s2 \in Nat /\ e2 \in Nat \cup {Absent} /\ total \in Nat
    BY <1>1, <1>2
  <1>8. total < Wrap
    BY <1>1 DEF BytesAssumption
  <1>9. e2 # Absent => e2 + 1 < Wrap
    BY <1>2
  <1>10. s2 # Absent /\ Served!OrZero(s2) = s2
    BY <1>2, <1>7 DEF Served!OrZero
  <1> DEFINE g == Reply(total, s2, e2)
  <1> HIDE DEF s2, e2, total
  <1>11. /\ g.from = IF s2 < total THEN s2 ELSE 0
         /\ g.len \in Nat
         /\ total = 0 => e2 = 0 \/ g.len = 0
         /\ \/ /\ g.size = g.len
               /\ g.len > 0 => /\ Served!First(g.range) = g.from
                               /\ Served!Last(g.range) = g.from + g.len - 1
            \/ /\ e2 # Absent
               /\ e2 < s2 \/ e2 >= total \/ e2 > total - s2
    <2> HIDE DEF g
    <2>1. /\ g.from = IF s2 # Absent /\ s2 < total THEN s2 ELSE 0
          /\ g.len \in Nat
          /\ total = 0 => e2 = 0 \/ g.len = 0
          /\ \/ /\ g.size = g.len
                /\ g.len > 0 => /\ Served!First(g.range) = g.from
                                /\ Served!Last(g.range) = g.from + g.len - 1
             \/ /\ e2 # Absent
                /\ \/ e2 < Served!OrZero(s2)
                   \/ e2 >= total
                   \/ e2 > total - Served!OrZero(s2)
      BY <1>7, <1>8, <1>9, Replied, Zenon DEF g
    <2> QED
      BY <2>1, <1>10
  <1> HIDE DEF g
  <1>12. g.from \in Nat
    BY <1>7, <1>11 DEF s2
  <1>13. g.from = 16 + o \/ o >= N
    BY <1>1, <1>2, <1>11 DEF N, s2, total
  <1>14. ~ header => g.len = 0
    BY <1>2, <1>11 DEF e2, total
  <1>15. header =>
           \/ /\ g.size = g.len
              /\ g.len > 0 => /\ Served!First(g.range) = g.from
                              /\ Served!Last(g.range) = g.from + g.len - 1
           \/ /\ e # Absent
              /\ e < o \/ e >= N \/ 16 + e > N - o
    BY <1>1, <1>2, <1>11 DEF s2, e2, total
  <1> QED
    BY <1>6, <1>11, <1>12, <1>13, <1>14, <1>15 DEF g, N, o, e, s2, e2, total

\* for a whole file,
LEMMA AskWhole ==
  ASSUME BytesAssumption, ByteInv, bytes.kind # "crypted"
  PROVE  LET g == ServedFields(Absent)
         IN  /\ g.from = 0 /\ g.len = Served!StoredSize /\ g.len \in Nat
             /\ g.size = g.len - Served!Start /\ g.range = Absent
  <1> DEFINE total == Served!StoredSize
  <1>1. total \in Nat
    BY BytesOut, SizeOfBytes DEF ByteInv
  <1>2. Served!Shifted(Absent) = Absent
    BY DEF Served!Shifted
  <1> HIDE DEF total
  <1>3. Served!get_file(total, Absent) = [from |-> 0, len |-> total, size |-> total, range |-> Absent]
    BY DEF Served!get_file
  <1>4. CASE bytes.kind = "password"
    <2>1. ServedFields(Absent) = [Served!get_file(total, Absent) EXCEPT !.size = @ - 16]
      BY <1>2, <1>4 DEF ServedFields, total, Served!CTR_NONCE_SIZE
    <2> QED
      BY <2>1, <1>1, <1>3, <1>4 DEF Served!Start, total, Served!CTR_NONCE_SIZE
  <1>5. CASE bytes.kind # "password"
    <2>1. ServedFields(Absent) = Served!get_file(total, Absent)
      BY <1>2, <1>5 DEF ServedFields, total
    <2> QED
      BY <2>1, <1>1, <1>3, <1>5 DEF Served!Start, total
  <1> QED
    BY <1>4, <1>5

\* and for one that a client has encrypted.
LEMMA AskCrypted ==
  ASSUME BytesAssumption, ByteInv, bytes.kind = "crypted", NEW r
  PROVE  ServedFields(r).from \in Nat /\ ServedFields(r).len \in Nat
  <1> DEFINE total == 312 + bytes.size
  <1>1. total \in Nat /\ 312 < total + 1
    BY SizeOfBytes DEF ByteInv
  <1>2. Served!StoredSize = total
    BY DEF Served!StoredSize, Served!CRYPTO_HEADER_SIZE
  <1>3. Served!Shifted(r) = [start |-> 312, end |-> Absent]
    BY DEF Served!Shifted, Served!CRYPTO_HEADER_SIZE
  <1>4. [start |-> 312, end |-> Absent] # Absent /\ 312 # Absent
    BY DEF BytesAssumption
  <1> DEFINE g == Served!get_file(total, [start |-> 312, end |-> Absent])
  <1> HIDE DEF total
  <1>5. /\ g.from = IF 312 < total THEN 312 ELSE 0
        /\ g.len = total - g.from
    BY <1>4 DEF Served!get_file
  <1>6. g \in [from : {g.from}, len : {g.len}, size : {g.size}, range : {g.range}]
    BY <1>4 DEF Served!get_file
  <1> HIDE DEF g
  <1>7. ServedFields(r) = [g EXCEPT !.size = bytes.size, !.range = Absent]
    BY <1>2, <1>3 DEF ServedFields, g
  <1>8. ServedFields(r).from = g.from /\ ServedFields(r).len = g.len
    BY <1>6, <1>7
  <1> QED
    BY <1>1, <1>5, <1>8

\* A piece is some of what is left.
LEMMA PiecesOfBytes ==
  ASSUME BytesAssumption, NEW left \in Nat, NEW n \in Served!Piece(left)
  PROVE  n \in Nat /\ 0 < n /\ n <= left
  BY DEF BytesAssumption, Served!Piece

\* Storing a file preserves the invariant,
LEMMA BytesStoring ==
  ASSUME BytesAssumption, ByteInv,
         \/ Served!poll_write_header
         \/ \E len \in Served!Piece(bytes.size - kept) :
              \E n \in {0} \cup Served!Piece(len) : Served!poll_write(len, n)
         \/ Served!Store
  PROVE  ByteInv'
  <1>0. ByteType /\ TakenInv /\ PlaceInv /\ ReplyInv
    BY DEF ByteInv
  <1>s. bytes.size \in Nat /\ kept \in Nat /\ kept <= bytes.size
    BY <1>0, SizeOfBytes DEF ByteType, TakenInv
  <1>1. CASE Served!poll_write_header
    <2>1. /\ bytesAt = "storing" /\ bytes.kind = "password" /\ ~ header /\ bytes.size > 0
          /\ (header' = TRUE /\ bytesAt' = bytesAt) \/ (bytesAt' = "failed" /\ header' = header)
      BY <1>1 DEF Served!poll_write_header
    <2>2. UNCHANGED <<bytes, kept, cipher, sound, asked, reply, nonce, sent>>
      BY <1>1 DEF Served!poll_write_header
    <2>3. ByteType'
      BY <1>0, <2>1, <2>2 DEF ByteType
    <2>4. TakenInv'
      BY <1>0, <2>1, <2>2 DEF TakenInv
    <2>5. bytesAt' \notin {"serving", "served"}
      BY <2>1
    <2> QED
      BY <2>3, <2>4, <2>5 DEF ByteInv, PlaceInv, ReplyInv
  <1>2. ASSUME NEW len \in Served!Piece(bytes.size - kept), NEW n \in {0} \cup Served!Piece(len),
               Served!poll_write(len, n)
        PROVE  ByteInv'
    <2>1. bytes.size - kept \in Nat
      BY <1>s
    <2>2. len \in Nat /\ len <= bytes.size - kept
      BY <2>1, PiecesOfBytes
    <2>3. n \in Nat /\ n <= len
      BY <2>2, PiecesOfBytes
    <2>4. /\ bytesAt = "storing" /\ bytes.kind = "password" /\ header
          /\ kept' = kept + n
          /\ cipher' = IF n < len THEN kept + n ELSE cipher + len
          /\ sound' = (sound /\ (n > 0 => cipher = kept))
      BY <1>2 DEF Served!poll_write
    <2>5. UNCHANGED <<bytes, bytesAt, header, asked, reply, nonce, sent>>
      BY <1>2 DEF Served!poll_write
    <2>6. cipher = kept /\ sound
      BY <1>0, <2>4 DEF TakenInv
    <2>7. cipher' = kept + n
      BY <1>s, <2>2, <2>3, <2>4, <2>6
    <2>8. sound'
      BY <2>4, <2>6, Zenon
    <2>9. kept' \in Nat /\ kept' <= bytes.size /\ cipher' = kept'
      BY <1>s, <2>2, <2>3, <2>4, <2>7
    <2>10. ByteType'
      BY <1>0, <2>5, <2>8, <2>9 DEF ByteType
    <2>11. TakenInv'
      BY <1>0, <2>4, <2>5, <2>8, <2>9 DEF TakenInv
    <2> QED
      BY <2>4, <2>5, <2>10, <2>11 DEF ByteInv, PlaceInv, ReplyInv
  <1>3. CASE Served!Store
    <2>1. bytesAt = "storing" /\ (bytes.kind = "password" => kept = bytes.size) /\ bytesAt' = "stored"
      BY <1>3 DEF Served!Store
    <2>2. UNCHANGED <<bytes, header, kept, cipher, sound, asked, reply, nonce, sent>>
      BY <1>3 DEF Served!Store
    <2>3. ByteType'
      BY <1>0, <2>1, <2>2 DEF ByteType
    <2>4. TakenInv'
      BY <1>0, <2>1, <2>2 DEF TakenInv
    <2> QED
      BY <2>1, <2>3, <2>4 DEF ByteInv, PlaceInv, ReplyInv
  <1> QED
    BY <1>1, <1>2, <1>3

\* so does asking for it,
LEMMA BytesAsked ==
  ASSUME BytesAssumption, ByteInv, NEW r \in Served!Ranges \cup {Absent}, Served!library_file(r)
  PROVE  ByteInv'
  <1>0. ByteType /\ TakenInv /\ PlaceInv /\ ReplyInv
    BY DEF ByteInv
  <1>s. bytes.size \in Nat /\ bytes.kind \in Served!Kinds
    BY <1>0, SizeOfBytes
  <1>1. /\ bytesAt = "stored" /\ bytesAt' = "serving" /\ asked' = r
        /\ nonce' = IF r # Absent /\ header THEN 16 ELSE 0
        /\ cipher' = IF r # Absent THEN Served!OrZero(r.start) ELSE 0
    BY DEF Served!library_file, Served!CTR_NONCE_SIZE
  <1>2. reply' = ServedFields(r)
    BY DEF Served!library_file, ServedFields
  <1>3. UNCHANGED <<bytes, header, kept, sound, sent>>
    BY DEF Served!library_file
  <1>4. cipher' \in Nat /\ nonce' \in 0..16
    <2>1. r # Absent => Served!OrZero(r.start) \in Nat
      BY RangesOfBytes
    <2> QED
      BY <1>1, <2>1
  <1>5. sound /\ sent = 0 /\ (bytes.kind = "password" => kept = bytes.size)
    BY <1>0, <1>1 DEF TakenInv
  <1>6. ~ header /\ bytes.kind = "password" => bytes.size = 0
    BY <1>0, <1>5 DEF TakenInv
  <1>7. TakenInv'
    BY <1>0, <1>1, <1>3, <1>5 DEF TakenInv
  <1>8. reply'.from \in Nat /\ reply'.len \in Nat => ByteType' /\ sent' <= reply'.len
    <2> SUFFICES ASSUME reply'.from \in Nat, reply'.len \in Nat PROVE ByteType' /\ sent' <= reply'.len
      OBVIOUS
    <2>1. ByteType'
      BY <1>0, <1>1, <1>3, <1>4 DEF ByteType, Nonce
    <2> QED
      BY <2>1, <1>3, <1>5
  <1>9. CASE bytes.kind = "crypted"
    <2>1. reply'.from \in Nat /\ reply'.len \in Nat
      BY <1>2, <1>9, AskCrypted
    <2>2. ~ header
      BY <1>0, <1>9 DEF TakenInv
    <2>3. PlaceInv' /\ ReplyInv'
      BY <1>1, <1>3, <1>8, <1>9, <2>1, <2>2 DEF PlaceInv, ReplyInv
    <2> QED
      BY <1>7, <1>8, <2>1, <2>3 DEF ByteInv
  <1>10. CASE bytes.kind # "crypted" /\ r = Absent
    <2>1. /\ reply'.from = 0 /\ reply'.len = Served!StoredSize /\ reply'.len \in Nat
          /\ reply'.size = reply'.len - Served!Start /\ reply'.range = Absent
      BY <1>2, <1>10, AskWhole
    <2>2. Served!Start' = Served!Start
      BY <1>3 DEF Served!Start
    <2>3. asked' = Absent
      BY <1>1, <1>10
    <2>4. Announced(reply.len)'
      BY <2>1, <2>2, <2>3 DEF Announced
    <2>5. ReplyInv'
      BY <1>1, <1>8, <2>1, <2>4 DEF ReplyInv
    <2>6. ~ header /\ bytes.kind = "password" => reply'.len = 0
      BY <2>1, <1>0, <1>10, BytesOut
    <2>7. PlaceInv'
      BY <1>1, <1>3, <1>5, <1>10, <2>1, <2>6 DEF PlaceInv, Nonce
    <2> QED
      BY <1>7, <1>8, <2>1, <2>5, <2>7 DEF ByteInv
  <1>11. CASE bytes.kind = "plain" /\ r # Absent
    <2>1. /\ reply'.from \in Nat /\ reply'.len \in Nat
          /\ \/ /\ reply'.size = reply'.len
                /\ reply'.len > 0 => /\ Served!First(reply'.range) = reply'.from
                                     /\ Served!Last(reply'.range) = reply'.from + reply'.len - 1
             \/ /\ r.end # Absent
                /\ \/ r.end < Served!OrZero(r.start)
                   \/ r.end >= bytes.size
                   \/ r.end > bytes.size - Served!OrZero(r.start)
      BY <1>2, <1>11, AskPlain
    <2>2. /\ Served!Start' = 0 /\ asked' = r /\ bytes' = bytes
      BY <1>1, <1>3, <1>11 DEF Served!Start
    <2>3. r.end # Absent => 0 + r.end = r.end
      BY <1>11, RangesOfBytes
    <2>4. reply'.len - 0 = reply'.len
      BY <2>1
    <2>5. Announced(reply.len)'
      BY <2>1, <2>2, <2>3, <2>4, <1>11
        DEF Announced, Served!First, Served!Last, Served!OrZero, Served!U64
    <2>6. ReplyInv'
      BY <1>1, <1>8, <2>1, <2>5 DEF ReplyInv
    <2>7. PlaceInv'
      BY <1>3, <1>11 DEF PlaceInv
    <2> QED
      BY <1>7, <1>8, <2>1, <2>6, <2>7 DEF ByteInv
  <1>12. CASE bytes.kind = "password" /\ r # Absent
    <2> DEFINE o == Served!OrZero(r.start)
    <2>1. /\ reply'.from \in Nat /\ reply'.len \in Nat
          /\ reply'.from = 16 + o \/ o >= bytes.size
          /\ ~ header => reply'.len = 0
          /\ header =>
             \/ /\ reply'.size = reply'.len
                /\ reply'.len > 0 => /\ Served!First(reply'.range) = reply'.from
                                     /\ Served!Last(reply'.range) = reply'.from + reply'.len - 1
             \/ /\ r.end # Absent
                /\ \/ r.end < o
                   \/ r.end >= bytes.size
                   \/ 16 + r.end > bytes.size - o
      BY <1>2, <1>6, <1>12, AskPassword
    <2>2. /\ Served!Start' = 16 /\ asked' = r /\ bytes' = bytes /\ header' = header
      BY <1>1, <1>3, <1>12 DEF Served!Start, Served!CTR_NONCE_SIZE
    <2>4. reply'.len - 0 = reply'.len
      BY <2>1
    <2>5. header => Announced(reply.len)'
      BY <2>1, <2>2, <2>4, <1>12
        DEF Announced, Served!First, Served!Last, Served!OrZero, Served!U64
    <2>6. ReplyInv'
      BY <1>1, <1>8, <1>12, <2>1, <2>2, <2>5 DEF ReplyInv
    <2>7. o \in Nat
      BY <1>12, RangesOfBytes
    <2>8. Beyond' <=> o >= bytes.size
      BY <2>2, <1>12 DEF Beyond, Served!OrZero
    <2>9. ~ header => Beyond'
      BY <1>6, <1>12, <2>7, <2>8
    <2>10. header => nonce' = 16 /\ cipher' = o
      BY <1>1, <1>12
    <2>11. ~ header => nonce' = 0
      BY <1>1
    <2>12. sound' /\ sent' = 0
      BY <1>3, <1>5
    <2>13. asked' # Absent => reply'.from = 16 + Served!OrZero(asked'.start) \/ Beyond'
      BY <2>1, <2>2, <2>8
    <2>14. header => 16 + cipher' = reply'.from + sent' \/ Beyond'
      BY <2>1, <2>7, <2>8, <2>10, <2>12
    <2> HIDE DEF o
    <2>15. PlaceInv'
      <3>1. /\ ~ header' => nonce' = 0 /\ reply'.len = 0
            /\ bytesAt' # "served"
        BY <1>1, <2>1, <2>2, <2>11
      <3>2. \/ sound' /\ ~ (nonce' < 16) /\ 16 + cipher' = reply'.from + sent'
            \/ Beyond'
        BY <2>2, <2>9, <2>10, <2>12, <2>14
      <3> QED
        BY <3>1, <3>2, <2>13 DEF PlaceInv, Nonce, Served!OrZero
    <2> QED
      BY <1>7, <1>8, <2>1, <2>6, <2>15 DEF ByteInv
  <1> QED
    BY <1>s, <1>9, <1>10, <1>11, <1>12 DEF Served!Kinds

\* and sending it.
LEMMA BytesServed ==
  ASSUME BytesAssumption, ByteInv,
         \/ /\ bytesAt = "serving"
            /\ \E n \in Served!Piece(reply.len - sent) : Served!poll_read_nonce(n) \/ Served!poll_read(n)
         \/ Served!into_response
  PROVE  ByteInv'
  <1>0. ByteType /\ TakenInv /\ PlaceInv /\ ReplyInv
    BY DEF ByteInv
  <1>1. ASSUME bytesAt = "serving", NEW n \in Served!Piece(reply.len - sent),
               Served!poll_read_nonce(n) \/ Served!poll_read(n)
        PROVE  ByteInv'
    <2>1. reply.len \in Nat /\ reply.from \in Nat /\ sent \in Nat /\ sent <= reply.len
      BY <1>0, <1>1 DEF ByteType, ReplyInv
    <2>2. reply.len - sent \in Nat
      BY <2>1
    <2>3. n \in Nat /\ 0 < n /\ sent + n <= reply.len
      BY <2>1, <2>2, PiecesOfBytes
    <2>4. UNCHANGED <<bytes, bytesAt, header, kept, asked, reply>> /\ sent' = sent + n
      BY <1>1 DEF Served!poll_read_nonce, Served!poll_read
    <2>5. TakenInv'
      BY <1>0, <1>1, <2>4 DEF TakenInv
    <2>6. ReplyInv'
      <3>1. Announced(reply.len)' <=> Announced(reply.len)
        BY <2>4
          DEF Announced, Served!Start, Served!First, Served!Last, Served!OrZero, Served!U64
      <3> QED
        BY <1>0, <1>1, <2>3, <2>4, <3>1 DEF ReplyInv
    <2>7. Beyond' <=> Beyond
      BY <2>4 DEF Beyond, Served!OrZero
    <2>8. bytes.kind = "password" =>
            \/ sound /\ IF nonce < 16 THEN asked = Absent /\ cipher = 0 /\ sent = nonce /\ reply.from = 0
                        ELSE 16 + cipher = reply.from + sent
            \/ Beyond
      BY <1>0, <1>1 DEF PlaceInv, Nonce
    <2>9. bytes.kind = "password" => header
      BY <1>0, <1>1, <2>1, <2>3 DEF PlaceInv
    <2>10. nonce \in 0..16 /\ cipher \in Nat /\ sound \in BOOLEAN
      BY <1>0 DEF ByteType, Nonce
    <2>11. CASE Served!poll_read_nonce(n)
      <3>1. /\ bytes.kind = "password" /\ nonce < 16 /\ n <= 16 - nonce
            /\ nonce' = nonce + n /\ cipher' = cipher /\ sound' = sound
        BY <2>11 DEF Served!poll_read_nonce, Served!CTR_NONCE_SIZE
      <3>2. nonce' \in 0..16 /\ sent' \in Nat
        BY <2>1, <2>3, <2>4, <2>10, <3>1
      <3>3. ByteType'
        BY <1>0, <2>4, <3>1, <3>2 DEF ByteType, Nonce
      <3>4. \/ sound' /\ IF nonce' < 16 THEN asked' = Absent /\ cipher' = 0 /\ sent' = nonce' /\ reply'.from = 0
                         ELSE 16 + cipher' = reply'.from + sent'
            \/ Beyond'
        <4>1. CASE Beyond
          BY <2>7, <4>1
        <4>2. CASE ~ Beyond
          <5>1. sound /\ asked = Absent /\ cipher = 0 /\ sent = nonce /\ reply.from = 0
            BY <2>8, <3>1, <4>2
          <5>2. sound' /\ asked' = Absent /\ cipher' = 0 /\ sent' = nonce' /\ reply'.from = 0
            BY <2>4, <3>1, <5>1
          <5>3. ~ (nonce' < 16) => 16 + 0 = 0 + nonce'
            BY <3>2
          <5> QED
            BY <5>2, <5>3
        <4> QED
          BY <4>1, <4>2
      <3>5. PlaceInv'
        <4>1. asked' # Absent => reply'.from = 16 + Served!OrZero(asked'.start) \/ Beyond'
          BY <1>0, <1>1, <2>4, <2>7, <3>1 DEF PlaceInv, Nonce
        <4> QED
          BY <1>1, <2>4, <2>9, <3>1, <3>4, <4>1 DEF PlaceInv, Nonce, Served!OrZero
      <3> QED
        BY <2>5, <2>6, <3>3, <3>5 DEF ByteInv
    <2>12. CASE Served!poll_read(n)
      <3>1. (bytes.kind = "password" => nonce = 16) /\ nonce' = nonce
        BY <2>12 DEF Served!poll_read, Served!CTR_NONCE_SIZE
      <3>2. IF bytes.kind = "password"
            THEN cipher' = cipher + n /\ sound' = (sound /\ 16 + cipher = reply.from + sent)
            ELSE cipher' = cipher /\ sound' = sound
        BY <2>12 DEF Served!poll_read, Served!CTR_NONCE_SIZE
      <3>3. cipher' \in Nat /\ sent' \in Nat
        BY <2>1, <2>3, <2>4, <2>10, <3>2
      <3>4. sound' \in BOOLEAN
        <4>1. CASE bytes.kind = "password"
          BY <3>2, <4>1, Zenon
        <4>2. CASE bytes.kind # "password"
          BY <3>2, <4>2, <2>10
        <4> QED
          BY <4>1, <4>2
      <3>5. ByteType'
        BY <1>0, <2>4, <3>1, <3>3, <3>4 DEF ByteType, Nonce
      <3>6. PlaceInv'
        <4> SUFFICES ASSUME bytes.kind = "password" PROVE PlaceInv'
          BY <2>4 DEF PlaceInv
        <4>1. asked' # Absent => reply'.from = 16 + Served!OrZero(asked'.start) \/ Beyond'
          BY <1>0, <1>1, <2>4, <2>7, <3>1 DEF PlaceInv, Nonce
        <4>2. ~ Beyond => sound /\ 16 + cipher = reply.from + sent
          BY <2>8, <3>1
        <4>3. ~ Beyond => sound'
          BY <3>2, <4>2, Zenon
        <4>4. ~ Beyond => 16 + cipher' = reply'.from + sent'
          <5>1. cipher' = cipher + n /\ sent' = sent + n /\ reply'.from = reply.from
            BY <2>4, <3>2
          <5> QED
            BY <5>1, <4>2, <2>1, <2>3, <2>10
        <4>5. ~ (nonce' < 16) /\ nonce' = 16
          BY <3>1
        <4> QED
          BY <1>1, <2>4, <2>7, <2>9, <4>1, <4>3, <4>4, <4>5 DEF PlaceInv, Nonce, Served!OrZero
      <3> QED
        BY <2>5, <2>6, <3>5, <3>6 DEF ByteInv
    <2> QED
      BY <1>1, <2>11, <2>12
  <1>2. CASE Served!into_response
    <2>1. /\ bytesAt = "serving" /\ sent = reply.len
          /\ bytesAt' = IF bytes.kind = "password" /\ nonce < 16 THEN "failed" ELSE "served"
      BY <1>2 DEF Served!into_response, Served!CTR_NONCE_SIZE
    <2>2. UNCHANGED <<bytes, header, kept, cipher, sound, asked, reply, nonce, sent>>
      BY <1>2 DEF Served!into_response
    <2>3. ByteType'
      BY <1>0, <2>1, <2>2 DEF ByteType
    <2>4. TakenInv'
      BY <1>0, <2>1, <2>2 DEF TakenInv
    <2>5. Beyond' <=> Beyond
      BY <2>2 DEF Beyond, Served!OrZero
    <2>6. PlaceInv'
      <3> SUFFICES ASSUME bytes.kind = "password", bytesAt' = "served" PROVE PlaceInv'
        BY <2>1, <2>2 DEF PlaceInv
      <3>1. nonce = 16
        BY <1>0, <2>1 DEF ByteType, Nonce
      <3> QED
        BY <1>0, <2>1, <2>2, <2>5, <3>1 DEF PlaceInv, Nonce, Served!OrZero
    <2>7. Announced(reply.len)' <=> Announced(reply.len)
      BY <2>2 DEF Announced, Served!Start, Served!First, Served!Last, Served!OrZero, Served!U64
    <2>8. ReplyInv'
      BY <1>0, <2>1, <2>2, <2>7 DEF ReplyInv
    <2> QED
      BY <2>3, <2>4, <2>6, <2>8 DEF ByteInv
  <1> QED
    BY <1>1, <1>2

\* Every step of LibraryFiles preserves the invariant.
LEMMA BytesStep ==
  ASSUME BytesAssumption, ByteInv, [Served!Next]_fileVars
  PROVE  ByteInv'
  <1>1. CASE UNCHANGED fileVars
    <2>1. UNCHANGED <<bytes, bytesAt, header, kept, cipher, sound, asked, reply, nonce, sent>>
      BY <1>1 DEF fileVars
    <2>2. ByteType' /\ TakenInv'
      BY <2>1 DEF ByteInv, ByteType, TakenInv
    <2>3. Beyond' <=> Beyond
      BY <2>1 DEF Beyond, Served!OrZero
    <2>4. PlaceInv'
      BY <2>1, <2>3 DEF ByteInv, PlaceInv, Served!OrZero
    <2>5. Announced(reply.len)' <=> Announced(reply.len)
      BY <2>1 DEF Announced, Served!Start, Served!First, Served!Last, Served!OrZero, Served!U64
    <2>6. ReplyInv'
      BY <2>1, <2>5 DEF ByteInv, ReplyInv
    <2> QED
      BY <2>2, <2>4, <2>6 DEF ByteInv
  <1>2. CASE Served!Next
    BY <1>2, BytesStoring, BytesAsked, BytesServed DEF Served!Next
  <1> QED
    BY <1>1, <1>2

\* Nothing is stored in the beginning.
LEMMA BytesInit == ASSUME BytesAssumption, Served!Init PROVE ByteInv
  <1>1. /\ bytes \in [size : Sizes, kind : Served!Kinds]
        /\ bytesAt = "storing" /\ header = FALSE /\ kept = 0 /\ cipher = 0 /\ sound = TRUE
        /\ asked = Absent /\ nonce = 0 /\ sent = 0
    BY DEF Served!Init
  <1>2. bytes.size \in Sizes /\ Sizes \subseteq Nat
    BY <1>1 DEF BytesAssumption
  <1>a. bytes.size \in Nat
    BY <1>2
  <1>3. 0 <= bytes.size /\ 0 \in 0..16
    BY <1>a
  <1>4. ByteType
    BY <1>1, <1>3 DEF ByteType, Nonce
  <1> QED
    BY <1>1, <1>3, <1>4 DEF ByteInv, TakenInv, PlaceInv, ReplyInv, Nonce

\* What the invariant says of a reply that was sent.
LEMMA BytesAnnounced == ASSUME BytesAssumption, ByteInv PROVE Served!ServedAsAnnounced
  <1>0. ByteType /\ TakenInv /\ PlaceInv /\ ReplyInv
    BY DEF ByteInv
  <1> SUFFICES ASSUME bytesAt = "served" PROVE Served!ServedDecrypted /\ Served!AsAnnounced
    BY DEF Served!ServedAsAnnounced, Served!ServedDecrypted, Served!AsAnnounced
  <1>1. Served!ServedDecrypted
    <2> SUFFICES ASSUME bytes.kind = "password" PROVE Served!ServedDecrypted
      BY DEF Served!ServedDecrypted
    <2>1. nonce = 16 /\ ~ (nonce < 16)
      BY <1>0 DEF PlaceInv, Nonce
    <2>2. (asked # Absent => reply.from = 16 + Served!OrZero(asked.start) \/ Beyond) /\ (sound \/ Beyond)
      BY <1>0, <2>1 DEF PlaceInv, Nonce
    <2> QED
      BY <2>2 DEF Served!ServedDecrypted, Beyond, Served!CTR_NONCE_SIZE
  <1>2. Served!AsAnnounced
    <2> SUFFICES ASSUME bytes.kind # "crypted" PROVE Served!AsAnnounced
      BY DEF Served!AsAnnounced
    <2>1. bytes.kind \in Served!Kinds
      BY <1>0, SizeOfBytes
    <2>2. bytes.kind = "plain" \/ header
      BY <1>0, <2>1 DEF PlaceInv, Nonce, Served!Kinds
    <2>3. Announced(reply.len) /\ sent = reply.len
      BY <1>0, <2>2 DEF ReplyInv
    <2> QED
      BY <2>3 DEF Announced, Served!AsAnnounced
  <1> QED
    BY <1>1, <1>2

\* The bytes that are served are those that were asked for, decrypted, and the reply
\* announces them as what they are, but for the ranges that the property names
\* (ServedAsAnnounced): for files, ranges and pieces of any size.
THEOREM AnnouncedCorrect == MCSpec => []ServedAsAnnounced
  <1> DEFINE Inv == subject = "bytes" => ByteInv
  <1>1. MCInit => Inv
    BY BytesInit, BytesAssumption DEF MCInit
  <1>2. Inv /\ [MCNext]_<<subject, vars, formatVars, fileVars, imageVars, pluginVars,
                          viewVars, copyVars>> => Inv'
    <2> SUFFICES ASSUME Inv, subject' = "bytes",
                        [MCNext]_<<subject, vars, formatVars, fileVars, imageVars, pluginVars,
                                   viewVars, copyVars>>
                 PROVE  ByteInv'
      OBVIOUS
    <2>1. subject = "bytes"
      BY DEF MCNext
    <2>2. [Served!Next]_fileVars
      BY <2>1 DEF MCNext
    <2> QED
      BY <2>1, <2>2, BytesStep, BytesAssumption
  <1>3. Inv => ServedAsAnnounced
    BY BytesAnnounced, BytesAssumption DEF ServedAsAnnounced
  <1> QED
    BY <1>1, <1>2, <1>3, PTL DEF MCSpec

-----------------------------------------------------------------------------
(* EncryptedFormat.                                                        *)

\* The states of EncryptedFormat.
FormatType ==
  /\ clear \in [body : BodySizes, thumb : ThumbSizes, infos : InfosSizes]
  /\ given \in Nat /\ buffer \in Nat /\ passed \in 0..7 /\ size \in Nat /\ out \in Nat
  /\ later \in BOOLEAN
  /\ formatAt \in {"uploading", "stored", "restoring", "restored", "failed", "panicked"}

\* What the file was told to take.
Whole == IF clear.body = 0 THEN 0 ELSE Format!estimated_encrypted_size

\* The header is written first; what is kept is the end of what was given.
UploadInv ==
  /\ formatAt = "uploading" =>
       /\ passed = 0 /\ ~ later /\ out = 0 /\ given <= clear.body
       /\ IF given = 0 THEN size = 0 /\ buffer = 0
          ELSE /\ buffer > 0 /\ buffer <= given
               /\ size = Format!HeaderSize + given - buffer
               /\ (given - buffer) % 16 = 0
  /\ formatAt = "stored" => given = 0 /\ buffer = 0 /\ passed = 0 /\ ~ later /\ out = 0
  /\ formatAt # "uploading" => size = Whole

\* What was given to the decrypter is the parts it has passed, the blocks that came
\* out, and what it keeps: less than the next part, or the last block.
RestoreInv ==
  formatAt = "restoring" =>
    /\ given <= size
    /\ passed = 0 => ~ later /\ buffer = given /\ given < 16
    /\ passed < 7 => out = 0
    /\ passed > 0 => given = Format!Ends[passed] + out + buffer
    /\ passed > 1 => later
    /\ later /\ passed < 7 => given < Format!Ends[passed + 1]
    /\ passed = 7 => out % 16 = 0 /\ buffer \in 16..31

\* The inductive invariant of EncryptedFormat.
FormatInv ==
  FormatType /\ UploadInv /\ RestoreInv /\ Format!RestoredWhole

\* The size of the header, and where its parts end.
Hdr == Format!HeaderSize
End(k) == Format!Ends[k]

\* Encryption makes a file a multiple of 16, and longer.
LEMMA Padded ==
  ASSUME NEW n \in Nat
  PROVE  /\ Format!Encrypted(n) \in Nat
         /\ n > 0 => Format!Encrypted(n) = ((n \div 16) + 1) * 16
  BY DEF Format!Encrypted, Format!ceil_to_multiple_of_16, Format!BlockSize

\* The sizes of the file.
LEMMA SizeOfFormat ==
  ASSUME FormatAssumption, FormatType
  PROVE  clear.body \in Nat /\ clear.thumb \in Nat /\ clear.infos \in Nat
  BY DEF FormatAssumption, FormatType

\* The parts of the header follow each other.
LEMMA EndsOf ==
  ASSUME FormatAssumption, FormatType
  PROVE  /\ Len(Format!Ends) = 7 /\ Hdr = End(7)
         /\ \A k \in 1..7 : End(k) \in Nat /\ End(k) >= 16 /\ End(k) <= Hdr
         /\ \A k \in 1..6 : End(k) <= End(k + 1)
         /\ End(1) = 16 /\ Hdr >= 312
  <1> DEFINE T == Format!Encrypted(clear.thumb)
             I == Format!Encrypted(clear.infos)
  <1>1. T \in Nat /\ I \in Nat
    BY SizeOfFormat, Padded
  <1> HIDE DEF T, I
  <1>2. Format!Ends = <<16, 20, 24, 56, 312, 312 + T, 312 + T + I>>
    <2>1. Format!Ends = <<16, 16 + 4, 16 + 4 + 4, 16 + 4 + 4 + 32, 16 + 4 + 4 + 32 + 256,
                          16 + 4 + 4 + 32 + 256 + T, 16 + 4 + 4 + 32 + 256 + T + I>>
      BY DEF Format!Ends, Format!FixedSize, Format!IvSize, T, I
    <2> QED
      BY <2>1, <1>1
  <1>3. Len(Format!Ends) = 7
    BY <1>2
  <1>4. /\ End(1) = 16 /\ End(2) = 20 /\ End(3) = 24 /\ End(4) = 56 /\ End(5) = 312
        /\ End(6) = 312 + T /\ End(7) = 312 + T + I
    BY <1>2 DEF End
  <1>5. Hdr = End(7)
    BY <1>3 DEF Hdr, End, Format!HeaderSize
  <1> HIDE DEF End
  <1>6. \A k \in 1..7 : k = 1 \/ k = 2 \/ k = 3 \/ k = 4 \/ k = 5 \/ k = 6 \/ k = 7
    OBVIOUS
  <1>7. \A k \in 1..7 : End(k) \in Nat /\ End(k) >= 16 /\ End(k) <= Hdr
    BY <1>1, <1>4, <1>5, <1>6
  <1>8. \A k \in 1..6 : End(k) <= End(k + 1)
    <2> SUFFICES ASSUME NEW k \in 1..6 PROVE End(k) <= End(k + 1)
      OBVIOUS
    <2>1. k + 1 \in 1..7
      OBVIOUS
    <2> QED
      BY <1>1, <1>4, <1>6, <2>1
  <1> QED
    BY <1>1, <1>3, <1>4, <1>5, <1>7, <1>8

\* A piece is some of what is left.
LEMMA PiecesOfFormat ==
  ASSUME FormatAssumption, NEW left \in Nat, NEW n \in Format!Piece(left)
  PROVE  n \in Nat /\ 0 < n /\ n <= left
  BY DEF FormatAssumption, Format!Piece

\* The size of an encrypted file is that of its header and of its blocks.
LEMMA WholeOf ==
  ASSUME FormatAssumption, FormatType
  PROVE  /\ Whole \in Nat
         /\ clear.body = 0 => Whole = 0
         /\ clear.body > 0 => Whole = Hdr + Format!Encrypted(clear.body)
  <1>1. Hdr \in Nat /\ Format!Encrypted(clear.body) \in Nat
    BY EndsOf, SizeOfFormat, Padded
  <1> QED
    BY <1>1, SizeOfFormat DEF Whole, Hdr, Format!estimated_encrypted_size

\* Everything but what is being written or read, and the sizes, is what it was.
LEMMA SameWhole ==
  ASSUME clear' = clear PROVE Whole' = Whole /\ Hdr' = Hdr /\ Format!Ends' = Format!Ends
  BY DEF Whole, Hdr, Format!estimated_encrypted_size, Format!HeaderSize, Format!Ends,
         Format!Encrypted, Format!ceil_to_multiple_of_16

\* Encrypting a file preserves the invariant,
LEMMA FormatWritten ==
  ASSUME FormatAssumption, FormatInv,
         \/ \E n \in Format!Piece(clear.body - given) : Format!write_encrypted(n)
         \/ Format!finalize_encrypted
         \/ Format!get_backup_file_reader
  PROVE  FormatInv'
  <1>0. FormatType /\ UploadInv /\ RestoreInv /\ Format!RestoredWhole
    BY DEF FormatInv
  <1>s. clear.body \in Nat /\ Hdr \in Nat /\ Hdr >= 312
    BY <1>0, SizeOfFormat, EndsOf
  <1>1. ASSUME NEW n \in Format!Piece(clear.body - given), Format!write_encrypted(n)
        PROVE  FormatInv'
    <2> DEFINE complete == (buffer + n) \div 16
               blocks   == IF complete = 0 THEN 0 ELSE complete - 1
    <2>1. /\ formatAt = "uploading" /\ given' = given + n
          /\ buffer' = buffer + n - blocks * 16
          /\ size' = (IF size = 0 THEN Hdr ELSE size) + blocks * 16
      BY <1>1 DEF Format!write_encrypted, Format!BlockSize, Hdr
    <2>2. UNCHANGED <<clear, formatAt, passed, later, out>>
      BY <1>1 DEF Format!write_encrypted
    <2>3. /\ passed = 0 /\ ~ later /\ out = 0 /\ given <= clear.body
          /\ IF given = 0 THEN size = 0 /\ buffer = 0
             ELSE buffer > 0 /\ buffer <= given /\ size = Hdr + given - buffer
                             /\ (given - buffer) % 16 = 0
      BY <1>0, <2>1 DEF UploadInv, Hdr
    <2>4. given \in Nat /\ buffer \in Nat /\ size \in Nat /\ clear.body - given \in Nat
      BY <1>0, <1>s, <2>3 DEF FormatType
    <2>5. n \in Nat /\ 0 < n /\ n <= clear.body - given
      BY <2>4, PiecesOfFormat
    <2>6. /\ complete \in Nat /\ blocks \in Nat /\ blocks * 16 < buffer + n
      BY <2>4, <2>5
    <2>7. PICK k \in Nat : given - buffer = 16 * k
      <3>1. CASE given = 0
        BY <2>3, <3>1
      <3>2. CASE given # 0
        <4>1. given - buffer \in Nat /\ (given - buffer) % 16 = 0
          BY <2>3, <2>4, <3>2
        <4>2. (given - buffer) \div 16 \in Nat /\ given - buffer = 16 * ((given - buffer) \div 16)
          BY <4>1
        <4> QED
          BY <4>2
      <3> QED
        BY <3>1, <3>2
    <2>8. size' = Hdr + (given - buffer) + blocks * 16
      BY <1>s, <2>1, <2>3, <2>4
    <2> HIDE DEF blocks, complete
    <2>9. /\ given' \in Nat /\ given' <= clear.body /\ given' > 0
          /\ buffer' \in Nat /\ buffer' > 0 /\ buffer' <= given'
      BY <2>1, <2>3, <2>4, <2>5, <2>6, <2>7, <1>s
    <2>10. given' - buffer' = 16 * (k + blocks)
      BY <2>1, <2>4, <2>5, <2>6, <2>7
    <2>11. (given' - buffer') % 16 = 0
      BY <2>6, <2>7, <2>10
    <2>12. size' = Hdr + given' - buffer' /\ size' \in Nat
      BY <1>s, <2>1, <2>4, <2>5, <2>6, <2>7, <2>8, <2>9
    <2>13. FormatType'
      BY <1>0, <2>2, <2>9, <2>12 DEF FormatType
    <2>14. UploadInv'
      <3>1. given' # 0
        BY <2>9
      <3> QED
        BY <2>1, <2>2, <2>3, <2>9, <2>11, <2>12, <3>1, SameWhole DEF UploadInv, Hdr
    <2> QED
      BY <2>1, <2>2, <2>13, <2>14 DEF FormatInv, RestoreInv, Format!RestoredWhole
  <1>2. CASE Format!finalize_encrypted
    <2>1. /\ formatAt = "uploading" /\ given = clear.body /\ formatAt' = "stored"
          /\ size' = size + Format!Encrypted(buffer) /\ buffer' = 0 /\ given' = 0
      BY <1>2 DEF Format!finalize_encrypted
    <2>2. UNCHANGED <<clear, passed, later, out>>
      BY <1>2 DEF Format!finalize_encrypted
    <2>3. /\ passed = 0 /\ ~ later /\ out = 0
          /\ IF given = 0 THEN size = 0 /\ buffer = 0
             ELSE buffer > 0 /\ buffer <= given /\ size = Hdr + given - buffer
                             /\ (given - buffer) % 16 = 0
      BY <1>0, <2>1 DEF UploadInv, Hdr
    <2>4. given \in Nat /\ buffer \in Nat /\ size \in Nat
      BY <1>0 DEF FormatType
    <2>5. size' = Whole
      <3>1. CASE given = 0
        <4>1. Format!Encrypted(0) = 0
          BY DEF Format!Encrypted
        <4> QED
          BY <1>0, <2>1, <2>3, <3>1, <4>1, WholeOf
      <3>2. CASE given # 0
        <4>1. Whole = Hdr + Format!Encrypted(given)
          BY <1>0, <2>1, <2>4, <3>2, WholeOf
        <4>2. /\ Format!Encrypted(given) = ((given \div 16) + 1) * 16
              /\ Format!Encrypted(buffer) = ((buffer \div 16) + 1) * 16
          BY <2>3, <2>4, <3>2, Padded
        <4>3. given - buffer + ((buffer \div 16) + 1) * 16 = ((given \div 16) + 1) * 16
          BY <2>3, <2>4, <3>2
        <4>4. buffer \div 16 \in Nat /\ given \div 16 \in Nat
          BY <2>4
        <4> QED
          BY <1>s, <2>1, <2>3, <2>4, <3>2, <4>1, <4>2, <4>3, <4>4
      <3> QED
        BY <3>1, <3>2
    <2>6. size' \in Nat /\ Whole' = Whole
      BY <1>0, <2>2, <2>5, WholeOf, SameWhole
    <2>7. FormatType'
      BY <1>0, <2>1, <2>2, <2>6 DEF FormatType
    <2>8. UploadInv'
      BY <2>1, <2>2, <2>3, <2>5, <2>6 DEF UploadInv
    <2>9. Format!RestoredWhole'
      BY <2>1, <2>5, <2>6 DEF Format!RestoredWhole, Whole
    <2> QED
      BY <2>1, <2>7, <2>8, <2>9 DEF FormatInv, RestoreInv
  <1>3. CASE Format!get_backup_file_reader
    <2>1. /\ formatAt = "stored" /\ formatAt' = "restoring"
          /\ UNCHANGED <<clear, given, buffer, passed, later, size, out>>
      BY <1>3 DEF Format!get_backup_file_reader
    <2>2. given = 0 /\ buffer = 0 /\ passed = 0 /\ ~ later /\ out = 0 /\ size = Whole
      BY <1>0, <2>1 DEF UploadInv
    <2>3. Whole' = Whole
      BY <2>1, SameWhole
    <2>4. FormatType' /\ UploadInv'
      BY <1>0, <2>1, <2>2, <2>3 DEF FormatType, UploadInv
    <2>5. size \in Nat
      BY <1>0 DEF FormatType
    <2>6. RestoreInv'
      BY <2>1, <2>2, <2>5 DEF RestoreInv
    <2>7. Format!RestoredWhole'
      BY <2>1, <2>2, <2>3 DEF Format!RestoredWhole, Whole
    <2> QED
      BY <2>4, <2>6, <2>7 DEF FormatInv
  <1> QED
    BY <1>1, <1>2, <1>3

\* so does decrypting a piece of it,
LEMMA FormatRead ==
  ASSUME FormatAssumption, FormatInv, formatAt = "restoring",
         \E n \in Format!Piece(size - given) : Format!write_decrypted(n)
  PROVE  FormatInv'
  <1>0. FormatType /\ UploadInv /\ RestoreInv /\ Format!RestoredWhole
    BY DEF FormatInv
  <1>1. PICK n \in Format!Piece(size - given) : Format!write_decrypted(n)
    OBVIOUS
  <1>2. /\ given' = given + n /\ UNCHANGED <<clear, size>>
        /\ Format!ReadIv(buffer + n) \/ Format!ReadParts(buffer + n)
    BY <1>1 DEF Format!write_decrypted
  <1>3. given \in Nat /\ buffer \in Nat /\ size \in Nat /\ out \in Nat /\ passed \in 0..7
                      /\ given <= size
    BY <1>0 DEF FormatType, RestoreInv
  <1>4. n \in Nat /\ 0 < n /\ given' <= size /\ given' \in Nat /\ given' > 0
    <2>1. size - given \in Nat
      BY <1>3
    <2>2. n \in Nat /\ 0 < n /\ n <= size - given
      BY <2>1, PiecesOfFormat
    <2> QED
      BY <2>2, <1>2, <1>3
  <1>5. Whole' = Whole /\ Hdr' = Hdr /\ Format!Ends' = Format!Ends
    BY <1>2, SameWhole
  <1>6. size = Whole
    BY <1>0 DEF UploadInv
  <1>8. formatAt' \in {"restoring", "panicked"} => UploadInv'
    BY <1>2, <1>5, <1>6 DEF UploadInv
  <1>9. formatAt' = "restoring" => Format!RestoredWhole'
    BY <1>2, <1>5, <1>6 DEF Format!RestoredWhole, Whole
  <1>e. /\ Len(Format!Ends) = 7 /\ Hdr = End(7)
        /\ \A k \in 1..7 : End(k) \in Nat /\ End(k) >= 16 /\ End(k) <= Hdr
        /\ End(1) = 16 /\ Hdr >= 312
    BY <1>0, EndsOf
  <1>f. \A k \in 1..7 : Format!Ends'[k] = End(k)
    BY <1>5 DEF End
  <1>10. CASE Format!ReadIv(buffer + n)
    <2>1. /\ passed = 0 /\ UNCHANGED <<formatAt, later, out>>
          /\ IF buffer + n < 16 THEN buffer' = buffer + n /\ passed' = 0
             ELSE buffer' = buffer + n - 16 /\ passed' = 1
      <3>0. PICK all : all = buffer + n
        OBVIOUS
      <3>1. Format!ReadIv(all)
        BY <1>10, <3>0
      <3>2. /\ passed = 0 /\ UNCHANGED <<formatAt, later, out>>
            /\ IF all < 16 THEN buffer' = all /\ passed' = 0 ELSE buffer' = all - 16 /\ passed' = 1
        BY <3>1 DEF Format!ReadIv, Format!IvSize
      <3> QED
        BY <1>3, <1>4, <3>0, <3>2
    <2>2. ~ later /\ buffer = given /\ out = 0
      BY <1>0, <2>1 DEF RestoreInv
    <2>3. buffer' \in Nat /\ passed' \in 0..1 /\ (passed' = 0 => buffer' = given' /\ given' < 16)
          /\ (passed' = 1 => given' = 16 + buffer')
      BY <1>2, <1>3, <1>4, <2>1, <2>2
    <2>4. FormatType'
      BY <1>0, <1>2, <1>4, <2>1, <2>3 DEF FormatType
    <2>5. RestoreInv'
      <3>1. CASE passed' = 0
        BY <1>2, <1>4, <2>1, <2>2, <2>3, <3>1 DEF RestoreInv
      <3>2. CASE passed' = 1
        <4>1. given' = Format!Ends'[passed'] + out' + buffer'
          BY <1>e, <1>f, <2>1, <2>2, <2>3, <3>2
        <4> QED
          BY <1>2, <1>4, <2>1, <2>2, <3>2, <4>1 DEF RestoreInv
      <3> QED
        BY <2>3, <3>1, <3>2
    <2> QED
      BY <1>8, <1>9, <2>1, <2>4, <2>5 DEF FormatInv
  <1>11. CASE Format!ReadParts(buffer + n)
    <2>1. passed > 0 /\ later' = TRUE
      BY <1>11 DEF Format!ReadParts
    <2>2. PICK k \in passed..7 :
            LET rest   == buffer + n - (End(k) - End(passed))
                blocks == (rest \div 16) - 1
            IN  /\ End(k) - End(passed) <= buffer + n
                /\ k < 7 => buffer + n < End(k + 1) - End(passed)
                /\ passed' = k
                /\ IF k < 7
                   THEN buffer' = rest /\ UNCHANGED <<formatAt, out>>
                   ELSE IF rest < 16
                   THEN buffer' = rest /\ formatAt' = "panicked" /\ UNCHANGED out
                   ELSE /\ buffer' = rest - blocks * 16
                        /\ out' = out + blocks * 16
                        /\ UNCHANGED formatAt
      <3>0. PICK all : all = buffer + n
        OBVIOUS
      <3>1. Format!ReadParts(all)
        BY <1>11, <3>0
      <3>2. PICK k \in passed..7 :
              /\ Format!Passing(k, all)
              /\ passed' = k
              /\ IF k < 7
                 THEN buffer' = all - Format!Taken(k) /\ UNCHANGED <<formatAt, out>>
                 ELSE IF all - Format!Taken(k) < 16
                 THEN buffer' = all - Format!Taken(k) /\ formatAt' = "panicked" /\ UNCHANGED out
                 ELSE /\ buffer' = all - Format!Taken(k) - (((all - Format!Taken(k)) \div 16) - 1) * 16
                      /\ out' = out + (((all - Format!Taken(k)) \div 16) - 1) * 16
                      /\ UNCHANGED formatAt
        BY <1>e, <3>1 DEF Format!ReadParts, Format!BlockSize
      <3>3. Format!Taken(k) = End(k) - End(passed) /\ Format!Taken(k + 1) = End(k + 1) - End(passed)
        BY DEF Format!Taken, End
      <3>4. Format!Taken(k) <= all /\ (k < 7 => all < Format!Taken(k + 1))
        BY <1>e, <3>2 DEF Format!Passing
      <3>5. /\ buffer \in Nat /\ n \in Nat /\ End(passed) \in Nat /\ End(k) \in Nat
            /\ k < 7 => End(k + 1) \in Nat
        BY <1>3, <1>4, <1>e, <2>1
      <3> QED
        BY <3>0, <3>2, <3>3, <3>4, <3>5
    <2> DEFINE rest   == buffer + n - (End(k) - End(passed))
               blocks == (rest \div 16) - 1
    <2>3. /\ passed \in 1..7 /\ k \in 1..7 /\ passed <= k
          /\ End(k) \in Nat /\ End(passed) \in Nat /\ End(k) <= Hdr
      BY <1>3, <1>e, <2>1
    <2>4. given = End(passed) + out + buffer
      BY <1>0, <2>1 DEF RestoreInv, End
    <2>5. passed < 7 => out = 0
      BY <1>0 DEF RestoreInv
    <2>6. rest \in Nat /\ given' = End(k) + out + rest
      BY <1>2, <1>3, <1>4, <2>2, <2>3, <2>4
    <2>7. passed' = k
      BY <2>2
    <2>8. passed = 7 => out % 16 = 0 /\ buffer \in 16..31
      BY <1>0 DEF RestoreInv
    <2> HIDE DEF rest
    <2>9. CASE k < 7
      <3>1. buffer' = rest /\ formatAt' = formatAt /\ out' = out
                           /\ buffer + n < End(k + 1) - End(passed)
        BY <2>2, <2>9 DEF rest
      <3>2. out = 0 /\ End(k + 1) \in Nat
        BY <1>e, <2>3, <2>5, <2>9
      <3>3. given' < End(k + 1)
        BY <1>2, <1>3, <1>4, <2>3, <2>4, <3>1, <3>2
      <3>4. FormatType'
        BY <1>0, <1>2, <1>4, <2>1, <2>3, <2>6, <2>7, <3>1 DEF FormatType
      <3>5. RestoreInv'
        <4>1. Format!Ends'[passed'] = End(k) /\ Format!Ends'[passed' + 1] = End(k + 1)
          BY <1>f, <2>3, <2>7, <2>9
        <4>2. passed' > 0 /\ passed' # 7 /\ passed' # 0
          BY <2>3, <2>7, <2>9
        <4> QED
          BY <1>2, <1>4, <2>1, <2>6, <3>1, <3>2, <3>3, <4>1, <4>2 DEF RestoreInv
      <3> QED
        BY <1>8, <1>9, <3>1, <3>4, <3>5 DEF FormatInv
    <2>10. CASE k = 7 /\ rest < 16
      <3>1. buffer' = rest /\ formatAt' = "panicked" /\ out' = out
        BY <2>2, <2>10 DEF rest
      <3>2. passed < 7
        <4> SUFFICES ASSUME passed = 7 PROVE FALSE
          BY <2>3
        <4>1. rest = buffer + n
          BY <2>3, <2>10, <1>3, <1>4 DEF rest
        <4> QED
          BY <4>1, <2>8, <2>10, <1>4
      <3>3. given' = Hdr + rest
        BY <2>5, <2>6, <2>10, <3>2, <1>e
      <3>4. given' \in Hdr..(Hdr + 15)
        BY <2>6, <2>10, <3>3, <1>e
      <3>5. FormatType'
        BY <1>0, <1>2, <1>4, <2>1, <2>3, <2>6, <2>7, <3>1 DEF FormatType
      <3>6. Hdr + 16 - 1 = Hdr + 15
        BY <1>e
      <3>7. Format!RestoredWhole'
        BY <1>2, <1>5, <1>6, <2>1, <3>1, <3>4, <3>6
          DEF Format!RestoredWhole, Whole, Hdr, Format!BlockSize
      <3>8. RestoreInv'
        BY <3>1 DEF RestoreInv
      <3> QED
        BY <1>8, <3>1, <3>5, <3>7, <3>8 DEF FormatInv
    <2>11. CASE k = 7 /\ ~ (rest < 16)
      <3>1. buffer' = rest - blocks * 16 /\ out' = out + blocks * 16 /\ formatAt' = formatAt
        BY <2>2, <2>11 DEF rest
      <3>2. blocks \in Nat /\ rest - blocks * 16 \in 16..31
        BY <2>6, <2>11
      <3>3. out % 16 = 0
        BY <1>3, <2>3, <2>5, <2>8
      <3> HIDE DEF blocks
      <3>4. out' \in Nat /\ out' % 16 = 0 /\ buffer' \in 16..31
        BY <1>3, <3>1, <3>2, <3>3
      <3>5. given' = End(7) + out' + buffer'
        BY <1>3, <2>3, <2>6, <2>11, <3>1, <3>2
      <3>6. FormatType'
        BY <1>0, <1>2, <1>4, <2>1, <2>3, <2>7, <3>1, <3>4 DEF FormatType
      <3>7. RestoreInv'
        <4>1. Format!Ends'[passed'] = End(7) /\ passed' = 7
          BY <1>f, <2>7, <2>11
        <4>2. /\ given' <= size' /\ later' /\ passed' = 7
              /\ given' = Format!Ends'[passed'] + out' + buffer'
              /\ out' % 16 = 0 /\ buffer' \in 16..31
          BY <1>2, <1>4, <2>1, <3>4, <3>5, <4>1
        <4> HIDE DEF blocks
        <4>3. ~ (7 < 7) /\ 7 # 0
          OBVIOUS
        <4> QED
          BY <4>2, <4>3 DEF RestoreInv
      <3> QED
        BY <1>8, <1>9, <3>1, <3>6, <3>7 DEF FormatInv
    <2> QED
      BY <2>3, <2>9, <2>10, <2>11
  <1> QED
    BY <1>2, <1>10, <1>11

\* and the end.
LEMMA FormatFinished ==
  ASSUME FormatAssumption, FormatInv, Format!finalize_decrypted
  PROVE  FormatInv'
  <1>0. FormatType /\ UploadInv /\ RestoreInv /\ Format!RestoredWhole
    BY DEF FormatInv
  <1> DEFINE body == clear.body
             enc  == Format!Encrypted(body)
  <1>1. /\ formatAt = "restoring" /\ given = size
        /\ UNCHANGED <<clear, given, passed, later, size>>
        /\ IF passed = 0 \/ buffer = 0
           THEN formatAt' = "restored" /\ UNCHANGED <<out, buffer>>
           ELSE IF buffer = 16
           THEN formatAt' = "restored" /\ out' = out + 16 - (enc - body) /\ buffer' = 0
           ELSE formatAt' = "failed" /\ UNCHANGED <<out, buffer>>
    BY DEF Format!finalize_decrypted, Format!BlockSize
  <1>2. given \in Nat /\ buffer \in Nat /\ size \in Nat /\ out \in Nat /\ passed \in 0..7
    BY <1>0 DEF FormatType
  <1>3. size = Whole /\ Whole' = Whole
    BY <1>0, <1>1, SameWhole DEF UploadInv
  <1>4. /\ Hdr = End(7)
        /\ \A k \in 1..7 : End(k) \in Nat /\ End(k) >= 16 /\ End(k) <= Hdr
        /\ End(1) = 16 /\ Hdr >= 312
    BY <1>0, EndsOf
  <1>5. body \in Nat /\ enc \in Nat /\ (body > 0 => enc = ((body \div 16) + 1) * 16)
    BY <1>0, SizeOfFormat, Padded
  <1>6. (body = 0 => size = 0) /\ (body > 0 => size = Hdr + enc)
    BY <1>0, <1>3, WholeOf
  <1> HIDE DEF enc, body
  <1>7. body > 0 => enc >= body /\ enc > 0
    BY <1>5
  <1>a. /\ passed = 0 => buffer = given /\ given < 16 /\ out = 0
        /\ passed < 7 => out = 0
        /\ passed > 0 => given = End(passed) + out + buffer
        /\ passed > 1 => later
        /\ later /\ passed < 7 => given < End(passed + 1)
        /\ passed = 7 => out % 16 = 0 /\ buffer \in 16..31
    BY <1>0, <1>1 DEF RestoreInv, End
  <1>8. passed = 0 => body = 0
    <2> SUFFICES ASSUME passed = 0, body > 0 PROVE FALSE
      BY <1>5
    <2> QED
      BY <1>1, <1>2, <1>4, <1>5, <1>6, <1>a
  <1>9. passed > 0 => body > 0
    <2> SUFFICES ASSUME passed > 0, body = 0 PROVE FALSE
      BY <1>5
    <2>1. given = 0 /\ passed \in 1..7
      BY <1>1, <1>2, <1>6
    <2>2. given = End(passed) + out + buffer /\ End(passed) >= 16 /\ End(passed) \in Nat
      BY <2>1, <1>4, <1>a
    <2> QED
      BY <2>1, <2>2, <1>2
  <1>10. passed > 0 /\ later => passed = 7 /\ buffer = 16
    <2> SUFFICES ASSUME passed > 0, later PROVE passed = 7 /\ buffer = 16
      OBVIOUS
    <2>1. given = Hdr + enc /\ given > Hdr
      BY <1>1, <1>2, <1>4, <1>5, <1>6, <1>7, <1>9
    <2>2. passed = 7
      <3> SUFFICES ASSUME passed < 7 PROVE FALSE
        BY <1>2
      <3>1. passed + 1 \in 1..7
        BY <1>2
      <3>2. given < End(passed + 1) /\ End(passed + 1) <= Hdr /\ End(passed + 1) \in Nat
        BY <3>1, <1>4, <1>a
      <3> QED
        BY <2>1, <3>2, <1>2, <1>4
    <2>3. enc = out + buffer
      BY <2>1, <2>2, <1>2, <1>4, <1>5, <1>a
    <2>4. enc % 16 = 0
      BY <1>5, <1>9
    <2>5. out % 16 = 0 /\ buffer \in 16..31
      BY <2>2, <1>a
    <2> HIDE DEF enc
    <2> QED
      BY <2>2, <2>3, <2>4, <2>5, <1>2, <1>5
  <1>11. passed > 0 /\ ~ later => buffer # 0 /\ buffer # 16
    <2> SUFFICES ASSUME passed > 0, ~ later PROVE buffer # 0 /\ buffer # 16
      OBVIOUS
    <2>1. passed = 1
      BY <1>2, <1>a
    <2>2. given = 16 + buffer /\ given > 312
      BY <2>1, <1>1, <1>2, <1>4, <1>5, <1>6, <1>7, <1>9, <1>a
    <2> QED
      BY <2>2, <1>2
  <1>12. formatAt' = "failed" => ~ later
    BY <1>1, <1>2, <1>10
  <1>13. formatAt' = "restored" => out' = body /\ out' \in Nat
    <2>1. CASE passed = 0
      BY <2>1, <1>1, <1>2, <1>8, <1>a
    <2>2. CASE passed > 0
      <3> SUFFICES ASSUME formatAt' = "restored" PROVE out' = body
        BY <1>5
      <3>1. later
        BY <2>2, <1>1, <1>2, <1>11
      <3>2. passed = 7 /\ buffer = 16
        BY <2>2, <3>1, <1>10
      <3>3. out' = out + 16 - (enc - body)
        BY <2>2, <3>2, <1>1
      <3>4. enc = out + 16
        BY <3>2, <2>2, <1>1, <1>2, <1>4, <1>5, <1>6, <1>9, <1>a
      <3> QED
        BY <3>3, <3>4, <1>2, <1>5
    <2> QED
      BY <2>1, <2>2, <1>2
  <1>14. formatAt' \in {"restored", "failed"} /\ out' \in Nat /\ buffer' \in Nat
    BY <1>1, <1>2, <1>13
  <1>15. FormatType'
    BY <1>0, <1>1, <1>14 DEF FormatType
  <1>16. UploadInv' /\ RestoreInv'
    BY <1>1, <1>3, <1>14 DEF UploadInv, RestoreInv
  <1>17. Format!RestoredWhole'
    BY <1>1, <1>3, <1>12, <1>13, <1>14 DEF Format!RestoredWhole, Whole, body
  <1> QED
    BY <1>15, <1>16, <1>17 DEF FormatInv

\* Every step of EncryptedFormat preserves the invariant.
LEMMA FormatStep ==
  ASSUME FormatAssumption, FormatInv, [Format!Next]_formatVars
  PROVE  FormatInv'
  <1>1. CASE UNCHANGED formatVars
    <2>1. UNCHANGED <<clear, formatAt, given, buffer, passed, later, size, out>>
      BY <1>1 DEF formatVars
    <2>2. Whole' = Whole /\ Hdr' = Hdr /\ Format!Ends' = Format!Ends
      BY <2>1, SameWhole
    <2>3. FormatType' /\ UploadInv' /\ RestoreInv'
      BY <2>1, <2>2 DEF FormatInv, FormatType, UploadInv, RestoreInv, Hdr
    <2>4. Format!RestoredWhole'
      BY <2>1, <2>2 DEF FormatInv, Format!RestoredWhole, Whole, Hdr, Format!BlockSize
    <2> QED
      BY <2>3, <2>4 DEF FormatInv
  <1>2. CASE \E n \in Format!Piece(size - given) : Format!write_decrypted(n)
    <2>1. formatAt = "restoring"
      BY <1>2 DEF Format!write_decrypted
    <2> QED
      BY <1>2, <2>1, FormatRead
  <1> QED
    BY <1>1, <1>2, FormatWritten, FormatFinished DEF Format!Next

\* Nothing is encrypted in the beginning.
LEMMA FormatInit == ASSUME FormatAssumption, Format!Init PROVE FormatInv
  <1>1. /\ clear \in [body : BodySizes, thumb : ThumbSizes, infos : InfosSizes]
        /\ formatAt = "uploading"
        /\ given = 0 /\ buffer = 0 /\ passed = 0 /\ later = FALSE /\ size = 0 /\ out = 0
    BY DEF Format!Init
  <1>a. 0 \in Nat /\ 0 \in 0..7
    OBVIOUS
  <1>2. FormatType
    BY <1>1, <1>a, Zenon DEF FormatType
  <1>3. 0 <= clear.body
    BY <1>2, SizeOfFormat
  <1> QED
    BY <1>1, <1>2, <1>3 DEF FormatInv, UploadInv, RestoreInv, Format!RestoredWhole

\* A file of a backup takes as many bytes as the provider was told, and comes back
\* whole, but for the two cuts that the property names (RestoredWhole): for files,
\* headers and pieces of any size.
THEOREM RestoredCorrect == MCSpec => []RestoredWhole
  <1> DEFINE Inv == subject = "format" => FormatInv
  <1>1. MCInit => Inv
    BY FormatInit, FormatAssumption DEF MCInit
  <1>2. Inv /\ [MCNext]_<<subject, vars, formatVars, fileVars, imageVars, pluginVars,
                          viewVars, copyVars>> => Inv'
    <2> SUFFICES ASSUME Inv, subject' = "format",
                        [MCNext]_<<subject, vars, formatVars, fileVars, imageVars, pluginVars,
                                   viewVars, copyVars>>
                 PROVE  FormatInv'
      OBVIOUS
    <2>1. subject = "format"
      BY DEF MCNext
    <2>2. [Format!Next]_formatVars
      BY <2>1 DEF MCNext
    <2> QED
      BY <2>1, <2>2, FormatStep, FormatAssumption
  <1>3. Inv => RestoredWhole
    BY DEF FormatInv, RestoredWhole
  <1> QED
    BY <1>1, <1>2, <1>3, PTL DEF MCSpec

-----------------------------------------------------------------------------
(* BackupCopies.                                                           *)

\* Where a run is: before it has a copy of its own, behind the reading of the hash,
\* about to write a file, and behind its copy.
Early   == {"checked", "hash", "look", "reading", "named", "created", "written"}
Filing  == {"named", "created", "written"}
Behind  == {"retain", "removing", "row"}
Hashed  == {"look", "reading", "named", "created", "written", "retain", "removing", "row"}
Numbered == {"checked", "hash", "look", "reading", "named", "created", "written",
             "retain", "removing", "row"}

\* S holds whatever came after one of it.
UpTo(S) == \A v \in S : v <= source /\ \A w \in v..source : w \in S

\* Row x is of an earlier version than row y, or was added earlier.
Under(x, y) == x.hash < y.hash \/ (x.hash = y.hash /\ x.added < y.added)
Beaten(x)   == \E y \in copies : Under(x, y)
Top(t)      == \A x \in copies : x = t \/ Under(x, t)

\* The file of row c is whole.
WholeCopy(c) ==
  /\ Copying!ByName(backup.place, c.name) # {}
  /\ \A f \in Copying!ByName(backup.place, c.name) :
       /\ f.key = backup.key /\ f.open = {}
       /\ ~c.raced => f.version = c.hash

\* The file a run is at.
FileOfRun(r) ==
  /\ run[r].pc = "created" =>
       \A f \in Copying!ByName(run[r].to.place, run[r].name) :
         f.open = {r} /\ f.key = run[r].to.key /\ f.version # Torn
  /\ run[r].pc = "written" =>
       \A f \in Copying!ByName(run[r].to.place, run[r].name) :
         f.open = {} /\ f.key = run[r].to.key /\ f.version = run[r].got

\* Rows and runs are told by their numbers.
RowsNumbered ==
  /\ \A c \in copies : c.n <= starts
  /\ \A c, d \in copies : c.n = d.n \/ c.added = d.added => c = d
RunNumber(r) ==
  /\ run[r].pc \in Numbered => run[r].n \in 1..starts
  /\ run[r].pc \in Early => \A c \in copies : c.n # run[r].n
  /\ run[r].todo \subseteq 0..starts
RunsApart ==
  \A r, q \in Callers :
    /\ run[r].pc \in Numbered /\ run[q].pc \in Numbered /\ run[r].n = run[q].n => r = q
    /\ run[r].pc \in Early => run[r].n \notin run[q].todo

\* A file is open for those who are about to write it.
Opened ==
  \A f \in place : \A q \in f.open :
    run[q].pc = "created" /\ f.place = run[q].to.place /\ f.name = run[q].name

\* What a run has seen, and has at hand.
RunSeen(r) ==
  /\ run[r].pc \in Hashed => run[r].hash \in run[r].seen /\ source \in run[r].seen
  /\ run[r].pc \notin Hashed => run[r].seen = {}
  /\ run[r].pc \notin {"removing", "row"} => run[r].todo = {}
  /\ run[r].pc = "row" => run[r].hand \in run[r].todo
SinceNow == since # {} => source \in since

\* The versions go on, unless of the configuration.
Forward ==
  /\ \A c \in copies : c.hash <= source
  /\ UpTo(since)
RunForward(r) == UpTo(run[r].seen)

\* The row of the latest version stays.
TopStays ==
  /\ copies # {} => \E t \in copies : Top(t)
  /\ since # {} => \E c \in copies : c.hash \in since
RunTop(r) ==
  /\ run[r].pc = "look" => \A x \in copies : x.old => x.hash <= run[r].hash
  /\ run[r].pc \in {"reading"} \cup Filing => \A x \in copies : x.old => x.hash < run[r].hash
  /\ run[r].pc = "retain" => \A x \in copies : x.old /\ x.n # run[r].own => Beaten(x)
  /\ \A x \in copies : x.n \in run[r].todo => Beaten(x)
  /\ run[r].pc \in Behind => \E c \in copies : c.hash \in run[r].seen

\* A run writes where the backup is, unless that was changed.
Settled == copies # {} => backup # None
RunSettled(r) ==
  /\ "updated" \notin events /\ run[r].pc \in Filing /\ backup # None => run[r].to = backup
  /\ run[r].pc \in Filing => run[r].to \in Copying!Settings /\ run[r].name \in Copying!Names
  /\ run[r].pc \in {"reading"} \cup Filing => run[r].got \in Copying!Versions \cup {Torn}

\* Nothing happened: one run after the other.
Calm ==
  events = {} =>
    /\ \A r, q \in Callers : run[r].pc # "idle" /\ run[q].pc # "idle" => r = q
    /\ \A c, d \in copies : c.name = d.name => c = d
    /\ \A c \in copies : c.name.id => c.name.n = c.n
    /\ \A c \in copies : WholeCopy(c) \/ \E r \in Callers : run[r].pc = "row" /\ run[r].hand = c.n
    /\ since # {} => \E c \in copies : c.hash \in since
RunCalm(r) ==
  events = {} =>
    /\ run[r].pc \in Hashed /\ since # {} => run[r].hash \in since
    /\ run[r].pc \in Behind => run[r].own \notin run[r].todo /\ \E o \in copies : o.n = run[r].own /\ o.hash = run[r].hash
    /\ run[r].pc \in Filing => \A c \in copies : c.name # run[r].name
    /\ run[r].pc \in Filing /\ run[r].name.id => run[r].name.n = run[r].n
    /\ FileOfRun(r)

\* Encrypted copies of a database are named apart.
Safe == /\ item # "configuration" /\ "updated" \notin events
        /\ backup # None /\ backup.key # None
Named(n) == [n |-> n, id |-> TRUE]
Apart ==
  Safe => \A c \in copies : c.name = Named(c.n) /\ (WholeCopy(c) \/ Beaten(c))
RunApart(r) ==
  Safe => (run[r].pc \in Filing => run[r].name = Named(run[r].n)) /\ FileOfRun(r)

RunInv(r) ==
  /\ RunNumber(r) /\ RunSeen(r) /\ RunSettled(r)
  /\ item # "configuration" => RunForward(r) /\ RunTop(r)
  /\ RunCalm(r) /\ RunApart(r)
StateInv ==
  /\ RowsNumbered /\ RunsApart /\ Opened /\ SinceNow /\ Settled
  /\ item # "configuration" => Forward /\ TopStays
  /\ Calm /\ Apart
CopiesInv == Copying!TypeOK /\ StateInv /\ \A r \in Callers : RunInv(r)

\* What is known of a run's record.
LEMMA RunTyped ==
  ASSUME Copying!TypeOK, NEW r \in Callers
  PROVE  /\ run \in [Callers -> Copying!RunRecord] /\ run[r] \in Copying!RunRecord
         /\ run[r].n \in 0..MaxStarts /\ run[r].seen \subseteq 1..MaxSource
         /\ run[r].todo \subseteq 0..MaxStarts /\ run[r].own \in 0..MaxStarts
         /\ run[r].hand \in 0..MaxStarts /\ run[r].hash \in 1..MaxSource \cup {None}
BY DEF Copying!TypeOK, Copying!RunRecord, Copying!Versions

\* A run goes on to another record.
LEMMA RunBecomes ==
  ASSUME Copying!TypeOK, NEW r \in Callers, NEW to \in Copying!RunRecord,
         run' = [run EXCEPT ![r] = to]
  PROVE  /\ run' \in [Callers -> Copying!RunRecord] /\ run'[r] = to
         /\ \A q \in Callers : q # r => run'[q] = run[q]
BY DEF Copying!TypeOK

\* What is known of a run that another step leaves alone.
LEMMA OtherRunKept ==
  ASSUME NEW q \in Callers, run'[q] = run[q], RunInv(q),
         UNCHANGED <<item, backup, source, copies, place, since, starts>>, events \subseteq events'
  PROVE  RunInv(q)'
<1>1. RunNumber(q)' /\ RunSeen(q)' /\ RunSettled(q)'
  BY DEF RunInv, RunNumber, RunSeen, RunSettled
<1>2. item' # "configuration" => RunForward(q)' /\ RunTop(q)'
  BY DEF RunInv, RunForward, RunTop, UpTo, Beaten
<1>3. FileOfRun(q)' <=> FileOfRun(q)
  BY DEF FileOfRun, Copying!ByName
<1>4. RunCalm(q)'
  BY <1>3 DEF RunInv, RunCalm
<1>5. Safe' => Safe
  BY DEF Safe
<1>6. RunApart(q)'
  BY <1>3, <1>5 DEF RunInv, RunApart
<1> QED
  BY <1>1, <1>2, <1>4, <1>6 DEF RunInv

\* A step of a run that changes no row and no file.
LEMMA RunMoves ==
  ASSUME CopiesInv, Copying!TypeOK', NEW r \in Callers, NEW to \in Copying!RunRecord,
         run' = [run EXCEPT ![r] = to],
         UNCHANGED <<item, backup, source, copies, place, since, starts>>, events \subseteq events',
         run[r].pc \notin {"idle", "created"},
         run[r].pc = "row" => events' # {},
         to.pc \in Numbered => run[r].pc \in Numbered /\ to.n = run[r].n,
         to.pc \in Early => run[r].pc \in Early,
         \A n \in to.todo : n \in run[r].todo \/ \E c \in copies : c.n = n,
         RunInv(r)'
  PROVE  CopiesInv'
<1>1. /\ run'[r] = to /\ \A q \in Callers : q # r => run'[q] = run[q]
      /\ StateInv
  BY RunBecomes DEF CopiesInv
<1>2. \A q \in Callers : RunInv(q)'
  BY <1>1, OtherRunKept DEF CopiesInv
<1>3. RowsNumbered' /\ SinceNow' /\ Settled'
  BY <1>1 DEF StateInv, RowsNumbered, SinceNow, Settled
<1>4. RunsApart'
  <2>. SUFFICES ASSUME NEW p \in Callers, NEW q \in Callers
                PROVE  /\ run'[p].pc \in Numbered /\ run'[q].pc \in Numbered /\ run'[p].n = run'[q].n => p = q
                       /\ run'[p].pc \in Early => run'[p].n \notin run'[q].todo
    BY DEF RunsApart
  <2>1. run'[p].pc \in Numbered => run[p].pc \in Numbered /\ run'[p].n = run[p].n
    BY <1>1
  <2>2. run'[q].pc \in Numbered => run[q].pc \in Numbered /\ run'[q].n = run[q].n
    BY <1>1
  <2>3. run'[p].pc \in Early => run[p].pc \in Early /\ run'[p].n = run[p].n
    BY <1>1, <2>1 DEF Early, Numbered
  <2>4. \A n \in run'[q].todo : n \in run[q].todo \/ \E c \in copies : c.n = n
    BY <1>1
  <2>5. run[p].pc \in Early => \A c \in copies : c.n # run[p].n
    BY DEF CopiesInv, RunInv, RunNumber
  <2>. QED
    BY <1>1, <2>1, <2>2, <2>3, <2>4, <2>5 DEF StateInv, RunsApart
<1>5. Opened'
  BY <1>1 DEF StateInv, Opened, CopiesInv, Copying!TypeOK, Copying!Files
<1>6. item' # "configuration" => Forward' /\ TopStays'
  BY <1>1 DEF StateInv, Forward, TopStays, UpTo, Top
<1>7. \A c \in copies : WholeCopy(c)' <=> WholeCopy(c)
  BY DEF WholeCopy, Copying!ByName
<1>8. Calm'
  BY <1>1, <1>7 DEF StateInv, Calm
<1>9. Apart'
  BY <1>1, <1>7 DEF StateInv, Apart, Safe, Beaten
<1> QED
  BY <1>2, <1>3, <1>4, <1>5, <1>6, <1>8, <1>9 DEF CopiesInv, StateInv

\* What the invariant says of one run, and of the state.
LEMMA RunKnown ==
  ASSUME CopiesInv, NEW r \in Callers
  PROVE  /\ RunNumber(r) /\ RunSeen(r) /\ RunSettled(r)
         /\ item # "configuration" => RunForward(r) /\ RunTop(r)
         /\ RunCalm(r) /\ RunApart(r)
BY DEF CopiesInv, RunInv

\* SetStatus.
LEMMA SetStatusKeeps ==
  ASSUME CopiesInv, NEW r \in Callers, Copying!SetStatus(r)
  PROVE  CopiesInv'
<1> DEFINE to == [run[r] EXCEPT !.pc = "hash"]
<1>1. /\ Copying!TypeOK /\ run[r] \in Copying!RunRecord
      /\ run' = [run EXCEPT ![r] = to] /\ to \in Copying!RunRecord
      /\ run[r].pc = "checked" /\ to.pc = "hash" /\ to.n = run[r].n /\ to.seen = run[r].seen
      /\ to.todo = run[r].todo
      /\ UNCHANGED <<item, backup, source, copies, place, since, events, starts>>
      /\ backupStatus' \in {"idle", "InProgress", "Done"}
  BY RunTyped DEF Copying!SetStatus, Copying!others, Copying!TypeOK, CopiesInv, Copying!RunRecord
<1> HIDE DEF to
<1>2. run'[r] = to /\ Copying!TypeOK'
  BY <1>1, RunBecomes DEF Copying!TypeOK
<1>3. RunNumber(r)' /\ RunSeen(r)' /\ RunSettled(r)'
  BY <1>1, <1>2, RunKnown DEF RunNumber, RunSeen, RunSettled, Numbered, Early, Hashed, Filing
<1>4. item' # "configuration" => RunForward(r)' /\ RunTop(r)'
  BY <1>1, <1>2, RunKnown DEF RunForward, RunTop, UpTo, Filing, Behind, RunSeen, Hashed
<1>5. RunCalm(r)' /\ RunApart(r)'
  BY <1>1, <1>2 DEF RunCalm, RunApart, Filing, Behind, Hashed, FileOfRun
<1>6. RunInv(r)'
  BY <1>3, <1>4, <1>5 DEF RunInv
<1> QED
  BY <1>1, <1>2, <1>6, RunMoves DEF Numbered, Early

\* HashItem.
LEMMA HashItemKeeps ==
  ASSUME CopiesInv, NEW r \in Callers, Copying!HashItem(r)
  PROVE  CopiesInv'
<1> DEFINE to == [run[r] EXCEPT !.pc = "look", !.hash = source, !.seen = {source}]
<1>1. /\ Copying!TypeOK /\ run[r] \in Copying!RunRecord /\ source \in 1..MaxSource
      /\ run' = [run EXCEPT ![r] = to] /\ to \in Copying!RunRecord
      /\ run[r].pc = "hash" /\ to.pc = "look" /\ to.n = run[r].n /\ to.seen = {source}
      /\ to.todo = run[r].todo /\ to.hash = source
      /\ UNCHANGED <<item, backup, source, backupStatus, copies, place, since, events, starts>>
  BY ZenonT(60), RunTyped DEF Copying!HashItem, Copying!others, Copying!TypeOK, CopiesInv, Copying!RunRecord,
     Copying!Versions
<1> HIDE DEF to
<1>2. run'[r] = to /\ Copying!TypeOK' /\ StateInv
  BY <1>1, RunBecomes DEF Copying!TypeOK, CopiesInv
<1>3. RunNumber(r)' /\ RunSeen(r)' /\ RunSettled(r)'
  BY <1>1, <1>2, RunKnown DEF RunNumber, RunSeen, RunSettled, Numbered, Early, Hashed, Filing
<1>4. RunForward(r)'
  BY <1>1, <1>2 DEF RunForward, UpTo
<1>5. item' # "configuration" => RunTop(r)'
  BY <1>1, <1>2, RunKnown DEF RunTop, Filing, Behind, RunSeen, Hashed, StateInv, Forward
<1>6. RunCalm(r)' /\ RunApart(r)'
  BY <1>1, <1>2 DEF RunCalm, RunApart, Filing, Behind, Hashed, FileOfRun, StateInv, SinceNow
<1>7. RunInv(r)'
  BY <1>3, <1>4, <1>5, <1>6 DEF RunInv
<1> QED
  BY <1>1, <1>2, <1>7, RunMoves DEF Numbered, Early

\* KeepIdentical: the latest of the identical rows beats the others, which are older.
LEMMA KeepIdenticalKeeps ==
  ASSUME CopiesInv, NEW r \in Callers, Copying!KeepIdentical(r)
  PROVE  CopiesInv'
<1>1. PICK c \in Copying!Identical(r) :
        /\ \A x \in Copying!Identical(r) : x.added <= c.added
        /\ run' = [run EXCEPT ![r].pc = "retain", ![r].own = c.n]
  BY DEF Copying!KeepIdentical
<1>2. /\ c \in copies /\ c.hash = run[r].hash /\ c.n \in 0..MaxStarts
      /\ \A x \in copies : x.hash = run[r].hash => x.added <= c.added
  BY <1>1 DEF Copying!Identical, CopiesInv, Copying!TypeOK, Copying!Rows
<1> DEFINE to == [run[r] EXCEPT !.pc = "retain", !.own = c.n]
<1>3. /\ Copying!TypeOK /\ run[r] \in Copying!RunRecord
      /\ run' = [run EXCEPT ![r] = to] /\ to \in Copying!RunRecord
      /\ run[r].pc = "look" /\ to.pc = "retain" /\ to.n = run[r].n /\ to.seen = run[r].seen
      /\ to.todo = run[r].todo /\ to.hash = run[r].hash /\ to.own = c.n
      /\ UNCHANGED <<item, backup, source, backupStatus, copies, place, since, events, starts>>
  <2>1. Copying!TypeOK /\ run[r] \in Copying!RunRecord /\ run \in [Callers -> Copying!RunRecord]
    BY RunTyped DEF CopiesInv
  <2>2. run' = [run EXCEPT ![r] = to]
    BY <1>1
  <2>3. to \in Copying!RunRecord /\ to.pc = "retain" /\ to.n = run[r].n /\ to.seen = run[r].seen
        /\ to.todo = run[r].todo /\ to.hash = run[r].hash /\ to.own = c.n
    BY <1>2, <2>1 DEF Copying!RunRecord
  <2> QED
    BY <2>1, <2>2, <2>3 DEF Copying!KeepIdentical, Copying!others
<1> HIDE DEF to
<1>4. run'[r] = to /\ Copying!TypeOK' /\ StateInv
  BY <1>3, RunBecomes DEF Copying!TypeOK, CopiesInv
<1>5. RunNumber(r)' /\ RunSeen(r)' /\ RunSettled(r)'
  BY <1>3, <1>4, RunKnown DEF RunNumber, RunSeen, RunSettled, Numbered, Early, Hashed, Filing
<1>6. ASSUME item # "configuration" PROVE RunForward(r)' /\ RunTop(r)'
  <2>1. RunForward(r)'
    BY <1>3, <1>4, <1>6, RunKnown DEF RunForward, UpTo
  <2>2. \A x \in copies : x.old /\ x.n # c.n => Under(x, c)
    <3> SUFFICES ASSUME NEW x \in copies, x.old, x.n # c.n PROVE Under(x, c)
      OBVIOUS
    <3>1. x.hash <= run[r].hash
      BY <1>3, <1>6, RunKnown DEF RunTop
    <3>2. /\ x.hash \in Nat /\ c.hash \in Nat /\ x.added \in Nat /\ c.added \in Nat
      BY <1>2, <1>3 DEF Copying!TypeOK, Copying!Rows, Copying!Versions
    <3>3. x.added # c.added
      BY <1>2, <1>4 DEF StateInv, RowsNumbered
    <3> QED
      BY <1>2, <3>1, <3>2, <3>3 DEF Under
  <2>3. run[r].todo = {} /\ c.hash \in run[r].seen
    BY <1>2, <1>3, RunKnown DEF RunSeen, Hashed
  <2> QED
    BY <1>2, <1>3, <1>4, <2>1, <2>2, <2>3 DEF RunTop, Beaten, Filing, Behind
<1>7. RunCalm(r)' /\ RunApart(r)'
  BY <1>2, <1>3, <1>4, RunKnown DEF RunCalm, RunApart, RunSeen, Filing, Behind, Hashed, FileOfRun
<1>8. RunInv(r)'
  BY <1>3, <1>5, <1>6, <1>7 DEF RunInv
<1> QED
  BY <1>3, <1>4, <1>8, RunMoves DEF Numbered, Early

\* ReadItem: no row is of the version that is read.
LEMMA ReadItemKeeps ==
  ASSUME CopiesInv, NEW r \in Callers, Copying!ReadItem(r)
  PROVE  CopiesInv'
<1> DEFINE to == [run[r] EXCEPT !.pc = "reading", !.got = source]
<1>1. /\ Copying!TypeOK /\ run[r] \in Copying!RunRecord
      /\ run' = [run EXCEPT ![r] = to] /\ to \in Copying!RunRecord
      /\ run[r].pc = "look" /\ to.pc = "reading" /\ to.n = run[r].n /\ to.seen = run[r].seen
      /\ to.todo = run[r].todo /\ to.hash = run[r].hash /\ to.got \in Copying!Versions
      /\ \A x \in copies : x.hash # run[r].hash
      /\ UNCHANGED <<item, backup, source, backupStatus, copies, place, since, events, starts>>
  BY ZenonT(60), RunTyped DEF Copying!ReadItem, Copying!others, Copying!TypeOK, CopiesInv,
     Copying!RunRecord, Copying!Identical, Copying!Versions
<1> HIDE DEF to
<1>2. run'[r] = to /\ Copying!TypeOK' /\ StateInv
  BY <1>1, RunBecomes DEF Copying!TypeOK, CopiesInv
<1>3. RunNumber(r)' /\ RunSeen(r)' /\ RunSettled(r)'
  BY <1>1, <1>2, RunKnown DEF RunNumber, RunSeen, RunSettled, Numbered, Early, Hashed, Filing
<1>4. ASSUME item # "configuration" PROVE RunForward(r)' /\ RunTop(r)'
  <2>1. RunForward(r)'
    BY <1>1, <1>2, <1>4, RunKnown DEF RunForward, UpTo
  <2>2. \A x \in copies : x.old => x.hash < run[r].hash
    <3> SUFFICES ASSUME NEW x \in copies, x.old PROVE x.hash < run[r].hash
      OBVIOUS
    <3>1. x.hash <= run[r].hash /\ run[r].hash \in run[r].seen
      BY <1>1, <1>4, RunKnown DEF RunTop, RunSeen, Hashed
    <3>2. x.hash \in Nat /\ run[r].hash \in Nat
      BY <1>1, <3>1, RunTyped DEF Copying!TypeOK, Copying!Rows, Copying!Versions
    <3> QED
      BY <1>1, <3>1, <3>2
  <2>3. run[r].todo = {}
    BY <1>1, RunKnown DEF RunSeen
  <2> QED
    BY <1>1, <1>2, <2>1, <2>2, <2>3 DEF RunTop, Filing, Behind
<1>5. RunCalm(r)' /\ RunApart(r)'
  BY <1>1, <1>2, RunKnown DEF RunCalm, RunApart, Filing, Behind, Hashed, FileOfRun
<1>6. RunInv(r)'
  BY <1>1, <1>3, <1>4, <1>5 DEF RunInv
<1> QED
  BY <1>1, <1>2, <1>6, RunMoves DEF Numbered, Early

\* ChooseName: no row has the name that is free, nor the number of a run under way.
LEMMA ChooseNameKeeps ==
  ASSUME CopiesInv, NEW r \in Callers, Copying!ChooseName(r)
  PROVE  CopiesInv'
<1>1. PICK name \in Copying!Names :
        /\ IF backup.key = None THEN Copying!FirstFree(backup.place, name)
           ELSE name = [n |-> run[r].n, id |-> TRUE]
        /\ run' = [run EXCEPT ![r].pc = "named", ![r].to = backup, ![r].name = name]
  BY DEF Copying!ChooseName
<1> DEFINE to == [run[r] EXCEPT !.pc = "named", !.to = backup, !.name = name]
<1>2. /\ Copying!TypeOK /\ run[r] \in Copying!RunRecord
      /\ run' = [run EXCEPT ![r] = to] /\ to \in Copying!RunRecord
      /\ run[r].pc = "reading" /\ to.pc = "named" /\ to.n = run[r].n /\ to.seen = run[r].seen
      /\ to.todo = run[r].todo /\ to.hash = run[r].hash /\ to.to = backup /\ to.name = name /\ to.got = run[r].got
      /\ backup # None /\ backup \in Copying!Settings
      /\ UNCHANGED <<item, backup, source, backupStatus, copies, place, since, events, starts>>
  <2>1. Copying!TypeOK /\ run[r] \in Copying!RunRecord /\ run \in [Callers -> Copying!RunRecord]
        /\ backup \in Copying!Settings \cup {None}
    BY RunTyped DEF CopiesInv, Copying!TypeOK
  <2>2. run' = [run EXCEPT ![r] = to]
    BY <1>1
  <2>3. to \in Copying!RunRecord /\ to.pc = "named" /\ to.n = run[r].n /\ to.seen = run[r].seen
        /\ to.todo = run[r].todo /\ to.hash = run[r].hash /\ to.to = backup /\ to.name = name /\ to.got = run[r].got
    BY <2>1 DEF Copying!RunRecord
  <2> QED
    BY <2>1, <2>2, <2>3 DEF Copying!ChooseName, Copying!others
<1> HIDE DEF to
<1>3. run'[r] = to /\ Copying!TypeOK' /\ StateInv
  BY <1>2, RunBecomes DEF Copying!TypeOK, CopiesInv
<1>4. RunNumber(r)' /\ RunSeen(r)' /\ RunSettled(r)'
  BY <1>2, <1>3, RunKnown DEF RunNumber, RunSeen, RunSettled, Numbered, Early, Hashed, Filing
<1>5. item' # "configuration" => RunForward(r)' /\ RunTop(r)'
  BY <1>2, <1>3, RunKnown DEF RunForward, RunTop, UpTo, Filing, Behind, RunSeen, Beaten
<1>6. FileOfRun(r)'
  BY <1>2, <1>3 DEF FileOfRun
<1>7. name.id => name.n = run[r].n
  BY <1>1 DEF Copying!FirstFree
<1>8. ASSUME events = {}, NEW c \in copies PROVE c.name # name
  <2>1. CASE backup.key = None
    <3>1. Copying!ByName(backup.place, name) = {}
      BY <1>1, <2>1 DEF Copying!FirstFree
    <3>2. WholeCopy(c)
      BY <1>2, <1>3, <1>8 DEF StateInv, Calm
    <3> QED
      BY <3>1, <3>2 DEF WholeCopy
  <2>2. CASE backup.key # None
    <3>1. name.id /\ name.n = run[r].n
      BY <1>1, <2>2
    <3>2. c.n # run[r].n
      BY <1>2, RunKnown DEF RunNumber, Early
    <3>3. c.name.id => c.name.n = c.n
      BY <1>3, <1>8 DEF StateInv, Calm
    <3> QED
      BY <3>1, <3>2, <3>3
  <2> QED
    BY <2>1, <2>2
<1>9. RunCalm(r)'
  BY <1>2, <1>3, <1>6, <1>7, <1>8, RunKnown DEF RunCalm, Filing, Behind, Hashed
<1>10. RunApart(r)'
  BY <1>1, <1>2, <1>3, <1>6 DEF RunApart, Safe, Named, Filing
<1>11. RunInv(r)'
  BY <1>4, <1>5, <1>9, <1>10 DEF RunInv
<1> QED
  BY <1>2, <1>3, <1>11, RunMoves DEF Numbered, Early

\* ListOld: what is listed is old, and is not the run's own.
LEMMA ListOldKeeps ==
  ASSUME CopiesInv, NEW r \in Callers, Copying!ListOld(r)
  PROVE  CopiesInv'
<1> DEFINE old == {c.n : c \in {x \in copies : x.old /\ x.n # run[r].own}}
           to  == [run[r] EXCEPT !.pc = "removing", !.todo = old]
<1>1. /\ Copying!TypeOK /\ run[r] \in Copying!RunRecord /\ run \in [Callers -> Copying!RunRecord]
      /\ StateInv
  BY RunTyped DEF CopiesInv
<1>2. old \subseteq 0..MaxStarts /\ old \subseteq 0..starts
      /\ (\A n \in old : \E c \in copies : c.n = n) /\ run[r].own \notin old
  BY <1>1 DEF Copying!TypeOK, Copying!Rows, StateInv, RowsNumbered
<1>3. \A x \in copies : x.n \in old => x.old /\ x.n # run[r].own
  BY <1>1 DEF StateInv, RowsNumbered
<1>4. run' = [run EXCEPT ![r] = to]
  BY DEF Copying!ListOld
<1> HIDE DEF old
<1>5. /\ to \in Copying!RunRecord /\ to.pc = "removing" /\ to.n = run[r].n /\ to.seen = run[r].seen
      /\ to.todo = old /\ to.hash = run[r].hash /\ to.own = run[r].own
  BY <1>1, <1>2 DEF Copying!RunRecord
<1>6. /\ run[r].pc = "retain"
      /\ UNCHANGED <<item, backup, source, backupStatus, copies, place, since, events, starts>>
  BY DEF Copying!ListOld, Copying!others
<1> HIDE DEF to
<1>7. run'[r] = to /\ Copying!TypeOK'
  BY <1>1, <1>4, <1>5, <1>6, RunBecomes DEF Copying!TypeOK
<1>8. RunNumber(r)' /\ RunSeen(r)' /\ RunSettled(r)'
  BY <1>2, <1>5, <1>6, <1>7, RunKnown DEF RunNumber, RunSeen, RunSettled, Numbered, Early, Hashed, Filing
<1>9. item' # "configuration" => RunForward(r)' /\ RunTop(r)'
  BY <1>3, <1>5, <1>6, <1>7, RunKnown DEF RunForward, RunTop, UpTo, Filing, Behind, Beaten
<1>10. RunCalm(r)' /\ RunApart(r)'
  BY <1>2, <1>5, <1>6, <1>7, RunKnown DEF RunCalm, RunApart, RunSeen, Filing, Behind, Hashed, FileOfRun
<1>11. RunInv(r)'
  BY <1>8, <1>9, <1>10 DEF RunInv
<1> QED
  BY <1>2, <1>4, <1>5, <1>6, <1>7, <1>11, RunMoves DEF Numbered, Early

\* What RemoveFails and KeepRow share: one less to remove, and the row stays.
LEMMA LeftAlone ==
  ASSUME CopiesInv, Copying!TypeOK', NEW r \in Callers, NEW n \in Nat, NEW to \in Copying!RunRecord,
         run' = [run EXCEPT ![r] = to], run[r].pc \in {"removing", "row"},
         to.pc = "removing", to.n = run[r].n, to.seen = run[r].seen, to.hash = run[r].hash,
         to.own = run[r].own, to.todo = run[r].todo \ {n},
         UNCHANGED <<item, backup, source, copies, place, since, starts>>, events \subseteq events',
         run[r].pc = "row" => events' # {}
  PROVE  CopiesInv'
<1>1. run'[r] = to
  BY RunBecomes DEF CopiesInv
<1>2. RunNumber(r)' /\ RunSeen(r)' /\ RunSettled(r)'
  BY <1>1, RunKnown DEF RunNumber, RunSeen, RunSettled, Numbered, Early, Hashed, Filing
<1>3. item' # "configuration" => RunForward(r)' /\ RunTop(r)'
  BY <1>1, RunKnown DEF RunForward, RunTop, UpTo, Filing, Behind, Beaten
<1>4. RunCalm(r)' /\ RunApart(r)'
  BY <1>1, RunKnown DEF RunCalm, RunApart, RunSeen, Filing, Behind, Hashed, FileOfRun
<1>5. RunInv(r)'
  BY <1>2, <1>3, <1>4 DEF RunInv
<1> QED
  BY <1>1, <1>5, RunMoves DEF Numbered, Early

\* RemoveFails.
LEMMA RemoveFailsKeeps ==
  ASSUME CopiesInv, NEW r \in Callers, Copying!RemoveFails(r)
  PROVE  CopiesInv'
<1>1. PICK n \in run[r].todo : run' = [run EXCEPT ![r].todo = @ \ {n}]
  BY DEF Copying!RemoveFails
<1> DEFINE to == [run[r] EXCEPT !.todo = @ \ {n}]
<1>2. /\ Copying!TypeOK /\ run[r] \in Copying!RunRecord /\ n \in Nat
  BY RunTyped, CopiesAssumption DEF CopiesInv
<1>3. run' = [run EXCEPT ![r] = to]
  BY <1>1
<1>4. /\ run[r].pc = "removing"
      /\ UNCHANGED <<item, backup, source, backupStatus, copies, place, since, events, starts>>
  BY DEF Copying!RemoveFails, Copying!others
<1>5. /\ to \in Copying!RunRecord /\ to.pc = "removing" /\ to.n = run[r].n /\ to.seen = run[r].seen
      /\ to.todo = run[r].todo \ {n} /\ to.hash = run[r].hash /\ to.own = run[r].own
  BY <1>2, <1>4 DEF Copying!RunRecord
<1> HIDE DEF to
<1>6. Copying!TypeOK'
  BY <1>2, <1>3, <1>4, <1>5, RunBecomes DEF Copying!TypeOK
<1> QED
  BY <1>2, <1>3, <1>4, <1>5, <1>6, LeftAlone

\* KeepRow.
LEMMA KeepRowKeeps ==
  ASSUME CopiesInv, NEW r \in Callers, Copying!KeepRow(r)
  PROVE  CopiesInv'
<1> DEFINE to == [run[r] EXCEPT !.pc = "removing", !.todo = @ \ {run[r].hand}, !.hand = 0]
<1>1. /\ Copying!TypeOK /\ run[r] \in Copying!RunRecord /\ run[r].hand \in Nat
  BY RunTyped, CopiesAssumption DEF CopiesInv
<1>2. run' = [run EXCEPT ![r] = to]
  BY DEF Copying!KeepRow
<1>3. /\ run[r].pc = "row" /\ events' = events \cup {"cut"}
      /\ UNCHANGED <<item, backup, source, backupStatus, copies, place, since, starts>>
  BY DEF Copying!KeepRow, Copying!others
<1>4. 0 \in 0..MaxStarts
  BY CopiesAssumption
<1>5. /\ to \in Copying!RunRecord /\ to.pc = "removing" /\ to.n = run[r].n /\ to.seen = run[r].seen
      /\ to.todo = run[r].todo \ {run[r].hand} /\ to.hash = run[r].hash /\ to.own = run[r].own
  BY <1>1, <1>3, <1>4 DEF Copying!RunRecord
<1> HIDE DEF to
<1>6. Copying!TypeOK'
  BY <1>1, <1>2, <1>3, <1>5, RunBecomes DEF Copying!TypeOK
<1> QED
  BY <1>1, <1>2, <1>3, <1>5, <1>6, LeftAlone

\* Of a run that is none there is nothing to know.
LEMMA IdleKnown ==
  ASSUME NEW r \in Callers
  PROVE  /\ run[r] = Copying!NoRun => RunInv(r)
         /\ run'[r] = Copying!NoRun => RunInv(r)'
<1>1. /\ Copying!NoRun.pc = "idle" /\ Copying!NoRun.seen = {} /\ Copying!NoRun.todo = {}
  BY DEF Copying!NoRun
<1>2. run[r] = Copying!NoRun => RunInv(r)
  BY <1>1 DEF RunInv, RunNumber, RunSeen, RunSettled, RunForward, UpTo, RunTop,
     RunCalm, RunApart, FileOfRun, Numbered, Early, Hashed, Filing, Behind
<1>3. run'[r] = Copying!NoRun => RunInv(r)'
  BY <1>1 DEF RunInv, RunNumber, RunSeen, RunSettled, RunForward, UpTo, RunTop,
     RunCalm, RunApart, FileOfRun, Numbered, Early, Hashed, Filing, Behind
<1> QED
  BY <1>2, <1>3

\* FinishRun.
LEMMA FinishRunKeeps ==
  ASSUME CopiesInv, NEW r \in Callers, Copying!FinishRun(r)
  PROVE  CopiesInv'
<1> DEFINE to == Copying!NoRun
<1>1. Copying!TypeOK /\ to \in Copying!RunRecord /\ to.pc = "idle" /\ to.todo = {}
  BY CopiesAssumption DEF CopiesInv, Copying!NoRun, Copying!RunRecord
<1>2. /\ run' = [run EXCEPT ![r] = to] /\ run[r].pc = "rest" /\ backupStatus' = "Done"
      /\ UNCHANGED <<item, backup, source, copies, place, since, events, starts>>
  BY DEF Copying!FinishRun, Copying!others
<1>3. run'[r] = Copying!NoRun
  BY <1>1, <1>2, RunBecomes
<1>4. RunInv(r)'
  BY <1>3, IdleKnown
<1> HIDE DEF to
<1>5. Copying!TypeOK'
  BY <1>1, <1>2, RunBecomes DEF Copying!TypeOK
<1> QED
  BY <1>1, <1>2, <1>4, <1>5, RunMoves DEF Numbered, Early

\* Files of other names are left alone.
LEMMA OtherFilesKept ==
  ASSUME NEW name, \A p : \A m : m # name => Copying!ByName(p, m)' = Copying!ByName(p, m),
         UNCHANGED backup
  PROVE  /\ \A c \in copies : c.name # name => (WholeCopy(c)' <=> WholeCopy(c))
         /\ \A q \in Callers : run'[q] = run[q] /\ run[q].name # name => (FileOfRun(q)' <=> FileOfRun(q))
<1>1. \A c \in copies : c.name # name => (WholeCopy(c)' <=> WholeCopy(c))
  BY DEF WholeCopy
<1>2. \A q \in Callers : run'[q] = run[q] /\ run[q].name # name => (FileOfRun(q)' <=> FileOfRun(q))
  BY DEF FileOfRun
<1> QED
  BY <1>1, <1>2

\* What another run knows stays, if its file does.
LEMMA OtherRunFile ==
  ASSUME NEW q \in Callers, run'[q] = run[q], RunInv(q),
         UNCHANGED <<item, backup, source, copies, since, starts>>, events \subseteq events',
         events' = {} => FileOfRun(q)', Safe' => FileOfRun(q)'
  PROVE  RunInv(q)'
<1>1. RunNumber(q)' /\ RunSeen(q)' /\ RunSettled(q)'
  BY DEF RunInv, RunNumber, RunSeen, RunSettled
<1>2. item' # "configuration" => RunForward(q)' /\ RunTop(q)'
  BY DEF RunInv, RunForward, RunTop, UpTo, Beaten
<1>3. RunCalm(q)'
  BY DEF RunInv, RunCalm
<1>4. Safe' => Safe
  BY DEF Safe
<1>5. RunApart(q)'
  BY <1>4 DEF RunInv, RunApart
<1> QED
  BY <1>1, <1>2, <1>3, <1>5 DEF RunInv

\* A step of a run that changes files: what depends on them is left to show.
LEMMA RunMovesFiles ==
  ASSUME CopiesInv, Copying!TypeOK', NEW r \in Callers, NEW to \in Copying!RunRecord,
         run' = [run EXCEPT ![r] = to],
         UNCHANGED <<item, backup, source, copies, since, starts>>, events \subseteq events',
         run[r].pc # "idle",
         to.pc \in Numbered => run[r].pc \in Numbered /\ to.n = run[r].n,
         to.pc \in Early => run[r].pc \in Early,
         to.todo \subseteq run[r].todo,
         RunInv(r)',
         \A q \in Callers : q # r => (events' = {} => FileOfRun(q)') /\ (Safe' => FileOfRun(q)'),
         Opened',
         events' = {} => \A c \in copies : WholeCopy(c)' \/ \E q \in Callers : run'[q].pc = "row" /\ run'[q].hand = c.n,
         Safe' => \A c \in copies : WholeCopy(c)' \/ Beaten(c)
  PROVE  CopiesInv'
<1>1. /\ run'[r] = to /\ \A q \in Callers : q # r => run'[q] = run[q]
      /\ StateInv
  BY RunBecomes DEF CopiesInv
<1>2. \A q \in Callers : RunInv(q)'
  BY <1>1, OtherRunFile DEF CopiesInv
<1>3. RowsNumbered' /\ SinceNow' /\ Settled'
  BY <1>1 DEF StateInv, RowsNumbered, SinceNow, Settled
<1>4. RunsApart'
  <2>. SUFFICES ASSUME NEW p \in Callers, NEW q \in Callers
                PROVE  /\ run'[p].pc \in Numbered /\ run'[q].pc \in Numbered /\ run'[p].n = run'[q].n => p = q
                       /\ run'[p].pc \in Early => run'[p].n \notin run'[q].todo
    BY DEF RunsApart
  <2>1. run'[p].pc \in Numbered => run[p].pc \in Numbered /\ run'[p].n = run[p].n
    BY <1>1
  <2>2. run'[q].pc \in Numbered => run[q].pc \in Numbered /\ run'[q].n = run[q].n
    BY <1>1
  <2>3. run'[p].pc \in Early => run[p].pc \in Early /\ run'[p].n = run[p].n
    BY <1>1, <2>1 DEF Early, Numbered
  <2>4. run'[q].todo \subseteq run[q].todo
    BY <1>1
  <2>. QED
    BY <1>1, <2>1, <2>2, <2>3, <2>4 DEF StateInv, RunsApart
<1>5. item' # "configuration" => Forward' /\ TopStays'
  BY <1>1 DEF StateInv, Forward, TopStays, UpTo, Top
<1>6. Calm'
  BY <1>1 DEF StateInv, Calm
<1>7. Apart'
  BY <1>1 DEF StateInv, Apart, Safe, Beaten
<1> QED
  BY <1>2, <1>3, <1>4, <1>5, <1>6, <1>7 DEF CopiesInv, StateInv

\* Who writes: nobody else has the file open, and nobody's file has its name.
LEMMA NamesApart ==
  ASSUME CopiesInv, NEW r \in Callers, run[r].pc \in Filing
  PROVE  /\ events = {} => \A q \in Callers : q # r => run[q].pc = "idle"
         /\ events = {} => \A c \in copies : c.name # run[r].name /\ WholeCopy(c)
         /\ Safe => \A q \in Callers : q # r /\ run[q].pc \in Filing => run[q].name # run[r].name
         /\ Safe => \A c \in copies : c.name # run[r].name
         /\ (events = {} \/ Safe) => \A f \in place : f.open \subseteq {r} \/ f.name # run[r].name
<1>1. StateInv /\ Copying!TypeOK
  BY DEF CopiesInv
<1>2. run[r].pc # "idle" /\ run[r].pc # "row"
  BY DEF Filing
<1>3. ASSUME events = {} PROVE \A q \in Callers : q # r => run[q].pc = "idle"
  BY <1>1, <1>2, <1>3 DEF StateInv, Calm
<1>4. ASSUME events = {} PROVE \A c \in copies : c.name # run[r].name /\ WholeCopy(c)
  <2>1. \A c \in copies : c.name # run[r].name
    BY <1>4, RunKnown DEF RunCalm
  <2>2. \A c \in copies : WholeCopy(c) \/ \E q \in Callers : run[q].pc = "row"
    BY <1>1, <1>4 DEF StateInv, Calm
  <2> QED
    BY <1>2, <1>3, <1>4, <2>1, <2>2
<1>5. ASSUME Safe, NEW q \in Callers, q # r, run[q].pc \in Filing PROVE run[q].name # run[r].name
  <2>1. run[q].name = Named(run[q].n) /\ run[r].name = Named(run[r].n)
    BY <1>5, RunKnown DEF RunApart
  <2>2. run[q].n # run[r].n
    BY <1>1, <1>5 DEF StateInv, RunsApart, Filing, Numbered
  <2> QED
    BY <2>1, <2>2 DEF Named
<1>6. ASSUME Safe, NEW c \in copies PROVE c.name # run[r].name
  <2>1. c.name = Named(c.n) /\ run[r].name = Named(run[r].n)
    BY <1>1, <1>6, RunKnown DEF RunApart, StateInv, Apart
  <2>2. c.n # run[r].n
    BY <1>1, <1>6, RunKnown DEF RunNumber, Filing, Early
  <2> QED
    BY <2>1, <2>2 DEF Named
<1>7. ASSUME events = {} \/ Safe, NEW f \in place PROVE f.open \subseteq {r} \/ f.name # run[r].name
  <2> SUFFICES ASSUME NEW q \in f.open, q # r PROVE f.name # run[r].name
    OBVIOUS
  <2>1. q \in Callers
    BY <1>1 DEF Copying!TypeOK, Copying!Files
  <2>2. run[q].pc = "created" /\ f.name = run[q].name
    BY <1>1, <2>1 DEF StateInv, Opened
  <2> QED
    BY <1>3, <1>5, <1>7, <2>1, <2>2 DEF Filing
<1> QED
  BY <1>3, <1>4, <1>5, <1>6, <1>7

\* A run that touches no file but its own harms nobody.
LEMMA OwnFileOnly ==
  ASSUME CopiesInv, NEW r \in Callers, run[r].pc \in Filing,
         \A q \in Callers : q # r => run'[q] = run[q],
         \A p : \A m : m # run[r].name => Copying!ByName(p, m)' = Copying!ByName(p, m),
         UNCHANGED <<item, backup, events>>
  PROVE  /\ \A q \in Callers : q # r => (events' = {} => FileOfRun(q)') /\ (Safe' => FileOfRun(q)')
         /\ events' = {} => \A c \in copies : WholeCopy(c)'
         /\ Safe' => \A c \in copies : WholeCopy(c)' \/ Beaten(c)
<1>1. /\ \A c \in copies : c.name # run[r].name => (WholeCopy(c)' <=> WholeCopy(c))
      /\ \A q \in Callers : q # r /\ run[q].name # run[r].name => (FileOfRun(q)' <=> FileOfRun(q))
  BY OtherFilesKept
<1>2. Safe' <=> Safe
  BY DEF Safe
<1>3. ASSUME NEW q \in Callers, q # r, events' = {} PROVE FileOfRun(q)'
  BY <1>3, NamesApart DEF FileOfRun
<1>4. ASSUME NEW q \in Callers, q # r, Safe' PROVE FileOfRun(q)'
  <2>1. CASE run[q].pc \in Filing
    BY <1>1, <1>2, <1>4, <2>1, NamesApart, RunKnown DEF RunApart
  <2>2. CASE run[q].pc \notin Filing
    BY <1>4, <2>2 DEF FileOfRun, Filing
  <2> QED
    BY <2>1, <2>2
<1>5. events' = {} => \A c \in copies : WholeCopy(c)'
  BY <1>1, NamesApart
<1>6. Safe' => \A c \in copies : WholeCopy(c)' \/ Beaten(c)
  BY <1>1, <1>2, NamesApart DEF CopiesInv, StateInv, Apart
<1> QED
  BY <1>3, <1>4, <1>5, <1>6

\* CreateFile: the file has a name no row and no other run has.
LEMMA CreateFileKeeps ==
  ASSUME CopiesInv, NEW r \in Callers, Copying!CreateFile(r)
  PROVE  CopiesInv'
<1> DEFINE there == Copying!ByName(run[r].to.place, run[r].name)
           open  == UNION {f.open : f \in there}
           new   == [place |-> run[r].to.place, name |-> run[r].name, key |-> run[r].to.key,
                     version |-> IF open = {} THEN 0 ELSE Torn, open |-> open \cup {r}]
           to    == [run[r] EXCEPT !.pc = "created"]
<1>1. /\ Copying!TypeOK /\ run[r] \in Copying!RunRecord /\ run \in [Callers -> Copying!RunRecord]
      /\ StateInv
  BY RunTyped DEF CopiesInv
<1>2. /\ run[r].pc = "named" /\ run' = [run EXCEPT ![r] = to] /\ place' = (place \ there) \cup {new}
      /\ UNCHANGED <<item, backup, source, backupStatus, copies, since, events, starts>>
  BY DEF Copying!CreateFile, Copying!others
<1>3. /\ to \in Copying!RunRecord /\ to.pc = "created" /\ to.n = run[r].n /\ to.seen = run[r].seen
      /\ to.todo = run[r].todo /\ to.hash = run[r].hash /\ to.own = run[r].own
      /\ to.to = run[r].to /\ to.name = run[r].name /\ to.got = run[r].got
  BY <1>1 DEF Copying!RunRecord
<1>4. there \subseteq place /\ \A f \in place : f \in there <=> f.place = run[r].to.place /\ f.name = run[r].name
  BY DEF Copying!ByName
<1>5. open \subseteq Callers
  BY <1>1, <1>4 DEF Copying!TypeOK, Copying!Files
<1>6. (events = {} \/ Safe) => open = {}
  <2>1. r \notin open
    BY <1>1, <1>2, <1>4 DEF StateInv, Opened
  <2>2. ASSUME events = {} \/ Safe, NEW f \in there PROVE f.open \subseteq {r}
    BY <1>2, <1>4, <2>2, NamesApart DEF Filing
  <2> QED
    BY <2>1, <2>2
<1>7. \A q \in open : \E f \in place : f \in there /\ q \in f.open
  BY <1>4
<1>8. new.place = run[r].to.place /\ new.name = run[r].name /\ new.key = run[r].to.key
      /\ new.version = (IF open = {} THEN 0 ELSE Torn) /\ new.open = open \cup {r}
  OBVIOUS
<1>9. run[r].to \in Copying!Settings /\ run[r].name \in Copying!Names
  BY <1>2, RunKnown DEF RunSettled, Filing
<1>10. new \in Copying!Files
  BY <1>5, <1>9 DEF Copying!Files, Copying!Settings
<1> HIDE DEF there, open, new, to
<1>11. run'[r] = to /\ \A q \in Callers : q # r => run'[q] = run[q]
  BY <1>1, <1>2, <1>3, RunBecomes
<1>12. Copying!TypeOK'
  BY <1>1, <1>2, <1>3, <1>10, RunBecomes DEF Copying!TypeOK
<1>13. \A p : \A m : m # run[r].name => Copying!ByName(p, m)' = Copying!ByName(p, m)
  BY <1>2, <1>4, <1>8 DEF Copying!ByName
<1>14. Copying!ByName(run[r].to.place, run[r].name)' = {new}
  BY <1>2, <1>3, <1>4, <1>8, <1>11 DEF Copying!ByName
<1>15. FileOfRun(r)' \/ (events # {} /\ ~Safe)
  <2>1. ASSUME events = {} \/ Safe PROVE FileOfRun(r)'
    <3>1. new.open = {r} /\ new.version # Torn
      BY <1>6, <1>8, <2>1, CopiesAssumption
    <3> QED
      BY <1>3, <1>8, <1>11, <1>14, <3>1 DEF FileOfRun
  <2> QED
    BY <2>1
<1>16. RunNumber(r)' /\ RunSeen(r)' /\ RunSettled(r)'
  BY <1>2, <1>3, <1>11, RunKnown DEF RunNumber, RunSeen, RunSettled, Numbered, Early, Hashed, Filing
<1>17. item' # "configuration" => RunForward(r)' /\ RunTop(r)'
  BY <1>2, <1>3, <1>11, RunKnown DEF RunForward, RunTop, UpTo, Filing, Behind, RunSeen, Beaten
<1>18. RunCalm(r)'
  BY <1>2, <1>3, <1>11, <1>15, RunKnown DEF RunCalm, Filing, Behind, Hashed
<1>19. RunApart(r)'
  BY <1>2, <1>3, <1>11, <1>15, RunKnown DEF RunApart, Filing, Safe
<1>20. RunInv(r)'
  BY <1>16, <1>17, <1>18, <1>19 DEF RunInv
<1>21. Opened'
  <2> SUFFICES ASSUME NEW f \in place', NEW q \in f.open
               PROVE  run'[q].pc = "created" /\ f.place = run'[q].to.place /\ f.name = run'[q].name
    BY DEF Opened
  <2>1. CASE f = new
    <3>1. q = r \/ q \in open
      BY <1>8, <2>1
    <3>2. CASE q = r
      BY <1>3, <1>8, <1>11, <2>1, <3>2
    <3>3. CASE q \in open /\ q # r
      <4>1. PICK g \in place : g \in there /\ q \in g.open
        BY <1>7, <3>3
      <4> QED
        BY <1>1, <1>4, <1>5, <1>8, <1>11, <2>1, <3>3, <4>1 DEF StateInv, Opened
    <3> QED
      BY <3>1, <3>2, <3>3
  <2>2. CASE f # new
    <3>1. f \in place /\ q \in Callers
      BY <1>1, <1>2, <2>2 DEF Copying!TypeOK, Copying!Files
    <3>2. run[q].pc = "created" /\ f.place = run[q].to.place /\ f.name = run[q].name
      BY <1>1, <3>1 DEF StateInv, Opened
    <3> QED
      BY <1>2, <1>11, <3>1, <3>2
  <2> QED
    BY <2>1, <2>2
<1> QED
  BY <1>2, <1>3, <1>11, <1>12, <1>13, <1>20, <1>21, OwnFileOnly, RunMovesFiles DEF Numbered, Early, Filing

\* WriteFile: into its own file, wherever that is open.
LEMMA WriteFileKeeps ==
  ASSUME CopiesInv, NEW r \in Callers, Copying!WriteFile(r)
  PROVE  CopiesInv'
<1> DEFINE W(f) == IF r \notin f.open THEN f
                   ELSE [f EXCEPT !.open = @ \ {r}, !.version = IF @ = Torn THEN Torn ELSE run[r].got]
           to   == [run[r] EXCEPT !.pc = "written"]
<1>1. /\ Copying!TypeOK /\ run[r] \in Copying!RunRecord /\ run \in [Callers -> Copying!RunRecord]
      /\ StateInv
  BY RunTyped DEF CopiesInv
<1>2. /\ run[r].pc = "created" /\ run' = [run EXCEPT ![r] = to] /\ place' = {W(f) : f \in place}
      /\ UNCHANGED <<item, backup, source, backupStatus, copies, since, events, starts>>
  BY DEF Copying!WriteFile, Copying!others
<1>3. /\ to \in Copying!RunRecord /\ to.pc = "written" /\ to.n = run[r].n /\ to.seen = run[r].seen
      /\ to.todo = run[r].todo /\ to.hash = run[r].hash /\ to.own = run[r].own
      /\ to.to = run[r].to /\ to.name = run[r].name /\ to.got = run[r].got
  BY <1>1 DEF Copying!RunRecord
<1>4. run[r].got \in Copying!Versions \cup {Torn}
  BY <1>2, RunKnown DEF RunSettled, Filing
<1>5. \A f \in place : W(f) \in Copying!Files
  BY <1>1, <1>4 DEF Copying!TypeOK, Copying!Files
<1>6. \A f \in place : W(f).place = f.place /\ W(f).name = f.name /\ W(f).key = f.key
        /\ W(f).open = f.open \ {r} /\ (r \notin f.open => W(f) = f)
        /\ (r \in f.open => W(f).version = IF f.version = Torn THEN Torn ELSE run[r].got)
  BY <1>1 DEF Copying!TypeOK, Copying!Files
<1>7. \A f \in place : r \in f.open => f.place = run[r].to.place /\ f.name = run[r].name
  BY <1>1 DEF StateInv, Opened
<1> HIDE DEF W, to
<1>8. run'[r] = to /\ \A q \in Callers : q # r => run'[q] = run[q]
  BY <1>1, <1>2, <1>3, RunBecomes
<1>9. Copying!TypeOK'
  BY <1>1, <1>2, <1>3, <1>5, RunBecomes DEF Copying!TypeOK
<1>10. \A p : \A m : m # run[r].name => Copying!ByName(p, m)' = Copying!ByName(p, m)
  <2> SUFFICES ASSUME NEW p, NEW m, m # run[r].name
               PROVE  Copying!ByName(p, m)' = Copying!ByName(p, m)
    OBVIOUS
  <2>1. Copying!ByName(p, m)' \subseteq Copying!ByName(p, m)
    BY <1>2, <1>6, <1>7 DEF Copying!ByName
  <2>2. ASSUME NEW f \in Copying!ByName(p, m) PROVE f \in Copying!ByName(p, m)'
    <3>1. f \in place /\ W(f) = f
      BY <1>6, <1>7 DEF Copying!ByName
    <3>2. f \in place'
      BY <1>2, <3>1
    <3> QED
      BY <3>2 DEF Copying!ByName
  <2> QED
    BY <2>1, <2>2
<1>11. FileOfRun(r) => FileOfRun(r)'
  <2> SUFFICES ASSUME FileOfRun(r), NEW g \in Copying!ByName(run[r].to.place, run[r].name)'
               PROVE  g.open = {} /\ g.key = run[r].to.key /\ g.version = run[r].got
    BY <1>3, <1>8 DEF FileOfRun
  <2>1. PICK f \in place : g = W(f)
    BY <1>2 DEF Copying!ByName
  <2>2. f \in Copying!ByName(run[r].to.place, run[r].name)
    BY <1>3, <1>6, <1>8, <2>1 DEF Copying!ByName
  <2>3. f.open = {r} /\ f.key = run[r].to.key /\ f.version # Torn
    BY <1>2, <2>2 DEF FileOfRun
  <2> QED
    BY <1>6, <2>1, <2>3
<1>12. RunNumber(r)' /\ RunSeen(r)' /\ RunSettled(r)'
  BY <1>2, <1>3, <1>8, RunKnown DEF RunNumber, RunSeen, RunSettled, Numbered, Early, Hashed, Filing
<1>13. item' # "configuration" => RunForward(r)' /\ RunTop(r)'
  BY <1>2, <1>3, <1>8, RunKnown DEF RunForward, RunTop, UpTo, Filing, Behind, RunSeen, Beaten
<1>14. RunCalm(r)'
  BY <1>2, <1>3, <1>8, <1>11, RunKnown DEF RunCalm, Filing, Behind, Hashed
<1>15. RunApart(r)'
  BY <1>2, <1>3, <1>8, <1>11, RunKnown DEF RunApart, Filing, Safe
<1>16. RunInv(r)'
  BY <1>12, <1>13, <1>14, <1>15 DEF RunInv
<1>17. Opened'
  <2> SUFFICES ASSUME NEW g \in place', NEW q \in g.open
               PROVE  run'[q].pc = "created" /\ g.place = run'[q].to.place /\ g.name = run'[q].name
    BY DEF Opened
  <2>1. PICK f \in place : g = W(f)
    BY <1>2
  <2>2. q \in f.open /\ q # r /\ g.place = f.place /\ g.name = f.name
    BY <1>6, <2>1
  <2>3. q \in Callers
    BY <1>1, <2>2 DEF Copying!TypeOK, Copying!Files
  <2> QED
    BY <1>1, <1>8, <2>2, <2>3 DEF StateInv, Opened
<1> QED
  BY <1>2, <1>3, <1>8, <1>9, <1>10, <1>16, <1>17, OwnFileOnly, RunMovesFiles DEF Numbered, Early, Filing

\* RemoveFile: its row is at hand, or beaten, and no other row or run has its name.
LEMMA RemoveFileKeeps ==
  ASSUME CopiesInv, NEW r \in Callers, Copying!RemoveFile(r)
  PROVE  CopiesInv'
<1>1. PICK n \in run[r].todo : \E c \in Copying!RowOf(n) :
        /\ Copying!FileOf(c) # {}
        /\ place' = place \ Copying!FileOf(c)
        /\ run' = [run EXCEPT ![r].pc = "row", ![r].hand = n]
  BY DEF Copying!RemoveFile
<1>2. PICK c \in copies :
        /\ c.n = n /\ backup # None /\ place' = place \ Copying!ByName(backup.place, c.name)
        /\ run' = [run EXCEPT ![r].pc = "row", ![r].hand = n]
  BY <1>1 DEF Copying!RowOf, Copying!FileOf
<1> DEFINE to == [run[r] EXCEPT !.pc = "row", !.hand = n]
<1>3. /\ Copying!TypeOK /\ run[r] \in Copying!RunRecord /\ run \in [Callers -> Copying!RunRecord]
      /\ StateInv /\ n \in 0..MaxStarts
  BY RunTyped DEF CopiesInv
<1>4. /\ run[r].pc = "removing" /\ run' = [run EXCEPT ![r] = to]
      /\ UNCHANGED <<item, backup, source, backupStatus, copies, since, events, starts>>
  BY <1>2 DEF Copying!RemoveFile, Copying!others
<1>5. /\ to \in Copying!RunRecord /\ to.pc = "row" /\ to.n = run[r].n /\ to.seen = run[r].seen
      /\ to.todo = run[r].todo /\ to.hash = run[r].hash /\ to.own = run[r].own /\ to.hand = n
  BY <1>3 DEF Copying!RunRecord
<1> HIDE DEF to
<1>6. run'[r] = to /\ \A q \in Callers : q # r => run'[q] = run[q]
  BY <1>3, <1>4, <1>5, RunBecomes
<1>7. Copying!TypeOK'
  BY <1>2, <1>3, <1>4, <1>5, RunBecomes DEF Copying!TypeOK
<1>8. \A p : \A m : m # c.name => Copying!ByName(p, m)' = Copying!ByName(p, m)
  BY <1>2 DEF Copying!ByName
<1>9. /\ \A d \in copies : d.name # c.name => (WholeCopy(d)' <=> WholeCopy(d))
      /\ \A q \in Callers : q # r /\ run[q].name # c.name => (FileOfRun(q)' <=> FileOfRun(q))
  BY <1>4, <1>6, <1>8, OtherFilesKept
<1>10. Safe' <=> Safe
  BY <1>4 DEF Safe
<1>11. RunNumber(r)' /\ RunSeen(r)' /\ RunSettled(r)'
  BY <1>2, <1>4, <1>5, <1>6, RunKnown DEF RunNumber, RunSeen, RunSettled, Numbered, Early, Hashed, Filing
<1>12. item' # "configuration" => RunForward(r)' /\ RunTop(r)'
  BY <1>4, <1>5, <1>6, RunKnown DEF RunForward, RunTop, UpTo, Filing, Behind, RunSeen, Beaten
<1>13. RunCalm(r)' /\ RunApart(r)'
  BY <1>4, <1>5, <1>6, RunKnown DEF RunCalm, RunApart, FileOfRun, Filing, Behind, Hashed
<1>14. RunInv(r)'
  BY <1>11, <1>12, <1>13 DEF RunInv
<1>15. Opened'
  <2> SUFFICES ASSUME NEW f \in place', NEW q \in f.open
               PROVE  run'[q].pc = "created" /\ f.place = run'[q].to.place /\ f.name = run'[q].name
    BY DEF Opened
  <2>1. f \in place /\ q \in Callers
    BY <1>2, <1>3 DEF Copying!TypeOK, Copying!Files
  <2>2. run[q].pc = "created" /\ f.place = run[q].to.place /\ f.name = run[q].name
    BY <1>3, <2>1 DEF StateInv, Opened
  <2> QED
    BY <1>4, <1>6, <2>1, <2>2
<1>16. ASSUME NEW q \in Callers, q # r, events' = {} PROVE FileOfRun(q)'
  <2>1. run[q].pc = "idle"
    BY <1>3, <1>4, <1>16 DEF StateInv, Calm
  <2> QED
    BY <1>6, <1>16, <2>1 DEF FileOfRun
<1>17. ASSUME NEW q \in Callers, q # r, Safe' PROVE FileOfRun(q)'
  <2>1. CASE run[q].pc \in Filing
    <3>1. run[q].name = Named(run[q].n) /\ c.name = Named(c.n) /\ FileOfRun(q)
      BY <1>3, <1>10, <1>17, <2>1, RunKnown DEF RunApart, StateInv, Apart
    <3>2. c.n # run[q].n
      BY <2>1, RunKnown DEF RunNumber, Filing, Early
    <3>3. run[q].name # c.name
      BY <3>1, <3>2 DEF Named
    <3> QED
      BY <1>9, <1>17, <3>1, <3>3
  <2>2. CASE run[q].pc \notin Filing
    BY <1>6, <1>17, <2>2 DEF FileOfRun, Filing
  <2> QED
    BY <2>1, <2>2
<1>18. ASSUME events' = {}, NEW d \in copies
       PROVE  WholeCopy(d)' \/ \E q \in Callers : run'[q].pc = "row" /\ run'[q].hand = d.n
  <2>1. CASE d = c
    BY <1>2, <1>5, <1>6, <2>1
  <2>2. CASE d # c
    <3>1. d.name # c.name /\ \A q \in Callers : run[q].pc # "row"
      BY <1>3, <1>4, <1>18, <2>2 DEF StateInv, Calm
    <3>2. WholeCopy(d)
      BY <1>3, <1>4, <1>18, <3>1 DEF StateInv, Calm
    <3> QED
      BY <1>9, <3>1, <3>2
  <2> QED
    BY <2>1, <2>2
<1>19. ASSUME Safe', NEW d \in copies PROVE WholeCopy(d)' \/ Beaten(d)
  <2>1. CASE d = c
    BY <1>2, <1>10, <1>19, <2>1, RunKnown DEF RunTop, Safe
  <2>2. CASE d # c
    <3>1. d.name = Named(d.n) /\ c.name = Named(c.n) /\ (WholeCopy(d) \/ Beaten(d))
      BY <1>3, <1>10, <1>19 DEF StateInv, Apart
    <3>2. d.n # c.n
      BY <1>3, <2>2 DEF StateInv, RowsNumbered
    <3>3. d.name # c.name
      BY <3>1, <3>2 DEF Named
    <3> QED
      BY <1>9, <3>1, <3>3
  <2> QED
    BY <2>1, <2>2
<1> QED
  BY <1>3, <1>4, <1>5, <1>7, <1>14, <1>15, <1>16, <1>17, <1>18, <1>19, RunMovesFiles DEF Numbered, Early

\* AddRow: the new row has the number of a run, is added after all, and has a file.
LEMMA AddRowKeeps ==
  ASSUME CopiesInv, NEW r \in Callers, Copying!AddRow(r)
  PROVE  CopiesInv'
<1>1. PICK k \in 1..MaxStarts :
        /\ Copying!Latest(k)
        /\ copies' = copies \cup
             {[n |-> run[r].n, hash |-> run[r].hash, name |-> run[r].name, added |-> k,
               old |-> FALSE, raced |-> run[r].got # run[r].hash]}
  BY DEF Copying!AddRow
<1> DEFINE added == [n |-> run[r].n, hash |-> run[r].hash, name |-> run[r].name, added |-> k,
                     old |-> FALSE, raced |-> run[r].got # run[r].hash]
           to    == [run[r] EXCEPT !.pc = "retain", !.own = run[r].n, !.got = None, !.to = None, !.name = None]
<1>2. /\ Copying!TypeOK /\ run[r] \in Copying!RunRecord /\ run \in [Callers -> Copying!RunRecord]
      /\ StateInv /\ run[r].n \in 0..MaxStarts
  BY RunTyped DEF CopiesInv
<1>3. run' = [run EXCEPT ![r] = to]
  BY DEF Copying!AddRow
<1>4. /\ run[r].pc = "written" /\ backup # None
      /\ Copying!ByName(run[r].to.place, run[r].name) # {}
      /\ \A c \in copies : c.added < k
      /\ UNCHANGED <<item, backup, source, backupStatus, place, since, events, starts>>
  BY <1>1 DEF Copying!AddRow, Copying!others, Copying!Latest
<1>5. /\ to \in Copying!RunRecord /\ to.pc = "retain" /\ to.n = run[r].n /\ to.seen = run[r].seen
      /\ to.todo = run[r].todo /\ to.hash = run[r].hash /\ to.own = run[r].n
  BY <1>2 DEF Copying!RunRecord
<1>6. /\ run[r].n \in 1..starts /\ (\A c \in copies : c.n # run[r].n) /\ run[r].todo = {}
      /\ run[r].hash \in run[r].seen /\ run[r].hash \in Copying!Versions
      /\ run[r].to \in Copying!Settings /\ run[r].name \in Copying!Names
      /\ run[r].got \in Copying!Versions \cup {Torn}
      /\ ("updated" \notin events => run[r].to = backup)
  BY <1>4, RunKnown, RunTyped DEF CopiesInv, RunNumber, RunSeen, RunSettled, Early, Numbered, Hashed, Filing,
     Copying!Versions
<1>7. PICK new :
        /\ new = added
        /\ new.n = run[r].n /\ new.hash = run[r].hash /\ new.name = run[r].name /\ new.added = k
        /\ new.old = FALSE /\ (~new.raced => run[r].got = run[r].hash)
        /\ copies' = copies \cup {new} /\ new \notin copies
  <2>1. /\ added.n = run[r].n /\ added.hash = run[r].hash /\ added.name = run[r].name /\ added.added = k
        /\ added.old = FALSE /\ (~added.raced => run[r].got = run[r].hash)
    OBVIOUS
  <2>2. copies' = copies \cup {added}
    BY <1>1
  <2> HIDE DEF added
  <2>3. added \notin copies
    BY <1>6, <2>1
  <2> QED
    BY <2>1, <2>2, <2>3
<1>8. k \in 0..MaxStarts /\ 0..MaxStarts \subseteq Nat /\ starts \in 0..MaxStarts
  BY <1>2, CopiesAssumption DEF Copying!TypeOK
<1>9. new \in Copying!Rows
  BY <1>2, <1>6, <1>7, <1>8 DEF Copying!Rows
<1> HIDE DEF added, to
<1>10. run'[r] = to /\ \A q \in Callers : q # r => run'[q] = run[q]
  BY <1>2, <1>3, <1>5, RunBecomes
<1>11. Copying!TypeOK'
  BY <1>2, <1>3, <1>4, <1>5, <1>7, <1>9, RunBecomes DEF Copying!TypeOK
<1>12. \A x \in copies : Beaten(x) => Beaten(x)'
  BY <1>7 DEF Beaten
<1>13. \A c \in copies : WholeCopy(c)' <=> WholeCopy(c)
  BY <1>4 DEF WholeCopy, Copying!ByName
<1>14. FileOfRun(r) /\ "updated" \notin events => WholeCopy(new)'
  BY <1>4, <1>6, <1>7 DEF FileOfRun, WholeCopy, Copying!ByName
<1>15. Safe' <=> Safe
  BY <1>4 DEF Safe
<1>16. RowsNumbered'
  <2>1. \A c \in copies' : c.n <= starts
    BY <1>2, <1>6, <1>7 DEF StateInv, RowsNumbered
  <2>2. \A c \in copies : c.added \in Nat
    BY <1>2, <1>8 DEF Copying!TypeOK, Copying!Rows
  <2>3. \A c \in copies : c.added # new.added
    BY <1>4, <1>7, <1>8, <2>2
  <2>4. \A c, d \in copies' : c.n = d.n \/ c.added = d.added => c = d
    BY <1>2, <1>6, <1>7, <2>3 DEF StateInv, RowsNumbered
  <2> QED
    BY <1>4, <2>1, <2>4 DEF RowsNumbered
<1>17. RunsApart'
  <2> SUFFICES ASSUME NEW p \in Callers, NEW q \in Callers
               PROVE  /\ run'[p].pc \in Numbered /\ run'[q].pc \in Numbered /\ run'[p].n = run'[q].n => p = q
                      /\ run'[p].pc \in Early => run'[p].n \notin run'[q].todo
    BY DEF RunsApart
  <2>1. run'[p].pc \in Numbered => run[p].pc \in Numbered /\ run'[p].n = run[p].n
    BY <1>4, <1>5, <1>10 DEF Numbered
  <2>2. run'[q].pc \in Numbered => run[q].pc \in Numbered /\ run'[q].n = run[q].n
    BY <1>4, <1>5, <1>10 DEF Numbered
  <2>3. run'[p].pc \in Early => run[p].pc \in Early /\ run'[p].n = run[p].n
    BY <1>5, <1>10 DEF Early
  <2>4. run'[q].todo = run[q].todo
    BY <1>5, <1>10
  <2> QED
    BY <1>2, <2>1, <2>2, <2>3, <2>4 DEF StateInv, RunsApart
<1>18. Opened'
  <2>1. \A f \in place : \A q \in f.open : q \in Callers /\ run[q].pc = "created"
    BY <1>2 DEF StateInv, Opened, Copying!TypeOK, Copying!Files
  <2> QED
    BY <1>2, <1>4, <1>10, <2>1 DEF StateInv, Opened
<1>19. SinceNow' /\ Settled'
  BY <1>2, <1>4 DEF StateInv, SinceNow, Settled
<1>20. ASSUME item' # "configuration" PROVE Forward' /\ TopStays'
  <2>1. run[r].hash <= source
    BY <1>4, <1>6, <1>20, RunKnown DEF RunForward, UpTo
  <2>2. Forward'
    BY <1>2, <1>4, <1>7, <1>20, <2>1 DEF StateInv, Forward, UpTo
  <2>3. \A x \in copies' : x.hash \in Nat /\ x.added \in Nat
    BY <1>8, <1>11 DEF Copying!TypeOK, Copying!Rows, Copying!Versions
  <2>4. since' # {} => \E c \in copies' : c.hash \in since'
    BY <1>2, <1>4, <1>7, <1>20 DEF StateInv, TopStays
  <2>5. CASE copies = {}
    <3>1. Top(new)'
      BY <1>7, <2>5 DEF Top
    <3> QED
      BY <1>7, <2>2, <2>4, <3>1 DEF TopStays
  <2>6. CASE copies # {}
    <3>1. PICK t \in copies : Top(t)
      BY <1>2, <1>4, <1>20, <2>6 DEF StateInv, TopStays
    <3>2. t.added < new.added
      BY <1>4, <1>7
    <3>3. CASE t.hash <= new.hash
      <4>1. Under(t, new)
        BY <1>7, <2>3, <3>2, <3>3 DEF Under
      <4>2. ASSUME NEW x \in copies PROVE Under(x, new)
        <5>1. x = t \/ Under(x, t)
          BY <3>1 DEF Top
        <5>2. x \in copies' /\ t \in copies' /\ new \in copies'
          BY <1>7
        <5> QED
          BY <2>3, <4>1, <5>1, <5>2 DEF Under
      <4>3. Top(new)'
        BY <1>7, <4>2 DEF Top
      <4> QED
        BY <1>7, <2>2, <2>4, <4>3 DEF TopStays
    <3>4. CASE ~(t.hash <= new.hash)
      <4>1. Under(new, t)
        BY <1>7, <2>3, <3>4 DEF Under
      <4>2. Top(t)'
        BY <1>7, <3>1, <4>1 DEF Top
      <4> QED
        BY <1>7, <2>2, <2>4, <4>2 DEF TopStays
    <3> QED
      BY <3>3, <3>4
  <2> QED
    BY <2>2, <2>5, <2>6
<1>21. Calm'
  <2> SUFFICES ASSUME events = {}
               PROVE  /\ \A p, q \in Callers : run'[p].pc # "idle" /\ run'[q].pc # "idle" => p = q
                      /\ \A c, d \in copies' : c.name = d.name => c = d
                      /\ \A c \in copies' : c.name.id => c.name.n = c.n
                      /\ \A c \in copies' : WholeCopy(c)'
                      /\ since # {} => \E c \in copies' : c.hash \in since
    BY <1>4 DEF Calm
  <2>1. \A p, q \in Callers : run[p].pc # "idle" /\ run[q].pc # "idle" => p = q
    BY <1>2 DEF StateInv, Calm
  <2>2. \A p, q \in Callers : run'[p].pc # "idle" /\ run'[q].pc # "idle" => p = q
    BY <1>4, <1>10, <2>1
  <2>3. \A c \in copies : c.name # run[r].name /\ WholeCopy(c)
    BY <1>4, NamesApart DEF Filing
  <2>4. (run[r].name.id => run[r].name.n = run[r].n) /\ FileOfRun(r)
    BY <1>4, RunKnown DEF RunCalm, Filing
  <2>5. \A c, d \in copies' : c.name = d.name => c = d
    BY <1>2, <1>7, <2>3 DEF StateInv, Calm
  <2>6. \A c \in copies' : c.name.id => c.name.n = c.n
    BY <1>2, <1>7, <2>4 DEF StateInv, Calm
  <2>7. \A c \in copies' : WholeCopy(c)'
    BY <1>7, <1>13, <1>14, <2>3, <2>4
  <2>8. since # {} => \E c \in copies' : c.hash \in since
    BY <1>2, <1>7 DEF StateInv, Calm
  <2> QED
    BY <2>2, <2>5, <2>6, <2>7, <2>8
<1>22. Apart'
  <2> SUFFICES ASSUME Safe, NEW c \in copies'
               PROVE  c.name = Named(c.n) /\ (WholeCopy(c)' \/ Beaten(c)')
    BY <1>15 DEF Apart
  <2>1. CASE c \in copies
    BY <1>2, <1>12, <1>13, <2>1 DEF StateInv, Apart
  <2>2. CASE c = new
    <3>1. run[r].name = Named(run[r].n) /\ FileOfRun(r)
      BY <1>4, RunKnown DEF RunApart, Filing
    <3> QED
      BY <1>7, <1>14, <2>2, <3>1 DEF Safe
  <2> QED
    BY <1>7, <2>1, <2>2
<1>23. RunInv(r)'
  <2>1. RunNumber(r)' /\ RunSeen(r)' /\ RunSettled(r)'
    BY <1>4, <1>5, <1>6, <1>10, RunKnown DEF RunNumber, RunSeen, RunSettled, Numbered, Early, Hashed, Filing
  <2>2. ASSUME item' # "configuration" PROVE RunForward(r)' /\ RunTop(r)'
    <3>1. RunForward(r)'
      BY <1>4, <1>5, <1>10, <2>2, RunKnown DEF RunForward, UpTo
    <3>2. \A x \in copies' : x.old => x \in copies /\ x.hash < new.hash
      BY <1>4, <1>7, <2>2, RunKnown DEF RunTop, Filing
    <3>3. \A x \in copies' : x.old => Beaten(x)'
      BY <1>7, <3>2 DEF Beaten, Under
    <3>4. new \in copies' /\ new.hash \in run[r].seen
      BY <1>6, <1>7
    <3> QED
      BY <1>5, <1>6, <1>10, <3>1, <3>3, <3>4 DEF RunTop, Filing, Behind
  <2>3. RunCalm(r)'
    BY <1>4, <1>5, <1>6, <1>7, <1>10, RunKnown DEF RunCalm, Filing, Behind, Hashed, FileOfRun
  <2>4. RunApart(r)'
    BY <1>5, <1>10 DEF RunApart, Filing, FileOfRun
  <2> QED
    BY <2>1, <2>2, <2>3, <2>4 DEF RunInv
<1>24. ASSUME NEW q \in Callers, q # r PROVE RunInv(q)'
  <2>1. run'[q] = run[q] /\ run[r].n \notin run[q].todo
    BY <1>2, <1>4, <1>10, <1>24 DEF StateInv, RunsApart, Early
  <2>2. run[q].pc \in Early => run[r].n # run[q].n
    BY <1>2, <1>4, <1>24 DEF StateInv, RunsApart, Early, Numbered
  <2>3. RunNumber(q)' /\ RunSeen(q)' /\ RunSettled(q)'
    BY <1>4, <1>7, <2>1, <2>2, RunKnown DEF RunNumber, RunSeen, RunSettled
  <2>4. ASSUME item' # "configuration" PROVE RunForward(q)' /\ RunTop(q)'
    <3>1. RunForward(q) /\ RunTop(q)
      BY <1>4, <2>4, RunKnown
    <3>2. RunForward(q)'
      BY <1>4, <2>1, <3>1 DEF RunForward, UpTo
    <3>3. RunTop(q)'
      BY <1>4, <1>7, <1>12, <2>1, <3>1 DEF RunTop
    <3> QED
      BY <3>2, <3>3
  <2>5. events = {} => run[q].pc = "idle"
    BY <1>2, <1>4, <1>24 DEF StateInv, Calm
  <2>6. RunCalm(q)'
    BY <1>4, <2>1, <2>5 DEF RunCalm, FileOfRun, Filing, Behind, Hashed
  <2>7. FileOfRun(q)' <=> FileOfRun(q)
    BY <1>4, <2>1 DEF FileOfRun, Copying!ByName
  <2>8. RunApart(q)'
    BY <1>15, <2>1, <2>7, RunKnown DEF RunApart
  <2> QED
    BY <2>3, <2>4, <2>6, <2>8 DEF RunInv
<1> QED
  BY <1>11, <1>16, <1>17, <1>18, <1>19, <1>20, <1>21, <1>22, <1>23, <1>24 DEF CopiesInv, StateInv

\* The top row is beaten by none, and beats those that are.
LEMMA TopBeats ==
  ASSUME Copying!TypeOK, NEW t \in copies, Top(t)
  PROVE  ~Beaten(t) /\ \A x \in copies : x = t \/ Under(x, t)
<1>1. \A x \in copies : x.hash \in Nat /\ x.added \in Nat
  BY CopiesAssumption DEF Copying!TypeOK, Copying!Rows, Copying!Versions
<1>2. \A y \in copies : ~Under(t, y)
  BY <1>1 DEF Top, Under
<1> QED
  BY <1>2 DEF Beaten, Top

\* Whatever holds a version of some row, and goes on, holds that of the top row.
LEMMA TopLatest ==
  ASSUME Copying!TypeOK, NEW t \in copies, Top(t), t.hash <= source,
         NEW S, UpTo(S), \E c \in copies : c.hash \in S
  PROVE  t.hash \in S
<1>1. \A x \in copies : x.hash \in Nat
  BY CopiesAssumption DEF Copying!TypeOK, Copying!Rows, Copying!Versions
<1>2. PICK c \in copies : c.hash \in S
  OBVIOUS
<1>3. c.hash <= t.hash
  BY <1>1 DEF Top, Under
<1>4. source \in Nat
  BY CopiesAssumption DEF Copying!TypeOK, Copying!Versions
<1>5. t.hash \in c.hash..source
  BY <1>1, <1>3, <1>4
<1> QED
  BY <1>2, <1>5 DEF UpTo

\* RemoveRow: the row is beaten, so the top row stays.
LEMMA RemoveRowKeeps ==
  ASSUME CopiesInv, NEW r \in Callers, Copying!RemoveRow(r)
  PROVE  CopiesInv'
<1> DEFINE to == [run[r] EXCEPT !.pc = "removing", !.todo = @ \ {run[r].hand}, !.hand = 0]
<1>1. /\ Copying!TypeOK /\ run[r] \in Copying!RunRecord /\ run \in [Callers -> Copying!RunRecord]
      /\ StateInv /\ 0 \in 0..MaxStarts
  BY RunTyped, CopiesAssumption DEF CopiesInv
<1>2. /\ run[r].pc = "row" /\ run' = [run EXCEPT ![r] = to]
      /\ copies' = copies \ {c \in copies : c.n = run[r].hand}
      /\ UNCHANGED <<item, backup, source, backupStatus, place, since, events, starts>>
  BY DEF Copying!RemoveRow, Copying!RowOf, Copying!others
<1>3. /\ to \in Copying!RunRecord /\ to.pc = "removing" /\ to.n = run[r].n /\ to.seen = run[r].seen
      /\ to.todo = run[r].todo \ {run[r].hand} /\ to.hash = run[r].hash /\ to.own = run[r].own
  BY <1>1 DEF Copying!RunRecord
<1>4. run[r].hand \in run[r].todo
  BY <1>2, RunKnown DEF RunSeen
<1> HIDE DEF to
<1>5. run'[r] = to /\ \A q \in Callers : q # r => run'[q] = run[q]
  BY <1>1, <1>2, <1>3, RunBecomes
<1>6. Copying!TypeOK'
  BY <1>1, <1>2, <1>3, RunBecomes DEF Copying!TypeOK
<1>7. \A c \in copies : WholeCopy(c)' <=> WholeCopy(c)
  BY <1>2 DEF WholeCopy, Copying!ByName
<1>9. ASSUME NEW q \in Callers PROVE FileOfRun(q) => FileOfRun(q)'
  BY <1>2, <1>3, <1>5 DEF FileOfRun, Copying!ByName
<1>10. Safe' <=> Safe
  BY <1>2 DEF Safe
<1>11. RowsNumbered' /\ SinceNow' /\ Settled'
  BY <1>1, <1>2 DEF StateInv, RowsNumbered, SinceNow, Settled
<1>12. RunsApart'
  <2> SUFFICES ASSUME NEW p \in Callers, NEW q \in Callers
               PROVE  /\ run'[p].pc \in Numbered /\ run'[q].pc \in Numbered /\ run'[p].n = run'[q].n => p = q
                      /\ run'[p].pc \in Early => run'[p].n \notin run'[q].todo
    BY DEF RunsApart
  <2>1. run'[p].pc \in Numbered => run[p].pc \in Numbered /\ run'[p].n = run[p].n
    BY <1>2, <1>3, <1>5 DEF Numbered
  <2>2. run'[q].pc \in Numbered => run[q].pc \in Numbered /\ run'[q].n = run[q].n
    BY <1>2, <1>3, <1>5 DEF Numbered
  <2>3. run'[p].pc \in Early => run[p].pc \in Early /\ run'[p].n = run[p].n
    BY <1>3, <1>5 DEF Early
  <2>4. run'[q].todo \subseteq run[q].todo
    BY <1>3, <1>5
  <2> QED
    BY <1>1, <2>1, <2>2, <2>3, <2>4 DEF StateInv, RunsApart
<1>13. Opened'
  <2>1. \A f \in place : \A q \in f.open : q \in Callers /\ run[q].pc = "created"
    BY <1>1 DEF StateInv, Opened, Copying!TypeOK, Copying!Files
  <2> QED
    BY <1>1, <1>2, <1>5, <2>1 DEF StateInv, Opened
<1>14. ASSUME item # "configuration", copies # {}
       PROVE  \E t \in copies' :
                /\ t \in copies /\ Top(t) /\ t.hash <= source
                /\ \A x \in copies : Beaten(x) => Under(x, t)
  <2>1. PICK t \in copies : Top(t)
    BY <1>1, <1>14 DEF StateInv, TopStays
  <2>2. ~Beaten(t) /\ \A x \in copies : x = t \/ Under(x, t)
    BY <1>1, <2>1, TopBeats
  <2>3. t.n # run[r].hand
    BY <1>4, <1>14, <2>2, RunKnown DEF RunTop
  <2>4. t \in copies' /\ t.hash <= source
    BY <1>1, <1>2, <1>14, <2>3 DEF StateInv, Forward
  <2> QED
    BY <2>1, <2>2, <2>4
<1>15. item # "configuration" => \A x \in copies' : Beaten(x) => Beaten(x)'
  BY <1>2, <1>14 DEF Beaten
<1>16. ASSUME item # "configuration", NEW S, UpTo(S), \E c \in copies : c.hash \in S
       PROVE  \E c \in copies' : c.hash \in S
  BY <1>1, <1>14, <1>16, TopLatest
<1>17. ASSUME item' # "configuration" PROVE Forward' /\ TopStays'
  <2>1. Forward'
    BY <1>1, <1>2, <1>17 DEF StateInv, Forward, UpTo
  <2>2. since # {} => \E c \in copies' : c.hash \in since
    BY <1>1, <1>2, <1>16, <1>17 DEF StateInv, Forward, TopStays
  <2>3. ASSUME copies' # {} PROVE \E t \in copies' : \A x \in copies' : x = t \/ Under(x, t)
    BY <1>2, <1>14, <1>17, <2>3 DEF Top
  <2> QED
    BY <1>2, <2>1, <2>2, <2>3 DEF TopStays, Top
<1>18. ASSUME events = {}
       PROVE  /\ \A p, q \in Callers : run[p].pc # "idle" /\ run[q].pc # "idle" => p = q
              /\ run[r].pc # "idle"
              /\ \E o \in copies' : o.n = run[r].own /\ o.hash = run[r].hash
              /\ since # {} => run[r].hash \in since
  <2>1. \A p, q \in Callers : run[p].pc # "idle" /\ run[q].pc # "idle" => p = q
    BY <1>1, <1>18 DEF StateInv, Calm
  <2>2. PICK o \in copies : o.n = run[r].own /\ o.hash = run[r].hash
    BY <1>2, <1>18, RunKnown DEF RunCalm, Behind
  <2>3. run[r].own # run[r].hand
    BY <1>2, <1>4, <1>18, RunKnown DEF RunCalm, Behind
  <2>4. since # {} => run[r].hash \in since
    BY <1>2, <1>18, RunKnown DEF RunCalm, Hashed
  <2> QED
    BY <1>2, <2>1, <2>2, <2>3, <2>4
<1>19. Calm'
  <2> SUFFICES ASSUME events = {}
               PROVE  /\ \A p, q \in Callers : run'[p].pc # "idle" /\ run'[q].pc # "idle" => p = q
                      /\ \A c, d \in copies' : c.name = d.name => c = d
                      /\ \A c \in copies' : c.name.id => c.name.n = c.n
                      /\ \A c \in copies' : WholeCopy(c)'
                      /\ since # {} => \E c \in copies' : c.hash \in since
    BY <1>2 DEF Calm
  <2>1. \A p, q \in Callers : run'[p].pc # "idle" /\ run'[q].pc # "idle" => p = q
    BY <1>5, <1>18
  <2>2. \A c \in copies' : c \in copies /\ c.n # run[r].hand
    BY <1>2
  <2>3. \A c \in copies : WholeCopy(c) \/ c.n = run[r].hand
    BY <1>1, <1>18 DEF StateInv, Calm
  <2>4. \A c, d \in copies' : c.name = d.name => c = d
    BY <1>1, <2>2 DEF StateInv, Calm
  <2>5. \A c \in copies' : c.name.id => c.name.n = c.n
    BY <1>1, <2>2 DEF StateInv, Calm
  <2> QED
    BY <1>7, <1>18, <2>1, <2>2, <2>3, <2>4, <2>5
<1>20. Apart'
  <2> SUFFICES ASSUME Safe, NEW c \in copies'
               PROVE  c.name = Named(c.n) /\ (WholeCopy(c)' \/ Beaten(c)')
    BY <1>10 DEF Apart
  <2> QED
    BY <1>1, <1>2, <1>7, <1>15 DEF StateInv, Apart, Safe
<1>21. ASSUME NEW q \in Callers PROVE RunInv(q)'
  <2>1. RunNumber(q)' /\ RunSeen(q)' /\ RunSettled(q)'
    BY <1>2, <1>3, <1>5, RunKnown DEF RunNumber, RunSeen, RunSettled, Numbered, Early, Hashed, Filing
  <2>2. ASSUME item' # "configuration" PROVE RunForward(q)' /\ RunTop(q)'
    <3>1. RunForward(q) /\ RunTop(q)
      BY <1>2, <2>2, RunKnown
    <3>2. RunForward(q)'
      BY <1>2, <1>3, <1>5, <3>1 DEF RunForward, UpTo
    <3>3. run[q].pc \in Behind => \E c \in copies' : c.hash \in run[q].seen
      BY <1>2, <1>16, <2>2, <3>1 DEF RunForward, RunTop
    <3>4. \A x \in copies' : x.n \in run'[q].todo => Beaten(x)'
      BY <1>2, <1>3, <1>5, <1>15, <2>2, <3>1 DEF RunTop
    <3>5. CASE q # r
      <4>1. run'[q] = run[q]
        BY <1>5, <3>5
      <4>2. run[q].pc = "retain" => \A x \in copies' : x.old /\ x.n # run[q].own => Beaten(x)'
        BY <1>2, <1>15, <2>2, <3>1 DEF RunTop
      <4>3. /\ run[q].pc = "look" => \A x \in copies' : x.old => x.hash <= run[q].hash
            /\ run[q].pc \in {"reading"} \cup Filing => \A x \in copies' : x.old => x.hash < run[q].hash
        BY <1>2, <3>1 DEF RunTop
      <4> QED
        BY <3>2, <3>3, <3>4, <4>1, <4>2, <4>3 DEF RunTop
    <3>6. CASE q = r
      BY <1>2, <1>3, <1>5, <3>2, <3>3, <3>4, <3>6 DEF RunTop, Filing, Behind
    <3> QED
      BY <3>5, <3>6
  <2>3. RunCalm(q)'
    <3> SUFFICES ASSUME events = {} PROVE RunCalm(q)'
      BY <1>2 DEF RunCalm
    <3>1. CASE q # r
      BY <1>5, <1>18, <3>1 DEF RunCalm, FileOfRun, Filing, Behind, Hashed
    <3>2. CASE q = r
      BY <1>2, <1>3, <1>5, <1>18, <3>2, RunKnown DEF RunCalm, FileOfRun, Filing, Behind, Hashed
    <3> QED
      BY <3>1, <3>2
  <2>4. RunApart(q)'
    BY <1>3, <1>5, <1>9, <1>10, RunKnown DEF RunApart, Filing
  <2> QED
    BY <2>1, <2>2, <2>3, <2>4 DEF RunInv
<1> QED
  BY <1>6, <1>11, <1>12, <1>13, <1>17, <1>19, <1>20, <1>21 DEF CopiesInv, StateInv

\* FinishItem: what the run saw is what was since.
LEMMA FinishItemKeeps ==
  ASSUME CopiesInv, NEW r \in Callers, Copying!FinishItem(r)
  PROVE  CopiesInv'
<1> DEFINE to == [Copying!NoRun EXCEPT !.pc = "rest"]
<1>1. /\ Copying!TypeOK /\ run[r] \in Copying!RunRecord /\ run \in [Callers -> Copying!RunRecord]
      /\ StateInv /\ 0 \in 0..MaxStarts /\ run[r].seen \in SUBSET Copying!Versions
  BY RunTyped, CopiesAssumption DEF CopiesInv, Copying!Versions
<1>2. /\ run[r].pc = "removing" /\ run' = [run EXCEPT ![r] = to] /\ since' = run[r].seen
      /\ UNCHANGED <<item, backup, source, backupStatus, copies, place, events, starts>>
  BY DEF Copying!FinishItem, Copying!others
<1>3. /\ to \in Copying!RunRecord /\ to.pc = "rest" /\ to.seen = {} /\ to.todo = {}
  BY <1>1 DEF Copying!RunRecord, Copying!NoRun
<1> HIDE DEF to
<1>4. run'[r] = to /\ \A q \in Callers : q # r => run'[q] = run[q]
  BY <1>1, <1>2, <1>3, RunBecomes
<1>5. Copying!TypeOK'
  BY <1>1, <1>2, <1>3, RunBecomes DEF Copying!TypeOK
<1>6. source \in run[r].seen /\ run[r].hash \in run[r].seen
  BY <1>2, RunKnown DEF RunSeen, Hashed
<1>7. RowsNumbered' /\ SinceNow' /\ Settled'
  BY <1>1, <1>2, <1>6 DEF StateInv, RowsNumbered, SinceNow, Settled
<1>8. RunsApart'
  <2> SUFFICES ASSUME NEW p \in Callers, NEW q \in Callers
               PROVE  /\ run'[p].pc \in Numbered /\ run'[q].pc \in Numbered /\ run'[p].n = run'[q].n => p = q
                      /\ run'[p].pc \in Early => run'[p].n \notin run'[q].todo
    BY DEF RunsApart
  <2>1. run'[p].pc \in Numbered \cup Early => run'[p] = run[p]
    BY <1>3, <1>4 DEF Numbered, Early
  <2>2. run'[q].pc \in Numbered => run'[q] = run[q]
    BY <1>3, <1>4 DEF Numbered
  <2>3. run'[q].todo \subseteq run[q].todo
    BY <1>3, <1>4
  <2> QED
    BY <1>1, <2>1, <2>2, <2>3 DEF StateInv, RunsApart
<1>9. Opened'
  <2>1. \A f \in place : \A q \in f.open : q \in Callers /\ run[q].pc = "created"
    BY <1>1 DEF StateInv, Opened, Copying!TypeOK, Copying!Files
  <2> QED
    BY <1>1, <1>2, <1>4, <2>1 DEF StateInv, Opened
<1>10. ASSUME item' # "configuration" PROVE Forward' /\ TopStays'
  <2>1. RunForward(r) /\ \E c \in copies : c.hash \in run[r].seen
    BY <1>2, <1>10, RunKnown DEF RunTop, Behind
  <2>2. Forward'
    BY <1>1, <1>2, <1>10, <2>1 DEF StateInv, Forward, RunForward, UpTo
  <2>3. TopStays'
    BY <1>1, <1>2, <1>10, <2>1 DEF StateInv, TopStays, Top
  <2> QED
    BY <2>2, <2>3
<1>11. \A c \in copies : WholeCopy(c)' <=> WholeCopy(c)
  BY <1>2 DEF WholeCopy, Copying!ByName
<1>12. Calm'
  <2> SUFFICES ASSUME events = {}
               PROVE  /\ \A p, q \in Callers : run'[p].pc # "idle" /\ run'[q].pc # "idle" => p = q
                      /\ \A c, d \in copies : c.name = d.name => c = d
                      /\ \A c \in copies : c.name.id => c.name.n = c.n
                      /\ \A c \in copies : WholeCopy(c)
                      /\ \E c \in copies : c.hash \in since'
    BY <1>2, <1>11 DEF Calm
  <2>1. \A p, q \in Callers : run[p].pc # "idle" /\ run[q].pc # "idle" => p = q
    BY <1>1 DEF StateInv, Calm
  <2>2. \A p, q \in Callers : run'[p].pc # "idle" /\ run'[q].pc # "idle" => p = q
    BY <1>2, <1>4, <2>1
  <2>3. \A c \in copies : WholeCopy(c)
    BY <1>1, <1>2, <2>1 DEF StateInv, Calm
  <2>4. \E c \in copies : c.hash \in since'
    BY <1>2, <1>6, RunKnown DEF RunCalm, Behind
  <2> QED
    BY <1>1, <2>2, <2>3, <2>4 DEF StateInv, Calm
<1>13. Apart'
  BY <1>1, <1>2, <1>11 DEF StateInv, Apart, Safe, Beaten
<1>14. RunInv(r)'
  BY <1>3, <1>4 DEF RunInv, RunNumber, RunSeen, RunSettled, RunForward, UpTo, RunTop,
     RunCalm, RunApart, FileOfRun, Numbered, Early, Hashed, Filing, Behind
<1>15. ASSUME NEW q \in Callers, q # r PROVE RunInv(q)'
  <2>1. run'[q] = run[q]
    BY <1>4, <1>15
  <2>2. RunNumber(q)' /\ RunSeen(q)' /\ RunSettled(q)'
    BY <1>2, <2>1, RunKnown DEF RunNumber, RunSeen, RunSettled
  <2>3. item' # "configuration" => RunForward(q)' /\ RunTop(q)'
    BY <1>2, <2>1, RunKnown DEF RunForward, RunTop, UpTo, Beaten
  <2>4. FileOfRun(q)' <=> FileOfRun(q)
    BY <1>2, <2>1 DEF FileOfRun, Copying!ByName
  <2>5. events = {} => run[q].pc = "idle"
    BY <1>1, <1>2, <1>15 DEF StateInv, Calm
  <2>6. RunCalm(q)'
    BY <1>2, <2>1, <2>5 DEF RunCalm, FileOfRun, Filing, Behind, Hashed
  <2>7. RunApart(q)'
    BY <1>2, <2>1, <2>4, RunKnown DEF RunApart, Safe
  <2> QED
    BY <2>2, <2>3, <2>6, <2>7 DEF RunInv
<1> QED
  BY <1>5, <1>7, <1>8, <1>9, <1>10, <1>12, <1>13, <1>14, <1>15 DEF CopiesInv, StateInv

\* StartRun: its number is new.
LEMMA StartRunKeeps ==
  ASSUME CopiesInv, NEW r \in Callers, Copying!StartRun(r)
  PROVE  CopiesInv'
<1> DEFINE to == [Copying!NoRun EXCEPT !.pc = "checked", !.n = starts + 1]
<1>1. /\ Copying!TypeOK /\ run[r] \in Copying!RunRecord /\ run \in [Callers -> Copying!RunRecord]
      /\ StateInv /\ 0 \in 0..MaxStarts /\ starts \in 0..MaxStarts /\ MaxStarts \in Nat
  BY RunTyped, CopiesAssumption DEF CopiesInv, Copying!TypeOK
<1>2. /\ run[r].pc = "idle" /\ starts < MaxStarts /\ run' = [run EXCEPT ![r] = to] /\ starts' = starts + 1
      /\ events \subseteq events' /\ events' \subseteq events \cup {"together"}
      /\ (events' = {} => \A q \in Callers : run[q].pc = "idle")
      /\ UNCHANGED <<item, backup, source, backupStatus, copies, place, since>>
  BY DEF Copying!StartRun, Copying!Active, Copying!Quiet
<1>3. starts + 1 \in 0..MaxStarts /\ starts + 1 \in 1..starts + 1 /\ 0..starts \subseteq 0..starts + 1
      /\ 1..starts \subseteq 1..starts + 1 /\ starts + 1 \notin 0..starts
  BY <1>1, <1>2
<1>4. /\ to \in Copying!RunRecord /\ to.pc = "checked" /\ to.seen = {} /\ to.todo = {} /\ to.n = starts + 1
  BY <1>1, <1>3 DEF Copying!RunRecord, Copying!NoRun
<1> HIDE DEF to
<1>5. run'[r] = to /\ \A q \in Callers : q # r => run'[q] = run[q]
  BY <1>1, <1>2, <1>4, RunBecomes
<1>6. Copying!TypeOK'
  BY <1>1, <1>2, <1>3, <1>4, RunBecomes DEF Copying!TypeOK
<1>7. \A c \in copies : c.n \in 0..starts
  <2>1. \A c \in copies : c.n \in Nat /\ c.n <= starts
    BY <1>1 DEF Copying!TypeOK, Copying!Rows, StateInv, RowsNumbered
  <2> QED
    BY <1>1, <2>1
<1>8. RowsNumbered'
  BY <1>1, <1>2, <1>3, <1>7, <1>6 DEF StateInv, RowsNumbered
<1>9. SinceNow' /\ Settled'
  BY <1>1, <1>2 DEF StateInv, SinceNow, Settled
<1>10. \A q \in Callers : (run[q].pc \in Numbered => run[q].n # starts + 1) /\ starts + 1 \notin run[q].todo
  <2>1. \A q \in Callers : (run[q].pc \in Numbered => run[q].n \in 0..starts) /\ run[q].todo \subseteq 0..starts
    BY <1>1, RunKnown DEF RunNumber
  <2> QED
    BY <1>3, <2>1
<1>11. RunsApart'
  <2> SUFFICES ASSUME NEW p \in Callers, NEW q \in Callers
               PROVE  /\ run'[p].pc \in Numbered /\ run'[q].pc \in Numbered /\ run'[p].n = run'[q].n => p = q
                      /\ run'[p].pc \in Early => run'[p].n \notin run'[q].todo
    BY DEF RunsApart
  <2>1. CASE p # r /\ q # r
    BY <1>1, <1>5, <2>1 DEF StateInv, RunsApart
  <2>2. CASE p = r
    BY <1>4, <1>5, <1>10, <2>2
  <2>3. CASE p # r /\ q = r
    BY <1>4, <1>5, <1>10, <2>3
  <2> QED
    BY <2>1, <2>2, <2>3
<1>12. Opened'
  <2>1. \A f \in place : \A q \in f.open : q \in Callers /\ run[q].pc = "created"
    BY <1>1 DEF StateInv, Opened, Copying!TypeOK, Copying!Files
  <2> QED
    BY <1>1, <1>2, <1>5, <2>1 DEF StateInv, Opened
<1>13. item' # "configuration" => Forward' /\ TopStays'
  BY <1>1, <1>2 DEF StateInv, Forward, TopStays, UpTo, Top
<1>14. \A c \in copies : WholeCopy(c)' <=> WholeCopy(c)
  BY <1>2 DEF WholeCopy, Copying!ByName
<1>15. Calm'
  <2> SUFFICES ASSUME events' = {}
               PROVE  /\ \A p, q \in Callers : run'[p].pc # "idle" /\ run'[q].pc # "idle" => p = q
                      /\ \A c, d \in copies : c.name = d.name => c = d
                      /\ \A c \in copies : c.name.id => c.name.n = c.n
                      /\ \A c \in copies : WholeCopy(c)
                      /\ since # {} => \E c \in copies : c.hash \in since
    BY <1>2, <1>14 DEF Calm
  <2>1. events = {} /\ \A q \in Callers : run[q].pc = "idle"
    BY <1>2
  <2> QED
    BY <1>1, <1>5, <2>1 DEF StateInv, Calm
<1>16. Safe' => Safe
  BY <1>2 DEF Safe
<1>17. Apart'
  BY <1>1, <1>2, <1>14, <1>16 DEF StateInv, Apart, Beaten
<1>18. RunInv(r)'
  <2>1. RunNumber(r)'
    BY <1>2, <1>3, <1>4, <1>5, <1>7 DEF RunNumber
  <2>2. RunSeen(r)' /\ RunSettled(r)'
    BY <1>4, <1>5 DEF RunSeen, RunSettled, Hashed, Filing
  <2>3. RunForward(r)' /\ RunTop(r)'
    BY <1>4, <1>5 DEF RunForward, RunTop, UpTo, Filing, Behind
  <2>4. RunCalm(r)' /\ RunApart(r)'
    BY <1>4, <1>5 DEF RunCalm, RunApart, FileOfRun, Hashed, Filing, Behind
  <2> QED
    BY <2>1, <2>2, <2>3, <2>4 DEF RunInv
<1>19. ASSUME NEW q \in Callers, q # r PROVE RunInv(q)'
  <2>1. run'[q] = run[q]
    BY <1>5, <1>19
  <2>2. RunNumber(q)' /\ RunSeen(q)'
    BY <1>2, <1>3, <2>1, RunKnown DEF RunNumber, RunSeen
  <2>3. RunSettled(q)'
    BY <1>2, <2>1, RunKnown DEF RunSettled
  <2>4. item' # "configuration" => RunForward(q)' /\ RunTop(q)'
    BY <1>2, <2>1, RunKnown DEF RunForward, RunTop, UpTo, Beaten
  <2>5. FileOfRun(q)' <=> FileOfRun(q)
    BY <1>2, <2>1 DEF FileOfRun, Copying!ByName
  <2>6. RunCalm(q)'
    BY <1>2, <2>1, <2>5, RunKnown DEF RunCalm
  <2>7. RunApart(q)'
    BY <1>16, <2>1, <2>5, RunKnown DEF RunApart
  <2> QED
    BY <2>2, <2>3, <2>4, <2>6, <2>7 DEF RunInv
<1> QED
  BY <1>6, <1>8, <1>9, <1>11, <1>12, <1>13, <1>15, <1>17, <1>18, <1>19 DEF CopiesInv, StateInv

\* Runs that end close their files, and leave theirs as they are to the others.
LEMMA Ended ==
  ASSUME CopiesInv, Copying!TypeOK', NEW R \in SUBSET Callers,
         \A q \in R : run'[q] = Copying!NoRun,
         \A q \in Callers \ R : run'[q] = run[q],
         place' = {[f EXCEPT !.open = @ \ R] : f \in place},
         UNCHANGED <<item, backup, source, copies, since, starts>>, events \subseteq events',
         events' \subseteq events \cup {"cut"},
         (\E q \in R : run[q].pc = "row") => events' # {}
  PROVE  CopiesInv'
<1> DEFINE Close(f) == [f EXCEPT !.open = @ \ R]
<1>1. Copying!TypeOK /\ StateInv
  BY DEF CopiesInv
<1>2. \A f \in place : /\ Close(f).place = f.place /\ Close(f).name = f.name /\ Close(f).key = f.key
                       /\ Close(f).version = f.version /\ Close(f).open = f.open \ R
  BY <1>1 DEF Copying!TypeOK, Copying!Files
<1>3. place' = {Close(f) : f \in place}
  OBVIOUS
<1> HIDE DEF Close
<1>4. Copying!NoRun.pc = "idle" /\ Copying!NoRun.todo = {}
  BY DEF Copying!NoRun
<1>5. \A q \in Callers : run'[q].pc # "idle" => q \notin R /\ run'[q] = run[q]
  BY <1>4
<1>6. \A p, name : \A g \in Copying!ByName(p, name)' : \E f \in Copying!ByName(p, name) : g = Close(f)
  BY <1>2, <1>3 DEF Copying!ByName
<1>7. \A p, name : Copying!ByName(p, name) # {} => Copying!ByName(p, name)' # {}
  BY <1>2, <1>3 DEF Copying!ByName
<1>8. ASSUME NEW c \in copies, WholeCopy(c) PROVE WholeCopy(c)'
  <2>1. Copying!ByName(backup.place, c.name)' # {}
    BY <1>7, <1>8 DEF WholeCopy
  <2>2. ASSUME NEW g \in Copying!ByName(backup.place, c.name)'
        PROVE  g.key = backup.key /\ g.open = {} /\ (~c.raced => g.version = c.hash)
    <3>1. PICK f \in Copying!ByName(backup.place, c.name) : g = Close(f)
      BY <1>6, <2>2
    <3>2. f \in place /\ f.key = backup.key /\ f.open = {} /\ (~c.raced => f.version = c.hash)
      BY <1>8 DEF WholeCopy, Copying!ByName
    <3> QED
      BY <1>2, <3>1, <3>2
  <2> QED
    BY <2>1, <2>2 DEF WholeCopy
<1>9. ASSUME NEW q \in Callers \ R, FileOfRun(q) PROVE FileOfRun(q)'
  <2> SUFFICES ASSUME NEW g \in Copying!ByName(run[q].to.place, run[q].name)'
               PROVE  /\ run[q].pc = "created" => g.open = {q} /\ g.key = run[q].to.key /\ g.version # Torn
                      /\ run[q].pc = "written" => g.open = {} /\ g.key = run[q].to.key /\ g.version = run[q].got
    BY <1>9 DEF FileOfRun
  <2>1. PICK f \in place : g = Close(f) /\ f.place = run[q].to.place /\ f.name = run[q].name
    BY <1>2, <1>3 DEF Copying!ByName
  <2>2. f \in Copying!ByName(run[q].to.place, run[q].name)
    BY <2>1 DEF Copying!ByName
  <2>3. /\ run[q].pc = "created" => f.open = {q} /\ f.key = run[q].to.key /\ f.version # Torn
        /\ run[q].pc = "written" => f.open = {} /\ f.key = run[q].to.key /\ f.version = run[q].got
    BY <1>9, <2>2 DEF FileOfRun
  <2> QED
    BY <1>2, <2>1, <2>3
<1>10. Safe' <=> Safe
  BY DEF Safe
<1>11. RowsNumbered' /\ SinceNow' /\ Settled'
  BY <1>1 DEF StateInv, RowsNumbered, SinceNow, Settled
<1>12. RunsApart'
  <2>1. \A q \in Callers : run'[q].pc \in Numbered \cup Early => run'[q] = run[q]
    BY <1>5 DEF Numbered, Early
  <2>2. \A q \in Callers : run'[q].todo \subseteq run[q].todo
    BY <1>4
  <2> QED
    BY <1>1, <2>1, <2>2 DEF StateInv, RunsApart
<1>13. Opened'
  <2> SUFFICES ASSUME NEW g \in place', NEW q \in g.open
               PROVE  run'[q].pc = "created" /\ g.place = run'[q].to.place /\ g.name = run'[q].name
    BY DEF Opened
  <2>1. PICK f \in place : g = Close(f)
    BY <1>3
  <2>2. q \in f.open /\ q \notin R /\ g.place = f.place /\ g.name = f.name
    BY <1>2, <2>1
  <2>3. q \in Callers \ R
    BY <1>1, <2>2 DEF Copying!TypeOK, Copying!Files
  <2> QED
    BY <1>1, <2>2, <2>3 DEF StateInv, Opened
<1>14. item' # "configuration" => Forward' /\ TopStays'
  BY <1>1 DEF StateInv, Forward, TopStays, UpTo, Top
<1>15. Calm'
  <2> SUFFICES ASSUME events' = {}
               PROVE  /\ \A p, q \in Callers : run'[p].pc # "idle" /\ run'[q].pc # "idle" => p = q
                      /\ \A c, d \in copies : c.name = d.name => c = d
                      /\ \A c \in copies : c.name.id => c.name.n = c.n
                      /\ \A c \in copies : WholeCopy(c)' \/ \E q \in Callers : run'[q].pc = "row" /\ run'[q].hand = c.n
                      /\ since # {} => \E c \in copies : c.hash \in since
    BY DEF Calm
  <2>1. events = {} /\ \A q \in Callers : run[q].pc = "row" => run'[q] = run[q]
    OBVIOUS
  <2>2. \A p, q \in Callers : run'[p].pc # "idle" /\ run'[q].pc # "idle" => p = q
    BY <1>1, <1>5, <2>1 DEF StateInv, Calm
  <2>3. \A c \in copies : WholeCopy(c)' \/ \E q \in Callers : run'[q].pc = "row" /\ run'[q].hand = c.n
    BY <1>1, <1>8, <2>1 DEF StateInv, Calm
  <2> QED
    BY <1>1, <2>1, <2>2, <2>3 DEF StateInv, Calm
<1>16. Apart'
  <2> SUFFICES ASSUME Safe, NEW c \in copies
               PROVE  c.name = Named(c.n) /\ (WholeCopy(c)' \/ Beaten(c)')
    BY <1>10 DEF Apart
  <2> QED
    BY <1>1, <1>8 DEF StateInv, Apart, Beaten
<1>17. \A q \in R : RunInv(q)'
  BY IdleKnown
<1>18. ASSUME NEW q \in Callers \ R PROVE RunInv(q)'
  BY <1>9, <1>10, <1>18, OtherRunFile, RunKnown DEF RunCalm, RunApart, CopiesInv
<1> QED
  BY <1>11, <1>12, <1>13, <1>14, <1>15, <1>16, <1>17, <1>18 DEF CopiesInv, StateInv

\* They leave the state one of the model's.
LEMMA EndedTyped ==
  ASSUME Copying!TypeOK, NEW R \in SUBSET Callers, run' \in [Callers -> Copying!RunRecord],
         place' = {[f EXCEPT !.open = @ \ R] : f \in place},
         UNCHANGED <<item, backup, source, copies, since, starts>>,
         backupStatus' \in {"idle", "InProgress", "Done"}, events' \subseteq {"updated", "cut", "together"}
  PROVE  Copying!TypeOK'
<1>1. \A f \in place : [f EXCEPT !.open = @ \ R] \in Copying!Files
  BY DEF Copying!TypeOK, Copying!Files
<1> QED
  BY <1>1 DEF Copying!TypeOK

\* Abort.
LEMMA AbortKeeps ==
  ASSUME CopiesInv, NEW r \in Callers, Copying!Abort(r)
  PROVE  CopiesInv'
<1> DEFINE to == Copying!NoRun
<1>1. Copying!TypeOK /\ to \in Copying!RunRecord
  BY CopiesAssumption DEF CopiesInv, Copying!NoRun, Copying!RunRecord
<1>2. /\ run' = [run EXCEPT ![r] = to]
      /\ place' = {[f EXCEPT !.open = @ \ {r}] : f \in place}
      /\ UNCHANGED <<item, backup, source, backupStatus, copies, since, starts>>
      /\ events \subseteq events' /\ events' \subseteq events \cup {"cut"}
      /\ (run[r].pc = "row" => events' # {})
  BY DEF Copying!Abort, Copying!Closed, Copying!others
<1>3. run'[r] = to /\ (\A q \in Callers \ {r} : run'[q] = run[q]) /\ run' \in [Callers -> Copying!RunRecord]
  BY <1>1, <1>2 DEF Copying!TypeOK
<1>4. events' \subseteq {"updated", "cut", "together"} /\ backupStatus' \in {"idle", "InProgress", "Done"}
  BY <1>1, <1>2 DEF Copying!TypeOK
<1>5. PICK R \in SUBSET Callers : R = {r}
  OBVIOUS
<1>6. /\ place' = {[f EXCEPT !.open = @ \ R] : f \in place}
      /\ \A q \in R : run'[q] = Copying!NoRun
      /\ \A q \in Callers \ R : run'[q] = run[q]
      /\ (\E q \in R : run[q].pc = "row") => events' # {}
  BY <1>2, <1>3, <1>5
<1>7. UNCHANGED <<item, backup, source, copies, since, starts>>
      /\ events \subseteq events' /\ events' \subseteq events \cup {"cut"}
  BY <1>2
<1>8. Copying!TypeOK'
  BY <1>1, <1>3, <1>4, <1>6, <1>7, EndedTyped
<1> QED
  BY <1>6, <1>7, <1>8, Ended

\* Crash.
LEMMA CrashKeeps ==
  ASSUME CopiesInv, Copying!Crash
  PROVE  CopiesInv'
<1>1. Copying!TypeOK /\ Copying!NoRun \in Copying!RunRecord
  BY CopiesAssumption DEF CopiesInv, Copying!NoRun, Copying!RunRecord
<1>2. /\ run' = [r \in Callers |-> Copying!NoRun]
      /\ place' = {[f EXCEPT !.open = @ \ Callers] : f \in place}
      /\ UNCHANGED <<item, backup, source, copies, since, starts>> /\ backupStatus' = "idle"
      /\ events \subseteq events' /\ events' \subseteq events \cup {"cut"}
      /\ ((\E r \in Callers : run[r].pc = "row") => events' # {})
  BY DEF Copying!Crash, Copying!Closed, Copying!others
<1>3. run' \in [Callers -> Copying!RunRecord] /\ \A q \in Callers : run'[q] = Copying!NoRun
  BY <1>1, <1>2
<1>4. events' \subseteq {"updated", "cut", "together"} /\ backupStatus' \in {"idle", "InProgress", "Done"}
  BY <1>1, <1>2 DEF Copying!TypeOK
<1>5. PICK R \in SUBSET Callers : R = Callers
  OBVIOUS
<1>6. /\ place' = {[f EXCEPT !.open = @ \ R] : f \in place}
      /\ \A q \in R : run'[q] = Copying!NoRun
      /\ \A q \in Callers \ R : run'[q] = run[q]
      /\ (\E q \in R : run[q].pc = "row") => events' # {}
  BY <1>2, <1>3, <1>5
<1>7. UNCHANGED <<item, backup, source, copies, since, starts>>
      /\ events \subseteq events' /\ events' \subseteq events \cup {"cut"}
  BY <1>2
<1>8. Copying!TypeOK'
  BY <1>1, <1>3, <1>4, <1>6, <1>7, EndedTyped
<1> QED
  BY <1>6, <1>7, <1>8, Ended

\* What happens to the backup: rows without one there are none.
LEMMA BackupKeeps ==
  ASSUME CopiesInv, Copying!AddBackup \/ Copying!UpdateBackup \/ Copying!RemoveBackup
  PROVE  CopiesInv'
<1>1. Copying!TypeOK /\ StateInv
  BY DEF CopiesInv
<1>2. /\ UNCHANGED <<item, source, backupStatus, run, copies, place, since, starts>>
      /\ events \subseteq events'
  BY DEF Copying!AddBackup, Copying!UpdateBackup, Copying!RemoveBackup
<1>3. Copying!TypeOK'
  BY <1>1, <1>2 DEF Copying!AddBackup, Copying!UpdateBackup, Copying!RemoveBackup, Copying!TypeOK
<1>4. None \notin Copying!Settings
  BY CopiesAssumption DEF Copying!Settings
<1>5. copies = {} \/ (backup' # None /\ "updated" \in events')
  BY <1>1, <1>4 DEF Copying!AddBackup, Copying!UpdateBackup, Copying!RemoveBackup, StateInv, Settled
<1>6. RowsNumbered' /\ RunsApart' /\ SinceNow' /\ Settled'
  BY <1>1, <1>2, <1>5 DEF StateInv, RowsNumbered, RunsApart, SinceNow, Settled
<1>7. Opened'
  BY <1>1, <1>2 DEF StateInv, Opened
<1>8. item' # "configuration" => Forward' /\ TopStays'
  BY <1>1, <1>2 DEF StateInv, Forward, TopStays, UpTo, Top
<1>9. Calm'
  <2> SUFFICES ASSUME events' = {} PROVE Calm'
    BY DEF Calm
  <2>1. copies = {} /\ events = {}
    BY <1>2, <1>5
  <2> QED
    BY <1>1, <1>2, <2>1 DEF StateInv, Calm
<1>10. Apart'
  BY <1>2, <1>5 DEF Apart, Safe
<1>11. ASSUME NEW r \in Callers PROVE RunInv(r)'
  <2>1. RunNumber(r)' /\ RunSeen(r)'
    BY <1>2, RunKnown DEF RunNumber, RunSeen
  <2>2. RunSettled(r)'
    <3>1. "updated" \notin events' /\ backup' # None => run[r].pc = "idle"
      BY <1>4, <1>1 DEF Copying!AddBackup, Copying!UpdateBackup, Copying!RemoveBackup, Copying!Quiet,
         Copying!Active
    <3> QED
      BY <1>2, <3>1, RunKnown DEF RunSettled, Filing
  <2>3. item' # "configuration" => RunForward(r)' /\ RunTop(r)'
    BY <1>2, RunKnown DEF RunForward, RunTop, UpTo, Beaten
  <2>4. FileOfRun(r)' <=> FileOfRun(r)
    BY <1>2 DEF FileOfRun, Copying!ByName
  <2>5. RunCalm(r)'
    BY <1>2, <2>4, RunKnown DEF RunCalm
  <2>6. RunApart(r)'
    <3>1. Safe' => run[r].pc = "idle"
      BY <1>4, <1>1 DEF Copying!AddBackup, Copying!UpdateBackup, Copying!RemoveBackup, Copying!Quiet,
         Copying!Active, Safe
    <3> QED
      BY <1>2, <3>1 DEF RunApart, FileOfRun, Filing
  <2> QED
    BY <2>1, <2>2, <2>3, <2>5, <2>6 DEF RunInv
<1> QED
  BY <1>3, <1>6, <1>7, <1>8, <1>9, <1>10, <1>11 DEF CopiesInv, StateInv

\* Change: who has seen something sees the new version too.
LEMMA ChangeKeeps ==
  ASSUME CopiesInv, Copying!Change
  PROVE  CopiesInv'
<1>1. PICK v \in Copying!Versions :
        /\ IF item = "configuration" THEN v # source ELSE v = source + 1
        /\ source' = v
        /\ since' = IF since = {} THEN {} ELSE since \cup {v}
        /\ run' = [r \in Callers |->
             IF run[r].seen = {} THEN run[r]
             ELSE [run[r] EXCEPT !.seen = @ \cup {v},
                                 !.got = IF run[r].pc = "reading" THEN Torn ELSE @]]
        /\ UNCHANGED <<item, backup, backupStatus, copies, place, events, starts>>
  BY DEF Copying!Change
<1>2. Copying!TypeOK /\ StateInv /\ source \in Nat /\ v \in Nat
  BY CopiesAssumption DEF CopiesInv, Copying!TypeOK, Copying!Versions
<1>3. ASSUME NEW r \in Callers
      PROVE  /\ run'[r] \in Copying!RunRecord
             /\ run'[r].pc = run[r].pc /\ run'[r].n = run[r].n /\ run'[r].hash = run[r].hash
             /\ run'[r].to = run[r].to /\ run'[r].name = run[r].name /\ run'[r].own = run[r].own
             /\ run'[r].todo = run[r].todo /\ run'[r].hand = run[r].hand
             /\ run'[r].seen = (IF run[r].seen = {} THEN {} ELSE run[r].seen \cup {v})
             /\ run'[r].got = (IF run[r].seen # {} /\ run[r].pc = "reading" THEN Torn ELSE run[r].got)
  BY ZenonT(60), <1>1, <1>2, RunTyped DEF Copying!RunRecord, Copying!Versions
<1>4. run' \in [Callers -> Copying!RunRecord]
  <2>1. run' = [r \in Callers |-> run'[r]]
    BY <1>1
  <2> QED
    BY <1>3, <2>1
<1>5. Copying!TypeOK'
  BY <1>1, <1>2, <1>4 DEF Copying!TypeOK
<1>6. /\ IF item = "configuration" THEN v # source ELSE v = source + 1
      /\ source' = v
      /\ since' = IF since = {} THEN {} ELSE since \cup {v}
      /\ UNCHANGED <<item, backup, backupStatus, copies, place, events, starts>>
  BY <1>1
<1>7. RowsNumbered' /\ SinceNow' /\ Settled'
  BY <1>6, <1>2 DEF StateInv, RowsNumbered, SinceNow, Settled
<1>8. RunsApart'
  <2>1. \A r \in Callers : run'[r].pc = run[r].pc /\ run'[r].n = run[r].n /\ run'[r].todo = run[r].todo
    BY <1>3
  <2>2. RunsApart
    BY <1>2 DEF StateInv
  <2> QED
    BY <2>1, <2>2 DEF RunsApart
<1>9. Opened'
  <2>1. \A f \in place : \A q \in f.open : q \in Callers
    BY <1>2 DEF Copying!TypeOK, Copying!Files
  <2>2. \A q \in Callers : run'[q].pc = run[q].pc /\ run'[q].to = run[q].to /\ run'[q].name = run[q].name
    BY <1>3
  <2>3. Opened
    BY <1>2 DEF StateInv
  <2> QED
    BY <1>6, <2>1, <2>2, <2>3 DEF Opened
<1>10. ASSUME item # "configuration", NEW S \in SUBSET Nat, UpTo(S) PROVE UpTo(S \cup {v})'
  <2>1. source' = source + 1 /\ v = source'
    BY <1>6, <1>10
  <2> SUFFICES ASSUME NEW x \in S \cup {v} PROVE x <= source' /\ \A w \in x..source' : w \in S \cup {v}
    BY DEF UpTo
  <2>2. CASE x \in S
    <3>1. x <= source /\ \A w \in x..source : w \in S
      BY <2>2, <1>10 DEF UpTo
    <3>2. x \in Nat
      BY <2>2
    <3>3. x <= source'
      BY <1>2, <2>1, <3>1, <3>2
    <3>4. ASSUME NEW w \in x..source' PROVE w \in x..source \/ w = v
      BY <1>2, <2>1, <3>2
    <3> QED
      BY <3>1, <3>3, <3>4
  <2>3. CASE x = v
    <3>1. \A w \in v..v : w = v
      BY <1>2
    <3> QED
      BY <1>2, <2>1, <2>3, <3>1
  <2> QED
    BY <2>2, <2>3
<1>11. ASSUME item' # "configuration" PROVE Forward' /\ TopStays'
  <2>1. \A c \in copies : c.hash \in Nat
    BY <1>2, CopiesAssumption DEF Copying!TypeOK, Copying!Rows, Copying!Versions
  <2>2. \A c \in copies : c.hash <= source'
    BY <1>2, <1>6, <1>11, <2>1 DEF StateInv, Forward
  <2>3. UpTo(since)'
    <3>1. since \in SUBSET Nat
      BY <1>2, CopiesAssumption DEF Copying!TypeOK, Copying!Versions
    <3>2. UpTo(since)
      BY <1>2, <1>6, <1>11 DEF StateInv, Forward
    <3>3. UpTo(since \cup {v})'
      BY <1>6, <1>10, <1>11, <3>1, <3>2
    <3> QED
      BY <1>6, <3>3 DEF UpTo
  <2>4. TopStays'
    BY <1>2, <1>6, <1>11 DEF StateInv, TopStays, Top
  <2> QED
    BY <1>6, <2>2, <2>3, <2>4 DEF Forward
<1>12. \A c \in copies : WholeCopy(c)' <=> WholeCopy(c)
  BY <1>6 DEF WholeCopy, Copying!ByName
<1>13. Calm'
  <2> SUFFICES ASSUME events = {}
               PROVE  /\ \A r, q \in Callers : run'[r].pc # "idle" /\ run'[q].pc # "idle" => r = q
                      /\ \A c, d \in copies : c.name = d.name => c = d
                      /\ \A c \in copies : c.name.id => c.name.n = c.n
                      /\ \A c \in copies : WholeCopy(c) \/ \E r \in Callers : run'[r].pc = "row" /\ run'[r].hand = c.n
                      /\ since' # {} => \E c \in copies : c.hash \in since'
    BY <1>6, <1>12 DEF Calm
  <2>1. since # {} => \E c \in copies : c.hash \in since
    BY <1>2 DEF StateInv, Calm
  <2>2. since' # {} => \E c \in copies : c.hash \in since'
    BY <1>6, <2>1
  <2>3. \A r, q \in Callers : run'[r].pc # "idle" /\ run'[q].pc # "idle" => r = q
    <3>1. \A r, q \in Callers : run[r].pc # "idle" /\ run[q].pc # "idle" => r = q
      BY <1>2 DEF StateInv, Calm
    <3>2. \A r \in Callers : run'[r].pc = run[r].pc
      BY <1>3
    <3> QED
      BY <3>1, <3>2
  <2>4. \A c \in copies : WholeCopy(c) \/ \E r \in Callers : run'[r].pc = "row" /\ run'[r].hand = c.n
    <3>1. \A c \in copies : WholeCopy(c) \/ \E r \in Callers : run[r].pc = "row" /\ run[r].hand = c.n
      BY <1>2 DEF StateInv, Calm
    <3>2. \A r \in Callers : run'[r].pc = run[r].pc /\ run'[r].hand = run[r].hand
      BY <1>3
    <3> QED
      BY <3>1, <3>2
  <2> QED
    BY <1>2, <2>2, <2>3, <2>4 DEF StateInv, Calm
<1>14. Safe' <=> Safe
  BY <1>6 DEF Safe
<1>15. Apart'
  BY <1>2, <1>6, <1>12, <1>14 DEF StateInv, Apart, Beaten
<1>16. ASSUME NEW r \in Callers PROVE RunInv(r)'
  <2>1. RunNumber(r)'
    BY ZenonT(60), <1>3, <1>6, RunKnown DEF RunNumber
  <2>2. RunSeen(r)'
    BY <1>3, <1>6, RunKnown DEF RunSeen
  <2>3. RunSettled(r)'
    BY <1>3, <1>6, RunKnown DEF RunSettled
  <2>4. ASSUME item' # "configuration" PROVE RunForward(r)' /\ RunTop(r)'
    <3>1. run[r].seen \in SUBSET Nat /\ RunForward(r) /\ RunTop(r)
      <4>1. run[r].seen \subseteq 1..MaxSource
        BY <1>2, RunTyped
      <4>2. RunForward(r) /\ RunTop(r)
        BY <1>6, <2>4, RunKnown
      <4> QED
        BY <4>1, <4>2, CopiesAssumption
    <3>2. UpTo(run[r].seen)
      BY <3>1 DEF RunForward
    <3>3. RunForward(r)'
      <4>1. PICK S : S = run[r].seen
        OBVIOUS
      <4>2. UpTo(S \cup {v})'
        BY <1>6, <1>10, <2>4, <3>1, <3>2, <4>1
      <4>3. run'[r].seen = {} \/ run'[r].seen = S \cup {v}
        BY <1>3, <4>1
      <4> QED
        BY <4>2, <4>3 DEF RunForward, UpTo
    <3>4. RunTop(r)'
      BY <1>3, <1>6, <3>1 DEF RunTop, Beaten
    <3> QED
      BY <3>3, <3>4
  <2>5. FileOfRun(r)' <=> FileOfRun(r)
    <3>1. /\ run'[r].pc = run[r].pc /\ run'[r].to = run[r].to /\ run'[r].name = run[r].name
          /\ run[r].pc = "written" => run'[r].got = run[r].got
      BY <1>3
    <3> QED
      BY <1>6, <3>1 DEF FileOfRun, Copying!ByName
  <2>6. RunCalm(r)'
    <3> SUFFICES ASSUME events = {} PROVE RunCalm(r)'
      BY <1>6 DEF RunCalm
    <3>1. /\ run'[r].pc = run[r].pc /\ run'[r].n = run[r].n /\ run'[r].hash = run[r].hash
          /\ run'[r].name = run[r].name /\ run'[r].own = run[r].own /\ run'[r].todo = run[r].todo
      BY <1>3
    <3>2. since' # {} => since # {} /\ since \subseteq since'
      BY <1>6
    <3> QED
      BY <1>6, <2>5, <3>1, <3>2, RunKnown DEF RunCalm
  <2>7. RunApart(r)'
    BY <1>3, <1>14, <2>5, RunKnown DEF RunApart
  <2> QED
    BY <2>1, <2>2, <2>3, <2>4, <2>6, <2>7 DEF RunInv
<1> QED
  BY <1>5, <1>7, <1>8, <1>9, <1>11, <1>13, <1>15, <1>16 DEF CopiesInv, StateInv

\* WeekPasses: the rows are the same, and old.
LEMMA WeekPassesKeeps ==
  ASSUME CopiesInv, Copying!WeekPasses
  PROVE  CopiesInv'
<1> DEFINE Old(c) == [c EXCEPT !.old = TRUE]
<1>1. /\ copies' = {Old(c) : c \in copies} /\ (\A r \in Callers : run[r].pc = "idle")
      /\ UNCHANGED <<item, backup, source, backupStatus, run, place, since, events, starts>>
  BY DEF Copying!WeekPasses, Copying!Quiet, Copying!Active
<1>2. Copying!TypeOK /\ StateInv
  BY DEF CopiesInv
<1>3. \A c \in copies :
        /\ Old(c) \in Copying!Rows
        /\ Old(c).n = c.n /\ Old(c).hash = c.hash /\ Old(c).name = c.name /\ Old(c).added = c.added
        /\ Old(c).raced = c.raced
  BY <1>2 DEF Copying!TypeOK, Copying!Rows
<1> HIDE DEF Old
<1>4. Copying!TypeOK'
  BY <1>1, <1>2, <1>3 DEF Copying!TypeOK
<1>5. \A x \in copies' : \E c \in copies : x = Old(c)
  BY <1>1
<1>6. RowsNumbered'
  BY <1>1, <1>2, <1>3 DEF StateInv, RowsNumbered
<1>7. RunsApart' /\ Opened' /\ SinceNow' /\ Settled'
  BY <1>1, <1>2 DEF StateInv, RunsApart, Opened, SinceNow, Settled
<1>8. ASSUME item' # "configuration" PROVE Forward' /\ TopStays'
  <2>1. Forward'
    BY <1>1, <1>2, <1>3, <1>8 DEF StateInv, Forward, UpTo
  <2>2. ASSUME since # {} PROVE \E c \in copies' : c.hash \in since
    BY <1>1, <1>2, <1>3, <1>8, <2>2 DEF StateInv, TopStays
  <2>3. ASSUME copies' # {} PROVE \E t \in copies' : \A x \in copies' : x = t \/ Under(x, t)
    <3>1. PICK t \in copies : Top(t)
      BY <1>1, <1>2, <1>8, <2>3 DEF StateInv, TopStays
    <3>2. ASSUME NEW x \in copies PROVE Old(x) = Old(t) \/ Under(Old(x), Old(t))
      BY <1>3, <3>1 DEF Top, Under
    <3> QED
      BY <1>1, <3>2
  <2> QED
    BY <1>1, <2>1, <2>2, <2>3 DEF TopStays, Top
<1>9. Calm'
  <2> SUFFICES ASSUME events = {}
               PROVE  /\ \A x, y \in copies' : x.name = y.name => x = y
                      /\ \A x \in copies' : x.name.id => x.name.n = x.n
                      /\ \A x \in copies' : WholeCopy(x)'
                      /\ since # {} => \E x \in copies' : x.hash \in since
    BY <1>1 DEF Calm
  <2>1. /\ \A c, d \in copies : c.name = d.name => c = d
        /\ \A c \in copies : c.name.id => c.name.n = c.n
        /\ \A c \in copies : WholeCopy(c)
        /\ since # {} => \E c \in copies : c.hash \in since
    BY <1>1, <1>2 DEF StateInv, Calm
  <2>2. \A x, y \in copies' : x.name = y.name => x = y
    BY <1>3, <1>5, <2>1
  <2>3. \A x \in copies' : x.name.id => x.name.n = x.n
    BY <1>3, <1>5, <2>1
  <2>4. \A x \in copies' : WholeCopy(x)'
    <3> SUFFICES ASSUME NEW x \in copies' PROVE WholeCopy(x)'
      OBVIOUS
    <3>1. PICK c \in copies : x = Old(c)
      BY <1>5
    <3> QED
      BY <1>1, <1>3, <2>1, <3>1 DEF WholeCopy, Copying!ByName
  <2>5. since # {} => \E x \in copies' : x.hash \in since
    BY <1>1, <1>3, <2>1
  <2> QED
    BY <2>2, <2>3, <2>4, <2>5
<1>10. Apart'
  <2> SUFFICES ASSUME Safe, NEW x \in copies'
               PROVE  x.name = Named(x.n) /\ (WholeCopy(x)' \/ Beaten(x)')
    BY <1>1 DEF Apart, Safe
  <2>1. PICK c \in copies : x = Old(c)
    BY <1>5
  <2>2. c.name = Named(c.n) /\ (WholeCopy(c) \/ Beaten(c))
    BY <1>2 DEF StateInv, Apart
  <2>3. CASE WholeCopy(c)
    BY <1>1, <1>3, <2>1, <2>2, <2>3 DEF WholeCopy, Copying!ByName
  <2>4. CASE Beaten(c)
    BY <1>1, <1>3, <2>1, <2>2, <2>4 DEF Beaten, Under
  <2> QED
    BY <2>2, <2>3, <2>4
<1>11. ASSUME NEW r \in Callers PROVE RunInv(r)'
  <2>1. run[r].pc = "idle" /\ run[r].todo = {} /\ run[r].seen = {}
    BY <1>1, RunKnown DEF RunSeen, Hashed
  <2> QED
    BY <1>1, <2>1 DEF RunInv, RunNumber, RunSeen, RunSettled, RunForward, UpTo, RunTop,
       RunCalm, RunApart, FileOfRun, Numbered, Early, Hashed, Filing, Behind
<1> QED
  BY <1>4, <1>6, <1>7, <1>8, <1>9, <1>10, <1>11 DEF CopiesInv, StateInv

\* A backup that is new, or has one whole copy.
LEMMA CopiesInit ==
  ASSUME Copying!Init
  PROVE  CopiesInv
<1>1. /\ item \in Copying!Items /\ backup \in Copying!Settings /\ source = 1 /\ backupStatus = "idle"
      /\ run = [r \in Callers |-> Copying!NoRun] /\ events = {} /\ starts = 0
      /\ \/ copies = {} /\ place = {} /\ since = {}
         \/ copies = {Copying!Copy(backup)} /\ place = {Copying!File(backup)} /\ since = {1}
  BY DEF Copying!Init
<1>2. /\ MaxStarts \in Nat /\ MaxSource \in Nat \ {0} /\ None \notin Copying!Settings
      /\ 1 \in Copying!Versions /\ 0 \in 0..MaxStarts
  BY CopiesAssumption DEF Copying!Settings, Copying!Versions
<1>3. PICK c : c = Copying!Copy(backup)
  OBVIOUS
<1>4. PICK f : f = Copying!File(backup)
  OBVIOUS
<1>5. /\ c.n = 0 /\ c.hash = 1 /\ c.added = 0 /\ c.old = TRUE /\ c.raced = FALSE
      /\ c.name = [n |-> IF backup.key = None THEN 1 ELSE 0, id |-> backup.key # None]
      /\ c \in Copying!Rows
  <2>1. [n |-> IF backup.key = None THEN 1 ELSE 0, id |-> backup.key # None] \in Copying!Names
    BY <1>2 DEF Copying!Names
  <2> QED
    BY <1>2, <1>3, <2>1 DEF Copying!Copy, Copying!Rows
<1>6. /\ f.place = backup.place /\ f.name = c.name /\ f.key = backup.key /\ f.version = 1 /\ f.open = {}
      /\ f \in Copying!Files
  <2>1. backup.place \in Tasks /\ backup.key \in Keys \cup {None} /\ c.name \in Copying!Names
    BY <1>1, <1>5 DEF Copying!Settings, Copying!Rows
  <2> QED
    BY <1>2, <1>3, <1>4, <2>1 DEF Copying!File, Copying!Files
<1>7. copies \in {{}, {c}} /\ (copies = {} => since = {}) /\ (copies = {c} => place = {f} /\ since = {1})
      /\ (copies = {} => place = {})
  BY <1>1, <1>3, <1>4
<1>8. \A r \in Callers : run[r] = Copying!NoRun /\ run[r].pc = "idle"
  BY <1>1 DEF Copying!NoRun
<1>9. Copying!TypeOK
  <2>1. Copying!NoRun \in Copying!RunRecord
    BY <1>2 DEF Copying!NoRun, Copying!RunRecord
  <2>2. copies \subseteq Copying!Rows /\ place \subseteq Copying!Files /\ since \in SUBSET Copying!Versions
    BY <1>2, <1>5, <1>6, <1>7
  <2> QED
    BY <1>1, <1>2, <2>1, <2>2 DEF Copying!TypeOK
<1>10. RowsNumbered /\ SinceNow /\ Settled
  BY <1>1, <1>2, <1>5, <1>7 DEF RowsNumbered, SinceNow, Settled
<1>11. RunsApart
  BY <1>8 DEF RunsApart, Numbered, Early
<1>12. Opened
  BY <1>6, <1>7 DEF Opened
<1>13. Forward /\ TopStays
  <2>1. UpTo(since)
    BY <1>1, <1>7 DEF UpTo
  <2> QED
    BY <1>1, <1>5, <1>7, <2>1 DEF Forward, TopStays, Top
<1>14. copies = {c} => WholeCopy(c)
  BY <1>5, <1>6, <1>7 DEF WholeCopy, Copying!ByName
<1>15. Calm
  <2>1. c.name.id => c.name.n = c.n
    <3>1. CASE backup.key = None
      <4>1. c.name = [n |-> 1, id |-> FALSE]
        BY <1>5, <3>1
      <4> QED
        BY <4>1
    <3>2. CASE backup.key # None
      <4>1. c.name = [n |-> 0, id |-> TRUE]
        BY <1>5, <3>2
      <4> QED
        BY <1>5, <4>1
    <3> QED
      BY <3>1, <3>2
  <2>2. \A r \in Callers : run[r].pc = "idle"
    BY <1>8
  <2>3. c.hash \in {1}
    BY <1>5
  <2> QED
    BY <1>7, <1>14, <2>1, <2>2, <2>3 DEF Calm
<1>16. Apart
  <2>1. Safe => c.name = Named(c.n)
    BY <1>5 DEF Safe, Named
  <2> QED
    BY <1>7, <1>14, <2>1 DEF Apart
<1> QED
  BY <1>8, <1>9, <1>10, <1>11, <1>12, <1>13, <1>15, <1>16, IdleKnown DEF CopiesInv, StateInv

\* Every step keeps what is known.
LEMMA CopiesStep ==
  ASSUME CopiesInv, [Copying!Next]_copyVars
  PROVE  CopiesInv'
<1>1. CASE UNCHANGED copyVars
  <2>1. Copying!TypeOK' /\ StateInv'
    BY <1>1 DEF CopiesInv, Copying!TypeOK, copyVars, StateInv, RowsNumbered, RunsApart, Opened, SinceNow,
       Settled, Forward, UpTo, TopStays, Top, Calm, WholeCopy, Copying!ByName, Apart, Safe, Beaten
  <2>2. \A r \in Callers : RunInv(r)'
    BY <1>1, OtherRunKept DEF CopiesInv, copyVars
  <2> QED
    BY <2>1, <2>2 DEF CopiesInv
<1>2. CASE Copying!AddBackup \/ Copying!UpdateBackup \/ Copying!RemoveBackup
  BY <1>2, BackupKeeps
<1>3. CASE Copying!Change
  BY <1>3, ChangeKeeps
<1>4. CASE Copying!WeekPasses
  BY <1>4, WeekPassesKeeps
<1>5. CASE Copying!Crash
  BY <1>5, CrashKeeps
<1>6. ASSUME NEW r \in Callers, Copying!StartRun(r) PROVE CopiesInv'
  BY <1>6, StartRunKeeps
<1>7. ASSUME NEW r \in Callers, Copying!Abort(r) PROVE CopiesInv'
  BY <1>7, AbortKeeps
<1>8. ASSUME NEW r \in Callers, Copying!Execute(r) PROVE CopiesInv'
  BY <1>8, SetStatusKeeps, HashItemKeeps, KeepIdenticalKeeps, ReadItemKeeps, ChooseNameKeeps,
     CreateFileKeeps, WriteFileKeeps, AddRowKeeps, ListOldKeeps, RemoveFileKeeps, RemoveFailsKeeps,
     RemoveRowKeeps, KeepRowKeeps, FinishItemKeeps, FinishRunKeeps DEF Copying!Execute
<1> QED
  BY <1>1, <1>2, <1>3, <1>4, <1>5, <1>6, <1>7, <1>8 DEF Copying!Next

\* What a whole copy reads back is the version of its row.
LEMMA WholeRead ==
  ASSUME NEW c \in copies, backup # None, WholeCopy(c)
  PROVE  IF c.raced THEN Copying!ReadBack(c) # {} ELSE Copying!ReadBack(c) = {c.hash}
<1>1. Copying!FileOf(c) = Copying!ByName(backup.place, c.name)
  BY DEF Copying!FileOf
<1>2. Copying!ReadBack(c) = {f.version : f \in Copying!FileOf(c)}
  BY <1>1 DEF Copying!ReadBack, WholeCopy
<1> QED
  BY <1>1, <1>2 DEF WholeCopy

\* With nothing that happened, the copy of the version a run is at, or that of any since;
\* and among encrypted copies of a database, that of the latest version.
LEMMA CopyStays ==
  ASSUME CopiesInv, since # {}, backup # None, events \subseteq Copying!Harmless
  PROVE  \E c \in copies : c.hash \in since /\ WholeCopy(c)
<1>1. Copying!TypeOK /\ StateInv
  BY DEF CopiesInv
<1>2. CASE events = {}
  <2>1. /\ \A r, q \in Callers : run[r].pc # "idle" /\ run[q].pc # "idle" => r = q
        /\ \A c \in copies : WholeCopy(c) \/ \E r \in Callers : run[r].pc = "row" /\ run[r].hand = c.n
        /\ \E c \in copies : c.hash \in since
    BY <1>1, <1>2 DEF StateInv, Calm
  <2>2. CASE \E r \in Callers : run[r].pc = "row"
    <3>1. PICK r \in Callers : run[r].pc = "row"
      BY <2>2
    <3>2. PICK o \in copies : o.n = run[r].own /\ o.hash = run[r].hash
      BY <1>2, <3>1, RunKnown DEF RunCalm, Behind
    <3>3. run[r].hand \in run[r].todo /\ run[r].own \notin run[r].todo /\ run[r].hash \in since
      BY <1>2, <3>1, RunKnown DEF RunCalm, RunSeen, Behind, Hashed
    <3> QED
      BY <2>1, <3>1, <3>2, <3>3
  <2>3. CASE \A r \in Callers : run[r].pc # "row"
    BY <2>1, <2>3
  <2> QED
    BY <2>2, <2>3
<1>3. CASE events # {}
  <2>1. Safe
    BY <1>3 DEF Safe, Copying!Harmless
  <2>2. copies # {} /\ \E c \in copies : c.hash \in since
    BY <1>1, <2>1 DEF StateInv, TopStays, Safe
  <2>3. PICK t \in copies : Top(t)
    BY <1>1, <2>1, <2>2 DEF StateInv, TopStays, Safe
  <2>4. t.hash <= source /\ UpTo(since)
    BY <1>1, <2>1 DEF StateInv, Forward, Safe
  <2>5. t.hash \in since
    BY <1>1, <2>2, <2>3, <2>4, TopLatest
  <2>6. WholeCopy(t)
    BY <1>1, <2>1, <2>3, TopBeats DEF StateInv, Apart
  <2> QED
    BY <2>5, <2>6
<1> QED
  BY <1>2, <1>3

\* Once a run went past the item, a copy of a version it had since can be read back
\* (BackupTask::execute, upload_backup_path, remove_backup_files_for_media,
\* get_backup_file_reader).
THEOREM CopiesCorrect == MCSpec => []CopyKept
  <1> DEFINE Inv == subject = "copies" => CopiesInv
  <1>1. MCInit => Inv
    BY CopiesInit DEF MCInit
  <1>2. Inv /\ [MCNext]_<<subject, vars, formatVars, fileVars, imageVars, pluginVars,
                          viewVars, copyVars>> => Inv'
    <2> SUFFICES ASSUME Inv, subject' = "copies",
                        [MCNext]_<<subject, vars, formatVars, fileVars, imageVars, pluginVars,
                                   viewVars, copyVars>>
                 PROVE  CopiesInv'
      OBVIOUS
    <2>1. subject = "copies"
      BY DEF MCNext
    <2>2. [Copying!Next]_copyVars
      BY <2>1 DEF MCNext
    <2> QED
      BY <2>1, <2>2, CopiesStep
  <1>3. Inv => CopyKept
    BY CopyStays, WholeRead DEF CopyKept, Copying!CopyKept
  <1> QED
    BY <1>1, <1>2, <1>3, PTL DEF MCSpec

=============================================================================
