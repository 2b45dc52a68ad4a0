------------------------- MODULE MediaBackup_proofs -------------------------
(***************************************************************************)
(* Proofs about what the administration of the server keeps, for any       *)
(* medias, runs and dates, any users, libraries and codes, any databases   *)
(* and scripts: the copies of the medias (MediaBackup), the accounts       *)
(* (Accounts) and the databases (LibraryStores).  Each part has an         *)
(* inductive invariant, which TLC checks too, and a case for every action. *)
(***************************************************************************)
EXTENDS MCMediaBackup, WellFoundedInduction, TLAPS

-----------------------------------------------------------------------------
(* MediaBackup.                                                            *)

\* Nothing is dated after now, but by the client's created.
ClockInv ==
  /\ \A m \in Medias : stamp[m] <= clock /\ deletedAt[m] <= clock
  /\ \A m \in Medias \ moved : created[m] = 0
  /\ \A c \in copies : c.media \notin moved => c.modified <= clock
  /\ last <= clock
  /\ last = 0 \/ \E r \in Runs : run[r].at # 0 /\ ~Active(r) /\ run[r].ended = last

\* What a run holds of the medias and of the deletions.
RunOf(r) ==
  /\ run[r].at <= clock /\ run[r].ended <= clock
  /\ run[r].pc \in {"idle", "checked", "infos", "listed", "skipped"} => run[r].at = 0
  /\ run[r].pc \in {"deletions", "working", "copying"} => run[r].at # 0
  /\ run[r].pc \notin {"listed", "deletions", "working", "copying"} => run[r].todo = {}
  /\ run[r].pc \notin {"deletions", "working"} => run[r].deletes = {}
  /\ \A m \in run[r].deletes : media[m] = "deleted"
  /\ \A m \in run[r].backedUp : media[m] # "new"
  /\ run[r].backedUp \cap Present \subseteq Copied
  /\ \A m \in run[r].todo :
       /\ media[m] # "new"
       /\ m \notin moved => run[r].listed[m] <= clock
       /\ media[m] = "present" /\ m \notin moved => run[r].listed[m] = Date(m)
       /\ media[m] = "present" /\ m \notin lowered => run[r].listed[m] <= Date(m)
  /\ run[r].pc = "copying" =>
       /\ run[r].hand \in run[r].todo
       /\ \A x \in run[r].todo : run[r].listed[run[r].hand] <= run[r].listed[x]
       /\ run[r].modified # None =>
            /\ run[r].hand \notin moved => run[r].modified = run[r].listed[run[r].hand]
            /\ media[run[r].hand] = "deleted" => run[r].at <= deletedAt[run[r].hand]

\* RunOf, of every run.
RunsInv == \A r \in Runs : RunOf(r)

\* A media that waits to be copied is dated after what was copied, and what will be
\* copied before it.
Waits(m) == /\ media[m] = "present"
            /\ m \notin Copied /\ m \notin errors /\ m \notin lowered /\ m \notin shadowed

\* Everything copied, and everything that a run goes on to copy before m, is dated
\* before m: no later run starts after m.
PassOf(m) ==
  /\ \A c \in copies : c.modified < Date(m)
  /\ \A r \in Runs :
       /\ run[r].pc = "infos" /\ run[r].after # None => run[r].after < Date(m)
       /\ m \notin run[r].todo => \A y \in run[r].todo \ moved : run[r].listed[y] <= Date(m)

\* PassOf, of every media that waits.
PassInv == \A m \in Medias : Waits(m) => PassOf(m)

\* A run that listed the deletions was at work when this one came.
Racing(m) ==
  \E r \in Runs : /\ run[r].at # 0 /\ run[r].at <= deletedAt[m]
                  /\ Active(r) \/ deletedAt[m] <= run[r].ended

\* The deletion is after the last backup, a run that listed it is at it, or it is one
\* of those that the code is known to leave.
DeletedOf(c) ==
  /\ deletedAt[c.media] > last \/ c \in kept \/ Racing(c.media)
  /\ \A r \in Runs : Active(r) /\ run[r].at > deletedAt[c.media] =>
       c \in kept \/ c.media \in run[r].deletes \/ Racing(c.media)

\* DeletedOf, of every copy of a deleted media.
DeletedInv == \A c \in copies : media[c.media] = "deleted" => DeletedOf(c)

\* The inductive invariant of MediaBackup.
BackupInv == TypeOK /\ ClockInv /\ RunsInv /\ PassInv /\ DeletedInv

\* The types of single fields, which the steps below take one at a time.
LEMMA TypeFacts ==
  ASSUME TypeOK
  PROVE  /\ MaxClock \in Nat /\ clock \in Nat /\ clock <= MaxClock /\ clock # 0
         /\ clock \in Times
         /\ None \notin Medias
         /\ \A m \in Medias : /\ stamp[m] \in Times /\ stamp[m] \in Nat
                              /\ created[m] \in Times /\ created[m] \in Nat
                              /\ deletedAt[m] \in Times /\ deletedAt[m] \in Nat
                              /\ media[m] \in MediaStates
                              /\ Date(m) \in Times /\ Date(m) \in Nat
         /\ \A c \in copies : c.media \in Medias /\ c.modified \in Times /\ c.modified \in Nat
         /\ last \in Nat
         /\ \A r \in Runs : /\ run[r] \in RunRecord /\ run[r].pc \in RunStates
                            /\ run[r].at \in Times /\ run[r].at \in Nat
                            /\ run[r].ended \in Times /\ run[r].ended \in Nat
                            /\ run[r].todo \subseteq Medias
                            /\ run[r].deletes \subseteq Medias
                            /\ run[r].backedUp \subseteq Medias
                            /\ run[r].listed \in [Medias -> Times]
                            /\ \A m \in Medias : run[r].listed[m] \in Nat
  <1>1. MaxClock \in Nat /\ None \notin Medias
    BY BackupAssumption
  <1>2. \A t \in Times : t \in Nat
    BY <1>1 DEF Times
  <1>3. clock \in Nat /\ clock <= MaxClock /\ clock # 0 /\ clock \in Times /\ last \in Nat
    BY <1>1 DEF TypeOK, Times
  <1>4. \A m \in Medias : /\ stamp[m] \in Times /\ created[m] \in Times /\ deletedAt[m] \in Times
                          /\ media[m] \in MediaStates /\ Date(m) \in Times
    BY DEF TypeOK, Date
  <1>5. \A c \in copies : c.media \in Medias /\ c.modified \in Times
    BY DEF TypeOK, Copies
  <1>6. \A r \in Runs : /\ run[r] \in RunRecord /\ run[r].pc \in RunStates
                        /\ run[r].at \in Times /\ run[r].ended \in Times
                        /\ run[r].todo \subseteq Medias /\ run[r].deletes \subseteq Medias
                        /\ run[r].backedUp \subseteq Medias
                        /\ run[r].listed \in [Medias -> Times]
    BY DEF TypeOK, RunRecord
  <1> QED
    BY <1>1, <1>2, <1>3, <1>4, <1>5, <1>6

\* A media that nothing hid before or after a step was not added under one either.
LEMMA RememberFacts ==
  ASSUME Remember
  PROVE  /\ shadowed' \subseteq Medias
         /\ \A m \in Medias : media'[m] = "present" /\ m \notin Copied' /\ m \notin shadowed' =>
              m \notin shadowed /\ ~ Shadowed(m)' /\ ~ AddedUnder(m)
  BY DEF Remember, Present

\* What happens in the library.
LEMMA LibraryStep ==
  ASSUME BackupInv, TypeOK', ClockInv', Remember,
         UNCHANGED <<copies, last, run, errors, kept>>,
         clock <= clock', moved \subseteq moved',
         \A m \in Medias :
           /\ media[m] # "new" => media'[m] # "new"
           /\ media'[m] = "present" /\ media[m] # "present" =>
                media[m] = "new" /\ clock <= Date(m)'
           /\ media'[m] = "present" /\ media[m] = "present" =>
                /\ m \notin moved' => Date(m)' = Date(m)
                /\ m \notin lowered' => m \notin lowered /\ Date(m) <= Date(m)'
           /\ media[m] = "deleted" => media'[m] = "deleted" /\ deletedAt'[m] = deletedAt[m]
           /\ media'[m] = "deleted" /\ media[m] # "deleted" =>
                deletedAt'[m] = clock /\ clock' = clock
  PROVE  BackupInv'
  <1>0. TypeOK /\ ClockInv /\ RunsInv /\ PassInv /\ DeletedInv
    BY DEF BackupInv
  <1>t. /\ clock \in Nat /\ clock' \in Nat /\ last \in Nat /\ None \notin Medias
        /\ \A m \in Medias : /\ Date(m) \in Nat /\ Date(m)' \in Nat
                             /\ deletedAt[m] \in Nat /\ deletedAt'[m] \in Nat
        /\ \A c \in copies : c.media \in Medias /\ c.modified \in Nat
        /\ \A r \in Runs : /\ run[r].pc \in RunStates /\ run[r].at \in Nat /\ run[r].ended \in Nat
                           /\ run[r].todo \subseteq Medias
                           /\ run[r].deletes \subseteq Medias
                           /\ run[r].backedUp \subseteq Medias
                           /\ \A m \in Medias : run[r].listed[m] \in Nat
    <2>2. /\ clock' \in Nat
          /\ \A m \in Medias : Date(m)' \in Nat /\ deletedAt'[m] \in Nat
      BY BackupAssumption DEF TypeOK, Date, Times
    <2> QED
      BY <1>0, <2>2, TypeFacts
  <1>c. Copied' = Copied
    BY DEF Copied
  <1>1. RunsInv'
    <2> SUFFICES ASSUME NEW r \in Runs PROVE RunOf(r)'
      BY DEF RunsInv
    <2>0. RunOf(r) /\ run'[r] = run[r]
      BY <1>0 DEF RunsInv
    <2>1. /\ run[r].at <= clock' /\ run[r].ended <= clock'
      BY <1>t, <2>0 DEF RunOf
    <2>2. \A m \in run[r].deletes : media'[m] = "deleted"
      BY <1>t, <2>0 DEF RunOf
    <2>3. run[r].backedUp \cap Present' \subseteq Copied'
      <3> SUFFICES ASSUME NEW m \in run[r].backedUp, media'[m] = "present", m \in Medias
                   PROVE  m \in Copied
        BY <1>c, <1>t DEF Present
      <3>1. CASE media[m] = "present"
        BY <2>0, <3>1 DEF RunOf, Present
      <3>2. CASE media[m] = "new"
        BY <2>0, <3>2 DEF RunOf
      <3> QED
        BY <3>1, <3>2
    <2>4. ASSUME NEW m \in run[r].todo
          PROVE  /\ media'[m] # "new"
                 /\ m \notin moved' => run[r].listed[m] <= clock'
                 /\ media'[m] = "present" /\ m \notin moved' => run[r].listed[m] = Date(m)'
                 /\ media'[m] = "present" /\ m \notin lowered' => run[r].listed[m] <= Date(m)'
      <3>1. /\ m \in Medias /\ media[m] # "new" /\ run[r].listed[m] \in Nat
            /\ m \notin moved => run[r].listed[m] <= clock
            /\ media[m] = "present" /\ m \notin moved => run[r].listed[m] = Date(m)
            /\ media[m] = "present" /\ m \notin lowered => run[r].listed[m] <= Date(m)
        BY <1>t, <2>0 DEF RunOf
      <3> QED
        BY <1>t, <3>1
    <2>5. ASSUME run[r].pc = "copying", run[r].modified # None
          PROVE  /\ run[r].hand \notin moved' => run[r].modified = run[r].listed[run[r].hand]
                 /\ media'[run[r].hand] = "deleted" => run[r].at <= deletedAt'[run[r].hand]
      <3> DEFINE h == run[r].hand
      <3>1. /\ h \in Medias /\ (h \notin moved => run[r].modified = run[r].listed[h])
            /\ media[h] = "deleted" => run[r].at <= deletedAt[h]
            /\ run[r].at <= clock
        BY <1>t, <2>0, <2>5 DEF RunOf
      <3> HIDE DEF h
      <3>2. (h \notin moved' => run[r].modified = run[r].listed[h])
            /\ (media'[h] = "deleted" => run[r].at <= deletedAt'[h])
        BY <1>t, <3>1
      <3> QED
        BY <3>2 DEF h
    <2>6. \A m \in run[r].backedUp : media'[m] # "new"
      BY <1>t, <2>0 DEF RunOf
    <2> QED
      BY <2>0, <2>1, <2>2, <2>3, <2>4, <2>5, <2>6 DEF RunOf
  <1>2. PassInv'
    <2> SUFFICES ASSUME NEW m \in Medias, Waits(m)' PROVE PassOf(m)'
      BY DEF PassInv
    <2>0. /\ media'[m] = "present" /\ m \notin Copied' /\ m \notin errors
          /\ m \notin lowered'
          /\ m \notin shadowed' /\ m \notin shadowed /\ ~ Shadowed(m)' /\ ~ AddedUnder(m)
      BY RememberFacts DEF Waits
    <2>1. CASE media[m] = "present"
      <3>1. Waits(m)
        BY <1>c, <2>0, <2>1 DEF Waits
      <3>2. PassOf(m) /\ Date(m) <= Date(m)'
        BY <1>0, <2>0, <2>1, <3>1 DEF PassInv
      <3>3. \A c \in copies : c.modified < Date(m)'
        BY <1>t, <3>2 DEF PassOf
      <3>4. ASSUME NEW r \in Runs
            PROVE  /\ run[r].pc = "infos" /\ run[r].after # None => run[r].after < Date(m)'
                   /\ m \notin run[r].todo => \A y \in run[r].todo \ moved' : run[r].listed[y] <= Date(m)'
        <4>1. run[r].after # None => run[r].after \in Nat
          BY <1>0, BackupAssumption DEF TypeOK, RunRecord, Times
        <4> QED
          BY <1>t, <3>2, <4>1 DEF PassOf
      <3> QED
        BY <3>3, <3>4 DEF PassOf
    <2>2. CASE media[m] # "present"
      <3>1. media[m] = "new" /\ clock <= Date(m)'
        BY <2>0, <2>2
      <3>2. ASSUME NEW c \in copies PROVE c.modified < Date(m)'
        <4>1. CASE c.media \in moved'
          BY <1>t, <2>0, <4>1 DEF Shadowed
        <4>2. CASE c.media \notin moved'
          <5>1. c.modified <= clock
            BY <1>0, <4>2 DEF ClockInv
          <5>2. c.modified <= Date(m)'
            BY <1>t, <3>1, <5>1
          <5>3. c.modified # Date(m)'
            BY <1>t, <2>0, <5>2 DEF Shadowed
          <5> QED
            BY <1>t, <5>2, <5>3
        <4> QED
          BY <4>1, <4>2
      <3>3. ASSUME NEW r \in Runs
            PROVE  /\ run[r].pc = "infos" /\ run[r].after # None => run[r].after < Date(m)'
                   /\ m \notin run[r].todo => \A y \in run[r].todo \ moved' : run[r].listed[y] <= Date(m)'
        <4>1. run[r].after # None => run[r].after \in Nat
          BY <1>0, BackupAssumption DEF TypeOK, RunRecord, Times
        <4>2. run[r].pc = "infos" /\ run[r].after # None => run[r].after < Date(m)'
          BY <1>t, <2>0, <3>1, <4>1 DEF AddedUnder
        <4>3. ASSUME NEW y \in run[r].todo \ moved' PROVE run[r].listed[y] <= Date(m)'
          <5>1. y \in Medias /\ y \notin moved /\ RunOf(r)
            BY <1>0, <1>t, <4>3 DEF RunsInv
          <5>2. run[r].listed[y] <= clock
            BY <5>1, <4>3 DEF RunOf
          <5> QED
            BY <1>t, <3>1, <5>1, <5>2
        <4> QED
          BY <4>2, <4>3
      <3> QED
        BY <3>2, <3>3 DEF PassOf
    <2> QED
      BY <2>1, <2>2
  <1>3. DeletedInv'
    <2> SUFFICES ASSUME NEW c \in copies, media'[c.media] = "deleted" PROVE DeletedOf(c)'
      BY DEF DeletedInv
    <2> DEFINE m == c.media
    <2>0. m \in Medias
      BY <1>t
    <2>1. CASE media[m] = "deleted"
      <3>1. DeletedOf(c) /\ deletedAt'[m] = deletedAt[m]
        BY <1>0, <2>0, <2>1 DEF DeletedInv
      <3>2. Racing(m) => Racing(m)'
        BY <3>1 DEF Racing, Active
      <3> QED
        BY <3>1, <3>2 DEF DeletedOf, Active
    <2>2. CASE media[m] # "deleted"
      <3>1. deletedAt'[m] = clock /\ clock' = clock
        BY <2>0, <2>2
      <3>2. \A r \in Runs : run[r].at <= clock /\ run[r].ended <= clock
        BY <1>0 DEF RunsInv, RunOf
      <3>3. last <= clock /\ clock # 0
        BY <1>0, TypeFacts DEF ClockInv
      <3>4. deletedAt'[m] > last \/ Racing(m)'
        <4>1. CASE last = 0 \/ last < clock
          BY <1>t, <3>1, <3>3, <4>1
        <4>2. CASE last = clock /\ last # 0
          <5>1. PICK r \in Runs : run[r].at # 0 /\ ~Active(r) /\ run[r].ended = last
            BY <1>0, <4>2 DEF ClockInv
          <5> QED
            BY <1>t, <3>1, <3>2, <4>2, <5>1 DEF Racing
        <4> QED
          BY <1>t, <3>3, <4>1, <4>2
      <3>5. \A r \in Runs : ~ (run[r].at > deletedAt'[m])
        BY <1>t, <3>1, <3>2
      <3> QED
        BY <3>4, <3>5 DEF DeletedOf
    <2> QED
      BY <2>1, <2>2
  <1> QED
    BY <1>1, <1>2, <1>3 DEF BackupInv

\* What a run does, of which the medias and the other runs know nothing.
LEMMA RunStep ==
  ASSUME BackupInv, NEW r \in Runs, TypeOK', ClockInv', DeletedInv', RunOf(r)', Remember,
         UNCHANGED library,
         \A s \in Runs : s # r => run'[s] = run[s],
         errors \subseteq errors',
         \A m \in Copied : media[m] = "present" => m \in Copied',
         \A m \in Medias : Waits(m) /\ Waits(m)' /\ PassOf(m) =>
           /\ \A c \in copies' : c.modified < Date(m)
           /\ run'[r].pc = "infos" /\ run'[r].after # None => run'[r].after < Date(m)
           /\ m \notin run'[r].todo =>
                \A y \in run'[r].todo \ moved : run'[r].listed[y] <= Date(m)
  PROVE  BackupInv'
  <1>0. /\ TypeOK /\ ClockInv /\ RunsInv /\ PassInv /\ DeletedInv
        /\ UNCHANGED <<clock, media, stamp, created, deletedAt, moved, lowered>>
    BY DEF BackupInv, library
  <1>1. RunsInv'
    <2> SUFFICES ASSUME NEW s \in Runs, s # r PROVE RunOf(s)'
      BY DEF RunsInv
    <2>1. RunOf(s) /\ run'[s] = run[s]
      BY <1>0 DEF RunsInv
    <2>2. run[s].backedUp \cap Present' \subseteq Copied'
      <3> SUFFICES ASSUME NEW m \in run[s].backedUp, m \in Medias, media[m] = "present"
                   PROVE  m \in Copied'
        BY <1>0 DEF Present
      <3>1. m \in Copied
        BY <2>1 DEF RunOf, Present
      <3> QED
        BY <3>1
    <2> QED
      BY <1>0, <2>1, <2>2 DEF RunOf, Date
  <1>2. PassInv'
    <2> SUFFICES ASSUME NEW m \in Medias, Waits(m)' PROVE PassOf(m)'
      BY DEF PassInv
    <2>1. /\ media'[m] = "present" /\ m \notin Copied' /\ m \notin errors'
          /\ m \notin lowered'
          /\ m \notin shadowed'
      BY DEF Waits
    <2>2. Waits(m)
      BY <1>0, <2>1, RememberFacts DEF Waits
    <2>3. PassOf(m) /\ Date(m)' = Date(m)
      BY <1>0, <2>2 DEF PassInv, Date
    <2> QED
      BY <1>0, <2>2, <2>3 DEF PassOf
  <1> QED
    BY <1>0, <1>1, <1>2 DEF BackupInv

\* A run that was at work when a deletion came stays known for it.
LEMMA RacingKept ==
  ASSUME BackupInv, NEW r \in Runs, NEW m \in Medias, UNCHANGED library,
         \A s \in Runs : s # r => run'[s] = run[s],
         run[r].at # 0 => /\ run'[r].at = run[r].at /\ Active(r)
                          /\ Active(r)' \/ run'[r].ended = clock,
         Racing(m)
  PROVE  Racing(m)'
  <1>0. /\ ClockInv /\ UNCHANGED deletedAt
    BY DEF BackupInv, library
  <1>1. PICK s \in Runs : /\ run[s].at # 0 /\ run[s].at <= deletedAt[m]
                          /\ Active(s) \/ deletedAt[m] <= run[s].ended
    BY DEF Racing
  <1>2. CASE s = r
    <2>1. deletedAt[m] <= clock
      BY <1>0 DEF ClockInv
    <2> QED
      BY <1>0, <1>1, <1>2, <2>1 DEF Racing
  <1>3. CASE s # r
    <2>1. run'[s] = run[s]
      BY <1>3
    <2> QED
      BY <1>0, <1>1, <2>1 DEF Racing, Active
  <1> QED
    BY <1>2, <1>3

\* What neither lists the deletions nor ends well.
LEMMA DeletionsLeft ==
  ASSUME BackupInv, NEW r \in Runs, UNCHANGED library, last' = last,
         \A s \in Runs : s # r => run'[s] = run[s],
         kept \subseteq kept',
         \A c \in copies' \ copies :
           /\ c.media \in Medias /\ (c.media \notin moved => c.modified <= clock)
           /\ media[c.media] = "deleted" => Racing(c.media)',
         run'[r].at = run[r].at, run[r].at # 0 => Active(r),
         Active(r) /\ ~ Active(r)' => run'[r].ended = clock,
         \A c \in copies' \cap copies : Active(r)' /\ c.media \in run[r].deletes =>
           c \in kept' \/ c.media \in run'[r].deletes
  PROVE  ClockInv' /\ DeletedInv'
  <1>0. /\ TypeOK /\ ClockInv /\ DeletedInv
        /\ UNCHANGED <<clock, media, stamp, created, deletedAt, moved, lowered>>
    BY DEF BackupInv, library
  <1>1. ClockInv'
    <2>1. last = 0 \/ \E s \in Runs : run'[s].at # 0 /\ ~Active(s)' /\ run'[s].ended = last
      <3> SUFFICES ASSUME last # 0
                   PROVE  \E s \in Runs : run'[s].at # 0 /\ ~Active(s)'
                                                         /\ run'[s].ended = last
        OBVIOUS
      <3>1. PICK s \in Runs : run[s].at # 0 /\ ~Active(s) /\ run[s].ended = last
        BY <1>0 DEF ClockInv
      <3>2. s # r /\ run'[s] = run[s]
        BY <3>1
      <3> QED
        BY <3>1, <3>2 DEF Active
    <2> QED
      BY <1>0, <2>1 DEF ClockInv
  <1>2. DeletedInv'
    <2> SUFFICES ASSUME NEW c \in copies', media[c.media] = "deleted" PROVE DeletedOf(c)'
      BY <1>0 DEF DeletedInv
    <2>a. CASE c \notin copies
      BY <2>a DEF DeletedOf
    <2>b. CASE c \in copies
      <3>1. DeletedOf(c) /\ c.media \in Medias
        BY <1>0, <2>b, TypeFacts DEF DeletedInv
      <3>2. ASSUME Racing(c.media) PROVE Racing(c.media)'
        BY <3>1, <3>2, RacingKept
      <3>3. ASSUME NEW s \in Runs, Active(s)', run'[s].at > deletedAt[c.media]
            PROVE  c \in kept' \/ c.media \in run'[s].deletes \/ Racing(c.media)'
        <4>1. CASE s = r
          <5>1. Active(r) \/ run[r].at = 0
            OBVIOUS
          <5>2. deletedAt[c.media] \in Nat
            BY <1>0, <3>1, TypeFacts
          <5>3. Active(r) /\ run[r].at > deletedAt[c.media]
            BY <3>3, <4>1, <5>1, <5>2
          <5>4. c \in kept \/ c.media \in run[r].deletes \/ Racing(c.media)
            BY <3>1, <5>3 DEF DeletedOf
          <5> QED
            BY <3>2, <3>3, <4>1, <5>4
        <4>2. CASE s # r
          <5>1. run'[s] = run[s]
            BY <4>2
          <5>2. c \in kept \/ c.media \in run[s].deletes \/ Racing(c.media)
            BY <3>1, <3>3, <5>1 DEF DeletedOf, Active
          <5> QED
            BY <3>2, <5>1, <5>2
        <4> QED
          BY <4>1, <4>2
      <3>4. deletedAt[c.media] > last \/ c \in kept' \/ Racing(c.media)'
        BY <3>1, <3>2 DEF DeletedOf
      <3> QED
        BY <1>0, <3>3, <3>4 DEF DeletedOf
    <2> QED
      BY <2>a, <2>b
  <1> QED
    BY <1>1, <1>2

\* Every step of the library and of the runs preserves the invariant.
LEMMA BackupStep == BackupInv /\ [Next]_vars => BackupInv'
  <1> SUFFICES ASSUME BackupInv, [Next]_vars PROVE BackupInv'
    OBVIOUS
  <1>0. TypeOK /\ ClockInv /\ RunsInv /\ PassInv /\ DeletedInv
    BY DEF BackupInv
  <1> USE <1>0
  <1>1. CASE Tick /\ Remember
    <2>0. UNCHANGED <<copies, last, run, errors, kept>> /\ Remember
      BY <1>1 DEF Tick
    <2>1. TypeOK'
      <3>1. shadowed' \subseteq Medias
        BY <2>0, RememberFacts
      <3> QED
        BY <1>1, <3>1, TypeFacts, BackupAssumption DEF Tick, TypeOK, Times
    <2>2. ClockInv'
      BY <1>1, TypeFacts DEF Tick, ClockInv, Active
    <2>3. clock <= clock' /\ moved \subseteq moved'
      BY <1>1, TypeFacts DEF Tick
    <2>4. ASSUME NEW x \in Medias
          PROVE  /\ media[x] # "new" => media'[x] # "new"
                 /\ media'[x] = "present" /\ media[x] # "present" =>
                      media[x] = "new" /\ clock <= Date(x)'
                 /\ media'[x] = "present" /\ media[x] = "present" =>
                      /\ x \notin moved' => Date(x)' = Date(x)
                      /\ x \notin lowered' => x \notin lowered /\ Date(x) <= Date(x)'
                 /\ media[x] = "deleted" => media'[x] = "deleted" /\ deletedAt'[x] = deletedAt[x]
                 /\ media'[x] = "deleted" /\ media[x] # "deleted" =>
                      deletedAt'[x] = clock /\ clock' = clock
      BY <1>1, TypeFacts DEF Tick, Date, TypeOK
    <2> QED
      BY <2>0, <2>1, <2>2, <2>3, <2>4, LibraryStep
  <1>2. ASSUME NEW m \in Medias, AddMedia(m), Remember PROVE BackupInv'
    <2>0. UNCHANGED <<copies, last, run, errors, kept>> /\ Remember
      BY <1>2 DEF AddMedia
    <2>1. TypeOK'
      <3>1. shadowed' \subseteq Medias
        BY <2>0, RememberFacts
      <3> QED
        BY <1>2, <3>1, TypeFacts, BackupAssumption DEF AddMedia, TypeOK, MediaStates, Times
    <2>2. ClockInv'
      BY <1>2, TypeFacts DEF AddMedia, ClockInv, Active
    <2>3. clock <= clock' /\ moved \subseteq moved'
      BY <1>2, TypeFacts DEF AddMedia
    <2>4. ASSUME NEW x \in Medias
          PROVE  /\ media[x] # "new" => media'[x] # "new"
                 /\ media'[x] = "present" /\ media[x] # "present" =>
                      media[x] = "new" /\ clock <= Date(x)'
                 /\ media'[x] = "present" /\ media[x] = "present" =>
                      /\ x \notin moved' => Date(x)' = Date(x)
                      /\ x \notin lowered' => x \notin lowered /\ Date(x) <= Date(x)'
                 /\ media[x] = "deleted" => media'[x] = "deleted" /\ deletedAt'[x] = deletedAt[x]
                 /\ media'[x] = "deleted" /\ media[x] # "deleted" =>
                      deletedAt'[x] = clock /\ clock' = clock
      BY <1>2, TypeFacts DEF AddMedia, Date, TypeOK, Times
    <2> QED
      BY <2>0, <2>1, <2>2, <2>3, <2>4, LibraryStep
  <1>3. ASSUME NEW m \in Medias, ModifyMedia(m), Remember PROVE BackupInv'
    <2>0. UNCHANGED <<copies, last, run, errors, kept>> /\ Remember
      BY <1>3 DEF ModifyMedia
    <2>1. TypeOK'
      <3>1. shadowed' \subseteq Medias
        BY <2>0, RememberFacts
      <3> QED
        BY <1>3, <3>1, TypeFacts, BackupAssumption DEF ModifyMedia, TypeOK, Times
    <2>2. ClockInv'
      BY <1>3, TypeFacts DEF ModifyMedia, ClockInv, Active
    <2>3. clock <= clock' /\ moved \subseteq moved'
      BY <1>3, TypeFacts DEF ModifyMedia
    <2>4. ASSUME NEW x \in Medias
          PROVE  /\ media[x] # "new" => media'[x] # "new"
                 /\ media'[x] = "present" /\ media[x] # "present" =>
                      media[x] = "new" /\ clock <= Date(x)'
                 /\ media'[x] = "present" /\ media[x] = "present" =>
                      /\ x \notin moved' => Date(x)' = Date(x)
                      /\ x \notin lowered' => x \notin lowered /\ Date(x) <= Date(x)'
                 /\ media[x] = "deleted" => media'[x] = "deleted" /\ deletedAt'[x] = deletedAt[x]
                 /\ media'[x] = "deleted" /\ media[x] # "deleted" =>
                      deletedAt'[x] = clock /\ clock' = clock
      BY <1>3, TypeFacts DEF ModifyMedia, Date, TypeOK
    <2> QED
      BY <2>0, <2>1, <2>2, <2>3, <2>4, LibraryStep
  <1>4. ASSUME NEW m \in Medias, EditCreated(m), Remember PROVE BackupInv'
    <2>0. UNCHANGED <<copies, last, run, errors, kept>> /\ Remember
      BY <1>4 DEF EditCreated
    <2>1. TypeOK'
      <3>1. shadowed' \subseteq Medias
        BY <2>0, RememberFacts
      <3> QED
        BY <1>4, <3>1, TypeFacts, BackupAssumption DEF EditCreated, TypeOK, Times
    <2>2. ClockInv'
      BY <1>4, TypeFacts DEF EditCreated, ClockInv, Active
    <2>3. clock <= clock' /\ moved \subseteq moved'
      BY <1>4, TypeFacts DEF EditCreated
    <2>4. ASSUME NEW x \in Medias
          PROVE  /\ media[x] # "new" => media'[x] # "new"
                 /\ media'[x] = "present" /\ media[x] # "present" =>
                      media[x] = "new" /\ clock <= Date(x)'
                 /\ media'[x] = "present" /\ media[x] = "present" =>
                      /\ x \notin moved' => Date(x)' = Date(x)
                      /\ x \notin lowered' => x \notin lowered /\ Date(x) <= Date(x)'
                 /\ media[x] = "deleted" => media'[x] = "deleted" /\ deletedAt'[x] = deletedAt[x]
                 /\ media'[x] = "deleted" /\ media[x] # "deleted" =>
                      deletedAt'[x] = clock /\ clock' = clock
      BY <1>4, TypeFacts DEF EditCreated, Date, TypeOK, Times
    <2> QED
      BY <2>0, <2>1, <2>2, <2>3, <2>4, LibraryStep
  <1>5. ASSUME NEW m \in Medias, RemoveMedia(m), Remember PROVE BackupInv'
    <2>0. UNCHANGED <<copies, last, run, errors, kept>> /\ Remember
      BY <1>5 DEF RemoveMedia
    <2>1. TypeOK'
      <3>1. shadowed' \subseteq Medias
        BY <2>0, RememberFacts
      <3> QED
        BY <1>5, <3>1, TypeFacts, BackupAssumption
          DEF RemoveMedia, TypeOK, MediaStates, Times
    <2>2. ClockInv'
      BY <1>5, TypeFacts DEF RemoveMedia, ClockInv, Active
    <2>3. clock <= clock' /\ moved \subseteq moved'
      BY <1>5, TypeFacts DEF RemoveMedia
    <2>4. ASSUME NEW x \in Medias
          PROVE  /\ media[x] # "new" => media'[x] # "new"
                 /\ media'[x] = "present" /\ media[x] # "present" =>
                      media[x] = "new" /\ clock <= Date(x)'
                 /\ media'[x] = "present" /\ media[x] = "present" =>
                      /\ x \notin moved' => Date(x)' = Date(x)
                      /\ x \notin lowered' => x \notin lowered /\ Date(x) <= Date(x)'
                 /\ media[x] = "deleted" => media'[x] = "deleted" /\ deletedAt'[x] = deletedAt[x]
                 /\ media'[x] = "deleted" /\ media[x] # "deleted" =>
                      deletedAt'[x] = clock /\ clock' = clock
      BY <1>5, TypeFacts DEF RemoveMedia, Date, TypeOK
    <2> QED
      BY <2>0, <2>1, <2>2, <2>3, <2>4, LibraryStep
  <1>6. ASSUME NEW m \in Medias, AddDeleted(m), Remember PROVE BackupInv'
    <2>0. UNCHANGED <<copies, last, run, errors, kept>> /\ Remember
      BY <1>6 DEF AddDeleted
    <2>1. TypeOK'
      <3>1. shadowed' \subseteq Medias
        BY <2>0, RememberFacts
      <3> QED
        BY <1>6, <3>1, TypeFacts DEF AddDeleted, TypeOK, MediaStates
    <2>2. ClockInv'
      BY <1>6, TypeFacts DEF AddDeleted, ClockInv, Active
    <2>3. clock <= clock' /\ moved \subseteq moved'
      BY <1>6, TypeFacts DEF AddDeleted
    <2>4. ASSUME NEW x \in Medias
          PROVE  /\ media[x] # "new" => media'[x] # "new"
                 /\ media'[x] = "present" /\ media[x] # "present" =>
                      media[x] = "new" /\ clock <= Date(x)'
                 /\ media'[x] = "present" /\ media[x] = "present" =>
                      /\ x \notin moved' => Date(x)' = Date(x)
                      /\ x \notin lowered' => x \notin lowered /\ Date(x) <= Date(x)'
                 /\ media[x] = "deleted" => media'[x] = "deleted" /\ deletedAt'[x] = deletedAt[x]
                 /\ media'[x] = "deleted" /\ media[x] # "deleted" =>
                      deletedAt'[x] = clock /\ clock' = clock
      BY <1>6, TypeFacts DEF AddDeleted, Date, TypeOK
    <2> QED
      BY <2>0, <2>1, <2>2, <2>3, <2>4, LibraryStep
  <1>7. ASSUME NEW m \in Medias, ForgetDeleted(m), Remember PROVE BackupInv'
    <2>0. UNCHANGED <<copies, last, run, errors, kept>> /\ Remember
      BY <1>7 DEF ForgetDeleted
    <2>1. TypeOK'
      <3>1. shadowed' \subseteq Medias
        BY <2>0, RememberFacts
      <3> QED
        BY <1>7, <3>1, TypeFacts DEF ForgetDeleted, TypeOK, MediaStates
    <2>2. ClockInv'
      BY <1>7, TypeFacts DEF ForgetDeleted, ClockInv, Active
    <2>3. clock <= clock' /\ moved \subseteq moved'
      BY <1>7, TypeFacts DEF ForgetDeleted
    <2>4. ASSUME NEW x \in Medias
          PROVE  /\ media[x] # "new" => media'[x] # "new"
                 /\ media'[x] = "present" /\ media[x] # "present" =>
                      media[x] = "new" /\ clock <= Date(x)'
                 /\ media'[x] = "present" /\ media[x] = "present" =>
                      /\ x \notin moved' => Date(x)' = Date(x)
                      /\ x \notin lowered' => x \notin lowered /\ Date(x) <= Date(x)'
                 /\ media[x] = "deleted" => media'[x] = "deleted" /\ deletedAt'[x] = deletedAt[x]
                 /\ media'[x] = "deleted" /\ media[x] # "deleted" =>
                      deletedAt'[x] = clock /\ clock' = clock
      BY <1>7, TypeFacts DEF ForgetDeleted, Date, TypeOK
    <2> QED
      BY <2>0, <2>1, <2>2, <2>3, <2>4, LibraryStep
  <1>8. ASSUME NEW r \in Runs, StartRun(r), Remember PROVE BackupInv'
    <2> DEFINE q == [run[r] EXCEPT !.pc = IF status = "InProgress" THEN "skipped" ELSE "checked"]
    <2>0. /\ run' = [run EXCEPT ![r] = q] /\ UNCHANGED library
          /\ UNCHANGED <<copies, last, errors, kept>>
      BY <1>8 DEF StartRun, IsNext
    <2>a. RunOf(r) /\ run[r] \in RunRecord
      BY TypeFacts DEF RunsInv
    <2>g. run[r].pc = "idle"
      BY <1>8, <2>a, TypeFacts DEF StartRun, IsNext, Active, RunOf
    <2>1. /\ q \in RunRecord
          /\ q.pc \in {"skipped", "checked"}
          /\ q.after = run[r].after /\ q.todo = run[r].todo /\ q.listed = run[r].listed
          /\ q.deletes = run[r].deletes /\ q.at = run[r].at
          /\ q.backedUp = run[r].backedUp /\ q.hand = run[r].hand
          /\ q.modified = run[r].modified /\ q.ended = run[r].ended
      BY <1>8, <2>a, <2>g, TypeFacts DEF RunRecord, RunStates
    <2> HIDE DEF q
    <2>2. run' \in [Runs -> RunRecord] /\ run'[r] = q /\ \A s \in Runs : s # r => run'[s] = run[s]
      BY <2>0, <2>1 DEF TypeOK
    <2>3. TypeOK'
      <3>1. shadowed' \subseteq Medias
        BY <1>8, RememberFacts
      <3> QED
        BY <1>8, <2>0, <2>a, <2>g, <2>2, <3>1, TypeFacts DEF StartRun, TypeOK, library
    <2>4. RunOf(r)'
      BY <1>8, <2>0, <2>a, <2>g, <2>1, <2>2, TypeFacts
        DEF StartRun, RunOf, library, Date, Present, Copied
    <2>5. \A m \in Copied : media[m] = "present" => m \in Copied'
      BY <2>0 DEF Copied
    <2>6. errors \subseteq errors'
      BY <1>8, <2>0 DEF StartRun
    <2>7. ASSUME NEW m \in Medias, Waits(m), Waits(m)', PassOf(m)
          PROVE  /\ \A c \in copies' : c.modified < Date(m)
                 /\ q.pc = "infos" /\ q.after # None => q.after < Date(m)
                 /\ m \notin q.todo => \A y \in q.todo \ moved : q.listed[y] <= Date(m)
      BY <1>8, <2>0, <2>a, <2>g, <2>1, <2>7 DEF StartRun, PassOf, RunOf
    <2>8. ClockInv' /\ DeletedInv'
      <3>1. run'[r].at = run[r].at /\ (run[r].at # 0 => Active(r)) /\ last' = last
        BY <1>8, <2>0, <2>a, <2>g, <2>1, <2>2
          DEF StartRun, IsNext, RunOf, Active, Ended, NoRun
      <3>2. Active(r) /\ ~ Active(r)' => run'[r].ended = clock
        BY <1>8, <2>0, <2>a, <2>g, <2>1, <2>2 DEF StartRun, IsNext, RunOf, Active, Ended
      <3>3. kept \subseteq kept' /\ copies' \subseteq copies
        BY <1>8, <2>0 DEF StartRun
      <3>4. ASSUME NEW c \in copies', Active(r)', c.media \in run[r].deletes
            PROVE  c \in kept' \/ c.media \in run'[r].deletes
        BY <1>8, <2>0, <2>1, <2>2, <3>4 DEF StartRun, Active, Copied
      <3> QED
        BY <2>0, <2>2, <3>1, <3>2, <3>3, <3>4, DeletionsLeft
    <2> QED
      BY <1>8, <2>0, <2>2, <2>3, <2>4, <2>5, <2>6, <2>7, <2>8, RunStep
  <1>9. ASSUME NEW r \in Runs, ReadInfos(r), Remember PROVE BackupInv'
    <2>p. PICK newest \in Times \cup {None} :
            /\ newest # None => \E c \in copies : newest = c.modified
            /\ run' = [run EXCEPT ![r].pc = "infos", ![r].after = newest]
      BY <1>9 DEF ReadInfos
    <2> DEFINE q == [run[r] EXCEPT !.pc = "infos", !.after = newest]
    <2>0. /\ run' = [run EXCEPT ![r] = q] /\ UNCHANGED library
          /\ UNCHANGED <<copies, last, errors, kept>>
      BY <1>9, <2>p DEF ReadInfos, IsNext
    <2>a. RunOf(r) /\ run[r] \in RunRecord
      BY TypeFacts DEF RunsInv
    <2>g. run[r].pc = "checked"
      BY <1>9, <2>p, <2>a, TypeFacts DEF ReadInfos, IsNext, Active, RunOf
    <2>1. /\ q \in RunRecord
          /\ q.pc = "infos" /\ q.after = newest
          /\ q.todo = run[r].todo /\ q.listed = run[r].listed /\ q.deletes = run[r].deletes
          /\ q.at = run[r].at
          /\ q.backedUp = run[r].backedUp /\ q.hand = run[r].hand
          /\ q.modified = run[r].modified /\ q.ended = run[r].ended
      BY <1>9, <2>p, <2>a, <2>g, TypeFacts DEF RunRecord, RunStates
    <2> HIDE DEF q
    <2>2. run' \in [Runs -> RunRecord] /\ run'[r] = q /\ \A s \in Runs : s # r => run'[s] = run[s]
      BY <2>0, <2>1 DEF TypeOK
    <2>3. TypeOK'
      <3>1. shadowed' \subseteq Medias
        BY <1>9, <2>p, RememberFacts
      <3> QED
        BY <1>9, <2>p, <2>0, <2>a, <2>g, <2>2, <3>1, TypeFacts
          DEF ReadInfos, TypeOK, library
    <2>4. RunOf(r)'
      BY <1>9, <2>p, <2>0, <2>a, <2>g, <2>1, <2>2, TypeFacts
        DEF ReadInfos, RunOf, library, Date, Present, Copied
    <2>5. \A m \in Copied : media[m] = "present" => m \in Copied'
      BY <2>0 DEF Copied
    <2>6. errors \subseteq errors'
      BY <1>9, <2>p, <2>0 DEF ReadInfos
    <2>7. ASSUME NEW m \in Medias, Waits(m), Waits(m)', PassOf(m)
          PROVE  /\ \A c \in copies' : c.modified < Date(m)
                 /\ q.pc = "infos" /\ q.after # None => q.after < Date(m)
                 /\ m \notin q.todo => \A y \in q.todo \ moved : q.listed[y] <= Date(m)
      BY <1>9, <2>p, <2>0, <2>a, <2>g, <2>1, <2>7 DEF ReadInfos, PassOf, RunOf
    <2>8. ClockInv' /\ DeletedInv'
      <3>1. run'[r].at = run[r].at /\ (run[r].at # 0 => Active(r)) /\ last' = last
        BY <1>9, <2>p, <2>0, <2>a, <2>g, <2>1, <2>2
          DEF ReadInfos, IsNext, RunOf, Active, Ended, NoRun
      <3>2. Active(r) /\ ~ Active(r)' => run'[r].ended = clock
        BY <1>9, <2>p, <2>0, <2>a, <2>g, <2>1, <2>2
          DEF ReadInfos, IsNext, RunOf, Active, Ended
      <3>3. kept \subseteq kept' /\ copies' \subseteq copies
        BY <1>9, <2>p, <2>0 DEF ReadInfos
      <3>4. ASSUME NEW c \in copies', Active(r)', c.media \in run[r].deletes
            PROVE  c \in kept' \/ c.media \in run'[r].deletes
        BY <1>9, <2>p, <2>0, <2>1, <2>2, <3>4 DEF ReadInfos, Active, Copied
      <3> QED
        BY <2>0, <2>2, <3>1, <3>2, <3>3, <3>4, DeletionsLeft
    <2> QED
      BY <1>9, <2>p, <2>0, <2>2, <2>3, <2>4, <2>5, <2>6, <2>7, <2>8, RunStep
  <1>10. ASSUME NEW r \in Runs, ListMedias(r), Remember PROVE BackupInv'
    <2>p. /\ ToBackup(r) \in SUBSET Medias
          /\ [m \in Medias |-> IF m \in ToBackup(r) THEN Date(m) ELSE 0] \in [Medias -> Times]
      <3>1. 0 \in Times
        BY BackupAssumption DEF Times
      <3> QED
        BY <3>1, TypeFacts DEF ToBackup, Present
    <2> DEFINE q == [run[r] EXCEPT !.pc = "listed", !.after = None, !.todo = ToBackup(r),
                      !.listed = [m \in Medias |-> IF m \in ToBackup(r) THEN Date(m) ELSE 0]]
    <2>0. /\ run' = [run EXCEPT ![r] = q] /\ UNCHANGED library
          /\ UNCHANGED <<copies, last, errors, kept>>
      BY <1>10, <2>p DEF ListMedias, IsNext
    <2>a. RunOf(r) /\ run[r] \in RunRecord
      BY TypeFacts DEF RunsInv
    <2>g. run[r].pc = "infos"
      BY <1>10, <2>p, <2>a, TypeFacts DEF ListMedias, IsNext, Active, RunOf
    <2>1. /\ q \in RunRecord
          /\ q.pc = "listed" /\ q.after = None /\ q.todo = ToBackup(r)
          /\ q.listed = [m \in Medias |-> IF m \in ToBackup(r) THEN Date(m) ELSE 0]
          /\ q.deletes = run[r].deletes /\ q.at = run[r].at /\ q.backedUp = run[r].backedUp
          /\ q.hand = run[r].hand /\ q.modified = run[r].modified /\ q.ended = run[r].ended
      BY <1>10, <2>p, <2>a, <2>g, TypeFacts DEF RunRecord, RunStates
    <2> HIDE DEF q
    <2>2. run' \in [Runs -> RunRecord] /\ run'[r] = q /\ \A s \in Runs : s # r => run'[s] = run[s]
      BY <2>0, <2>1 DEF TypeOK
    <2>3. TypeOK'
      <3>1. shadowed' \subseteq Medias
        BY <1>10, <2>p, RememberFacts
      <3> QED
        BY <1>10, <2>p, <2>0, <2>a, <2>g, <2>2, <3>1, TypeFacts
          DEF ListMedias, TypeOK, library
    <2>4. RunOf(r)'
      <3>1. ASSUME NEW m \in q.todo
            PROVE  /\ media[m] # "new" /\ q.listed[m] = Date(m)
                   /\ m \notin moved => q.listed[m] <= clock
        <4>1. m \in Medias /\ media[m] = "present" /\ q.listed[m] = Date(m)
          BY <2>1, <3>1 DEF ToBackup, Present
        <4>2. m \notin moved => Date(m) <= clock
          BY <4>1, TypeFacts DEF ClockInv, Date
        <4> QED
          BY <4>1, <4>2
      <3>2. q.backedUp \cap Present' \subseteq Copied'
        BY <2>0, <2>a, <2>1 DEF RunOf, library, Present, Copied
      <3>3. \A m \in q.todo : Date(m) \in Nat
        BY <2>p, <2>1, TypeFacts
      <3> QED
        BY <2>0, <2>a, <2>g, <2>1, <2>2, <3>1, <3>2, <3>3 DEF RunOf, library, Date
    <2>5. \A m \in Copied : media[m] = "present" => m \in Copied'
      BY <2>0 DEF Copied
    <2>6. errors \subseteq errors'
      BY <1>10, <2>p, <2>0 DEF ListMedias
    <2>7. ASSUME NEW m \in Medias, Waits(m), Waits(m)', PassOf(m)
          PROVE  /\ \A c \in copies' : c.modified < Date(m)
                 /\ q.pc = "infos" /\ q.after # None => q.after < Date(m)
                 /\ m \notin q.todo => \A y \in q.todo \ moved : q.listed[y] <= Date(m)
      <3>1. m \in q.todo
        <4>1. run[r].after # None => run[r].after < Date(m) /\ run[r].after \in Nat
          BY <2>a, <2>g, <2>7, BackupAssumption DEF PassOf, RunRecord, Times
        <4> QED
          BY <2>1, <2>7, <4>1, TypeFacts DEF ToBackup, Present, Waits
      <3> QED
        BY <2>0, <2>1, <2>7, <3>1 DEF PassOf
    <2>8. ClockInv' /\ DeletedInv'
      <3>1. run'[r].at = run[r].at /\ (run[r].at # 0 => Active(r)) /\ last' = last
        BY <1>10, <2>p, <2>0, <2>a, <2>g, <2>1, <2>2
          DEF ListMedias, IsNext, RunOf, Active, Ended, NoRun
      <3>2. Active(r) /\ ~ Active(r)' => run'[r].ended = clock
        BY <1>10, <2>p, <2>0, <2>a, <2>g, <2>1, <2>2
          DEF ListMedias, IsNext, RunOf, Active, Ended
      <3>3. kept \subseteq kept' /\ copies' \subseteq copies
        BY <1>10, <2>p, <2>0 DEF ListMedias
      <3>4. ASSUME NEW c \in copies', Active(r)', c.media \in run[r].deletes
            PROVE  c \in kept' \/ c.media \in run'[r].deletes
        BY <1>10, <2>p, <2>0, <2>1, <2>2, <3>4 DEF ListMedias, Active, Copied
      <3> QED
        BY <2>0, <2>2, <3>1, <3>2, <3>3, <3>4, DeletionsLeft
    <2> QED
      BY <1>10, <2>p, <2>0, <2>2, <2>3, <2>4, <2>5, <2>6, <2>7, <2>8, RunStep
  <1>11. ASSUME NEW r \in Runs, ListDeleted(r), Remember PROVE BackupInv'
    <2> DEFINE q == [run[r] EXCEPT !.pc = "deletions", !.at = clock,
                      !.deletes = {m \in Medias : media[m] = "deleted" /\ deletedAt[m] > last}]
    <2>0. /\ run' = [run EXCEPT ![r] = q] /\ UNCHANGED library
          /\ UNCHANGED <<copies, last, errors, kept>>
      BY <1>11 DEF ListDeleted, IsNext
    <2>a. RunOf(r) /\ run[r] \in RunRecord
      BY TypeFacts DEF RunsInv
    <2>g. run[r].pc = "listed"
      BY <1>11, <2>a, TypeFacts DEF ListDeleted, IsNext, Active, RunOf
    <2>1. /\ q \in RunRecord
          /\ q.pc = "deletions" /\ q.at = clock
          /\ q.deletes = {m \in Medias : media[m] = "deleted" /\ deletedAt[m] > last}
          /\ q.after = run[r].after /\ q.todo = run[r].todo /\ q.listed = run[r].listed
          /\ q.backedUp = run[r].backedUp /\ q.hand = run[r].hand
          /\ q.modified = run[r].modified /\ q.ended = run[r].ended
      BY <1>11, <2>a, <2>g, TypeFacts DEF RunRecord, RunStates
    <2> HIDE DEF q
    <2>2. run' \in [Runs -> RunRecord] /\ run'[r] = q /\ \A s \in Runs : s # r => run'[s] = run[s]
      BY <2>0, <2>1 DEF TypeOK
    <2>3. TypeOK'
      <3>1. shadowed' \subseteq Medias
        BY <1>11, RememberFacts
      <3> QED
        BY <1>11, <2>0, <2>a, <2>g, <2>2, <3>1, TypeFacts DEF ListDeleted, TypeOK, library
    <2>4. RunOf(r)'
      <3>1. q.backedUp \cap Present' \subseteq Copied'
        BY <2>0, <2>a, <2>1 DEF RunOf, library, Present, Copied
      <3>2. \A m \in q.deletes : media[m] = "deleted"
        BY <2>1
      <3>3. q.at <= clock /\ q.at # 0
        BY <2>1, TypeFacts
      <3> QED
        BY <2>0, <2>a, <2>g, <2>1, <2>2, <3>1, <3>2, <3>3 DEF RunOf, library, Date
    <2>5. \A m \in Copied : media[m] = "present" => m \in Copied'
      BY <2>0 DEF Copied
    <2>6. errors \subseteq errors'
      BY <1>11, <2>0 DEF ListDeleted
    <2>7. ASSUME NEW m \in Medias, Waits(m), Waits(m)', PassOf(m)
          PROVE  /\ \A c \in copies' : c.modified < Date(m)
                 /\ q.pc = "infos" /\ q.after # None => q.after < Date(m)
                 /\ m \notin q.todo => \A y \in q.todo \ moved : q.listed[y] <= Date(m)
      BY <1>11, <2>0, <2>a, <2>g, <2>1, <2>7 DEF ListDeleted, PassOf, RunOf
    <2>8. ClockInv' /\ DeletedInv'
      <3>1. run[r].at = 0 /\ run'[r].at = clock /\ last' = last /\ clock' = clock
        BY <2>0, <2>a, <2>g, <2>1, <2>2 DEF RunOf, library
      <3>2. ClockInv'
        <4>1. last = 0 \/ \E s \in Runs : run'[s].at # 0 /\ ~Active(s)' /\ run'[s].ended = last
          <5> SUFFICES ASSUME last # 0
                       PROVE  \E s \in Runs : run'[s].at # 0 /\ ~Active(s)'
                                                             /\ run'[s].ended = last
            OBVIOUS
          <5>1. PICK s \in Runs : run[s].at # 0 /\ ~Active(s) /\ run[s].ended = last
            BY DEF ClockInv
          <5>2. run'[s] = run[s]
            BY <2>2, <3>1, <5>1
          <5> QED
            BY <5>1, <5>2 DEF Active
        <4> QED
          BY <2>0, <3>1, <4>1 DEF ClockInv, library
      <3>3. ASSUME NEW c \in copies, media[c.media] = "deleted" PROVE DeletedOf(c)'
        <4>1. DeletedOf(c) /\ c.media \in Medias
          BY <3>3, TypeFacts DEF DeletedInv
        <4>2. Racing(c.media) => Racing(c.media)'
          BY <2>0, <2>2, <3>1, <4>1, RacingKept
        <4>3. ASSUME NEW s \in Runs, Active(s)', run'[s].at > deletedAt[c.media]
              PROVE  c \in kept \/ c.media \in run'[s].deletes \/ Racing(c.media)'
          <5>1. CASE s = r
            BY <2>1, <2>2, <3>3, <4>1, <4>2, <5>1 DEF DeletedOf
          <5>2. CASE s # r
            <6>1. run'[s] = run[s]
              BY <2>2, <5>2
            <6> QED
              BY <4>1, <4>2, <4>3, <6>1 DEF DeletedOf, Active
          <5> QED
            BY <5>1, <5>2
        <4> QED
          BY <2>0, <3>1, <4>1, <4>2, <4>3 DEF DeletedOf, library
      <3> QED
        BY <2>0, <3>2, <3>3 DEF DeletedInv, library
    <2> QED
      BY <1>11, <2>0, <2>2, <2>3, <2>4, <2>5, <2>6, <2>7, <2>8, RunStep
  <1>12. ASSUME NEW r \in Runs, ReadBackedUp(r), Remember PROVE BackupInv'
    <2> DEFINE q == [run[r] EXCEPT !.pc = "working", !.backedUp = Copied \cap run[r].todo,
                      !.deletes = @ \cap Copied]
    <2>0. /\ run' = [run EXCEPT ![r] = q] /\ UNCHANGED library
          /\ UNCHANGED <<copies, last, errors, kept>>
      BY <1>12 DEF ReadBackedUp, IsNext
    <2>a. RunOf(r) /\ run[r] \in RunRecord
      BY TypeFacts DEF RunsInv
    <2>g. run[r].pc = "deletions"
      BY <1>12, <2>a, TypeFacts DEF ReadBackedUp, IsNext, Active, RunOf
    <2>1. /\ q \in RunRecord
          /\ q.pc = "working"
          /\ q.deletes = run[r].deletes \cap Copied
          /\ q.backedUp = Copied \cap run[r].todo
          /\ q.after = run[r].after /\ q.todo = run[r].todo /\ q.listed = run[r].listed
          /\ q.at = run[r].at /\ q.hand = run[r].hand /\ q.modified = run[r].modified
          /\ q.ended = run[r].ended
      BY <1>12, <2>a, <2>g, TypeFacts DEF RunRecord, RunStates
    <2> HIDE DEF q
    <2>2. run' \in [Runs -> RunRecord] /\ run'[r] = q /\ \A s \in Runs : s # r => run'[s] = run[s]
      BY <2>0, <2>1 DEF TypeOK
    <2>3. TypeOK'
      <3>1. shadowed' \subseteq Medias
        BY <1>12, RememberFacts
      <3> QED
        BY <1>12, <2>0, <2>a, <2>g, <2>2, <3>1, TypeFacts DEF ReadBackedUp, TypeOK, library
    <2>4. RunOf(r)'
      <3>1. q.backedUp \cap Present' \subseteq Copied'
        BY <2>0, <2>1 DEF Copied
      <3>2. \A m \in q.backedUp : media[m] # "new"
        BY <2>a, <2>1 DEF RunOf
      <3>3. \A m \in q.deletes : media[m] = "deleted"
        BY <2>a, <2>1 DEF RunOf
      <3> QED
        BY <2>0, <2>a, <2>g, <2>1, <2>2, <3>1, <3>2, <3>3 DEF RunOf, library, Date
    <2>5. \A m \in Copied : media[m] = "present" => m \in Copied'
      BY <2>0 DEF Copied
    <2>6. errors \subseteq errors'
      BY <1>12, <2>0 DEF ReadBackedUp
    <2>7. ASSUME NEW m \in Medias, Waits(m), Waits(m)', PassOf(m)
          PROVE  /\ \A c \in copies' : c.modified < Date(m)
                 /\ q.pc = "infos" /\ q.after # None => q.after < Date(m)
                 /\ m \notin q.todo => \A y \in q.todo \ moved : q.listed[y] <= Date(m)
      BY <1>12, <2>0, <2>a, <2>g, <2>1, <2>7 DEF ReadBackedUp, PassOf, RunOf
    <2>8. ClockInv' /\ DeletedInv'
      <3>1. run'[r].at = run[r].at /\ (run[r].at # 0 => Active(r)) /\ last' = last
        BY <1>12, <2>0, <2>a, <2>g, <2>1, <2>2
          DEF ReadBackedUp, IsNext, RunOf, Active, Ended, NoRun
      <3>2. Active(r) /\ ~ Active(r)' => run'[r].ended = clock
        BY <1>12, <2>0, <2>a, <2>g, <2>1, <2>2
          DEF ReadBackedUp, IsNext, RunOf, Active, Ended
      <3>3. kept \subseteq kept' /\ copies' \subseteq copies
        BY <1>12, <2>0 DEF ReadBackedUp
      <3>4. ASSUME NEW c \in copies', Active(r)', c.media \in run[r].deletes
            PROVE  c \in kept' \/ c.media \in run'[r].deletes
        BY <1>12, <2>0, <2>1, <2>2, <3>4 DEF ReadBackedUp, Active, Copied
      <3> QED
        BY <2>0, <2>2, <3>1, <3>2, <3>3, <3>4, DeletionsLeft
    <2> QED
      BY <1>12, <2>0, <2>2, <2>3, <2>4, <2>5, <2>6, <2>7, <2>8, RunStep
  <1>13. ASSUME NEW r \in Runs, NEW x \in Medias, RemoveCopies(r, x), Remember PROVE BackupInv'
    <2> DEFINE q == [run[r] EXCEPT !.deletes = @ \ {x}]
    <2>0. /\ run' = [run EXCEPT ![r] = q] /\ UNCHANGED library
          /\ UNCHANGED <<last, status, errors>>
      BY <1>13 DEF RemoveCopies, IsNext
    <2>a. RunOf(r) /\ run[r] \in RunRecord
      BY TypeFacts DEF RunsInv
    <2>g. run[r].pc = "working" /\ media[x] = "deleted"
      BY <1>13, <2>a, TypeFacts DEF RemoveCopies, IsNext, Active, RunOf
    <2>1. /\ q \in RunRecord
          /\ q.pc = run[r].pc /\ q.after = run[r].after /\ q.todo = run[r].todo
          /\ q.listed = run[r].listed /\ q.at = run[r].at
          /\ q.deletes = run[r].deletes \ {x}
          /\ q.backedUp = run[r].backedUp /\ q.hand = run[r].hand
          /\ q.modified = run[r].modified /\ q.ended = run[r].ended
      BY <1>13, <2>a, <2>g, TypeFacts DEF RunRecord, RunStates
    <2> HIDE DEF q
    <2>2. run' \in [Runs -> RunRecord] /\ run'[r] = q /\ \A s \in Runs : s # r => run'[s] = run[s]
      BY <2>0, <2>1 DEF TypeOK
    <2>3. TypeOK'
      <3>1. shadowed' \subseteq Medias
        BY <1>13, RememberFacts
      <3> QED
        BY <1>13, <2>0, <2>a, <2>g, <2>2, <3>1, TypeFacts
          DEF RemoveCopies, TypeOK, library, Copies
    <2>4. RunOf(r)'
      <3>1. q.backedUp \cap Present' \subseteq Copied'
        <4>1. \A c \in copies : c.media # x => c \in copies'
          BY <1>13 DEF RemoveCopies
        <4> QED
          BY <2>0, <2>a, <2>g, <2>1, <4>1 DEF RunOf, library, Present, Copied
      <3> QED
        BY <2>0, <2>a, <2>g, <2>1, <2>2, <3>1 DEF RunOf, library, Date
    <2>5. \A m \in Copied : media[m] = "present" => m \in Copied'
      <3>1. \A c \in copies : c.media # x => c \in copies'
        BY <1>13 DEF RemoveCopies
      <3> QED
        BY <2>g, <3>1 DEF Copied
    <2>6. errors \subseteq errors'
      BY <1>13, <2>0 DEF RemoveCopies
    <2>7. ASSUME NEW m \in Medias, Waits(m), Waits(m)', PassOf(m)
          PROVE  /\ \A c \in copies' : c.modified < Date(m)
                 /\ q.pc = "infos" /\ q.after # None => q.after < Date(m)
                 /\ m \notin q.todo => \A y \in q.todo \ moved : q.listed[y] <= Date(m)
      BY <1>13, <2>0, <2>a, <2>g, <2>1, <2>7 DEF RemoveCopies, PassOf, RunOf
    <2>8. ClockInv' /\ DeletedInv'
      <3>1. run'[r].at = run[r].at /\ (run[r].at # 0 => Active(r)) /\ last' = last
        BY <1>13, <2>0, <2>a, <2>g, <2>1, <2>2
          DEF RemoveCopies, IsNext, RunOf, Active, Ended, NoRun
      <3>2. Active(r) /\ ~ Active(r)' => run'[r].ended = clock
        BY <1>13, <2>0, <2>a, <2>g, <2>1, <2>2
          DEF RemoveCopies, IsNext, RunOf, Active, Ended
      <3>3. kept \subseteq kept' /\ copies' \subseteq copies
        BY <1>13, <2>0 DEF RemoveCopies
      <3>4. ASSUME NEW c \in copies', Active(r)', c.media \in run[r].deletes
            PROVE  c \in kept' \/ c.media \in run'[r].deletes
        BY <1>13, <2>0, <2>1, <2>2, <3>4 DEF RemoveCopies, Active, Copied
      <3> QED
        BY <2>0, <2>2, <3>1, <3>2, <3>3, <3>4, DeletionsLeft
    <2> QED
      BY <1>13, <2>0, <2>2, <2>3, <2>4, <2>5, <2>6, <2>7, <2>8, RunStep
  <1>14. ASSUME NEW r \in Runs, NEW x \in Medias, SkipMedia(r, x), Remember PROVE BackupInv'
    <2>p. [run[r].listed EXCEPT ![x] = 0] \in [Medias -> Times]
          /\ \A y \in Medias : y # x => [run[r].listed EXCEPT ![x] = 0][y] = run[r].listed[y]
      <3>1. 0 \in Times
        BY BackupAssumption DEF Times
      <3>2. run[r].listed \in [Medias -> Times]
        BY TypeFacts
      <3> QED
        BY <3>1, <3>2
    <2> DEFINE q == [run[r] EXCEPT !.todo = @ \ {x}, !.listed[x] = 0, !.backedUp = @ \ {x}]
    <2>0. /\ run' = [run EXCEPT ![r] = q] /\ UNCHANGED library
          /\ UNCHANGED <<copies, last, errors, kept>>
      BY <1>14, <2>p DEF SkipMedia, IsNext
    <2>a. RunOf(r) /\ run[r] \in RunRecord
      BY TypeFacts DEF RunsInv
    <2>g. run[r].pc = "working" /\ x \in run[r].backedUp
      BY <1>14, <2>p, <2>a, TypeFacts DEF SkipMedia, IsNext, Active, RunOf
    <2>1. /\ q \in RunRecord
          /\ q.pc = run[r].pc /\ q.after = run[r].after /\ q.deletes = run[r].deletes
          /\ q.at = run[r].at /\ q.hand = run[r].hand /\ q.modified = run[r].modified
          /\ q.ended = run[r].ended
          /\ q.todo = run[r].todo \ {x}
          /\ q.backedUp = run[r].backedUp \ {x}
          /\ \A y \in Medias : y # x => q.listed[y] = run[r].listed[y]
      BY <1>14, <2>p, <2>a, <2>g, TypeFacts DEF RunRecord, RunStates
    <2> HIDE DEF q
    <2>2. run' \in [Runs -> RunRecord] /\ run'[r] = q /\ \A s \in Runs : s # r => run'[s] = run[s]
      BY <2>0, <2>1 DEF TypeOK
    <2>3. TypeOK'
      <3>1. shadowed' \subseteq Medias
        BY <1>14, <2>p, RememberFacts
      <3> QED
        BY <1>14, <2>p, <2>0, <2>a, <2>g, <2>2, <3>1, TypeFacts
          DEF SkipMedia, TypeOK, library
    <2>4. RunOf(r)'
      <3>1. \A m \in q.todo : m \in run[r].todo /\ m \in Medias /\ q.listed[m] = run[r].listed[m]
        BY <2>1, TypeFacts
      <3>2. q.backedUp \cap Present' \subseteq Copied'
        BY <2>0, <2>a, <2>1 DEF RunOf, library, Present, Copied
      <3> QED
        BY <2>0, <2>a, <2>g, <2>1, <2>2, <3>1, <3>2 DEF RunOf, library, Date
    <2>5. \A m \in Copied : media[m] = "present" => m \in Copied'
      BY <2>0 DEF Copied
    <2>6. errors \subseteq errors'
      BY <1>14, <2>p, <2>0 DEF SkipMedia
    <2>7. ASSUME NEW m \in Medias, Waits(m), Waits(m)', PassOf(m)
          PROVE  /\ \A c \in copies' : c.modified < Date(m)
                 /\ q.pc = "infos" /\ q.after # None => q.after < Date(m)
                 /\ m \notin q.todo => \A y \in q.todo \ moved : q.listed[y] <= Date(m)
      <3>1. m # x
        BY <2>a, <2>g, <2>7 DEF RunOf, Waits, Present
      <3>2. \A y \in q.todo : y \in run[r].todo /\ q.listed[y] = run[r].listed[y]
        BY <2>1, TypeFacts
      <3> QED
        BY <2>0, <2>g, <2>1, <2>7, <3>1, <3>2 DEF PassOf
    <2>8. ClockInv' /\ DeletedInv'
      <3>1. run'[r].at = run[r].at /\ (run[r].at # 0 => Active(r)) /\ last' = last
        BY <1>14, <2>p, <2>0, <2>a, <2>g, <2>1, <2>2
          DEF SkipMedia, IsNext, RunOf, Active, Ended, NoRun
      <3>2. Active(r) /\ ~ Active(r)' => run'[r].ended = clock
        BY <1>14, <2>p, <2>0, <2>a, <2>g, <2>1, <2>2
          DEF SkipMedia, IsNext, RunOf, Active, Ended
      <3>3. kept \subseteq kept' /\ copies' \subseteq copies
        BY <1>14, <2>p, <2>0 DEF SkipMedia
      <3>4. ASSUME NEW c \in copies', Active(r)', c.media \in run[r].deletes
            PROVE  c \in kept' \/ c.media \in run'[r].deletes
        BY <1>14, <2>p, <2>0, <2>1, <2>2, <3>4 DEF SkipMedia, Active, Copied
      <3> QED
        BY <2>0, <2>2, <3>1, <3>2, <3>3, <3>4, DeletionsLeft
    <2> QED
      BY <1>14, <2>p, <2>0, <2>2, <2>3, <2>4, <2>5, <2>6, <2>7, <2>8, RunStep
  <1>15. ASSUME NEW r \in Runs, NEW x \in Medias, BeginCopy(r, x), Remember PROVE BackupInv'
    <2> DEFINE q == [run[r] EXCEPT !.pc = "copying", !.hand = x,
                      !.modified = IF media[x] = "present" THEN Date(x) ELSE None]
    <2>0. /\ run' = [run EXCEPT ![r] = q] /\ UNCHANGED library
          /\ UNCHANGED <<copies, last, errors, kept>>
      BY <1>15 DEF BeginCopy, IsNext
    <2>a. RunOf(r) /\ run[r] \in RunRecord
      BY TypeFacts DEF RunsInv
    <2>g. run[r].pc = "working" /\ run[r].deletes = {} /\ x \in run[r].todo
          /\ \A y \in run[r].todo : run[r].listed[x] <= run[r].listed[y]
      BY <1>15, <2>a, TypeFacts DEF BeginCopy, IsNext, Active, RunOf
    <2>1. /\ q \in RunRecord
          /\ q.pc = "copying" /\ q.hand = x
          /\ q.modified = IF media[x] = "present" THEN Date(x) ELSE None
          /\ q.after = run[r].after /\ q.todo = run[r].todo /\ q.listed = run[r].listed
          /\ q.deletes = run[r].deletes /\ q.at = run[r].at /\ q.backedUp = run[r].backedUp
          /\ q.ended = run[r].ended
      BY ZenonT(60), <1>15, <2>a, <2>g, TypeFacts DEF RunRecord, RunStates
    <2> HIDE DEF q
    <2>2. run' \in [Runs -> RunRecord] /\ run'[r] = q /\ \A s \in Runs : s # r => run'[s] = run[s]
      BY <2>0, <2>1 DEF TypeOK
    <2>3. TypeOK'
      <3>1. shadowed' \subseteq Medias
        BY <1>15, RememberFacts
      <3> QED
        BY <1>15, <2>0, <2>a, <2>g, <2>2, <3>1, TypeFacts DEF BeginCopy, TypeOK, library
    <2>4. RunOf(r)'
      <3>1. q.backedUp \cap Present' \subseteq Copied'
        BY <2>0, <2>a, <2>1 DEF RunOf, library, Present, Copied
      <3>2. q.modified # None => media[x] = "present" /\ q.modified = Date(x)
        BY <2>1
      <3>3. x \notin moved /\ q.modified # None => q.modified = q.listed[x]
        BY <2>a, <2>g, <2>1, <3>2 DEF RunOf
      <3> QED
        BY <2>0, <2>a, <2>g, <2>1, <2>2, <3>1, <3>2, <3>3 DEF RunOf, library, Date
    <2>5. \A m \in Copied : media[m] = "present" => m \in Copied'
      BY <2>0 DEF Copied
    <2>6. errors \subseteq errors'
      BY <1>15, <2>0 DEF BeginCopy
    <2>7. ASSUME NEW m \in Medias, Waits(m), Waits(m)', PassOf(m)
          PROVE  /\ \A c \in copies' : c.modified < Date(m)
                 /\ q.pc = "infos" /\ q.after # None => q.after < Date(m)
                 /\ m \notin q.todo => \A y \in q.todo \ moved : q.listed[y] <= Date(m)
      BY <1>15, <2>0, <2>a, <2>g, <2>1, <2>7 DEF BeginCopy, PassOf, RunOf
    <2>8. ClockInv' /\ DeletedInv'
      <3>1. run'[r].at = run[r].at /\ (run[r].at # 0 => Active(r)) /\ last' = last
        BY <1>15, <2>0, <2>a, <2>g, <2>1, <2>2
          DEF BeginCopy, IsNext, RunOf, Active, Ended, NoRun
      <3>2. Active(r) /\ ~ Active(r)' => run'[r].ended = clock
        BY <1>15, <2>0, <2>a, <2>g, <2>1, <2>2 DEF BeginCopy, IsNext, RunOf, Active, Ended
      <3>3. kept \subseteq kept' /\ copies' \subseteq copies
        BY <1>15, <2>0 DEF BeginCopy
      <3>4. ASSUME NEW c \in copies', Active(r)', c.media \in run[r].deletes
            PROVE  c \in kept' \/ c.media \in run'[r].deletes
        BY <1>15, <2>0, <2>1, <2>2, <3>4 DEF BeginCopy, Active, Copied
      <3> QED
        BY <2>0, <2>2, <3>1, <3>2, <3>3, <3>4, DeletionsLeft
    <2> QED
      BY <1>15, <2>0, <2>2, <2>3, <2>4, <2>5, <2>6, <2>7, <2>8, RunStep
  <1>16. ASSUME NEW r \in Runs, NEW x \in Medias, FinishCopy(r, x), Remember PROVE BackupInv'
    <2>p. [run[r].listed EXCEPT ![x] = 0] \in [Medias -> Times]
          /\ \A y \in Medias : y # x => [run[r].listed EXCEPT ![x] = 0][y] = run[r].listed[y]
      <3>1. 0 \in Times
        BY BackupAssumption DEF Times
      <3>2. run[r].listed \in [Medias -> Times]
        BY TypeFacts
      <3> QED
        BY <3>1, <3>2
    <2> DEFINE q == [run[r] EXCEPT !.pc = "working", !.hand = None, !.todo = @ \ {x},
                      !.listed[x] = 0, !.modified = None]
    <2>0. /\ run' = [run EXCEPT ![r] = q] /\ UNCHANGED library
          /\ UNCHANGED <<last, status, errors, kept>>
      <3>1. run' = [run EXCEPT ![r].pc = "working", ![r].hand = None, ![r].todo = @ \ {x},
                                ![r].listed[x] = 0, ![r].modified = None]
        BY <1>16, <2>p DEF FinishCopy
      <3>2. run' = [run EXCEPT ![r] = q]
        BY ZenonT(60), <3>1 DEF TypeOK, RunRecord
      <3> QED
        BY <1>16, <2>p, <3>2 DEF FinishCopy
    <2>a. RunOf(r) /\ run[r] \in RunRecord
      BY TypeFacts DEF RunsInv
    <2>g. run[r].pc = "copying" /\ run[r].hand = x /\ run[r].modified # None
                                /\ run[r].modified \in Times
      BY <1>16, <2>p, <2>a, TypeFacts DEF FinishCopy, IsNext, Active, RunOf, RunRecord
    <2>1. /\ q \in RunRecord
          /\ q.pc = "working" /\ q.hand = None /\ q.modified = None
          /\ q.after = run[r].after /\ q.deletes = run[r].deletes /\ q.at = run[r].at
          /\ q.backedUp = run[r].backedUp /\ q.ended = run[r].ended
          /\ q.todo = run[r].todo \ {x}
          /\ \A y \in Medias : y # x => q.listed[y] = run[r].listed[y]
      BY <1>16, <2>p, <2>a, <2>g, TypeFacts DEF RunRecord, RunStates
    <2> HIDE DEF q
    <2>2. run' \in [Runs -> RunRecord] /\ run'[r] = q /\ \A s \in Runs : s # r => run'[s] = run[s]
      BY <2>0, <2>1 DEF TypeOK
    <2>3. TypeOK'
      <3>1. shadowed' \subseteq Medias
        BY <1>16, <2>p, RememberFacts
      <3> QED
        BY <1>16, <2>p, <2>0, <2>a, <2>g, <2>2, <3>1, TypeFacts
          DEF FinishCopy, TypeOK, library, Copies
    <2>4. RunOf(r)'
      <3>1. \A m \in q.todo : m \in run[r].todo /\ m \in Medias /\ q.listed[m] = run[r].listed[m]
        BY <2>1, TypeFacts
      <3>2. q.backedUp \cap Present' \subseteq Copied'
        BY <1>16, <2>0, <2>a, <2>1 DEF FinishCopy, RunOf, library, Present, Copied
      <3> QED
        BY <2>0, <2>a, <2>g, <2>1, <2>2, <3>1, <3>2 DEF RunOf, library, Date
    <2>5. \A m \in Copied : media[m] = "present" => m \in Copied'
      BY <1>16 DEF FinishCopy, Copied
    <2>6. errors \subseteq errors'
      BY <1>16, <2>p, <2>0 DEF FinishCopy
    <2>7. ASSUME NEW m \in Medias, Waits(m), Waits(m)', PassOf(m)
          PROVE  /\ \A c \in copies' : c.modified < Date(m)
                 /\ q.pc = "infos" /\ q.after # None => q.after < Date(m)
                 /\ m \notin q.todo => \A y \in q.todo \ moved : q.listed[y] <= Date(m)
      <3>1. m # x
        <4>1. x \in Copied'
          <5> DEFINE c == [media |-> x, modified |-> run[r].modified, run |-> r]
          <5>1. c \in copies' /\ c.media = x
            BY <1>16 DEF FinishCopy
          <5> HIDE DEF c
          <5> QED
            BY <5>1 DEF Copied
        <4> QED
          BY <2>7, <4>1 DEF Waits
      <3>2. \A y \in q.todo : y \in run[r].todo /\ q.listed[y] = run[r].listed[y]
        BY <2>1, TypeFacts
      <3>3. ASSUME NEW c \in copies' PROVE c.modified < Date(m)
        <4>1. CASE c \in copies
          BY <2>7, <4>1 DEF PassOf
        <4>2. CASE c \notin copies
          <5>1. c.media = x /\ c.modified = run[r].modified
            BY <1>16, <4>2 DEF FinishCopy
          <5>2. /\ run[r].modified \in Nat /\ Date(m) \in Nat /\ Date(m)' = Date(m)
                /\ moved' = moved
                /\ run[r].listed[x] \in Nat /\ run[r].listed[m] \in Nat
            BY <2>0, <2>g, TypeFacts, BackupAssumption DEF library, Date, Times
          <5>3. ~ Shadowed(m)'
            BY <2>7, <1>16, RememberFacts DEF Waits
          <5>4. run[r].modified < Date(m) \/ (x \notin moved /\ run[r].modified > Date(m))
            BY <5>1, <5>2, <5>3 DEF Shadowed
          <5>5. x \notin moved => run[r].listed[x] = run[r].modified /\ run[r].listed[x] <= Date(m)
            <6>1. x \notin moved => x \in run[r].todo /\ run[r].modified = run[r].listed[x]
              BY <2>a, <2>g DEF RunOf
            <6>2. CASE m \in run[r].todo
              <7>1. run[r].listed[x] <= run[r].listed[m] /\ run[r].listed[m] <= Date(m)
                BY <2>a, <2>g, <2>7, <6>2 DEF RunOf, Waits
              <7> QED
                BY <5>2, <6>1, <7>1
            <6>3. CASE m \notin run[r].todo
              BY <2>7, <6>1, <6>3 DEF PassOf
            <6> QED
              BY <6>2, <6>3, <6>1
          <5> QED
            BY <5>1, <5>2, <5>4, <5>5
        <4> QED
          BY <4>1, <4>2
      <3> QED
        BY <2>1, <2>7, <3>1, <3>2, <3>3 DEF PassOf
    <2>8. ClockInv' /\ DeletedInv'
      <3>1. run'[r].at = run[r].at /\ (run[r].at # 0 => Active(r)) /\ Active(r)'
        BY <2>g, <2>1, <2>2 DEF Active
      <3>2. ASSUME NEW c \in copies' \ copies
            PROVE  /\ c.media \in Medias /\ (c.media \notin moved => c.modified <= clock)
                   /\ media[c.media] = "deleted" => Racing(c.media)'
        <4>1. c.media = x /\ c.modified = run[r].modified
          BY <1>16, <3>2 DEF FinishCopy
        <4>2. x \notin moved => run[r].modified <= clock
          BY <2>a, <2>g DEF RunOf
        <4>3. media[x] = "deleted" => run[r].at # 0 /\ run[r].at <= deletedAt[x]
          BY <2>a, <2>g DEF RunOf
        <4>4. deletedAt' = deletedAt
          BY <2>0 DEF library
        <4>5. media[x] = "deleted" => Racing(x)'
          BY <3>1, <4>3, <4>4 DEF Racing
        <4> QED
          BY <4>1, <4>2, <4>5
      <3>3. run'[r].deletes = run[r].deletes
        BY <2>1, <2>2
      <3> QED
        BY <2>0, <2>2, <3>1, <3>2, <3>3, DeletionsLeft
    <2> QED
      BY <1>16, <2>p, <2>0, <2>2, <2>3, <2>4, <2>5, <2>6, <2>7, <2>8, RunStep
  <1>17. ASSUME NEW r \in Runs, NEW x \in Medias, FailCopy(r, x), Remember PROVE BackupInv'
    <2>p. [run[r].listed EXCEPT ![x] = 0] \in [Medias -> Times]
          /\ \A y \in Medias : y # x => [run[r].listed EXCEPT ![x] = 0][y] = run[r].listed[y]
      <3>1. 0 \in Times
        BY BackupAssumption DEF Times
      <3>2. run[r].listed \in [Medias -> Times]
        BY TypeFacts
      <3> QED
        BY <3>1, <3>2
    <2> DEFINE q == [run[r] EXCEPT !.pc = "working", !.hand = None, !.todo = @ \ {x},
                      !.listed[x] = 0, !.modified = None]
    <2>0. /\ run' = [run EXCEPT ![r] = q] /\ UNCHANGED library
          /\ UNCHANGED <<copies, last, status, kept>>
      <3>1. run' = [run EXCEPT ![r].pc = "working", ![r].hand = None, ![r].todo = @ \ {x},
                                ![r].listed[x] = 0, ![r].modified = None]
        BY <1>17, <2>p DEF FailCopy
      <3>2. run' = [run EXCEPT ![r] = q]
        BY ZenonT(60), <3>1 DEF TypeOK, RunRecord
      <3> QED
        BY <1>17, <2>p, <3>2 DEF FailCopy
    <2>a. RunOf(r) /\ run[r] \in RunRecord
      BY TypeFacts DEF RunsInv
    <2>g. run[r].pc = "copying" /\ run[r].hand = x
      BY <1>17, <2>p, <2>a, TypeFacts DEF FailCopy, IsNext, Active, RunOf
    <2>1. /\ q \in RunRecord
          /\ q.pc = "working" /\ q.hand = None /\ q.modified = None
          /\ q.after = run[r].after /\ q.deletes = run[r].deletes /\ q.at = run[r].at
          /\ q.backedUp = run[r].backedUp /\ q.ended = run[r].ended
          /\ q.todo = run[r].todo \ {x}
          /\ \A y \in Medias : y # x => q.listed[y] = run[r].listed[y]
      BY <1>17, <2>p, <2>a, <2>g, TypeFacts DEF RunRecord, RunStates
    <2> HIDE DEF q
    <2>2. run' \in [Runs -> RunRecord] /\ run'[r] = q /\ \A s \in Runs : s # r => run'[s] = run[s]
      BY <2>0, <2>1 DEF TypeOK
    <2>3. TypeOK'
      <3>1. shadowed' \subseteq Medias
        BY <1>17, <2>p, RememberFacts
      <3> QED
        BY <1>17, <2>p, <2>0, <2>a, <2>g, <2>2, <3>1, TypeFacts
          DEF FailCopy, TypeOK, library
    <2>4. RunOf(r)'
      <3>1. \A m \in q.todo : m \in run[r].todo /\ m \in Medias /\ q.listed[m] = run[r].listed[m]
        BY <2>1, TypeFacts
      <3>2. q.backedUp \cap Present' \subseteq Copied'
        BY <2>0, <2>a, <2>1 DEF RunOf, library, Present, Copied
      <3> QED
        BY <2>0, <2>a, <2>g, <2>1, <2>2, <3>1, <3>2 DEF RunOf, library, Date
    <2>5. \A m \in Copied : media[m] = "present" => m \in Copied'
      BY <2>0 DEF Copied
    <2>6. errors \subseteq errors'
      BY <1>17, <2>p, <2>0 DEF FailCopy
    <2>7. ASSUME NEW m \in Medias, Waits(m), Waits(m)', PassOf(m)
          PROVE  /\ \A c \in copies' : c.modified < Date(m)
                 /\ q.pc = "infos" /\ q.after # None => q.after < Date(m)
                 /\ m \notin q.todo => \A y \in q.todo \ moved : q.listed[y] <= Date(m)
      <3>1. m # x
        BY <1>17, <2>7 DEF FailCopy, Waits
      <3>2. \A y \in q.todo : y \in run[r].todo /\ q.listed[y] = run[r].listed[y]
        BY <2>1, TypeFacts
      <3> QED
        BY <2>0, <2>g, <2>1, <2>7, <3>1, <3>2 DEF PassOf
    <2>8. ClockInv' /\ DeletedInv'
      <3>1. run'[r].at = run[r].at /\ (run[r].at # 0 => Active(r)) /\ last' = last
        BY <1>17, <2>p, <2>0, <2>a, <2>g, <2>1, <2>2
          DEF FailCopy, IsNext, RunOf, Active, Ended, NoRun
      <3>2. Active(r) /\ ~ Active(r)' => run'[r].ended = clock
        BY <1>17, <2>p, <2>0, <2>a, <2>g, <2>1, <2>2
          DEF FailCopy, IsNext, RunOf, Active, Ended
      <3>3. kept \subseteq kept' /\ copies' \subseteq copies
        BY <1>17, <2>p, <2>0 DEF FailCopy
      <3>4. ASSUME NEW c \in copies', Active(r)', c.media \in run[r].deletes
            PROVE  c \in kept' \/ c.media \in run'[r].deletes
        BY <1>17, <2>p, <2>0, <2>1, <2>2, <3>4 DEF FailCopy, Active, Copied
      <3> QED
        BY <2>0, <2>2, <3>1, <3>2, <3>3, <3>4, DeletionsLeft
    <2> QED
      BY <1>17, <2>p, <2>0, <2>2, <2>3, <2>4, <2>5, <2>6, <2>7, <2>8, RunStep
  <1>18. ASSUME NEW r \in Runs, Abort(r), Remember PROVE BackupInv'
    <2>p. 0 \in Times
      BY BackupAssumption DEF Times
    <2> DEFINE q == Ended(r, "failed")
    <2>0. /\ run' = [run EXCEPT ![r] = q] /\ UNCHANGED library
          /\ UNCHANGED <<copies, last, status, errors, kept>>
      BY <1>18, <2>p DEF Abort, IsNext
    <2>a. RunOf(r) /\ run[r] \in RunRecord
      BY TypeFacts DEF RunsInv
    <2>g. run[r].pc \in {"checked", "infos", "listed", "deletions", "working", "copying"}
      BY <1>18, <2>p, <2>a, TypeFacts DEF Abort, IsNext, Active, RunOf
    <2>1. /\ q \in RunRecord
          /\ q.pc = "failed" /\ q.at = run[r].at /\ q.ended = clock
          /\ q.todo = {} /\ q.deletes = {} /\ q.backedUp = {}
      BY <1>18, <2>p, <2>a, <2>g, TypeFacts DEF RunRecord, RunStates, Ended, NoRun
    <2> HIDE DEF q
    <2>2. run' \in [Runs -> RunRecord] /\ run'[r] = q /\ \A s \in Runs : s # r => run'[s] = run[s]
      BY <2>0, <2>1 DEF TypeOK
    <2>3. TypeOK'
      <3>1. shadowed' \subseteq Medias
        BY <1>18, <2>p, RememberFacts
      <3> QED
        BY <1>18, <2>p, <2>0, <2>a, <2>g, <2>2, <3>1, TypeFacts DEF Abort, TypeOK, library
    <2>4. RunOf(r)'
      BY <1>18, <2>p, <2>0, <2>a, <2>g, <2>1, <2>2, TypeFacts
        DEF Abort, RunOf, library, Date, Present, Copied
    <2>5. \A m \in Copied : media[m] = "present" => m \in Copied'
      BY <2>0 DEF Copied
    <2>6. errors \subseteq errors'
      BY <1>18, <2>p, <2>0 DEF Abort
    <2>7. ASSUME NEW m \in Medias, Waits(m), Waits(m)', PassOf(m)
          PROVE  /\ \A c \in copies' : c.modified < Date(m)
                 /\ q.pc = "infos" /\ q.after # None => q.after < Date(m)
                 /\ m \notin q.todo => \A y \in q.todo \ moved : q.listed[y] <= Date(m)
      BY <1>18, <2>p, <2>0, <2>a, <2>g, <2>1, <2>7 DEF Abort, PassOf, RunOf
    <2>8. ClockInv' /\ DeletedInv'
      <3>1. run'[r].at = run[r].at /\ (run[r].at # 0 => Active(r)) /\ last' = last
        BY <1>18, <2>p, <2>0, <2>a, <2>g, <2>1, <2>2
          DEF Abort, IsNext, RunOf, Active, Ended, NoRun
      <3>2. Active(r) /\ ~ Active(r)' => run'[r].ended = clock
        BY <1>18, <2>p, <2>0, <2>a, <2>g, <2>1, <2>2 DEF Abort, IsNext, RunOf, Active, Ended
      <3>3. kept \subseteq kept' /\ copies' \subseteq copies
        BY <1>18, <2>p, <2>0 DEF Abort
      <3>4. ASSUME NEW c \in copies', Active(r)', c.media \in run[r].deletes
            PROVE  c \in kept' \/ c.media \in run'[r].deletes
        BY <1>18, <2>p, <2>0, <2>1, <2>2, <3>4 DEF Abort, Active, Copied
      <3> QED
        BY <2>0, <2>2, <3>1, <3>2, <3>3, <3>4, DeletionsLeft
    <2> QED
      BY <1>18, <2>p, <2>0, <2>2, <2>3, <2>4, <2>5, <2>6, <2>7, <2>8, RunStep
  <1>19. ASSUME NEW r \in Runs, FinishRun(r), Remember PROVE BackupInv'
    <2>p. 0 \in Times
      BY BackupAssumption DEF Times
    <2> DEFINE q == Ended(r, "done")
    <2>0. /\ run' = [run EXCEPT ![r] = q] /\ UNCHANGED library
          /\ UNCHANGED <<copies, errors, kept>>
      BY <1>19, <2>p DEF FinishRun, IsNext
    <2>a. RunOf(r) /\ run[r] \in RunRecord
      BY TypeFacts DEF RunsInv
    <2>g. run[r].pc = "working" /\ run[r].deletes = {}
      BY <1>19, <2>p, <2>a, TypeFacts DEF FinishRun, IsNext, Active, RunOf
    <2>1. /\ q \in RunRecord
          /\ q.pc = "done" /\ q.at = run[r].at /\ q.ended = clock
          /\ q.todo = {} /\ q.deletes = {} /\ q.backedUp = {}
      BY <1>19, <2>p, <2>a, <2>g, TypeFacts DEF RunRecord, RunStates, Ended, NoRun
    <2> HIDE DEF q
    <2>2. run' \in [Runs -> RunRecord] /\ run'[r] = q /\ \A s \in Runs : s # r => run'[s] = run[s]
      BY <2>0, <2>1 DEF TypeOK
    <2>3. TypeOK'
      <3>1. shadowed' \subseteq Medias
        BY <1>19, <2>p, RememberFacts
      <3> QED
        BY <1>19, <2>p, <2>0, <2>a, <2>g, <2>2, <3>1, TypeFacts
          DEF FinishRun, TypeOK, library
    <2>4. RunOf(r)'
      BY <1>19, <2>p, <2>0, <2>a, <2>g, <2>1, <2>2, TypeFacts
        DEF FinishRun, RunOf, library, Date, Present, Copied
    <2>5. \A m \in Copied : media[m] = "present" => m \in Copied'
      BY <2>0 DEF Copied
    <2>6. errors \subseteq errors'
      BY <1>19, <2>p, <2>0 DEF FinishRun
    <2>7. ASSUME NEW m \in Medias, Waits(m), Waits(m)', PassOf(m)
          PROVE  /\ \A c \in copies' : c.modified < Date(m)
                 /\ q.pc = "infos" /\ q.after # None => q.after < Date(m)
                 /\ m \notin q.todo => \A y \in q.todo \ moved : q.listed[y] <= Date(m)
      BY <1>19, <2>p, <2>0, <2>a, <2>g, <2>1, <2>7 DEF FinishRun, PassOf, RunOf
    <2>8. ClockInv' /\ DeletedInv'
      <3>1. /\ run[r].at # 0 /\ run'[r].at = run[r].at /\ run'[r].ended = clock
            /\ ~ Active(r)' /\ Active(r)
            /\ last' = clock
        BY <1>19, <2>a, <2>g, <2>1, <2>2 DEF FinishRun, RunOf, Active
      <3>2. ClockInv'
        <4>1. clock' = clock /\ clock <= clock
          BY <2>0, TypeFacts DEF library
        <4> QED
          BY <2>0, <3>1, <4>1 DEF ClockInv, library
      <3>3. ASSUME NEW c \in copies, media[c.media] = "deleted" PROVE DeletedOf(c)'
        <4>1. /\ DeletedOf(c) /\ c.media \in Medias /\ deletedAt[c.media] \in Nat
              /\ deletedAt[c.media] <= clock /\ run[r].at \in Nat
          BY <3>3, TypeFacts DEF DeletedInv, ClockInv
        <4>2. Racing(c.media) => Racing(c.media)'
          BY <2>0, <2>2, <3>1, <4>1, RacingKept
        <4>3. c \in kept \/ Racing(c.media)'
          <5>1. CASE run[r].at <= deletedAt[c.media]
            BY <2>0, <3>1, <4>1, <5>1 DEF Racing, library
          <5>2. CASE run[r].at > deletedAt[c.media]
            BY <2>g, <3>1, <4>1, <4>2, <5>2 DEF DeletedOf
          <5> QED
            BY <4>1, <5>1, <5>2
        <4>4. ASSUME NEW s \in Runs, Active(s)', run'[s].at > deletedAt[c.media]
              PROVE  c \in kept \/ c.media \in run'[s].deletes \/ Racing(c.media)'
          BY <4>3
        <4> QED
          BY <2>0, <4>3, <4>4 DEF DeletedOf, library
      <3> QED
        BY <2>0, <3>2, <3>3 DEF DeletedInv, library
    <2> QED
      BY <1>19, <2>p, <2>0, <2>2, <2>3, <2>4, <2>5, <2>6, <2>7, <2>8, RunStep
  <1>20. CASE Crash /\ Remember
    <2>0. /\ UNCHANGED <<clock, stamp, created, deletedAt, copies, last, errors, kept,
                moved, lowered>>
          /\ media' = [m \in Medias |-> IF media[m] = "removed" THEN "forgotten" ELSE media[m]]
          /\ run' = [r \in Runs |-> IF Active(r) THEN Ended(r, "failed") ELSE run[r]]
          /\ status' = "idle"
      BY <1>20 DEF Crash
    <2>1. /\ \A m \in Medias : /\ media'[m] \in MediaStates
                               /\ media'[m] = "present" <=> media[m] = "present"
                               /\ media'[m] = "deleted" <=> media[m] = "deleted"
                               /\ media'[m] = "new" <=> media[m] = "new"
          /\ media' \in [Medias -> MediaStates]
      BY <2>0, TypeFacts DEF MediaStates
    <2>2. ASSUME NEW r \in Runs, Active(r)
          PROVE  /\ run'[r] \in RunRecord /\ run'[r].pc = "failed" /\ run'[r].at = run[r].at
                 /\ run'[r].ended = clock /\ run'[r].todo = {} /\ run'[r].deletes = {}
                 /\ run'[r].backedUp = {}
      <3> DEFINE q == Ended(r, "failed")
      <3>1. 0 \in Times
        BY BackupAssumption DEF Times
      <3>2. /\ q \in RunRecord /\ q.pc = "failed" /\ q.at = run[r].at
            /\ q.ended = clock /\ q.todo = {} /\ q.deletes = {} /\ q.backedUp = {}
        BY <3>1, TypeFacts DEF Ended, NoRun, RunRecord, RunStates
      <3>3. run'[r] = q
        BY <2>0, <2>2
      <3> QED
        BY <3>2, <3>3
    <2>3. ASSUME NEW r \in Runs, ~ Active(r)
          PROVE  run'[r] = run[r] /\ run[r].todo = {} /\ run[r].deletes = {}
      <3>1. RunOf(r)
        BY DEF RunsInv
      <3> QED
        BY <2>0, <2>3, <3>1 DEF RunOf, Active
    <2>4. \A r \in Runs : ~ Active(r)'
      BY <2>2, <2>3 DEF Active
    <2>5. TypeOK'
      <3>1. shadowed' \subseteq Medias
        BY <1>20, RememberFacts
      <3>2. run' \in [Runs -> RunRecord]
        <4>1. \A r \in Runs : run'[r] \in RunRecord
          BY <2>2, <2>3, TypeFacts
        <4>2. run' = [r \in Runs |-> run'[r]]
          BY <2>0
        <4> QED
          BY <4>1, <4>2
      <3> QED
        BY <2>0, <2>1, <3>1, <3>2 DEF TypeOK
    <2>6. ClockInv'
      <3>1. last = 0 \/ \E r \in Runs : run'[r].at # 0 /\ ~Active(r)' /\ run'[r].ended = last
        <4> SUFFICES ASSUME last # 0
                     PROVE  \E r \in Runs : run'[r].at # 0 /\ ~Active(r)'
                                                           /\ run'[r].ended = last
          OBVIOUS
        <4>1. PICK r \in Runs : run[r].at # 0 /\ ~Active(r) /\ run[r].ended = last
          BY DEF ClockInv
        <4> QED
          BY <2>3, <2>4, <4>1
      <3> QED
        BY <2>0, <3>1 DEF ClockInv
    <2>7. RunsInv'
      <3> SUFFICES ASSUME NEW r \in Runs PROVE RunOf(r)'
        BY DEF RunsInv
      <3>0. RunOf(r)
        BY DEF RunsInv
      <3>1. CASE Active(r)
        BY <2>0, <2>2, <3>0, <3>1, TypeFacts DEF RunOf
      <3>2. CASE ~ Active(r)
        <4>1. \A m \in run[r].backedUp : m \in Medias
          BY TypeFacts
        <4>2. run[r].backedUp \cap Present' \subseteq Copied'
          BY <2>0, <2>1, <3>0, <4>1 DEF RunOf, Present, Copied
        <4> QED
          BY <2>0, <2>1, <2>3, <3>0, <3>2, <4>1, <4>2 DEF RunOf, Active
      <3> QED
        BY <3>1, <3>2
    <2>8. PassInv'
      <3> SUFFICES ASSUME NEW m \in Medias, Waits(m)' PROVE PassOf(m)'
        BY DEF PassInv
      <3>1. Waits(m)
        BY <1>20, <2>0, <2>1, RememberFacts DEF Waits, Copied
      <3>2. PassOf(m) /\ Date(m)' = Date(m)
        BY <2>0, <3>1 DEF PassInv, Date
      <3>3. ASSUME NEW r \in Runs PROVE run'[r].pc # "infos" /\ run'[r].todo = {}
        BY <2>2, <2>3, <2>4 DEF Active
      <3> QED
        BY <2>0, <3>2, <3>3 DEF PassOf
    <2>9. DeletedInv'
      <3> SUFFICES ASSUME NEW c \in copies, media[c.media] = "deleted" PROVE DeletedOf(c)'
        BY <2>0, <2>1, TypeFacts DEF DeletedInv
      <3>1. /\ DeletedOf(c) /\ c.media \in Medias /\ deletedAt[c.media] <= clock
        BY TypeFacts DEF DeletedInv, ClockInv
      <3>2. ASSUME Racing(c.media) PROVE Racing(c.media)'
        <4>1. PICK s \in Runs : /\ run[s].at # 0 /\ run[s].at <= deletedAt[c.media]
                                /\ Active(s) \/ deletedAt[c.media] <= run[s].ended
          BY <3>2 DEF Racing
        <4>2. run'[s].at = run[s].at /\ deletedAt[c.media] <= run'[s].ended
          BY <2>2, <2>3, <3>1, <4>1
        <4> QED
          BY <2>0, <4>1, <4>2 DEF Racing
      <3> QED
        BY <2>0, <2>4, <3>1, <3>2 DEF DeletedOf
    <2> QED
      BY <2>5, <2>6, <2>7, <2>8, <2>9 DEF BackupInv
  <1>21. CASE UNCHANGED vars
    <2>1. TypeOK' /\ ClockInv'
      BY <1>21 DEF vars, BackupInv, TypeOK, ClockInv, Active
    <2>0. /\ clock' = clock /\ media' = media /\ stamp' = stamp /\ created' = created
          /\ deletedAt' = deletedAt /\ copies' = copies /\ last' = last /\ run' = run
          /\ errors' = errors /\ kept' = kept /\ moved' = moved /\ lowered' = lowered
          /\ shadowed' = shadowed
      BY <1>21 DEF vars
    <2>2. RunsInv'
      <3>1. ASSUME NEW r \in Runs PROVE RunOf(r)' <=> RunOf(r)
        BY <2>0 DEF RunOf, Active, Date, Present, Copied
      <3> QED
        BY <3>1 DEF BackupInv, RunsInv
    <2>3. PassInv'
      <3>1. ASSUME NEW m \in Medias PROVE (Waits(m)' <=> Waits(m)) /\ (PassOf(m)' <=> PassOf(m))
        BY <2>0 DEF Waits, PassOf, Date, Copied
      <3> QED
        BY <3>1 DEF BackupInv, PassInv
    <2>4. DeletedInv'
      BY <2>0 DEF BackupInv, DeletedInv, DeletedOf, Racing, Active
    <2> QED
      BY <2>1, <2>2, <2>3, <2>4 DEF BackupInv
  <1>22. CASE Next
    <2>1. Remember
      BY <1>22 DEF Next
    <2>2. \/ Tick \/ Crash \/ \E m \in Medias : Library(m)
          \/ \E r \in Runs : StartRun(r) \/ Execute(r) \/ Abort(r)
      BY <1>22 DEF Next
    <2>3. ASSUME NEW m \in Medias, Library(m) PROVE BackupInv'
      BY <1>2, <1>3, <1>4, <1>5, <1>6, <1>7, <2>1, <2>3 DEF Library
    <2>4. ASSUME NEW r \in Runs, StartRun(r) \/ Execute(r) \/ Abort(r) PROVE BackupInv'
      BY <1>8, <1>9, <1>10, <1>11, <1>12, <1>13, <1>14, <1>15, <1>16, <1>17, <1>18, <1>19,
         <2>1, <2>4 DEF Execute
    <2> QED
      BY <1>1, <1>20, <2>1, <2>2, <2>3, <2>4
  <1> QED
    BY <1>21, <1>22

\* There is nothing to back up in the beginning.
LEMMA BackupInit == Init => BackupInv
  <1> SUFFICES ASSUME Init PROVE BackupInv
    OBVIOUS
  <1>0. /\ clock = 1 /\ copies = {} /\ last = 0
        /\ \A m \in Medias : /\ media[m] = "new" /\ stamp[m] = 0
                             /\ created[m] = 0 /\ deletedAt[m] = 0
        /\ run = [r \in Runs |-> NoRun]
    BY DEF Init
  <1>a. 0 \in Times /\ 1 \in Times
    BY BackupAssumption DEF Times
  <1>1. NoRun \in RunRecord /\ NoRun.pc = "idle" /\ NoRun.at = 0 /\ NoRun.ended = 0
        /\ NoRun.todo = {} /\ NoRun.deletes = {} /\ NoRun.backedUp = {}
    BY <1>a DEF NoRun, RunRecord, RunStates
  <1> HIDE DEF NoRun
  <1>2. TypeOK
    BY <1>a, <1>1, BackupAssumption DEF Init, TypeOK, MediaStates
  <1>3. ClockInv
    BY <1>0 DEF ClockInv
  <1>4. RunsInv
    BY <1>0, <1>1 DEF RunsInv, RunOf
  <1>5. PassInv /\ DeletedInv
    BY <1>0 DEF PassInv, Waits, DeletedInv
  <1> QED
    BY <1>2, <1>3, <1>4, <1>5 DEF BackupInv

\* The part of MCSpec that speaks of the medias is Spec.
LEMMA BackupInductive == MCSpec => []BackupInv
  <1>1. MCInit => BackupInv
    BY BackupInit DEF MCInit
  <1>2. BackupInv /\ [MCNext]_<<subject, vars, accessVars, storeVars>> => BackupInv'
    <2> SUFFICES ASSUME BackupInv, [MCNext]_<<subject, vars, accessVars, storeVars>>
                 PROVE  BackupInv'
      OBVIOUS
    <2>1. [Next]_vars
      BY DEF MCNext
    <2> QED
      BY <2>1, BackupStep
  <1> QED
    BY <1>1, <1>2, PTL DEF MCSpec

\* No run goes past a media that is in the library, was not copied and did not fail,
\* unless its own date went back or another's copy hid it (NothingPassedOver): for
\* any medias, runs, and dates.
THEOREM PassedOverCorrect == MCSpec => []NothingPassedOver
  <1>1. BackupInv => NothingPassedOver
    BY DEF BackupInv, PassInv, PassOf, Waits, NothingPassedOver, Present
  <1> QED
    BY <1>1, BackupInductive, PTL

\* No run ends, well or not, with a listed deletion that the next one will not list,
\* unless its removal failed or it came while a run was at work: for any medias, runs
\* and dates (DeletedCopiesFound).
THEOREM DeletedCorrect == MCSpec => []DeletedCopiesFound
  <1>1. BackupInv => DeletedCopiesFound
    BY DEF BackupInv, DeletedInv, DeletedOf, Racing, DeletedCopiesFound
  <1> QED
    BY <1>1, BackupInductive, PTL

-----------------------------------------------------------------------------
(* The status of a backup.                                                 *)

\* A run that tells, or has told, that the backup is in progress: it listed the
\* deletions first, and ends in no other way than by failing.
Telling(r) == run[r].at # 0 /\ run[r].pc \in {"working", "copying", "failed"}

ProgressInv == status = "InProgress" => \E r \in Runs : Telling(r)

\* Only the end of a run takes its word back, and it sets the status.
LEMMA ProgressStep == BackupInv /\ ProgressInv /\ [Next]_vars => ProgressInv'
  <1> SUFFICES ASSUME BackupInv, ProgressInv, [Next]_vars PROVE ProgressInv'
    OBVIOUS
  <1>0. TypeOK /\ RunsInv
    BY DEF BackupInv
  <1>a. run = [r \in Runs |-> run[r]] /\ \A r \in Runs : run[r] \in RunRecord
    BY <1>0 DEF TypeOK
  <1>1. ASSUME UNCHANGED <<status, run>> PROVE ProgressInv'
    BY <1>1 DEF ProgressInv, Telling
  <1>2. ASSUME UNCHANGED status, \A r \in Runs : Telling(r) => Telling(r)' PROVE ProgressInv'
    BY <1>2 DEF ProgressInv
  <1>3. ASSUME NEW m \in Medias, Library(m) PROVE ProgressInv'
    BY <1>1, <1>3 DEF Library, AddMedia, ModifyMedia, EditCreated, RemoveMedia, AddDeleted,
       ForgetDeleted
  <1>4. ASSUME NEW r \in Runs, StartRun(r) \/ ReadInfos(r) \/ ListMedias(r) \/ ListDeleted(r)
        PROVE  ProgressInv'
    <2>1. UNCHANGED status /\ ~ Telling(r)
      BY <1>4 DEF StartRun, ReadInfos, ListMedias, ListDeleted, Telling
    <2>2. ASSUME NEW s \in Runs \ {r} PROVE run'[s] = run[s]
      <3>1. CASE StartRun(r)
        BY <1>a, <3>1 DEF StartRun
      <3>2. CASE ReadInfos(r)
        BY <1>a, <3>2 DEF ReadInfos
      <3>3. CASE ListMedias(r)
        BY <1>a, <3>3 DEF ListMedias
      <3>4. CASE ListDeleted(r)
        BY <1>a, <3>4 DEF ListDeleted
      <3> QED
        BY <1>4, <3>1, <3>2, <3>3, <3>4
    <2> QED
      BY <1>2, <2>1, <2>2 DEF Telling
  <1>5. ASSUME NEW r \in Runs,
               \/ ReadBackedUp(r)
               \/ \E m \in Medias : \/ RemoveCopies(r, m) \/ SkipMedia(r, m)
                                    \/ FinishCopy(r, m) \/ FailCopy(r, m)
        PROVE  ProgressInv'
    <2> DEFINE Stays == /\ UNCHANGED status
                        /\ run'[r].at = run[r].at /\ run'[r].pc = "working"
                        /\ \A s \in Runs \ {r} : run'[s] = run[s]
    <2>1. Stays
      <3>1. CASE ReadBackedUp(r)
        BY <1>a, <3>1 DEF ReadBackedUp
      <3>2. ASSUME NEW m \in Medias, RemoveCopies(r, m)
            PROVE  Stays
        <4> DEFINE q == [run[r] EXCEPT !.deletes = @ \ {m}]
        <4>1. UNCHANGED status /\ run[r].pc = "working" /\ run' = [run EXCEPT ![r] = q]
          BY <3>2 DEF RemoveCopies
        <4>2. q.pc = run[r].pc /\ q.at = run[r].at
          BY <1>a DEF RunRecord
        <4> HIDE DEF q
        <4> QED
          BY <1>a, <4>1, <4>2
      <3>3. ASSUME NEW m \in Medias, SkipMedia(r, m)
            PROVE  Stays
        BY <1>a, <3>3 DEF SkipMedia, IsNext
      <3>4. ASSUME NEW m \in Medias, FinishCopy(r, m)
            PROVE  Stays
        BY <1>a, <3>4 DEF FinishCopy
      <3>5. ASSUME NEW m \in Medias, FailCopy(r, m)
            PROVE  Stays
        BY <1>a, <3>5 DEF FailCopy
      <3> QED
        BY <1>5, <3>1, <3>2, <3>3, <3>4, <3>5
    <2> QED
      BY <1>2, <2>1 DEF Telling
  <1>6. ASSUME NEW r \in Runs, NEW m \in Medias, BeginCopy(r, m) PROVE ProgressInv'
    <2>1. run[r].pc = "working" /\ run[r].at # 0
      BY <1>0, <1>6 DEF BeginCopy, IsNext, RunsInv, RunOf
    <2>2. run'[r].at = run[r].at /\ run'[r].pc = "copying"
      BY <1>a, <1>6 DEF BeginCopy, RunRecord
    <2> QED
      BY <2>1, <2>2 DEF ProgressInv, Telling
  <1>7. ASSUME NEW r \in Runs, FinishRun(r) PROVE ProgressInv'
    BY <1>7 DEF FinishRun, ProgressInv
  <1>8. ASSUME NEW r \in Runs, Abort(r) PROVE ProgressInv'
    <2>1. UNCHANGED status /\ \A s \in Runs \ {r} : run'[s] = run[s]
      BY <1>a, <1>8 DEF Abort
    <2>2. run'[r].at = run[r].at /\ run'[r].pc = "failed"
      BY <1>a, <1>8 DEF Abort, Ended, NoRun
    <2> QED
      BY <1>2, <2>1, <2>2 DEF Telling
  <1>9. CASE Crash
    BY <1>9 DEF Crash, ProgressInv
  <1>10. CASE Tick
    BY <1>1, <1>10 DEF Tick
  <1>11. CASE UNCHANGED vars
    BY <1>1, <1>11 DEF vars
  <1>12. ASSUME NEW r \in Runs, Execute(r) PROVE ProgressInv'
    BY <1>4, <1>5, <1>6, <1>7, <1>12 DEF Execute
  <1> QED
    BY <1>3, <1>4, <1>8, <1>9, <1>10, <1>11, <1>12 DEF Next

\* A backup is told to be in progress only while a run is at work or after one failed:
\* for any medias, runs and dates (InProgressExplained).
THEOREM InProgressCorrect == MCSpec => []InProgressExplained
  <1>1. MCInit => ProgressInv
    BY DEF MCInit, Init, ProgressInv
  <1>2. BackupInv /\ ProgressInv /\ [MCNext]_<<subject, vars, accessVars, storeVars>>
          => ProgressInv'
    <2> SUFFICES ASSUME BackupInv, ProgressInv, [MCNext]_<<subject, vars, accessVars, storeVars>>
                 PROVE  ProgressInv'
      OBVIOUS
    <2>1. [Next]_vars
      BY DEF MCNext
    <2> QED
      BY <2>1, ProgressStep
  <1>3. ProgressInv => InProgressExplained
    BY DEF ProgressInv, Telling, InProgressExplained, Active
  <1> QED
    BY <1>1, <1>2, <1>3, BackupInductive, PTL DEF MCSpec

-----------------------------------------------------------------------------
(* Accounts.                                                               *)

\* What a request carries from its question to its answer.
Asking == [pc      : {"idle", "own", "remove", "invite", "join", "code", "grant", "consume"},
           user    : Users \cup Admins \cup {None},
           library : Libraries \cup {None},
           code    : Codes \cup {None},
           role    : {"read", "admin", None}]

\* The states of users, libraries, rights, requests and invitations.
AccessType ==
  /\ users \subseteq Users \cup Admins /\ libraries \subseteq Libraries
  /\ rights \in [Users \X Libraries -> {"read", "admin", None}]
  /\ request \in [Requests -> Asking]
  /\ DOMAIN invitation = Codes
  /\ taken \in [Codes -> SUBSET Users]

\* What a name of a library is written from, or stands in, is there or raced.
NamesInv ==
  /\ \A x \in Users \X Libraries : rights[x] # None => x[2] \in libraries \cup raced
  /\ \A q \in Requests : request[q].pc \in {"own", "invite", "grant"} =>
       request[q].library \in libraries \cup raced
  /\ \A c \in Codes : invitation[c] # None => /\ invitation[c].library \in Libraries
                                              /\ invitation[c].library \in libraries \cup raced
                                              /\ invitation[c].role \in {"read", "admin"}

\* Codes that were not given are nowhere.
GivenInv ==
  /\ \A q \in Requests : /\ request[q].pc \in {"join", "code", "grant", "consume"} =>
                              request[q].code \in Codes \cap given /\ request[q].user \in Users
                         /\ request[q].pc = "invite" => request[q].library \in Libraries
                                                        /\ request[q].role \in {"read", "admin"}
                         /\ request[q].pc = "grant" => request[q].role \in {"read", "admin"}
  /\ \A c \in Codes : invitation[c] # None \/ taken[c] # {} => c \in given

\* The request reads the invitation of c, to write the rights it gives or to remove it.
Redeems(q, c) == request[q].pc \in {"grant", "consume"} /\ request[q].code = c

\* One redemption at a time, and the first leaves no invitation behind.
TakenInv ==
  \A c \in Codes \ shared :
    /\ \A p, q \in Requests : Redeems(p, c) /\ Redeems(q, c) => p = q
    /\ \A q \in Requests : Redeems(q, c) /\ request[q].pc = "grant" => taken[c] = {}
    /\ taken[c] = {} \/ \E u \in Users : taken[c] = {u}
    /\ taken[c] # {} /\ invitation[c] # None => \E q \in Requests : Redeems(q, c)

\* The inductive invariant of Accounts.
AccessInv == AccessType /\ NamesInv /\ GivenInv /\ TakenInv

\* A step of a request is of that request only.
LEMMA BecomesFacts ==
  ASSUME AccessType, NEW q \in Requests, NEW r \in Asking, Access!Becomes(q, r)
  PROVE  /\ request' \in [Requests -> Asking] /\ request'[q] = r
         /\ \A p \in Requests : p # q => request'[p] = request[p]
  BY DEF AccessType, Access!Becomes

\* A request that is over holds no code.
LEMMA IdleFacts ==
  /\ Access!Idle \in Asking /\ Access!Idle.pc = "idle" /\ Access!Idle.code = None
  BY DEF Access!Idle, Asking

\* What a request leaves alone keeps the invariant, whatever the request becomes.
LEMMA RequestStep ==
  ASSUME AccessInv, NEW q \in Requests, NEW r \in Asking, Access!Becomes(q, r),
         UNCHANGED <<libraries, rights, invitation, taken, raced, shared>>,
         users' \subseteq Users \cup Admins, given \subseteq given',
         r.pc \in {"own", "invite", "grant"} => r.library \in libraries \cup raced,
         r.pc = "invite" => r.library \in Libraries /\ r.role \in {"read", "admin"},
         r.pc \in {"join", "code"} => r.code \in Codes \cap given /\ r.user \in Users,
         r.pc \notin {"grant", "consume"},
         \A c \in Codes \ shared : ~Redeems(q, c)
  PROVE  AccessInv'
  <1>0. AccessType /\ NamesInv /\ GivenInv /\ TakenInv
    BY DEF AccessInv
  <1>a. /\ request' \in [Requests -> Asking] /\ request'[q] = r
        /\ \A p \in Requests : p # q => request'[p] = request[p]
    BY <1>0, BecomesFacts
  <1> USE <1>0, <1>a
  <1>1. AccessType'
    BY DEF AccessType
  <1>2. NamesInv'
    BY DEF NamesInv
  <1>3. GivenInv'
    BY DEF GivenInv
  <1>4. TakenInv'
    BY DEF TakenInv, Redeems
  <1> QED
    BY <1>1, <1>2, <1>3, <1>4 DEF AccessInv

\* Every handler of the accounts, step by step, preserves the invariant.
LEMMA AccessStep == AccessInv /\ [Access!Next]_accessVars => AccessInv'
  <1> SUFFICES ASSUME AccessInv, [Access!Next]_accessVars PROVE AccessInv'
    OBVIOUS
  <1>0. AccessType /\ NamesInv /\ GivenInv /\ TakenInv
    BY DEF AccessInv
  <1> USE <1>0, IdleFacts
  <1>1. ASSUME NEW q \in Requests, Access!add_library(q) PROVE AccessInv'
    <2>1. ASSUME NEW u \in Admins, NEW l \in Libraries \ given,
                 Access!Asks(q, [Access!Idle EXCEPT !.pc = "own", !.user = u, !.library = l]),
                 libraries' = libraries \cup {l}, given' = given \cup {l},
                 UNCHANGED <<users, rights, invitation, copied, taken, raced, shared>>
          PROVE  AccessInv'
      <3> DEFINE r == [Access!Idle EXCEPT !.pc = "own", !.user = u, !.library = l]
      <3>1. r \in Asking /\ r.pc = "own" /\ r.library = l
        BY DEF Access!Idle, Asking
      <3>2. Access!Becomes(q, r)
        BY <2>1 DEF Access!Asks
      <3> HIDE DEF r
      <3>3. /\ request' \in [Requests -> Asking] /\ request'[q] = r
            /\ \A p \in Requests : p # q => request'[p] = request[p]
        BY <3>1, <3>2, BecomesFacts
      <3>4. AccessType'
        BY <2>1, <3>3 DEF AccessType
      <3>5. NamesInv'
        BY <2>1, <3>1, <3>3 DEF NamesInv
      <3>6. GivenInv'
        BY <2>1, <3>1, <3>3 DEF GivenInv
      <3>7. request[q].pc = "idle"
        BY <2>1 DEF Access!Asks, Access!At
      <3>8. TakenInv'
        BY <2>1, <3>1, <3>3, <3>7 DEF TakenInv, Redeems
      <3> QED
        BY <3>4, <3>5, <3>6, <3>8 DEF AccessInv
    <2>2. ASSUME request[q].pc = "own", Access!Becomes(q, Access!Idle),
                 rights' = [rights EXCEPT ![<<request[q].user, request[q].library>>] = "admin"],
                 UNCHANGED <<users, libraries, invitation, copied, asked, given, taken,
                             raced, shared>>
          PROVE  AccessInv'
      <3>1. /\ request' \in [Requests -> Asking] /\ request'[q] = Access!Idle
            /\ \A p \in Requests : p # q => request'[p] = request[p]
        BY <2>2, BecomesFacts
      <3>2. AccessType'
        BY <2>2, <3>1 DEF AccessType
      <3>3. request[q].library \in libraries \cup raced
        BY <2>2 DEF NamesInv
      <3>4. \A x \in Users \X Libraries : rights'[x] # None => x[2] \in libraries \cup raced
        BY <2>2, <3>3 DEF NamesInv, AccessType
      <3>5. NamesInv'
        BY <2>2, <3>1, <3>4 DEF NamesInv
      <3>6. GivenInv'
        BY <2>2, <3>1 DEF GivenInv
      <3>7. TakenInv'
        BY <2>2, <3>1 DEF TakenInv, Redeems
      <3> QED
        BY <3>2, <3>5, <3>6, <3>7 DEF AccessInv
    <2> QED
      BY <1>1, <2>1, <2>2 DEF Access!add_library, Access!At, Access!history
  <1>2. ASSUME NEW q \in Requests, Access!request_remove_library(q) PROVE AccessInv'
    <2>1. PICK u \in Admins, l \in libraries :
            Access!Asks(q, [Access!Idle EXCEPT !.pc = "remove", !.user = u, !.library = l])
      BY <1>2 DEF Access!request_remove_library
    <2> DEFINE r == [Access!Idle EXCEPT !.pc = "remove", !.user = u, !.library = l]
    <2>2. r \in Asking /\ r.pc = "remove"
      BY DEF Access!Idle, Asking, AccessType
    <2>3. Access!Becomes(q, r) /\ request[q].pc = "idle"
      BY <2>1 DEF Access!Asks, Access!At
    <2> HIDE DEF r
    <2> QED
      BY <1>2, <2>2, <2>3, RequestStep
        DEF Access!request_remove_library, Access!history, Redeems, AccessType
  <1>3. ASSUME NEW q \in Requests, Access!remove_library(q) PROVE AccessInv'
    <2>1. /\ request' \in [Requests -> Asking] /\ request'[q] = Access!Idle
          /\ \A p \in Requests : p # q => request'[p] = request[p]
          /\ request[q].pc = "remove"
      BY <1>3, BecomesFacts DEF Access!remove_library, Access!At
    <2>2. CASE request[q].library \in libraries \ copied
      <3> DEFINE l == request[q].library
      <3>1. /\ libraries' = libraries \ {l}
            /\ rights' = [x \in DOMAIN rights |-> IF x[2] = l THEN None ELSE rights[x]]
            /\ invitation' = [c \in Codes |->
                 IF invitation[c] # None /\ invitation[c].library = l THEN None ELSE invitation[c]]
            /\ UNCHANGED <<users, given, taken, shared>>
        BY <1>3, <2>2 DEF Access!remove_library, Access!RemoveRows
      <3>2. raced \subseteq raced' /\ (l \in raced' \/ ~Access!AboutToWrite(l))
        BY <1>3, <2>2 DEF Access!remove_library, Access!RemoveRows
      <3> HIDE DEF l
      <3>3. AccessType'
        BY <2>1, <3>1 DEF AccessType
      <3>4. \A p \in Requests : request'[p].pc \in {"own", "invite", "grant"} =>
              request'[p].library \in libraries' \cup raced'
        BY <2>1, <3>1, <3>2 DEF NamesInv, Access!AboutToWrite
      <3>5. \A x \in Users \X Libraries : rights'[x] # None => x[2] \in libraries' \cup raced'
        BY <3>1, <3>2 DEF NamesInv, AccessType
      <3>6. \A c \in Codes : invitation'[c] # None =>
              /\ invitation[c] # None /\ invitation'[c] = invitation[c]
              /\ invitation[c].library # l
        BY <3>1
      <3>7. NamesInv'
        BY <3>1, <3>2, <3>4, <3>5, <3>6 DEF NamesInv
      <3>8. GivenInv'
        BY <2>1, <3>1, <3>6 DEF GivenInv
      <3>9. TakenInv'
        BY <2>1, <3>1, <3>6 DEF TakenInv, Redeems
      <3> QED
        BY <3>3, <3>7, <3>8, <3>9 DEF AccessInv
    <2>3. CASE request[q].library \notin libraries \ copied
      BY <1>3, <2>1, <2>3, RequestStep
        DEF Access!remove_library, Access!history, Redeems, AccessType
    <2> QED
      BY <2>2, <2>3
  <1>4. ASSUME NEW q \in Requests, Access!AskInvitation(q) PROVE AccessInv'
    <2>1. PICK u \in users, l \in libraries, m \in {"read", "admin"} :
            Access!Asks(q, [Access!Idle EXCEPT !.pc = "invite", !.user = u, !.library = l, !.role = m])
      BY <1>4 DEF Access!AskInvitation
    <2> DEFINE r == [Access!Idle EXCEPT !.pc = "invite", !.user = u, !.library = l, !.role = m]
    <2>2. l \in Libraries /\ u \in Users \cup Admins
      BY DEF AccessType
    <2>3. r \in Asking /\ r.pc = "invite" /\ r.library = l /\ r.role = m
      BY <2>2 DEF Access!Idle, Asking
    <2>4. Access!Becomes(q, r) /\ request[q].pc = "idle"
      BY <2>1 DEF Access!Asks, Access!At
    <2> HIDE DEF r
    <2> QED
      BY <1>4, <2>2, <2>3, <2>4, RequestStep
        DEF Access!AskInvitation, Access!history, Redeems, AccessType
  <1>5. ASSUME NEW q \in Requests, Access!add_library_invitation(q) PROVE AccessInv'
    <2>1. /\ request' \in [Requests -> Asking] /\ request'[q] = Access!Idle
          /\ \A p \in Requests : p # q => request'[p] = request[p]
          /\ request[q].pc = "invite"
          /\ UNCHANGED <<users, libraries, rights, taken, raced, shared>>
      BY <1>5, BecomesFacts DEF Access!add_library_invitation, Access!At
    <2>2. PICK c \in Codes \ given :
            /\ invitation' = [invitation EXCEPT ![c] = [library |-> request[q].library, role |-> request[q].role]]
            /\ given' = given \cup {c}
      BY <1>5 DEF Access!add_library_invitation
    <2>3. /\ DOMAIN invitation' = Codes
          /\ invitation'[c].library = request[q].library
          /\ invitation'[c].role = request[q].role
          /\ \A d \in Codes : d # c => invitation'[d] = invitation[d]
      BY <2>2 DEF AccessType
    <2>4. /\ request[q].library \in libraries \cup raced
          /\ request[q].library \in Libraries /\ request[q].role \in {"read", "admin"}
      BY <2>1 DEF NamesInv, GivenInv
    <2>5. AccessType'
      BY <2>1, <2>3 DEF AccessType
    <2>6. NamesInv'
      BY <2>1, <2>3, <2>4 DEF NamesInv
    <2>7. GivenInv'
      BY <2>1, <2>2, <2>3 DEF GivenInv
    <2>8. taken[c] = {}
      BY <2>2 DEF GivenInv
    <2>9. TakenInv'
      BY <2>1, <2>3, <2>8 DEF TakenInv, Redeems
    <2> QED
      BY <2>5, <2>6, <2>7, <2>9 DEF AccessInv
  <1>6. ASSUME NEW q \in Requests, Access!redeem_invitation(q) PROVE AccessInv'
    <2>1. PICK u \in Users, c \in Codes \cap given :
            Access!Asks(q, [Access!Idle EXCEPT !.pc = IF u \in users THEN "code" ELSE "join",
                                               !.user = u, !.code = c])
      BY <1>6 DEF Access!redeem_invitation
    <2> DEFINE r == [Access!Idle EXCEPT !.pc = IF u \in users THEN "code" ELSE "join",
                                        !.user = u, !.code = c]
    <2>2. r \in Asking /\ r.pc \in {"code", "join"} /\ r.user = u /\ r.code = c
      BY DEF Access!Idle, Asking
    <2>3. Access!Becomes(q, r) /\ request[q].pc = "idle"
      BY <2>1 DEF Access!Asks, Access!At
    <2> HIDE DEF r
    <2> QED
      BY <1>6, <2>2, <2>3, RequestStep
        DEF Access!redeem_invitation, Access!history, Redeems, AccessType
  <1>7. ASSUME NEW q \in Requests, Access!add_user(q) PROVE AccessInv'
    <2> DEFINE r == IF request[q].user \in users THEN Access!Idle ELSE [request[q] EXCEPT !.pc = "code"]
    <2>1. /\ r \in Asking
          /\ r.pc = "idle" \/ (r.pc = "code" /\ r.user = request[q].user /\ r.code = request[q].code)
      BY DEF AccessType, Asking
    <2>2. Access!Becomes(q, r) /\ request[q].pc = "join"
      BY <1>7 DEF Access!add_user, Access!At
    <2>3. request[q].code \in Codes \cap given /\ request[q].user \in Users
      BY <2>2 DEF GivenInv
    <2> HIDE DEF r
    <2> QED
      BY <1>7, <2>1, <2>2, <2>3, RequestStep
        DEF Access!add_user, Access!history, Redeems, AccessType
  <1>8. ASSUME NEW q \in Requests, Access!get_library_invitation(q) PROVE AccessInv'
    <2> DEFINE c == request[q].code
               r == IF invitation[c] = None THEN Access!Idle
                    ELSE [request[q] EXCEPT !.pc = "grant", !.library = invitation[c].library,
                                            !.role = invitation[c].role]
    <2>1. Access!Becomes(q, r) /\ request[q].pc = "code"
      BY <1>8 DEF Access!get_library_invitation, Access!At
    <2>2. c \in Codes \cap given /\ request[q].user \in Users
      BY <2>1 DEF GivenInv
    <2>3. invitation[c] # None =>
            /\ invitation[c].library \in Libraries
            /\ invitation[c].library \in libraries \cup raced
            /\ invitation[c].role \in {"read", "admin"}
      BY <2>2 DEF NamesInv
    <2>4. /\ r \in Asking
          /\ \/ r.pc = "idle" /\ invitation[c] = None
             \/ /\ r.pc = "grant" /\ r.user = request[q].user /\ r.code = c
                /\ r.library = invitation[c].library /\ r.role = invitation[c].role
                /\ invitation[c] # None
      BY <2>3 DEF AccessType, Asking
    <2>5. /\ UNCHANGED <<users, libraries, rights, invitation, given, taken, raced>>
          /\ shared \subseteq shared'
          /\ c \in shared' \/ \A p \in Requests : ~Redeems(p, c)
      BY <1>8 DEF Access!get_library_invitation, Redeems
    <2> HIDE DEF r, c
    <2>6. /\ request' \in [Requests -> Asking] /\ request'[q] = r
          /\ \A p \in Requests : p # q => request'[p] = request[p]
      BY <2>1, <2>4, BecomesFacts
    <2>7. AccessType'
      BY <2>5, <2>6 DEF AccessType
    <2>8. NamesInv'
      BY <2>3, <2>4, <2>5, <2>6 DEF NamesInv
    <2>9. GivenInv'
      BY <2>2, <2>3, <2>4, <2>5, <2>6 DEF GivenInv
    <2>10. TakenInv'
      BY <2>1, <2>2, <2>4, <2>5, <2>6 DEF TakenInv, Redeems
    <2> QED
      BY <2>7, <2>8, <2>9, <2>10 DEF AccessInv
  <1>9. ASSUME NEW q \in Requests, Access!add_library_rights(q) PROVE AccessInv'
    <2> DEFINE c == request[q].code
               x == <<request[q].user, request[q].library>>
               r == [request[q] EXCEPT !.pc = "consume"]
    <2>1. /\ request[q].pc = "grant"
          /\ UNCHANGED <<users, libraries, invitation, given, raced, shared>>
      BY <1>9 DEF Access!add_library_rights, Access!Grant, Access!At
    <2>2. CASE rights[x] # None
      <3>1. Access!Becomes(q, Access!Idle) /\ UNCHANGED <<rights, taken>>
        BY <1>9, <2>2 DEF Access!add_library_rights, Access!Grant
      <3>2. /\ request' \in [Requests -> Asking] /\ request'[q] = Access!Idle
            /\ \A p \in Requests : p # q => request'[p] = request[p]
        BY <3>1, BecomesFacts
      <3>3. AccessType' /\ NamesInv' /\ GivenInv'
        BY <2>1, <3>1, <3>2 DEF AccessType, NamesInv, GivenInv
      <3>4. TakenInv'
        BY <2>1, <3>1, <3>2 DEF TakenInv, Redeems
      <3> QED
        BY <3>3, <3>4 DEF AccessInv
    <2>3. CASE rights[x] = None
      <3>1. /\ rights' = [rights EXCEPT ![x] = request[q].role]
            /\ taken' = [taken EXCEPT ![c] = @ \cup {request[q].user}]
            /\ Access!Becomes(q, r)
        BY <1>9, <2>3 DEF Access!add_library_rights, Access!Grant
      <3>2. /\ c \in Codes \cap given /\ request[q].user \in Users
            /\ request[q].library \in libraries \cup raced
            /\ request[q].role \in {"read", "admin"}
        BY <2>1 DEF GivenInv, NamesInv
      <3>3. r \in Asking /\ r.pc = "consume" /\ r.code = c /\ r.user = request[q].user
        BY DEF AccessType, Asking
      <3>4. \A y \in Users \X Libraries : rights'[y] # None => y[2] \in libraries \cup raced
        BY <3>1, <3>2 DEF NamesInv, AccessType
      <3>5. rights' \in [Users \X Libraries -> {"read", "admin", None}]
        BY <3>1, <3>2 DEF AccessType
      <3>6. /\ taken' \in [Codes -> SUBSET Users]
            /\ taken'[c] = taken[c] \cup {request[q].user}
            /\ \A d \in Codes : d # c => taken'[d] = taken[d]
        BY <3>1, <3>2 DEF AccessType
      <3> HIDE DEF r, c, x
      <3>7. /\ request' \in [Requests -> Asking] /\ request'[q] = r
            /\ \A p \in Requests : p # q => request'[p] = request[p]
        BY <3>1, <3>3, BecomesFacts
      <3>8. AccessType'
        BY <2>1, <3>5, <3>6, <3>7 DEF AccessType
      <3>9. NamesInv'
        BY <2>1, <3>3, <3>4, <3>7 DEF NamesInv
      <3>10. GivenInv'
        BY <2>1, <3>2, <3>3, <3>6, <3>7 DEF GivenInv
      <3>11. request[q].code = c
        BY DEF c
      <3>12. TakenInv'
        BY <2>1, <3>2, <3>3, <3>6, <3>7, <3>11 DEF TakenInv, Redeems
      <3> QED
        BY <3>8, <3>9, <3>10, <3>12 DEF AccessInv
    <2> QED
      BY <2>2, <2>3
  <1>10. ASSUME NEW q \in Requests, Access!remove_library_invitation(q) PROVE AccessInv'
    <2>1. /\ request' \in [Requests -> Asking] /\ request'[q] = Access!Idle
          /\ \A p \in Requests : p # q => request'[p] = request[p]
          /\ request[q].pc = "consume"
          /\ invitation' = [invitation EXCEPT ![request[q].code] = None]
          /\ UNCHANGED <<users, libraries, rights, given, taken, raced, shared>>
      BY <1>10, BecomesFacts DEF Access!remove_library_invitation, Access!At, Access!history
    <2>2. /\ DOMAIN invitation' = Codes
          /\ \A c \in Codes : invitation'[c] # None => invitation'[c] = invitation[c] /\ c # request[q].code
      BY <2>1 DEF AccessType
    <2>3. AccessType'
      BY <2>1, <2>2 DEF AccessType
    <2>4. NamesInv'
      BY <2>1, <2>2 DEF NamesInv
    <2>5. GivenInv'
      BY <2>1, <2>2 DEF GivenInv
    <2>6. TakenInv'
      BY <2>1, <2>2 DEF TakenInv, Redeems
    <2> QED
      BY <2>3, <2>4, <2>5, <2>6 DEF AccessInv
  <1>11. ASSUME NEW q \in Requests, Access!Fail(q) PROVE AccessInv'
    <2>1. /\ request' \in [Requests -> Asking] /\ request'[q] = Access!Idle
          /\ \A p \in Requests : p # q => request'[p] = request[p]
          /\ shared \subseteq shared'
          /\ request[q].pc = "consume" => request[q].code \in shared'
          /\ UNCHANGED <<users, libraries, rights, invitation, given, taken, raced>>
      BY <1>11, BecomesFacts DEF Access!Fail, Access!At
    <2>2. AccessType' /\ NamesInv' /\ GivenInv'
      BY <2>1 DEF AccessType, NamesInv, GivenInv
    <2>3. TakenInv'
      BY <2>1 DEF TakenInv, Redeems
    <2> QED
      BY <2>2, <2>3 DEF AccessInv
  <1>12. CASE Access!add_backup_file \/ Access!remove_backup_file
    BY <1>12 DEF Access!add_backup_file, Access!remove_backup_file, Access!history,
         AccessInv, AccessType, NamesInv, GivenInv, TakenInv, Redeems
  <1>13. CASE UNCHANGED accessVars
    BY <1>13 DEF accessVars, AccessInv, AccessType, NamesInv, GivenInv, TakenInv, Redeems
  <1> QED
    BY <1>1, <1>2, <1>3, <1>4, <1>5, <1>6, <1>7, <1>8, <1>9, <1>10, <1>11, <1>12, <1>13
      DEF Access!Next

\* The server starts with no invitation and nothing asked.
LEMMA AccessInit == Access!Init => AccessInv
  <1> SUFFICES ASSUME Access!Init PROVE AccessInv
    OBVIOUS
  <1>1. \A q \in Requests : request[q] = Access!Idle
    BY DEF Access!Init
  <1>2. AccessType
    BY IdleFacts DEF Access!Init, AccessType
  <1>3. NamesInv /\ GivenInv /\ TakenInv
    BY <1>1, IdleFacts DEF Access!Init, NamesInv, GivenInv, TakenInv, Redeems
  <1> QED
    BY <1>2, <1>3 DEF AccessInv

\* The users can always be listed but for the named race, and an invitation is for
\* one but for the named ones: for any users, libraries, codes and requests.
THEOREM RightsCorrect == MCSpec => []RightsInOrder
  <1> DEFINE Inv == subject = "accounts" => AccessInv
  <1>1. MCInit => Inv
    BY AccessInit DEF MCInit
  <1>2. Inv /\ [MCNext]_<<subject, vars, accessVars, storeVars>> => Inv'
    <2> SUFFICES ASSUME Inv, [MCNext]_<<subject, vars, accessVars, storeVars>>,
                        subject' = "accounts"
                 PROVE  AccessInv'
      OBVIOUS
    <2>1. subject = "accounts"
      BY DEF MCNext
    <2>2. [Access!Next]_accessVars
      BY <2>1 DEF MCNext
    <2> QED
      BY <2>1, <2>2, AccessStep
  <1>3. Inv => RightsInOrder
    <2> SUFFICES ASSUME AccessInv PROVE Access!RightsInOrder
      BY DEF RightsInOrder
    <2>0. AccessType /\ NamesInv /\ TakenInv
      BY DEF AccessInv
    <2>1. \A x \in Access!Unlisted : x[2] \in raced
      BY <2>0 DEF Access!Unlisted, AccessType, NamesInv
    <2>2. ASSUME NEW c \in Codes \ shared, NEW u \in taken[c], NEW v \in taken[c] PROVE u = v
      BY <2>0, <2>2 DEF TakenInv
    <2> QED
      BY <2>1, <2>2 DEF Access!RightsInOrder
  <1> QED
    BY <1>1, <1>2, <1>3, PTL DEF MCSpec

-----------------------------------------------------------------------------
(* LibraryStores.                                                          *)

\* What the server does with one database.
StoreJob == [pc : {"rest", "create", "write", "open", "run", "fill"},
            initial : Nat, version : Nat, step : 1..3, alone : BOOLEAN]

\* The file is a database, neither missing nor anything else.
Real(d) == file[d] \in Contents

\* The states of the server, the databases and their migrations.
StoresType ==
  /\ server \in {"down", "migrating", "loading", "up"}
  /\ listed \subseteq Libraries /\ left \subseteq listed /\ stores \subseteq Libraries
  /\ file \in [Stores!Databases -> Contents \cup {None, Garbage}]
  /\ job \in [Stores!Databases -> StoreJob]
  /\ came \in [Libraries -> Nat \cup {None}]

\* The first script after a version.
Follows(v, n) == n \in Scripts /\ n > v /\ \A w \in Scripts : w > v => n <= w

\* What a database has run: all the scripts up to its version, nothing behind the
\* next one, and of the next one what its migration has reached, unless it was cut.
RanOf(d) ==
  Real(d) =>
    /\ file[d].version \in Scripts \cup {0}
    /\ \A w \in Scripts, s \in Stores!Statements : w <= file[d].version => <<w, s>> \in file[d].ran
    /\ \A w \in Scripts, s \in Stores!Statements : <<w, s>> \in file[d].ran =>
         /\ w <= file[d].version \/ Follows(file[d].version, w)
         /\ \/ w <= file[d].version
            \/ w \in Rerunnable
            \/ job[d].pc = "run" /\ s < job[d].step
            \/ d \in cut /\ (job[d].pc = "run" => job[d].version = job[d].initial)

\* A migration is of a database, at the version that it has.
JobOf(d) ==
  /\ job[d].pc \notin {"run", "fill"} => job[d].step = 1
  /\ job[d].pc \in {"run", "fill"} =>
       /\ Real(d) /\ job[d].version = file[d].version /\ job[d].initial <= job[d].version
       /\ \A n \in Scripts, s \in Stores!Statements :
            Follows(job[d].version, n) /\ s < job[d].step => <<n, s>> \in file[d].ran
  /\ job[d].pc = "fill" =>
       d \in Libraries /\ job[d].initial = 30 /\ \A w \in Scripts : w <= job[d].version

\* The paths of the tags of a library that came from version 30.
PathsOf(l) ==
  came[l] = 30 =>
    /\ Real(l) /\ file[l].version >= 30 /\ job[l].pc \notin {"create", "write"}
    /\ job[l].pc \in {"run", "fill"} => job[l].initial >= 30
    /\ \/ l \in unfilled \/ file[l].paths \/ file[l].version = 30
       \/ job[l].pc \in {"run", "fill"} /\ job[l].initial = 30

\* RanOf, JobOf and PathsOf, of every database.
RanInv   == \A d \in Stores!Databases : RanOf(d)
JobInv   == \A d \in Stores!Databases : JobOf(d)
PathsInv == \A l \in Libraries : PathsOf(l)

\* What runs when.
TurnInv ==
  /\ server # "migrating" => job[Server].pc = "rest"
  /\ server \in {"down", "migrating"} =>
       left = {} /\ stores = {} /\ \A l \in Libraries : job[l].pc = "rest"
  /\ server = "loading" =>
       \A k, l \in Libraries : job[k].pc # "rest" /\ job[l].pc # "rest" => k = l
  /\ server = "up" => left = {}
  /\ \A l \in Libraries : job[l].pc \in {"create", "write"} => server = "up"
  /\ \A l \in Libraries : job[l].pc # "rest" => l \notin left /\ came[l] # None
  /\ \A l \in listed : came[l] # None
  /\ job[Server].pc \notin {"create", "write"}

\* What is served was opened and migrated; what refused the start was cut, or no database.
StoreInv ==
  /\ \A l \in stores :
       /\ job[l].pc = "rest" /\ l \notin left /\ came[l] # None /\ Real(l)
       /\ \A w \in Scripts : w <= file[l].version
       /\ came[l] = 30 => l \in unfilled \/ file[l].paths
  /\ refused # None => server = "down" /\ (refused \in cut \/ file[refused] = Garbage)

\* The inductive invariant of LibraryStores.
StoresInv == StoresType /\ RanInv /\ JobInv /\ TurnInv /\ PathsInv /\ StoreInv

\* A stop would tear a script of this database, or leave its paths unfilled.
Tears(d) == /\ job[d].pc = "run" /\ job[d].step > 1
            /\ \E n \in Scripts \ Rerunnable : Follows(job[d].version, n)
Leaves(d) == /\ job[d].pc \in {"run", "fill"} /\ job[d].initial = 30
             /\ job[d].version # 30

\* Any set of versions has a least one.
LEMMA Smallest ==
  ASSUME NEW S, S \subseteq Nat, S # {}
  PROVE  \E n \in S : \A m \in S : n <= m
  <1> DEFINE R == {ss \in Nat \X Nat : ss[1] < ss[2]}
  <1>1. IsWellFoundedOn(R, Nat)
    BY NatLessThanWellFounded DEF OpToRel
  <1>2. \A m, n \in Nat : <<m, n>> \in R <=> m < n
    OBVIOUS
  <1> HIDE DEF R
  <1>3. PICK n \in S : \A m \in S : ~ (<<m, n>> \in R)
    BY <1>1, WFMin
  <1>4. ASSUME NEW m \in S PROVE n <= m
    <2>1. m \in Nat /\ n \in Nat
      OBVIOUS
    <2>2. ~ (m < n)
      BY <1>2, <1>3, <2>1, Zenon
    <2> QED
      BY <2>1, <2>2
  <1> QED
    BY <1>4

\* A version has one next script.
LEMMA FollowsOnce ==
  ASSUME NEW x, NEW v, NEW w, Follows(x, v), Follows(x, w)
  PROVE  v = w
  <1>1. v \in Scripts /\ w \in Scripts /\ v <= w /\ w <= v
    BY DEF Follows
  <1>2. v \in Nat /\ w \in Nat
    BY <1>1, StoresAssumption
  <1> QED
    BY <1>1, <1>2

\* The script that migrate takes next is the first one after the version.
LEMMA NextFacts ==
  ASSUME StoresType, NEW d \in Stores!Databases, Stores!Behind(d)
  PROVE  Stores!NextScript(d) \in Nat /\ Follows(job[d].version, Stores!NextScript(d))
  <1> DEFINE S == {v \in Scripts : v > job[d].version}
  <1>1. S \subseteq Nat /\ S # {}
    BY StoresAssumption DEF Stores!Behind
  <1> HIDE DEF S
  <1>2. PICK n \in S : \A m \in S : n <= m
    BY <1>1, Smallest
  <1>3. /\ n \in Scripts /\ n > job[d].version
        /\ \A w \in Scripts : w > job[d].version => n <= w
    BY <1>2 DEF S
  <1> QED
    BY <1>3, StoresAssumption DEF Follows, Stores!NextScript

\* A script is the last one.
LEMMA LatestFacts ==
  Stores!Latest \in Scripts /\ \A w \in Scripts : w <= Stores!Latest
  BY StoresAssumption DEF Stores!Latest

\* A step of a database is of that database only.
LEMMA StoreBecomes ==
  ASSUME StoresType, NEW d \in Stores!Databases, NEW r \in StoreJob, Stores!Becomes(d, r)
  PROVE  /\ job' \in [Stores!Databases -> StoreJob] /\ job'[d] = r
         /\ \A e \in Stores!Databases : e # d => job'[e] = job[e]
  BY DEF StoresType, Stores!Becomes

\* The jobs that a database starts from.
LEMMA RestFacts ==
  /\ Stores!Rest \in StoreJob /\ Stores!Rest.pc = "rest" /\ Stores!Rest.step = 1
  /\ \A p \in {"create", "open"} :
       /\ [Stores!Rest EXCEPT !.pc = p] \in StoreJob
       /\ [Stores!Rest EXCEPT !.pc = p].pc = p /\ [Stores!Rest EXCEPT !.pc = p].step = 1
  /\ Stores!Opening \in StoreJob /\ Stores!Opening.pc = "open" /\ Stores!Opening.step = 1
  <1>1. FALSE \in BOOLEAN /\ 0 \in Nat /\ 1 \in 1..3
    OBVIOUS
  <1>2. Stores!Rest \in StoreJob /\ Stores!Rest.pc = "rest" /\ Stores!Rest.step = 1
    BY <1>1, Zenon DEF Stores!Rest, StoreJob
  <1>3. ASSUME NEW p \in {"create", "open"}
        PROVE  /\ [Stores!Rest EXCEPT !.pc = p] \in StoreJob
               /\ [Stores!Rest EXCEPT !.pc = p].pc = p
               /\ [Stores!Rest EXCEPT !.pc = p].step = 1
    BY <1>2 DEF StoreJob
  <1> QED
    BY <1>2, <1>3 DEF Stores!Opening

\* A new database, and one that earlier scripts made.
LEMMA ContentFacts ==
  /\ Stores!Fresh \in Contents /\ Stores!Fresh.version = 0 /\ Stores!Fresh.ran = {}
  /\ \A v \in Scripts :
       /\ Stores!Until(v) \in Contents /\ Stores!Until(v).version = v
       /\ Stores!Until(v).paths = (v > 30)
       /\ \A w \in Scripts, s \in Stores!Statements : w <= v => <<w, s>> \in Stores!Until(v).ran
       /\ \A w, s : <<w, s>> \in Stores!Until(v).ran => w \in Scripts /\ w <= v
  <1>1. Stores!Fresh \in Contents /\ Stores!Fresh.version = 0 /\ Stores!Fresh.ran = {}
    BY DEF Stores!Fresh, Contents
  <1>2. ASSUME NEW v \in Scripts
        PROVE  /\ Stores!Until(v) \in Contents /\ Stores!Until(v).version = v
               /\ Stores!Until(v).paths = (v > 30)
               /\ \A w \in Scripts, s \in Stores!Statements : w <= v => <<w, s>> \in Stores!Until(v).ran
               /\ \A w, s : <<w, s>> \in Stores!Until(v).ran => w \in Scripts /\ w <= v
    BY StoresAssumption DEF Stores!Until, Contents, Stores!Statements
  <1> QED
    BY <1>1, <1>2

\* A step of one database, which is all that has to be looked at.
LEMMA StoreStep ==
  ASSUME StoresInv, NEW d \in Stores!Databases, NEW r \in StoreJob, Stores!Becomes(d, r),
         StoresType', \A e \in Stores!Databases : e # d => file'[e] = file[e],
         \A l \in Libraries : l # d => came'[l] = came[l],
         cut \subseteq cut', unfilled \subseteq unfilled',
         RanOf(d)', JobOf(d)', d \in Libraries => PathsOf(d)', TurnInv', StoreInv'
  PROVE  StoresInv'
  <1>0. /\ \A e \in Stores!Databases : e # d => job'[e] = job[e] /\ file'[e] = file[e]
        /\ StoresType /\ RanInv /\ JobInv /\ PathsInv
    BY StoreBecomes DEF StoresInv
  <1>1. RanInv'
    <2> SUFFICES ASSUME NEW e \in Stores!Databases PROVE RanOf(e)'
      BY DEF RanInv
    <2>1. CASE e = d
      BY <2>1
    <2>2. CASE e # d
      <3>1. job'[e] = job[e] /\ file'[e] = file[e] /\ RanOf(e)
        BY <1>0, <2>2 DEF RanInv
      <3> QED
        BY <3>1 DEF RanOf, Real
    <2> QED
      BY <2>1, <2>2
  <1>2. JobInv'
    <2> SUFFICES ASSUME NEW e \in Stores!Databases PROVE JobOf(e)'
      BY DEF JobInv
    <2>1. CASE e = d
      BY <2>1
    <2>2. CASE e # d
      <3>1. job'[e] = job[e] /\ file'[e] = file[e] /\ JobOf(e)
        BY <1>0, <2>2 DEF JobInv
      <3> QED
        BY <3>1 DEF JobOf, Real
    <2> QED
      BY <2>1, <2>2
  <1>3. PathsInv'
    <2> SUFFICES ASSUME NEW e \in Libraries PROVE PathsOf(e)'
      BY DEF PathsInv
    <2>1. CASE e = d
      BY <2>1
    <2>2. CASE e # d
      <3>1. job'[e] = job[e] /\ file'[e] = file[e] /\ came'[e] = came[e] /\ PathsOf(e)
        BY <1>0, <2>2 DEF PathsInv, Stores!Databases
      <3> QED
        BY <3>1 DEF PathsOf, Real
    <2> QED
      BY <2>1, <2>2
  <1> QED
    BY <1>1, <1>2, <1>3 DEF StoresInv

\* What stops the migration of one database keeps what its file holds.
LEMMA StoppedStep ==
  ASSUME StoresInv, NEW d \in Stores!Databases, file' = file, came' = came,
         cut \subseteq cut', unfilled \subseteq unfilled', job'[d] = Stores!Rest,
         Tears(d) => d \in cut', d \in Libraries /\ Leaves(d) => d \in unfilled'
  PROVE  RanOf(d)' /\ JobOf(d)' /\ (d \in Libraries => PathsOf(d)')
  <1>0. StoresType /\ RanOf(d) /\ JobOf(d) /\ (d \in Libraries => PathsOf(d))
    BY DEF StoresInv, RanInv, JobInv, PathsInv
  <1> USE RestFacts
  <1>1. RanOf(d)'
    <2> SUFFICES ASSUME Real(d) PROVE RanOf(d)'
      BY DEF RanOf, Real
    <2>1. ASSUME NEW w \in Scripts, NEW s \in Stores!Statements, <<w, s>> \in file[d].ran
          PROVE  w <= file[d].version \/ w \in Rerunnable \/ d \in cut'
      <3>1. CASE job[d].pc = "run" /\ s < job[d].step
        <4>1. job[d].step > 1 /\ job[d].version = file[d].version
          BY <1>0, <3>1 DEF JobOf, StoresType, StoreJob, Stores!Statements
        <4> QED
          BY <1>0, <2>1, <3>1, <4>1 DEF RanOf, Tears
      <3> QED
        BY <1>0, <2>1, <3>1 DEF RanOf
    <2> QED
      BY <1>0, <2>1 DEF RanOf
  <1>2. JobOf(d)'
    BY DEF JobOf
  <1>3. ASSUME d \in Libraries PROVE PathsOf(d)'
    BY <1>0, <1>3 DEF PathsOf, JobOf, Real, Leaves
  <1> QED
    BY <1>1, <1>2, <1>3

\* The end of the server's run.
LEMMA DownStep ==
  ASSUME StoresInv, Stores!Down, UNCHANGED <<listed, file, came>>,
         cut \subseteq cut', unfilled \subseteq unfilled',
         \A d \in Stores!Databases : Tears(d) => d \in cut',
         \A l \in Libraries : Leaves(l) => l \in unfilled',
         refused' # None => refused' \in cut' \/ file[refused'] = Garbage
  PROVE  StoresInv'
  <1>0. StoresType /\ TurnInv /\ PathsInv
    BY DEF StoresInv
  <1>1. /\ server' = "down" /\ left' = {} /\ stores' = {}
        /\ \A d \in Stores!Databases : job'[d] = Stores!Rest
    BY DEF Stores!Down
  <1>2. StoresType'
    BY <1>0, RestFacts DEF StoresType, Stores!Down
  <1>3. \A d \in Stores!Databases : RanOf(d)' /\ JobOf(d)' /\ (d \in Libraries => PathsOf(d)')
    BY <1>1, StoppedStep
  <1>4. RanInv' /\ JobInv' /\ PathsInv'
    BY <1>3 DEF RanInv, JobInv, PathsInv, Stores!Databases
  <1>5. TurnInv'
    BY <1>0, <1>1, RestFacts DEF TurnInv, Stores!Databases
  <1>6. StoreInv'
    BY <1>1 DEF StoreInv
  <1> QED
    BY <1>2, <1>4, <1>5, <1>6 DEF StoresInv

\* A request that ends before the database is open.
LEMMA GivenUpStep ==
  ASSUME StoresInv, NEW d \in Stores!Databases, Stores!Becomes(d, Stores!Rest),
         server = "up", UNCHANGED <<server, listed, file, left, stores, came, refused>>,
         cut \subseteq cut', unfilled \subseteq unfilled',
         Tears(d) => d \in cut', d \in Libraries /\ Leaves(d) => d \in unfilled'
  PROVE  StoresInv'
  <1>0. StoresType /\ TurnInv /\ StoreInv
    BY DEF StoresInv
  <1>a. /\ job' \in [Stores!Databases -> StoreJob] /\ job'[d] = Stores!Rest
        /\ \A e \in Stores!Databases : e # d => job'[e] = job[e]
    BY <1>0, RestFacts, StoreBecomes
  <1>1. StoresType'
    BY <1>0, <1>a DEF StoresType
  <1>2. RanOf(d)' /\ JobOf(d)' /\ (d \in Libraries => PathsOf(d)')
    BY <1>a, StoppedStep
  <1>3. TurnInv'
    BY <1>0, <1>a, RestFacts DEF TurnInv, Stores!Databases
  <1>4. StoreInv'
    BY <1>0, <1>a, RestFacts DEF StoreInv, Stores!Databases, StoresType, Real
  <1> QED
    BY <1>1, <1>2, <1>3, <1>4, RestFacts, StoreStep

\* While the server starts, one database at most is being opened.
LEMMA OneAtATime ==
  ASSUME StoresType, TurnInv, NEW d \in Stores!Databases, job[d].pc # "rest", server # "up"
  PROVE  server # "down" /\ \A e \in Stores!Databases : e # d => job[e].pc = "rest"
  BY DEF TurnInv, Stores!Databases, StoresType

\* Every step of the server and of its databases preserves the invariant.
LEMMA StoresStep == StoresInv /\ [Stores!Next]_storeVars => StoresInv'
  <1> SUFFICES ASSUME StoresInv, [Stores!Next]_storeVars PROVE StoresInv'
    OBVIOUS
  <1>0. /\ StoresType /\ RanInv /\ JobInv /\ TurnInv /\ PathsInv /\ StoreInv
        /\ \A d \in Stores!Databases : job[d] \in StoreJob
        /\ \A l \in Libraries : l \in Stores!Databases /\ l # Server
        /\ Server \in Stores!Databases
    BY StoresAssumption DEF StoresInv, StoresType, Stores!Databases
  <1> USE <1>0
  <1>c. \A d \in Stores!Databases : RanOf(d) /\ JobOf(d) /\ (d \in Libraries => PathsOf(d))
    BY DEF RanInv, JobInv, PathsInv
  <1>r. ASSUME NEW d \in Stores!Databases, job[d].pc \in {"open", "run"}, Stores!Refuse(d),
               file' = file, ~ Tears(d) \/ d \in cut, ~ Leaves(d),
               d \in cut \/ file[d] = Garbage
        PROVE  StoresInv'
    <2>1. UNCHANGED <<listed, file, came, cut, unfilled>>
      BY <1>r DEF Stores!Refuse
    <2>2. CASE server = "up"
      <3>1. Stores!Becomes(d, Stores!Rest) /\ UNCHANGED <<server, left, stores, refused>>
        BY <1>r, <2>2 DEF Stores!Refuse
      <3> QED
        BY <1>r, <2>1, <2>2, <3>1, GivenUpStep
    <2>3. CASE server # "up"
      <3>1. Stores!Down /\ refused' = d
        BY <1>r, <2>3 DEF Stores!Refuse
      <3>2. \A e \in Stores!Databases : e # d => job[e].pc = "rest"
        BY <1>r, <2>3, OneAtATime
      <3>3. \A e \in Stores!Databases : Tears(e) => e \in cut'
        BY <1>r, <2>1, <3>2 DEF Tears
      <3>4. \A l \in Libraries : Leaves(l) => l \in unfilled'
        BY <1>r, <2>1, <3>2 DEF Leaves
      <3> QED
        BY <1>r, <2>1, <3>1, <3>3, <3>4, DownStep
    <2> QED
      BY <2>2, <2>3
  <1>1. ASSUME NEW d \in Stores!Databases, Stores!Open(d) PROVE StoresInv'
    <2>0. job[d].pc = "open"
      BY <1>1 DEF Stores!Open, Stores!At
    <2>1. CASE file[d] = Garbage
      <3>1. Stores!Refuse(d) /\ file' = file
        BY <1>1, <2>1 DEF Stores!Open
      <3>2. ~ Tears(d) /\ ~ Leaves(d)
        BY <2>0 DEF Tears, Leaves
      <3> QED
        BY <1>r, <2>0, <2>1, <3>1, <3>2
    <2>2. CASE file[d] # Garbage
      <3> DEFINE f == IF file[d] = None THEN Stores!Fresh ELSE file[d]
                 r == [job[d] EXCEPT !.pc = "run", !.initial = f.version, !.version = f.version]
      <3>1. /\ file' = [file EXCEPT ![d] = f] /\ Stores!Becomes(d, r)
            /\ UNCHANGED <<server, listed, left, stores, came, refused, cut, unfilled>>
        BY <1>1, <2>2 DEF Stores!Open, Stores!history
      <3>2. f \in Contents /\ (file[d] # None => f = file[d]) /\ (file[d] = None => f = Stores!Fresh)
        BY <2>2, ContentFacts DEF StoresType
      <3> HIDE DEF f
      <3>3. f.version \in Nat
        BY <3>2 DEF Contents
      <3>4. /\ r \in StoreJob /\ r.pc = "run" /\ r.initial = f.version
            /\ r.version = f.version
            /\ r.step = job[d].step
        BY <3>3 DEF StoreJob
      <3> HIDE DEF r
      <3>5. /\ job' \in [Stores!Databases -> StoreJob] /\ job'[d] = r
            /\ \A e \in Stores!Databases : e # d => job'[e] = job[e]
        BY <3>1, <3>4, StoreBecomes
      <3>6. /\ file' \in [Stores!Databases -> Contents \cup {None, Garbage}] /\ file'[d] = f
            /\ \A e \in Stores!Databases : e # d => file'[e] = file[e]
        BY <3>1, <3>2 DEF StoresType
      <3>7. StoresType'
        BY <3>1, <3>5, <3>6 DEF StoresType
      <3>8. RanOf(d)'
        BY <1>c, <2>0, <3>1, <3>2, <3>4, <3>5, <3>6, ContentFacts, StoresAssumption
          DEF RanOf, Real
      <3>9. JobOf(d)'
        BY <1>c, <2>0, <3>2, <3>3, <3>4, <3>5, <3>6 DEF JobOf, Real, Stores!Statements
      <3>10. ASSUME d \in Libraries PROVE PathsOf(d)'
        BY <1>c, <2>0, <3>1, <3>2, <3>4, <3>5, <3>6, <3>10, StoresAssumption
          DEF PathsOf, Real
      <3>11. TurnInv'
        BY <2>0, <3>1, <3>4, <3>5 DEF TurnInv, Stores!Databases
      <3>12. StoreInv'
        <4>1. d \notin stores
          BY <2>0 DEF StoreInv
        <4>2. refused = None
          BY <2>0 DEF StoreInv, TurnInv, Stores!Databases
        <4> QED
          BY <3>1, <3>5, <3>6, <4>1, <4>2 DEF StoreInv, StoresType, Real
      <3> QED
        BY <3>1, <3>4, <3>6, <3>7, <3>8, <3>9, <3>10, <3>11, <3>12, StoreStep
    <2> QED
      BY <2>1, <2>2
  <1>2. ASSUME NEW d \in Stores!Databases, Stores!RunStatement(d) PROVE StoresInv'
    <2> DEFINE v == Stores!NextScript(d)
               s == job[d].step
    <2>0. /\ job[d].pc = "run" /\ Stores!Behind(d) /\ s \in Stores!Statements
      BY <1>2 DEF Stores!RunStatement, Stores!At
    <2>a. v \in Nat /\ Follows(job[d].version, v)
      BY <2>0, NextFacts
    <2> HIDE DEF v
    <2>1. /\ v \in Nat /\ v \in Scripts /\ Follows(job[d].version, v)
          /\ \A w : Follows(job[d].version, w) => w = v
      <3>1. v \in Scripts
        BY <2>a DEF Follows
      <3> QED
        BY <2>a, <3>1, FollowsOnce
    <2>2. file[d] \in Contents /\ job[d].version = file[d].version
      BY <1>c, <2>0 DEF JobOf, Real
    <2>3. CASE v \notin Rerunnable /\ <<v, s>> \in file[d].ran
      <3>1. Stores!Refuse(d) /\ file' = file
        BY <1>2, <2>3 DEF Stores!RunStatement, v
      <3>2. ~ (v <= file[d].version) /\ ~ (s < s)
        BY <2>1, <2>2 DEF Follows, StoreJob, Contents
      <3>3. d \in cut /\ job[d].version = job[d].initial
        BY <1>c, <2>0, <2>1, <2>2, <2>3, <3>2 DEF RanOf, Real
      <3>4. ~ Leaves(d)
        BY <3>3 DEF Leaves
      <3> QED
        BY <1>r, <2>0, <3>1, <3>3, <3>4
    <2>4. CASE ~ (v \notin Rerunnable /\ <<v, s>> \in file[d].ran)
      <3> DEFINE f == [file[d] EXCEPT !.ran = @ \cup {<<v, s>>}]
                 r == [job[d] EXCEPT !.step = s + 1]
      <3>1. /\ file' = [file EXCEPT ![d] = f] /\ Stores!Becomes(d, r)
            /\ UNCHANGED <<server, listed, left, stores, came, refused, cut, unfilled>>
        BY <1>2, <2>4 DEF Stores!RunStatement, Stores!history, v
      <3>2. /\ f \in Contents /\ f.version = file[d].version /\ f.paths = file[d].paths
            /\ f.ran = file[d].ran \cup {<<v, s>>}
        BY <2>0, <2>1, <2>2 DEF Contents, Stores!Statements
      <3> HIDE DEF f
      <3>4. /\ r \in StoreJob /\ r.pc = "run" /\ r.initial = job[d].initial
            /\ r.version = job[d].version /\ r.step = s + 1
        BY <2>0 DEF StoreJob, Stores!Statements
      <3> HIDE DEF r
      <3>5. /\ job' \in [Stores!Databases -> StoreJob] /\ job'[d] = r
            /\ \A e \in Stores!Databases : e # d => job'[e] = job[e]
        BY <3>1, <3>4, StoreBecomes
      <3>6. /\ file' \in [Stores!Databases -> Contents \cup {None, Garbage}] /\ file'[d] = f
            /\ \A e \in Stores!Databases : e # d => file'[e] = file[e]
        BY <3>1, <3>2 DEF StoresType
      <3> HIDE DEF s
      <3>7. StoresType'
        BY <3>1, <3>5, <3>6 DEF StoresType
      <3>a. s \in 1..2 /\ s = job[d].step
        BY <2>0 DEF Stores!Statements, s
      <3>8. RanOf(d)'
        <4>1. \A w, t : <<w, t>> \in f.ran => <<w, t>> \in file[d].ran \/ (w = v /\ t = s)
          BY <3>2
        <4> QED
          BY <1>c, <2>0, <2>1, <2>2, <3>1, <3>2, <3>4, <3>5, <3>6, <3>a, <4>1
             DEF RanOf, Real, Stores!Statements
      <3>9. JobOf(d)'
        BY <1>c, <2>0, <2>1, <2>2, <3>2, <3>4, <3>5, <3>6, <3>a
          DEF JobOf, Real, Stores!Statements
      <3>10. ASSUME d \in Libraries PROVE PathsOf(d)'
        BY <1>c, <2>0, <2>2, <3>1, <3>2, <3>4, <3>5, <3>6, <3>10 DEF PathsOf, Real
      <3>11. TurnInv'
        BY <2>0, <3>1, <3>4, <3>5 DEF TurnInv, Stores!Databases
      <3>12. StoreInv'
        <4>1. d \notin stores
          BY <2>0 DEF StoreInv
        <4>2. refused = None
          BY <2>0 DEF StoreInv, TurnInv, Stores!Databases
        <4> QED
          BY <3>1, <3>5, <3>6, <4>1, <4>2 DEF StoreInv, StoresType, Real
      <3> QED
        BY <3>1, <3>4, <3>6, <3>7, <3>8, <3>9, <3>10, <3>11, <3>12, StoreStep
    <2> QED
      BY <2>3, <2>4
  <1>3. ASSUME NEW d \in Stores!Databases, Stores!SetVersion(d) PROVE StoresInv'
    <2> DEFINE v == Stores!NextScript(d)
    <2>0. /\ job[d].pc = "run" /\ Stores!Behind(d) /\ job[d].step \notin Stores!Statements
      BY <1>3 DEF Stores!SetVersion, Stores!At
    <2>a. v \in Nat /\ Follows(job[d].version, v)
      BY <2>0, NextFacts
    <2> HIDE DEF v
    <2>1. /\ v \in Nat /\ v \in Scripts /\ Follows(job[d].version, v)
          /\ \A w : Follows(job[d].version, w) => w = v
      <3>1. v \in Scripts
        BY <2>a DEF Follows
      <3> QED
        BY <2>a, <3>1, FollowsOnce
    <2>2. file[d] \in Contents /\ job[d].version = file[d].version
      BY <1>c, <2>0 DEF JobOf, Real
    <2> DEFINE f == [file[d] EXCEPT !.version = v]
               r == [job[d] EXCEPT !.version = v, !.step = 1]
    <2>3. /\ file' = [file EXCEPT ![d] = f] /\ Stores!Becomes(d, r)
          /\ UNCHANGED <<server, listed, left, stores, came, refused, cut, unfilled>>
      BY <1>3 DEF Stores!SetVersion, Stores!history, v
    <2>4. f \in Contents /\ f.version = v /\ f.paths = file[d].paths /\ f.ran = file[d].ran
      BY <2>1, <2>2 DEF Contents
    <2> HIDE DEF f
    <2>5. /\ r \in StoreJob /\ r.pc = "run" /\ r.initial = job[d].initial
          /\ r.version = v /\ r.step = 1
      <3>1. job[d] \in StoreJob /\ job[d].pc = "run" /\ v \in Nat /\ 1 \in 1..3
        BY <2>0, <2>1
      <3> QED
        BY <3>1 DEF StoreJob
    <2> HIDE DEF r
    <2>6. /\ job' \in [Stores!Databases -> StoreJob] /\ job'[d] = r
          /\ \A e \in Stores!Databases : e # d => job'[e] = job[e]
      BY <2>3, <2>5, StoreBecomes
    <2>7. /\ file' \in [Stores!Databases -> Contents \cup {None, Garbage}] /\ file'[d] = f
          /\ \A e \in Stores!Databases : e # d => file'[e] = file[e]
      BY <2>3, <2>4 DEF StoresType
    <2>8. StoresType'
      BY <2>3, <2>6, <2>7 DEF StoresType
    <2>9. /\ file[d].version \in Nat /\ job[d].initial \in Nat /\ v > file[d].version
          /\ \A w \in Scripts : w <= v <=> w <= file[d].version \/ w = v
          /\ \A s \in Stores!Statements : <<v, s>> \in file[d].ran
      <3>1. file[d].version \in Nat /\ job[d].initial \in Nat /\ job[d].step = 3
        BY <2>0, <2>2 DEF Contents, StoreJob, Stores!Statements
      <3>2. v > file[d].version /\ \A w \in Scripts : w > file[d].version => v <= w
        BY <2>1, <2>2 DEF Follows
      <3>3. \A s \in Stores!Statements : <<v, s>> \in file[d].ran
        <4>1. \A s \in Stores!Statements : s < job[d].step
          BY <3>1 DEF Stores!Statements
        <4> QED
          BY <1>c, <2>0, <2>1, <4>1 DEF JobOf
      <3> QED
        BY <2>1, <3>1, <3>2, <3>3, StoresAssumption
    <2>10. RanOf(d)'
      BY <1>c, <2>1, <2>2, <2>3, <2>4, <2>5, <2>6, <2>7, <2>9 DEF RanOf, Real
    <2>11. JobOf(d)'
      BY <1>c, <2>0, <2>1, <2>2, <2>4, <2>5, <2>6, <2>7, <2>9
        DEF JobOf, Real, Stores!Statements
    <2>12. ASSUME d \in Libraries PROVE PathsOf(d)'
      BY <1>c, <2>0, <2>1, <2>2, <2>3, <2>4, <2>5, <2>6, <2>7, <2>9, <2>12
        DEF PathsOf, Real, JobOf
    <2>13. TurnInv'
      BY <2>0, <2>3, <2>5, <2>6 DEF TurnInv, Stores!Databases
    <2>14. StoreInv'
      <3>1. d \notin stores
        BY <2>0 DEF StoreInv
      <3>2. refused = None
        BY <2>0 DEF StoreInv, TurnInv, Stores!Databases
      <3> QED
        BY <2>3, <2>6, <2>7, <3>1, <3>2 DEF StoreInv, StoresType, Real
    <2> QED
      BY <2>3, <2>5, <2>7, <2>8, <2>10, <2>11, <2>12, <2>13, <2>14, StoreStep
  \* The opening of a database that is where it has to be.
  <1>o. ASSUME NEW d \in Stores!Databases, job[d].pc \in {"run", "fill"}, Stores!Opened(d),
               \A w \in Scripts : w <= job[d].version,
               file' \in [Stores!Databases -> Contents \cup {None, Garbage}],
               \A e \in Stores!Databases : e # d => file'[e] = file[e],
               file'[d] \in Contents, file'[d].version = file[d].version,
               file'[d].ran = file[d].ran, file[d].paths => file'[d].paths,
               d \in Libraries /\ job[d].initial = 30 => file'[d].paths,
               d = Server => job[d].pc = "run",
               unfilled' = unfilled
        PROVE  StoresInv'
    <2>1. Stores!Becomes(d, Stores!Rest) /\ UNCHANGED <<listed, came, refused, cut>>
      BY <1>o DEF Stores!Opened
    <2>2. /\ job' \in [Stores!Databases -> StoreJob] /\ job'[d] = Stores!Rest
          /\ \A e \in Stores!Databases : e # d => job'[e] = job[e]
      BY <2>1, RestFacts, StoreBecomes
    <2>3. file[d] \in Contents /\ job[d].version = file[d].version
          /\ job[d].initial <= job[d].version
      BY <1>c, <1>o DEF JobOf, Real
    <2>a. job[d].initial \in Nat /\ file[d].version \in Nat
      BY <2>3 DEF StoreJob, Contents
    <2>4. RanOf(d)'
      <3>1. \A w \in Scripts : w <= file'[d].version
        BY <1>o, <2>3
      <3>2. /\ file[d].version \in Scripts \cup {0}
            /\ \A w \in Scripts, s \in Stores!Statements : <<w, s>> \in file[d].ran
        BY <1>c, <1>o, <2>3 DEF RanOf, Real
      <3> QED
        BY <1>o, <3>1, <3>2 DEF RanOf
    <2>5. JobOf(d)'
      BY <2>2, RestFacts DEF JobOf
    <2>6. ASSUME d \in Libraries
          PROVE  came[d] = 30 => d \in unfilled \/ file'[d].paths
      BY <1>c, <1>o, <2>3, <2>a, <2>6 DEF PathsOf
    <2>7. ASSUME d \in Libraries PROVE PathsOf(d)'
      BY <1>c, <1>o, <2>1, <2>2, <2>3, <2>6, <2>7, RestFacts DEF PathsOf, Real
    <2>8. refused = None
      BY <1>o DEF StoreInv, TurnInv, Stores!Databases
    <2>9. CASE d = Server
      <3>1. server' = "loading" /\ left' = listed /\ stores' = stores
        BY <1>o, <2>9 DEF Stores!Opened
      <3>2. server = "migrating" /\ left = {} /\ stores = {}
            /\ \A l \in Libraries : job[l].pc = "rest"
        BY <1>o, <2>9 DEF TurnInv
      <3>3. StoresType'
        BY <1>o, <2>1, <2>2, <3>1 DEF StoresType
      <3>4. TurnInv'
        BY <2>1, <2>2, <2>9, <3>1, <3>2, RestFacts DEF TurnInv, StoresType
      <3>5. StoreInv'
        BY <2>1, <2>8, <3>1, <3>2 DEF StoreInv
      <3> QED
        BY <1>o, <2>1, <2>4, <2>5, <2>7, <3>3, <3>4, <3>5, RestFacts, StoreStep
    <2>10. CASE d # Server
      <3>1. stores' = stores \cup {d} /\ UNCHANGED <<server, left>> /\ d \in Libraries
        BY <1>o, <2>10 DEF Stores!Opened, Stores!Databases
      <3>3. StoresType'
        BY <1>o, <2>1, <2>2, <3>1 DEF StoresType
      <3>a. server \in {"loading", "up"} /\ d \notin left /\ came[d] # None
        BY <1>o, <3>1 DEF TurnInv, StoresType
      <3>4. TurnInv'
        BY <1>o, <2>1, <2>2, <3>1, <3>a, RestFacts DEF TurnInv, StoresType
      <3>5. StoreInv'
        <4>1. ASSUME NEW l \in stores', l # d
              PROVE  /\ job'[l].pc = "rest" /\ l \notin left' /\ came'[l] # None /\ Real(l)'
                     /\ \A w \in Scripts : w <= file'[l].version
                     /\ came'[l] = 30 => l \in unfilled' \/ file'[l].paths
          <5>1. l \in stores /\ l \in Stores!Databases
            BY <3>1, <4>1 DEF StoresType
          <5>2. job'[l] = job[l] /\ file'[l] = file[l]
            BY <1>o, <2>2, <4>1, <5>1
          <5> QED
            BY <1>o, <2>1, <3>1, <5>1, <5>2 DEF StoreInv, Real
        <4>2. /\ job'[d].pc = "rest" /\ d \notin left' /\ came'[d] # None /\ Real(d)'
              /\ \A w \in Scripts : w <= file'[d].version
              /\ came'[d] = 30 => d \in unfilled' \/ file'[d].paths
          BY <1>o, <2>1, <2>2, <2>3, <2>6, <3>1, <3>a, RestFacts DEF Real
        <4> QED
          BY <2>1, <2>8, <4>1, <4>2 DEF StoreInv
      <3> QED
        BY <1>o, <2>1, <2>4, <2>5, <2>7, <3>3, <3>4, <3>5, RestFacts, StoreStep
    <2> QED
      BY <2>9, <2>10
  <1>4. ASSUME NEW d \in Stores!Databases, Stores!EndScripts(d) PROVE StoresInv'
    <2>0. /\ job[d].pc = "run" /\ \A w \in Scripts : w <= job[d].version
          /\ file' = file /\ file[d] \in Contents /\ job[d].version = file[d].version
      BY <1>4, <1>c, StoresAssumption
         DEF Stores!EndScripts, Stores!At, Stores!Behind, JobOf, Real, StoreJob
    <2>1. CASE job[d].alone
      <3>1. /\ Stores!Becomes(d, Stores!Rest) /\ Stores!Short({d})
            /\ UNCHANGED <<server, listed, left, stores, came, refused, cut>>
        BY <1>4, <2>1 DEF Stores!EndScripts
      <3>2. ~ Tears(d)
        <4>1. ASSUME NEW n \in Scripts, Follows(job[d].version, n) PROVE FALSE
          <5>1. n > job[d].version /\ n <= job[d].version
            BY <2>0, <4>1 DEF Follows
          <5>2. n \in Nat /\ job[d].version \in Nat
            BY StoresAssumption DEF StoreJob
          <5> QED
            BY <5>1, <5>2
        <4> QED
          BY <4>1 DEF Tears
      <3>3. unfilled \subseteq unfilled' /\ (d \in Libraries /\ Leaves(d) => d \in unfilled')
        BY <3>1 DEF Stores!Short, Leaves
      <3>4. CASE server = "up"
        BY <2>0, <3>1, <3>2, <3>3, <3>4, GivenUpStep
      <3>5. CASE server # "up"
        <4>1. /\ job' \in [Stores!Databases -> StoreJob] /\ job'[d] = Stores!Rest
              /\ \A e \in Stores!Databases : e # d => job'[e] = job[e]
          BY <3>1, RestFacts, StoreBecomes
        <4>2. StoresType'
          BY <2>0, <3>1, <4>1 DEF StoresType
        <4>3. RanOf(d)' /\ JobOf(d)' /\ (d \in Libraries => PathsOf(d)')
          BY <2>0, <3>1, <3>2, <3>3, <4>1, StoppedStep
        <4>4. TurnInv'
          BY <3>1, <4>1, RestFacts DEF TurnInv, Stores!Databases
        <4>5. StoreInv'
          BY <2>0, <3>1, <3>3, <4>1, RestFacts DEF StoreInv, StoresType, Real
        <4> QED
          BY <2>0, <3>1, <3>3, <4>2, <4>3, <4>4, <4>5, RestFacts, StoreStep
      <3> QED
        BY <3>4, <3>5
    <2>2. CASE ~ job[d].alone /\ d # Server /\ Stores!FromThirty(d)
      <3> DEFINE r == [job[d] EXCEPT !.pc = "fill"]
      <3>1. /\ Stores!Becomes(d, r) /\ d \in Libraries /\ job[d].initial = 30
            /\ UNCHANGED <<server, listed, left, stores, came, refused, cut, unfilled>>
        BY <1>4, <2>2
          DEF Stores!EndScripts, Stores!history, Stores!FromThirty, Stores!Databases
      <3>2. /\ r \in StoreJob /\ r.pc = "fill" /\ r.initial = job[d].initial
            /\ r.version = job[d].version /\ r.step = job[d].step
        BY DEF StoreJob
      <3> HIDE DEF r
      <3>3. /\ job' \in [Stores!Databases -> StoreJob] /\ job'[d] = r
            /\ \A e \in Stores!Databases : e # d => job'[e] = job[e]
        BY <3>1, <3>2, StoreBecomes
      <3>4. StoresType'
        BY <2>0, <3>1, <3>3 DEF StoresType
      <3>5. RanOf(d)'
        <4>1. /\ file[d].version \in Scripts \cup {0}
              /\ \A w \in Scripts, s \in Stores!Statements : <<w, s>> \in file[d].ran
          BY <1>c, <2>0 DEF RanOf, Real
        <4> QED
          BY <2>0, <4>1 DEF RanOf
      <3>6. JobOf(d)'
        BY <1>c, <2>0, <3>1, <3>2, <3>3 DEF JobOf, Real
      <3>7. PathsOf(d)'
        BY <1>c, <2>0, <3>1, <3>2, <3>3 DEF PathsOf, Real
      <3>8. TurnInv'
        BY <2>0, <3>1, <3>2, <3>3 DEF TurnInv, Stores!Databases
      <3>9. StoreInv'
        BY <2>0, <3>1, <3>3 DEF StoreInv, StoresType, Real
      <3> QED
        BY <2>0, <3>1, <3>2, <3>4, <3>5, <3>6, <3>7, <3>8, <3>9, StoreStep
    <2>3. CASE ~ job[d].alone /\ ~ (d # Server /\ Stores!FromThirty(d))
      <3>1. Stores!Opened(d) /\ unfilled' = unfilled
        BY <1>4, <2>3 DEF Stores!EndScripts
      <3>2. d \in Libraries => job[d].initial # 30
        BY <2>3 DEF Stores!FromThirty
      <3>3. file' \in [Stores!Databases -> Contents \cup {None, Garbage}]
        BY <2>0 DEF StoresType
      <3> QED
        BY <1>o, <2>0, <3>1, <3>2, <3>3
    <2> QED
      BY <2>1, <2>2, <2>3
  <1>5. ASSUME NEW d \in Stores!Databases, Stores!FillPaths(d) PROVE StoresInv'
    <2>0. /\ job[d].pc = "fill" /\ d \in Libraries /\ \A w \in Scripts : w <= job[d].version
          /\ file[d] \in Contents
      BY <1>5, <1>c DEF Stores!FillPaths, Stores!At, JobOf, Real
    <2> DEFINE f == [file[d] EXCEPT !.paths = TRUE]
    <2>1. file' = [file EXCEPT ![d] = f] /\ Stores!Opened(d) /\ unfilled' = unfilled
      BY <1>5 DEF Stores!FillPaths
    <2>2. f \in Contents /\ f.version = file[d].version /\ f.ran = file[d].ran /\ f.paths
      BY <2>0 DEF Contents
    <2> HIDE DEF f
    <2>3. /\ file' \in [Stores!Databases -> Contents \cup {None, Garbage}] /\ file'[d] = f
          /\ \A e \in Stores!Databases : e # d => file'[e] = file[e]
      BY <2>1, <2>2 DEF StoresType
    <2> QED
      BY <1>o, <2>0, <2>1, <2>2, <2>3
  <1>6. ASSUME NEW d \in Stores!Databases, Stores!MigrationFails(d) PROVE StoresInv'
    <2>0. /\ job[d].pc \in {"open", "run", "fill"} /\ Stores!Torn({d}) /\ Stores!Short({d})
          /\ UNCHANGED <<listed, file, came, refused>>
      BY <1>6 DEF Stores!MigrationFails
    <2>1. cut \subseteq cut' /\ (Tears(d) => d \in cut')
      <3>1. cut \subseteq cut'
        BY <2>0 DEF Stores!Torn
      <3>2. ASSUME Tears(d) PROVE d \in cut'
        <4>1. PICK n \in Scripts \ Rerunnable : Follows(job[d].version, n)
          BY <3>2 DEF Tears
        <4>2. Stores!Behind(d)
          BY <4>1 DEF Stores!Behind, Follows
        <4>3. Stores!NextScript(d) = n
          BY <4>1, <4>2, NextFacts, StoresAssumption DEF Follows
        <4> QED
          BY <2>0, <3>2, <4>1, <4>3 DEF Stores!Torn, Stores!At, Tears
      <3> QED
        BY <3>1, <3>2
    <2>2. unfilled \subseteq unfilled' /\ (d \in Libraries /\ Leaves(d) => d \in unfilled')
      BY <2>0 DEF Stores!Short, Leaves
    <2>3. CASE server = "up"
      <3>1. Stores!Becomes(d, Stores!Rest) /\ UNCHANGED <<server, left, stores>>
        BY <1>6, <2>3 DEF Stores!MigrationFails
      <3> QED
        BY <2>0, <2>1, <2>2, <2>3, <3>1, GivenUpStep
    <2>4. CASE server # "up"
      <3>1. Stores!Down
        BY <1>6, <2>4 DEF Stores!MigrationFails
      <3>2. server # "down" /\ \A e \in Stores!Databases : e # d => job[e].pc = "rest"
        BY <2>0, <2>4, OneAtATime
      <3>3. \A e \in Stores!Databases : Tears(e) => e \in cut'
        BY <2>1, <3>2 DEF Tears
      <3>4. \A l \in Libraries : Leaves(l) => l \in unfilled'
        BY <2>2, <3>2 DEF Leaves
      <3>5. refused' = None
        BY <2>0, <3>2 DEF StoreInv
      <3> QED
        BY <2>0, <2>1, <2>2, <3>1, <3>3, <3>4, <3>5, DownStep
    <2> QED
      BY <2>3, <2>4
  <1>7. CASE Stores!Boot
    <2>0. /\ server = "down" /\ server' = "migrating"
          /\ Stores!Becomes(Server, Stores!Opening)
          /\ refused' = None
          /\ UNCHANGED <<listed, file, left, stores, came, cut, unfilled>>
      BY <1>7 DEF Stores!Boot
    <2>1. /\ job' \in [Stores!Databases -> StoreJob] /\ job'[Server] = Stores!Opening
          /\ \A e \in Stores!Databases : e # Server => job'[e] = job[e]
      BY <2>0, RestFacts, StoreBecomes
    <2>2. StoresType'
      BY <2>0, <2>1 DEF StoresType
    <2>3. RanOf(Server)'
      <3>1. job[Server].pc = "rest"
        BY <2>0 DEF TurnInv
      <3> QED
        BY <1>c, <2>0, <2>1, <3>1, RestFacts DEF RanOf, Real
    <2>4. JobOf(Server)'
      BY <2>1, RestFacts DEF JobOf
    <2>5. TurnInv'
      BY <2>0, <2>1, RestFacts DEF TurnInv, StoresType
    <2>6. StoreInv'
      BY <2>0, <2>1 DEF StoreInv, TurnInv
    <2> QED
      BY <2>0, <2>2, <2>3, <2>4, <2>5, <2>6, RestFacts, StoresAssumption, StoreStep
  <1>8. CASE Stores!LoadNext
    <2>0. /\ server = "loading" /\ \A d \in Stores!Databases : job[d].pc = "rest"
          /\ UNCHANGED <<listed, file, stores, came, refused, cut, unfilled>>
      BY <1>8 DEF Stores!LoadNext, Stores!AllRest, Stores!At, Stores!history
    <2>1. CASE left = {}
      <3>1. server' = "up" /\ UNCHANGED <<job, left>>
        BY <1>8, <2>1 DEF Stores!LoadNext
      <3>2. StoresType'
        BY <2>0, <3>1 DEF StoresType
      <3>3. RanInv' /\ JobInv' /\ PathsInv'
        BY <2>0, <3>1 DEF RanInv, JobInv, PathsInv, RanOf, JobOf, PathsOf, Real
      <3>4. TurnInv'
        BY <2>0, <2>1, <3>1 DEF TurnInv
      <3>5. StoreInv'
        BY <2>0, <3>1 DEF StoreInv, Real
      <3> QED
        BY <3>2, <3>3, <3>4, <3>5 DEF StoresInv
    <2>2. CASE left # {}
      <3>1. PICK l \in left : left' = left \ {l} /\ Stores!Becomes(l, Stores!Opening)
                                                 /\ server' = server
        BY <1>8, <2>2 DEF Stores!LoadNext
      <3>2. l \in Libraries /\ l \in Stores!Databases /\ came[l] # None /\ l \notin stores
        BY DEF StoresType, TurnInv, StoreInv
      <3>3. /\ job' \in [Stores!Databases -> StoreJob] /\ job'[l] = Stores!Opening
            /\ \A e \in Stores!Databases : e # l => job'[e] = job[e]
        BY <3>1, <3>2, RestFacts, StoreBecomes
      <3>4. StoresType'
        BY <2>0, <3>1, <3>3 DEF StoresType
      <3>5. RanOf(l)'
        BY <1>c, <2>0, <3>2, <3>3, RestFacts DEF RanOf, Real
      <3>6. JobOf(l)'
        BY <3>3, RestFacts DEF JobOf
      <3>7. PathsOf(l)'
        BY <1>c, <2>0, <3>2, <3>3, RestFacts DEF PathsOf, Real
      <3>8. TurnInv'
        BY <2>0, <3>1, <3>2, <3>3, RestFacts DEF TurnInv
      <3>9. StoreInv'
        BY <2>0, <3>1, <3>2, <3>3 DEF StoreInv, StoresType, Real
      <3> QED
        BY <2>0, <3>1, <3>2, <3>4, <3>5, <3>6, <3>7, <3>8, <3>9, RestFacts, StoreStep
    <2> QED
      BY <2>1, <2>2
  <1>9. CASE Stores!Crash
    <2>0. /\ server # "down" /\ Stores!Down
          /\ Stores!Torn(Stores!Databases) /\ Stores!Short(Stores!Databases)
          /\ UNCHANGED <<listed, file, came, refused>>
      BY <1>9 DEF Stores!Crash
    <2>1. cut \subseteq cut' /\ unfilled \subseteq unfilled'
      BY <2>0 DEF Stores!Torn, Stores!Short
    <2>2. ASSUME NEW d \in Stores!Databases, Tears(d) PROVE d \in cut'
      <3>1. PICK n \in Scripts \ Rerunnable : Follows(job[d].version, n)
        BY <2>2 DEF Tears
      <3>2. Stores!Behind(d)
        BY <3>1 DEF Stores!Behind, Follows
      <3>3. Stores!NextScript(d) = n
        BY <3>1, <3>2, NextFacts, StoresAssumption DEF Follows
      <3> QED
        BY <2>0, <2>2, <3>1, <3>3 DEF Stores!Torn, Stores!At, Tears
    <2>3. \A l \in Libraries : Leaves(l) => l \in unfilled'
      BY <2>0 DEF Stores!Short, Leaves
    <2>4. refused' = None
      BY <2>0 DEF StoreInv
    <2> QED
      BY <2>0, <2>1, <2>2, <2>3, <2>4, DownStep
  <1>10. ASSUME NEW l \in Libraries, Stores!AddRow(l) PROVE StoresInv'
    <2>0. /\ server = "up" /\ came[l] = None
          /\ came' = [came EXCEPT ![l] = 0] /\ listed' = listed \cup {l}
          /\ UNCHANGED <<server, file, left, stores, refused, cut, unfilled>>
      BY <1>10 DEF Stores!AddRow
    <2>1. PICK then \in {"create", "open"} : Stores!Becomes(l, [Stores!Rest EXCEPT !.pc = then])
      BY <1>10 DEF Stores!AddRow
    <2> DEFINE r == [Stores!Rest EXCEPT !.pc = then]
    <2>2. r \in StoreJob /\ r.pc = then /\ r.step = 1
      BY RestFacts
    <2>3. Stores!Becomes(l, r)
      BY <2>1
    <2> HIDE DEF r
    <2>4. /\ job' \in [Stores!Databases -> StoreJob] /\ job'[l] = r
          /\ \A e \in Stores!Databases : e # l => job'[e] = job[e]
      BY <2>2, <2>3, StoreBecomes
    <2>5. /\ came' \in [Libraries -> Nat \cup {None}] /\ came'[l] = 0 /\ 0 # None
          /\ \A k \in Libraries : k # l => came'[k] = came[k]
      BY <2>0, StoresAssumption DEF StoresType
    <2>6. StoresType'
      BY <2>0, <2>4, <2>5 DEF StoresType
    <2>7. job[l].pc = "rest" /\ l \notin stores
      BY <2>0 DEF TurnInv, StoreInv
    <2>8. RanOf(l)'
      BY <1>c, <2>0, <2>2, <2>4, <2>7 DEF RanOf, Real
    <2>9. JobOf(l)'
      BY <2>2, <2>4 DEF JobOf
    <2>10. PathsOf(l)'
      BY <2>5 DEF PathsOf
    <2>11. TurnInv'
      BY <2>0, <2>2, <2>4, <2>5 DEF TurnInv, StoresType
    <2>12. StoreInv'
      BY <2>0, <2>4, <2>5, <2>7 DEF StoreInv, StoresType, Real
    <2> QED
      BY <2>0, <2>2, <2>3, <2>5, <2>6, <2>8, <2>9, <2>10, <2>11, <2>12, StoreStep
  \* What is done to a file that an import makes.
  <1>w. ASSUME NEW l \in Libraries, NEW r \in StoreJob, Stores!Becomes(l, r), r.step = 1,
               job[l].pc \in {"create", "write"},
               r.pc \in {"write", "open"},
               file' \in [Stores!Databases -> Contents \cup {None, Garbage}],
               \A e \in Stores!Databases : e # l => file'[e] = file[e],
               came' \in [Libraries -> Nat \cup {None}],
               \A k \in Libraries : k # l => came'[k] = came[k], came'[l] # None,
               UNCHANGED <<server, listed, left, stores, refused, cut, unfilled>>,
               RanOf(l)', PathsOf(l)'
        PROVE  StoresInv'
    <2>1. /\ job' \in [Stores!Databases -> StoreJob] /\ job'[l] = r
          /\ \A e \in Stores!Databases : e # l => job'[e] = job[e]
      BY <1>w, StoreBecomes
    <2>2. StoresType'
      BY <1>w, <2>1 DEF StoresType
    <2>3. JobOf(l)'
      BY <1>w, <2>1 DEF JobOf
    <2>a. server = "up" /\ l \notin stores /\ l \notin left
      BY <1>w DEF TurnInv, StoreInv
    <2>4. TurnInv'
      BY <1>w, <2>1, <2>a DEF TurnInv, StoresType
    <2>5. StoreInv'
      BY <1>w, <2>1, <2>a DEF StoreInv, StoresType, Real
    <2> QED
      BY <1>w, <2>2, <2>3, <2>4, <2>5, StoreStep
  <1>11. ASSUME NEW l \in Libraries, Stores!CreateFile(l) PROVE StoresInv'
    <2> DEFINE r == [job[l] EXCEPT !.pc = "write"]
    <2>0. /\ job[l].pc = "create" /\ Stores!Becomes(l, r)
          /\ file' = [file EXCEPT ![l] = Stores!Fresh]
          /\ UNCHANGED <<server, listed, left, stores, came, refused, cut, unfilled>>
      BY <1>11 DEF Stores!CreateFile, Stores!At, Stores!history
    <2>1. r \in StoreJob /\ r.pc = "write" /\ r.step = 1
      BY <1>c, <2>0 DEF StoreJob, JobOf
    <2> HIDE DEF r
    <2>2. /\ file' \in [Stores!Databases -> Contents \cup {None, Garbage}]
          /\ file'[l] = Stores!Fresh
          /\ \A e \in Stores!Databases : e # l => file'[e] = file[e]
      BY <2>0, ContentFacts DEF StoresType
    <2>3. RanOf(l)'
      <3>1. \A w \in Scripts : ~ (w <= 0)
        BY StoresAssumption
      <3> QED
        BY <2>2, <3>1, ContentFacts DEF RanOf
    <2>4. came[l] # 30 /\ came[l] # None
      BY <1>c, <2>0 DEF PathsOf, TurnInv
    <2>5. PathsOf(l)'
      BY <2>0, <2>4 DEF PathsOf
    <2>6. came' \in [Libraries -> Nat \cup {None}]
      BY <2>0 DEF StoresType
    <2> QED
      BY <1>w, <2>0, <2>1, <2>2, <2>3, <2>4, <2>5, <2>6
  <1>12. ASSUME NEW l \in Libraries, Stores!WriteFile(l) PROVE StoresInv'
    <2>0. /\ job[l].pc = "write"
          /\ UNCHANGED <<server, listed, left, stores, refused, cut, unfilled>>
      BY <1>12 DEF Stores!WriteFile, Stores!At
    <2>1. came[l] # 30 /\ came[l] # None /\ job[l].step = 1
      BY <1>c, <2>0 DEF PathsOf, TurnInv, JobOf
    <2> DEFINE r == [job[l] EXCEPT !.pc = "open"]
    <2>2. r \in StoreJob /\ r.pc = "open" /\ r.step = 1
      BY <2>1 DEF StoreJob
    <2> HIDE DEF r
    <2>g. ASSUME file' = [file EXCEPT ![l] = Garbage], came' = came
          PROVE  /\ file' \in [Stores!Databases -> Contents \cup {None, Garbage}]
                 /\ \A e \in Stores!Databases : e # l => file'[e] = file[e]
                 /\ came' \in [Libraries -> Nat \cup {None}] /\ came'[l] # None
                 /\ RanOf(l)' /\ PathsOf(l)'
      <3>1. /\ file' \in [Stores!Databases -> Contents \cup {None, Garbage}]
            /\ \A e \in Stores!Databases : e # l => file'[e] = file[e]
            /\ came' \in [Libraries -> Nat \cup {None}] /\ file'[l] = Garbage
        BY <2>g DEF StoresType
      <3>2. RanOf(l)'
        BY <3>1, StoresAssumption DEF RanOf, Real
      <3>3. PathsOf(l)'
        BY <2>1, <2>g DEF PathsOf
      <3> QED
        BY <2>1, <2>g, <3>1, <3>2, <3>3
    <2>3. ASSUME job' = job, came' = came, file' = [file EXCEPT ![l] = Garbage] PROVE StoresInv'
      <3>1. Stores!Becomes(l, job[l])
        BY <2>3 DEF Stores!Becomes, StoresType
      <3> QED
        BY <1>w, <2>0, <2>1, <2>3, <2>g, <3>1
    <2>4. ASSUME Stores!Becomes(l, r), NEW v \in {30, Stores!Latest},
                 file' = [file EXCEPT ![l] = Stores!Until(v)], came' = [came EXCEPT ![l] = v]
          PROVE  StoresInv'
      <3>1. v \in Scripts /\ v \in Nat /\ v # None
        BY LatestFacts, StoresAssumption
      <3>2. /\ file' \in [Stores!Databases -> Contents \cup {None, Garbage}]
            /\ file'[l] = Stores!Until(v)
            /\ \A e \in Stores!Databases : e # l => file'[e] = file[e]
        BY <2>4, <3>1, ContentFacts DEF StoresType
      <3>3. /\ came' \in [Libraries -> Nat \cup {None}] /\ came'[l] = v
            /\ \A k \in Libraries : k # l => came'[k] = came[k]
        BY <2>4, <3>1 DEF StoresType
      <3>4. RanOf(l)'
        BY <3>1, <3>2, ContentFacts DEF RanOf
      <3>5. job'[l] = r
        BY <2>2, <2>4, StoreBecomes
      <3>6. PathsOf(l)'
        BY <2>2, <3>1, <3>2, <3>3, <3>5, ContentFacts DEF PathsOf, Real
      <3> QED
        BY <1>w, <2>0, <2>2, <2>4, <3>1, <3>2, <3>3, <3>4, <3>6
    <2>5. ASSUME Stores!Becomes(l, r), file' = [file EXCEPT ![l] = Garbage], came' = came
          PROVE  StoresInv'
      BY <1>w, <2>0, <2>2, <2>5, <2>g
    <2> QED
      BY <1>12, <2>3, <2>4, <2>5 DEF Stores!WriteFile, r
  <1>13. ASSUME NEW l \in Libraries, Stores!GiveUp(l) PROVE StoresInv'
    <2>0. /\ server = "up" /\ job[l].pc # "rest"
          /\ UNCHANGED <<server, listed, file, left, stores, came, refused, cut>>
      BY <1>13 DEF Stores!GiveUp, Stores!At
    <2>1. CASE job[l].pc = "run"
      <3> DEFINE r == [job[l] EXCEPT !.alone = TRUE]
      <3>1. Stores!Becomes(l, r) /\ unfilled' = unfilled
        BY <1>13, <2>1 DEF Stores!GiveUp, Stores!At
      <3>2. /\ r \in StoreJob /\ r.pc = job[l].pc /\ r.initial = job[l].initial
            /\ r.version = job[l].version /\ r.step = job[l].step
        BY DEF StoreJob
      <3> HIDE DEF r
      <3>3. /\ job' \in [Stores!Databases -> StoreJob] /\ job'[l] = r
            /\ \A e \in Stores!Databases : e # l => job'[e] = job[e]
        BY <3>1, <3>2, StoreBecomes
      <3>4. StoresType'
        BY <2>0, <3>3 DEF StoresType
      <3>5. RanOf(l)'
        BY <1>c, <2>0, <3>2, <3>3 DEF RanOf, Real
      <3>6. JobOf(l)'
        BY <1>c, <2>0, <3>2, <3>3 DEF JobOf, Real
      <3>7. PathsOf(l)'
        BY <1>c, <2>0, <3>1, <3>2, <3>3 DEF PathsOf, Real
      <3>8. TurnInv'
        BY <2>0, <3>2, <3>3 DEF TurnInv
      <3>9. StoreInv'
        BY <2>0, <2>1, <3>1, <3>3 DEF StoreInv, StoresType, Real
      <3> QED
        BY <2>0, <3>1, <3>2, <3>4, <3>5, <3>6, <3>7, <3>8, <3>9, StoreStep
    <2>2. CASE job[l].pc # "run"
      <3>1. Stores!Becomes(l, Stores!Rest) /\ Stores!Short({l})
        BY <1>13, <2>2 DEF Stores!GiveUp, Stores!At
      <3>2. ~ Tears(l)
        BY <2>2 DEF Tears
      <3>3. unfilled \subseteq unfilled' /\ (l \in Libraries /\ Leaves(l) => l \in unfilled')
        BY <3>1 DEF Stores!Short, Leaves
      <3> QED
        BY <2>0, <3>1, <3>2, <3>3, GivenUpStep
    <2> QED
      BY <2>1, <2>2
  <1>14. CASE UNCHANGED storeVars
    BY <1>14
      DEF storeVars, StoresInv, StoresType, RanInv, JobInv, TurnInv, PathsInv, StoreInv,
                 RanOf, JobOf, PathsOf, Real
  <1> QED
    BY <1>1, <1>2, <1>3, <1>4, <1>5, <1>6, <1>7, <1>8, <1>9, <1>10, <1>11, <1>12, <1>13,
                <1>14
       DEF Stores!Next

\* The databases that the server finds were made by whole scripts.
LEMMA StoresInit == Stores!Init => StoresInv
  <1> SUFFICES ASSUME Stores!Init PROVE StoresInv
    OBVIOUS
  <1>0. /\ server = "down" /\ listed \subseteq Libraries
        /\ job = [d \in Stores!Databases |-> Stores!Rest]
        /\ left = {} /\ stores = {} /\ refused = None /\ cut = {} /\ unfilled = {}
    BY DEF Stores!Init
  <1>1. PICK v \in Scripts, w \in {0, Stores!Latest} :
          /\ file = [d \in Stores!Databases |->
                      IF d = Server THEN IF w = 0 THEN None ELSE Stores!Until(w)
                      ELSE IF d \in listed THEN Stores!Until(v) ELSE None]
          /\ came = [l \in Libraries |-> IF l \in listed THEN v ELSE None]
    BY DEF Stores!Init
  <1>2. v \in Nat /\ v # None /\ (w # 0 => w \in Scripts)
    BY LatestFacts, StoresAssumption
  <1>3. \A d \in Stores!Databases : file[d] = None \/ \E x \in Scripts : file[d] = Stores!Until(x)
    BY <1>1, <1>2
  <1>4. StoresType
    BY <1>0, <1>1, <1>2, ContentFacts, RestFacts DEF StoresType
  <1>5. RanInv
    <2> SUFFICES ASSUME NEW d \in Stores!Databases, Real(d) PROVE RanOf(d)
      BY DEF RanInv, RanOf
    <2>1. PICK x \in Scripts : file[d] = Stores!Until(x)
      BY <1>3, StoresAssumption DEF Real
    <2> QED
      BY <2>1, ContentFacts DEF RanOf
  <1>6. JobInv
    BY <1>0, RestFacts DEF JobInv, JobOf
  <1>7. TurnInv
    BY <1>0, <1>1, <1>2, RestFacts DEF TurnInv, Stores!Databases
  <1>8. PathsInv
    <2> SUFFICES ASSUME NEW l \in Libraries, came[l] = 30 PROVE PathsOf(l)
      BY DEF PathsInv, PathsOf
    <2>1. l \in listed /\ v = 30 /\ l # Server /\ l \in Stores!Databases
      BY <1>1, StoresAssumption DEF Stores!Databases
    <2>2. file[l] = Stores!Until(v) /\ job[l].pc = "rest"
      BY <1>0, <1>1, <2>1, RestFacts
    <2> QED
      BY <2>1, <2>2, ContentFacts DEF PathsOf, Real
  <1>9. StoreInv
    BY <1>0 DEF StoreInv
  <1> QED
    BY <1>4, <1>5, <1>6, <1>7, <1>8, <1>9 DEF StoresInv

\* A library that is served has all its statements behind it (see ServedWhole).
LEMMA ServedFromInv == StoresInv => Stores!ServedWhole
  <1> SUFFICES ASSUME StoresInv PROVE Stores!ServedWhole
    OBVIOUS
  <1>0. StoresType /\ RanInv /\ StoreInv
    BY DEF StoresInv
  <1>1. ASSUME NEW l \in stores
        PROVE  /\ file[l].ran = Scripts \X Stores!Statements
               /\ file[l].version = Stores!Latest
               /\ came[l] = 30 /\ l \notin unfilled => file[l].paths
    <2>1. file[l] \in Contents /\ \A w \in Scripts : w <= file[l].version
      BY <1>0 DEF StoreInv, Real
    <2>2. RanOf(l)
      BY <1>0 DEF RanInv, StoresType, Stores!Databases
    <2>3. /\ file[l].version \in Scripts \cup {0}
          /\ \A w \in Scripts, s \in Stores!Statements : <<w, s>> \in file[l].ran
      BY <2>1, <2>2 DEF RanOf, Real
    <2>4. file[l].ran = Scripts \X Stores!Statements
      <3>1. file[l].ran \subseteq Scripts \X Stores!Statements
        BY <2>1 DEF Contents, Stores!Statements
      <3>2. \A x \in Scripts \X Stores!Statements : x \in file[l].ran
        BY <2>3
      <3> QED
        BY <3>1, <3>2, Zenon
    <2>5. file[l].version = Stores!Latest
      <3>1. Stores!Latest \in Nat /\ Stores!Latest # 0 /\ Stores!Latest <= file[l].version
        BY <2>1, LatestFacts, StoresAssumption
      <3>2. file[l].version \in Scripts
        BY <2>3, <3>1
      <3>3. file[l].version \in Nat /\ file[l].version <= Stores!Latest
        BY <3>2, LatestFacts, StoresAssumption
      <3> QED
        BY <3>1, <3>3
    <2> QED
      BY <1>0, <2>4, <2>5 DEF StoreInv
  <1>2. refused = None \/ refused \in cut \/ file[refused] = Garbage
    BY <1>0 DEF StoreInv
  <1> QED
    BY <1>1, <1>2 DEF Stores!ServedWhole

\* Whatever the requests, stops and failed statements, a library that is served has
\* run every statement of every script once the migration says so, its tags have the
\* paths of script 31 unless that fill was cut, and what refuses the start is a torn
\* migration or no database (ServedWhole): for any libraries and scripts.
THEOREM ServedCorrect == MCSpec => []ServedWhole
  <1> DEFINE Inv == subject = "stores" => StoresInv
  <1>1. MCInit => Inv
    BY StoresInit DEF MCInit
  <1>2. Inv /\ [MCNext]_<<subject, vars, accessVars, storeVars>> => Inv'
    <2> SUFFICES ASSUME Inv, [MCNext]_<<subject, vars, accessVars, storeVars>>,
                        subject' = "stores"
                 PROVE  StoresInv'
      OBVIOUS
    <2>1. subject = "stores"
      BY DEF MCNext
    <2>2. [Stores!Next]_storeVars
      BY <2>1 DEF MCNext
    <2> QED
      BY <2>1, <2>2, StoresStep
  <1>3. Inv => ServedWhole
    BY ServedFromInv DEF ServedWhole
  <1> QED
    BY <1>1, <1>2, <1>3, PTL DEF MCSpec

=============================================================================
