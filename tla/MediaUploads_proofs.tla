-------------------------- MODULE MediaUploads_proofs --------------------------
(***************************************************************************)
(* Proofs about what comes into a library, for any uploads, removals,      *)
(* names, bytes, conversions, merges, requests and lists of requests.      *)
(***************************************************************************)
EXTENDS MCMediaUploads, FiniteSetTheorems, TLAPS

\* Whatever has begun has a path, and so has what a row or a removal names.
SourceInv ==
  /\ \A u \in Uploads : ~At(u, "idle") => up[u].source \in Paths
  /\ \A u \in rows : ~At(u, "idle")
  /\ \A r \in Removers : remover[r].pc \in {"source", "file"} =>
       remover[r].media \in Uploads /\ ~At(remover[r].media, "idle")

\* Past the look for duplicates, and before the md5 is set.
Looked(u) == At(u, "checked") \/ At(u, "added")

\* Two uploads past the look, or one past it and a row with its hash, were past
\* it at the same time.
TogetherInv ==
  /\ \A u, v \in Uploads : u # v /\ Looked(u) /\ Looked(v) => {u, v} \in together
  /\ \A u \in Uploads, v \in rows :
       u # v /\ Looked(u) /\ up[u].hash \in Contents /\ md5[v] = up[u].hash => {u, v} \in together
  /\ NoDuplicate

IInv == TypeOK /\ SourceInv /\ TogetherInv

-----------------------------------------------------------------------------
UpRecord == [pc : UploadStates, source : Paths \cup {None}, hash : Hashes]

LEMMA StepFacts ==
  ASSUME TypeOK, NEW u \in Uploads, NEW pc \in UploadStates, Step(u, pc)
  PROVE  /\ up' \in [Uploads -> UpRecord]
         /\ up'[u].pc = pc /\ up'[u].source = up[u].source /\ up'[u].hash = up[u].hash
         /\ \A v \in Uploads : v # u => up'[v] = up[v]
<1>1. up \in [Uploads -> UpRecord]
  BY DEF TypeOK, UpRecord
<1>2. up' = [up EXCEPT ![u].pc = pc]
  BY DEF Step
<1>3. /\ up' \in [Uploads -> UpRecord]
      /\ \A v \in Uploads : v # u => up'[v] = up[v]
  BY <1>1, <1>2 DEF UpRecord
<1>4. up'[u] = [up[u] EXCEPT !.pc = pc]
  BY <1>1, <1>2, Zenon
<1>5. up[u] \in UpRecord
  BY <1>1
<1>6. up'[u].pc = pc /\ up'[u].source = up[u].source /\ up'[u].hash = up[u].hash
  BY <1>4, <1>5 DEF UpRecord
<1>q. QED
  BY <1>3, <1>6

LEMMA UnlinkFacts ==
  ASSUME TypeOK, NEW p, Unlink(p)
  PROVE  disk' \in [Paths -> (SUBSET Uploads) \cup {None}] /\ kept' \subseteq Paths
  BY DEF TypeOK, Unlink

LEMMA HashType ==
  ASSUME TypeOK, NEW u \in Uploads, up[u].source \in Paths
  PROVE  HashesOf(u) \subseteq Hashes
<1> DEFINE file == disk[up[u].source]
<1>1. file \in (SUBSET Uploads) \cup {None}
  BY DEF TypeOK
<1>2. CASE file = None
  BY <1>2 DEF HashesOf
<1>3. CASE file # None
  <2>1. file \in SUBSET Uploads
    BY <1>1, <1>3
  <2>2. \A v \in file : ContentOf[v] \in Contents
    BY <2>1, UploadAssumption
  <2>q. QED
    BY <1>3, <2>2, UploadAssumption DEF HashesOf, Hashes
<1>q. QED
  BY <1>2, <1>3

LEMMA InitInv == Init => IInv
<1> SUFFICES ASSUME Init PROVE IInv
  OBVIOUS
<1>1. TypeOK
  BY DEF Init, TypeOK, UploadStates, LibraryStates, Hashes
<1>2. SourceInv
  BY DEF Init, SourceInv, At
<1>3. TogetherInv
  BY DEF Init, TogetherInv, Looked, At, NoDuplicate
<1>q. QED
  BY <1>1, <1>2, <1>3 DEF IInv

-----------------------------------------------------------------------------
(* Types.                                                                  *)

LEMMA UploadType ==
  ASSUME IInv, NEW u \in Uploads, Upload(u)
  PROVE  TypeOK'
<1> USE DEF IInv
<1>1. CASE Choose(u)
  <2>1. PICK p \in Paths : /\ up' = [up EXCEPT ![u] = [pc |-> "chosen", source |-> p, hash |-> None]]
                           /\ exposed' = exposed \cup Rivals(p) \cup
                                IF Rivals(p) # {} \/ p \in InHand \/ Cleaning THEN {u} ELSE {}
    BY <1>1 DEF Choose
  <2>2. up' \in [Uploads -> UpRecord]
    BY <2>1 DEF TypeOK, UpRecord, UploadStates, Hashes
  <2>3. exposed' \subseteq Uploads
    BY <2>1 DEF TypeOK, Rivals
  <2>q. QED
    BY <1>1, <2>2, <2>3 DEF Choose, TypeOK, UpRecord
<1>2. CASE Open(u)
  <2>1. up' \in [Uploads -> UpRecord]
    BY <1>2, StepFacts DEF Open, UploadStates
  <2>2. up[u].source \in Paths
    BY <1>2 DEF Open, At, SourceInv
  <2>3. disk' \in [Paths -> (SUBSET Uploads) \cup {None}]
    <3> DEFINE file == disk[up[u].source]
               new  == {u} \cup IF file = None THEN {} ELSE {v \in file : At(v, "writing")}
    <3>1. file \in (SUBSET Uploads) \cup {None}
      BY <2>2 DEF TypeOK
    <3>2. new \in SUBSET Uploads
      BY <3>1
    <3>3. disk' = [disk EXCEPT ![up[u].source] = new]
      BY <1>2 DEF Open
    <3>q. QED
      BY <3>2, <3>3 DEF TypeOK
  <2>q. QED
    BY <1>2, <2>1, <2>3 DEF Open, TypeOK, UpRecord, history
<1>3. CASE Write(u)
  BY <1>3, StepFacts DEF Write, TypeOK, UpRecord, UploadStates, history
<1>4. CASE Hash(u)
  <2>1. HashesOf(u) \cup {None} \subseteq Hashes
    BY <1>4, HashType DEF Hash, SourceInv, At, Hashes
  <2>2. up' \in [Uploads -> UpRecord]
    BY <1>4, <2>1 DEF Hash, TypeOK, UpRecord, UploadStates
  <2>q. QED
    BY <1>4, <2>2 DEF Hash, TypeOK, UpRecord, history
<1>5. CASE CheckDuplicate(u)
  <2>1. up' \in [Uploads -> UpRecord]
    BY <1>5, StepFacts DEF CheckDuplicate, UploadStates
  <2>2. together' \subseteq SUBSET Uploads
    BY <1>5 DEF CheckDuplicate, TypeOK
  <2>q. QED
    BY <1>5, <2>1, <2>2 DEF CheckDuplicate, TypeOK, UpRecord
<1>6. CASE RemoveDuplicate(u)
  BY <1>6, StepFacts, UnlinkFacts DEF RemoveDuplicate, TypeOK, UpRecord, UploadStates, history
<1>7. CASE AddRow(u)
  BY <1>7, StepFacts DEF AddRow, TypeOK, UpRecord, UploadStates, history, Hashes
<1>8. CASE SetInfos(u)
  BY <1>8, StepFacts DEF SetInfos, TypeOK, UpRecord, UploadStates, history
<1>9. CASE UploadFails(u)
  BY <1>9, StepFacts DEF UploadFails, TypeOK, UpRecord, UploadStates, history
<1>q. QED
  BY <1>1, <1>2, <1>3, <1>4, <1>5, <1>6, <1>7, <1>8, <1>9 DEF Upload

LEMMA RemovalType ==
  ASSUME IInv, NEW r \in Removers, Removal(r)
  PROVE  TypeOK'
<1> USE DEF IInv
<1>1. CASE ReadSource(r)
  <2>1. PICK u \in rows : /\ remover' = [remover EXCEPT ![r] = [pc |-> "source", media |-> u]]
                          /\ exposed' = exposed \cup {u}
    BY <1>1 DEF ReadSource
  <2>q. QED
    BY <1>1, <2>1 DEF ReadSource, TypeOK
<1>2. CASE RemoveFile(r)
  <2> DEFINE p == up[remover[r].media].source
  <2>1. p \in Paths
    BY <1>2 DEF RemoveFile, SourceInv
  <2>2. disk' \in [Paths -> (SUBSET Uploads) \cup {None}] /\ kept' \subseteq Paths
    <3>1. CASE Unlink(p)
      BY <3>1, UnlinkFacts
    <3>2. CASE UNCHANGED disk /\ kept' = IF disk[p] = None THEN kept ELSE kept \cup {p}
      BY <3>2, <2>1 DEF TypeOK
    <3>q. QED
      BY <1>2, <3>1, <3>2 DEF RemoveFile
  <2>3. remover' \in [Removers -> [pc : {"idle", "source", "file", "done"},
                                   media : Uploads \cup {None}]]
    BY <1>2 DEF RemoveFile, TypeOK
  <2>q. QED
    BY <1>2, <2>2, <2>3 DEF RemoveFile, TypeOK, history
<1>3. CASE RemoveRow(r)
  BY <1>3 DEF RemoveRow, TypeOK, history
<1>4. CASE RemovalStops(r)
  BY <1>4 DEF RemovalStops, TypeOK, history
<1>q. QED
  BY <1>1, <1>2, <1>3, <1>4 DEF Removal

LEMMA SourcesType == IInv => Sources \subseteq Paths
  BY DEF IInv, TypeOK, SourceInv, Sources

LEMMA CleanType == IInv /\ Clean => TypeOK'
<1> SUFFICES ASSUME IInv, Clean PROVE TypeOK'
  OBVIOUS
<1> USE DEF IInv
<1>1. CASE ListSources
  BY <1>1, SourcesType DEF ListSources, TypeOK
<1>2. CASE Walk
  BY <1>2 DEF Walk, TypeOK, history
<1>3. ASSUME NEW p \in Paths, Trash(p) PROVE TypeOK'
  BY <1>3, UnlinkFacts DEF Trash, TypeOK, history
<1>4. CASE CleanEnds
  BY <1>4 DEF CleanEnds, TypeOK, history
<1>q. QED
  BY <1>1, <1>2, <1>3, <1>4 DEF Clean

LEMMA LibraryType == IInv /\ RemoveLibrary => TypeOK'
<1> SUFFICES ASSUME IInv, RemoveLibrary PROVE TypeOK'
  OBVIOUS
<1> USE DEF IInv
<1>1. CASE RequestRemoval
  BY <1>1 DEF RequestRemoval, TypeOK, LibraryStates, history
<1>2. CASE ListTracked
  BY <1>2, SourcesType DEF ListTracked, TypeOK, LibraryStates
<1>3. ASSUME NEW p \in Paths, RemoveTracked(p) PROVE TypeOK'
  BY <1>3, UnlinkFacts DEF RemoveTracked, TypeOK, history
<1>4. CASE LibraryRemovalFails
  BY <1>4 DEF LibraryRemovalFails, TypeOK, LibraryStates, history
<1>5. CASE DropLibrary
  BY <1>5 DEF DropLibrary, TypeOK, LibraryStates, history
<1>6. CASE CloseStore
  BY <1>6 DEF CloseStore, TypeOK, LibraryStates, history
<1>7. CASE RemoveDatabase
  BY <1>7 DEF RemoveDatabase, TypeOK, LibraryStates, history
<1>q. QED
  BY <1>1, <1>2, <1>3, <1>4, <1>5, <1>6, <1>7 DEF RemoveLibrary

-----------------------------------------------------------------------------
(* Paths and duplicates.                                                   *)

\* An upload's step moves its own record: the others keep theirs, it leaves the
\* idle state for good, and only Choose gives it a path.
LEMMA UploadSources ==
  ASSUME IInv, NEW u \in Uploads, Upload(u)
  PROVE  SourceInv'
<1> USE DEF IInv
<1> DEFINE Moved == /\ \A v \in Uploads : v # u => up'[v] = up[v]
                    /\ up'[u].pc # "idle"
                    /\ up'[u].source \in Paths
                    /\ rows' \subseteq rows \cup {u}
                    /\ remover' = remover
<1>1. Moved
  <2>1. CASE Choose(u)
    BY <2>1 DEF Choose, TypeOK
  <2>2. ASSUME NEW pc \in UploadStates \ {"idle"}, Step(u, pc), ~At(u, "idle"),
               rows' \subseteq rows \cup {u}, remover' = remover
        PROVE  Moved
    BY <2>2, StepFacts DEF SourceInv
  <2>3. CASE Hash(u)
    BY <2>3 DEF Hash, TypeOK, SourceInv, At
  <2>q. QED
    BY <2>1, <2>2, <2>3 DEF Upload, Open, Write, CheckDuplicate, RemoveDuplicate, AddRow, SetInfos,
       UploadFails, UploadStates, At, Active
<1>q. QED
  BY <1>1 DEF SourceInv, At, TypeOK

\* The other requests leave the uploads alone, add no row and set no md5.
LEMMA OthersLeave ==
  ASSUME IInv, (\E r \in Removers : Removal(r)) \/ Clean \/ RemoveLibrary
  PROVE  /\ UNCHANGED <<up, md5, together>>
         /\ rows' \subseteq rows
  BY DEF Removal, ReadSource, RemoveFile, RemoveRow, RemovalStops, Clean, ListSources, Walk, Trash,
     CleanEnds, RemoveLibrary, RequestRemoval, ListTracked, RemoveTracked, LibraryRemovalFails,
     DropLibrary, CloseStore, RemoveDatabase, history

LEMMA OtherSources ==
  ASSUME IInv, (\E r \in Removers : Removal(r)) \/ Clean \/ RemoveLibrary
  PROVE  SourceInv'
<1> USE DEF IInv
<1>1. UNCHANGED up /\ rows' \subseteq rows
  BY OthersLeave
<1>2. \A q \in Removers : remover'[q].pc \in {"source", "file"} =>
        remover'[q].media \in Uploads /\ ~At(remover'[q].media, "idle")
  <2>1. ASSUME NEW r \in Removers, Removal(r) PROVE <1>2
    BY <2>1 DEF Removal, ReadSource, RemoveFile, RemoveRow, RemovalStops, SourceInv, TypeOK
  <2>2. CASE UNCHANGED remover
    BY <2>2 DEF SourceInv
  <2>q. QED
    BY <2>1, <2>2 DEF Clean, ListSources, Walk, Trash, CleanEnds, RemoveLibrary, RequestRemoval,
       ListTracked, RemoveTracked, LibraryRemovalFails, DropLibrary, CloseStore, RemoveDatabase
<1>q. QED
  BY <1>1, <1>2 DEF SourceInv, At

LEMMA OtherTogether ==
  ASSUME IInv, (\E r \in Removers : Removal(r)) \/ Clean \/ RemoveLibrary
  PROVE  TogetherInv'
  BY OthersLeave DEF IInv, TogetherInv, NoDuplicate, Looked, At

\* The look finds the rows that have the hash already, and records the uploads
\* that are past theirs: every pair is seen by the later of its two looks.
LEMMA UploadTogether ==
  ASSUME IInv, NEW u \in Uploads, Upload(u)
  PROVE  TogetherInv'
<1> USE DEF IInv
<1>1. ASSUME NEW pc \in UploadStates \ {"checked", "added"}, up'[u].pc = pc,
             \A v \in Uploads : v # u => up'[v] = up[v],
             UNCHANGED <<rows, md5, together>>
      PROVE  TogetherInv'
  BY <1>1 DEF TogetherInv, NoDuplicate, Looked, At
<1>2. CASE Choose(u) \/ Hash(u)
  BY <1>1, <1>2 DEF Choose, Hash, TypeOK, UploadStates, history
<1>3. CASE Open(u) \/ Write(u) \/ RemoveDuplicate(u) \/ UploadFails(u)
  BY <1>1, <1>3, StepFacts DEF Open, Write, RemoveDuplicate, UploadFails, UploadStates, history
<1>4. CASE CheckDuplicate(u)
  <2>1. CASE Step(u, "duplicate") /\ UNCHANGED together
    BY <1>1, <1>4, <2>1, StepFacts DEF CheckDuplicate, UploadStates
  <2>2. CASE /\ SameHash(u) = {} \/ up[u].hash = Mixed
             /\ Step(u, "checked")
             /\ together' = together \cup {{u, v} : v \in {w \in Uploads \ {u} :
                                                      At(w, "checked") \/ At(w, "added")}}
    <3>1. /\ \A v \in Uploads : v # u => up'[v] = up[v]
          /\ up'[u].hash = up[u].hash
          /\ UNCHANGED <<rows, md5>>
      BY <1>4, <2>2, StepFacts DEF CheckDuplicate, UploadStates
    <3>2. together \subseteq together'
      BY <2>2
    <3>3. \A v \in Uploads : v # u /\ Looked(v) => {u, v} \in together' /\ {v, u} \in together'
      <4>1. ASSUME NEW v \in Uploads, v # u, Looked(v) PROVE {u, v} \in together'
        BY <2>2, <4>1 DEF Looked
      <4>2. \A v : {u, v} = {v, u}
        OBVIOUS
      <4>q. QED
        BY <4>1, <4>2
    <3>4. \A v \in rows : up[u].hash \in Contents => md5[v] # up[u].hash
      BY <2>2, UploadAssumption DEF SameHash
    <3>q. QED
      BY <3>1, <3>2, <3>3, <3>4 DEF TogetherInv, NoDuplicate, Looked, At, TypeOK
  <2>q. QED
    BY <1>4, <2>1, <2>2 DEF CheckDuplicate
<1>5. CASE AddRow(u)
  <2>1. /\ \A v \in Uploads : v # u => up'[v] = up[v]
        /\ up'[u].hash = up[u].hash
        /\ Looked(u)
        /\ rows' = rows \cup {u}
        /\ md5'[u] = None /\ \A v \in Uploads : v # u => md5'[v] = md5[v]
        /\ UNCHANGED together
    BY <1>5, StepFacts DEF AddRow, UploadStates, history, Looked, TypeOK
  <2>2. None \notin Contents /\ rows \subseteq Uploads
    BY UploadAssumption DEF TypeOK
  <2>q. QED
    BY <2>1, <2>2 DEF TogetherInv, NoDuplicate, Looked, At
<1>6. CASE SetInfos(u)
  <2>1. /\ \A v \in Uploads : v # u => up'[v] = up[v]
        /\ up'[u].pc = "done"
        /\ Looked(u)
        /\ md5'[u] = up[u].hash /\ \A v \in Uploads : v # u => md5'[v] = md5[v]
        /\ UNCHANGED <<rows, together>>
    BY <1>6, StepFacts DEF SetInfos, UploadStates, history, Looked, TypeOK
  <2>2. \A v : {u, v} = {v, u}
    OBVIOUS
  <2>3. rows \subseteq Uploads
    BY DEF TypeOK
  <2>q. QED
    BY <2>1, <2>2, <2>3 DEF TogetherInv, NoDuplicate, Looked, At
<1>q. QED
  BY <1>2, <1>3, <1>4, <1>5, <1>6 DEF Upload

-----------------------------------------------------------------------------
LEMMA NextInv == IInv /\ [Next]_vars => IInv'
<1> SUFFICES ASSUME IInv, [Next]_vars PROVE IInv'
  OBVIOUS
<1>1. ASSUME NEW u \in Uploads, Upload(u) PROVE IInv'
  BY <1>1, UploadType, UploadSources, UploadTogether DEF IInv
<1>2. CASE (\E r \in Removers : Removal(r)) \/ Clean \/ RemoveLibrary
  <2>1. TypeOK'
    BY <1>2, RemovalType, CleanType, LibraryType
  <2>q. QED
    BY <1>2, <2>1, OtherSources, OtherTogether DEF IInv
<1>3. CASE UNCHANGED vars
  BY <1>3 DEF vars, IInv, TypeOK, SourceInv, TogetherInv, NoDuplicate, Looked, At
<1>q. QED
  BY <1>1, <1>2, <1>3 DEF Next

\* Every variable keeps its type: whatever has a row or is being removed has a
\* source, and whoever shares a file is an upload.
THEOREM TypeCorrect == Spec => []TypeOK
<1>1. IInv => TypeOK
  BY DEF IInv
<1>q. QED
  BY InitInv, NextInv, <1>1, PTL DEF Spec

\* However many uploads run, and whatever is removed meanwhile, two medias have
\* the same md5 only if the two uploads were both past the look for duplicates
\* before either had set its md5.
THEOREM NoDuplicateCorrect == Spec => []NoDuplicate
<1>1. IInv => NoDuplicate
  BY DEF IInv, TogetherInv
<1>q. QED
  BY InitInv, NextInv, <1>1, PTL DEF Spec

-----------------------------------------------------------------------------
(* Files.                                                                  *)

\* An upload that is at work or has a row, and whose path nobody else could act on.
Live(u)      == Active(u) \/ u \in rows
Untouched(u) == Live(u) /\ u \notin exposed

\* Bytes are at the path of their upload, and a row is that of an upload past the look.
BytesInv ==
  /\ \A u \in rows : up[u].pc \in {"added", "done", "failed"}
  /\ \A p \in Paths : disk[p] # None =>
       \A u \in disk[p] : up[u].source = p /\ up[u].pc \notin {"idle", "chosen"}

\* No two that are live share a path, and the file there is the upload's.
PairInv ==
  \A u, v \in Uploads : Untouched(u) /\ Live(v) /\ up[u].source = up[v].source => u = v
FileInv ==
  \A u \in Uploads : Untouched(u) =>
    disk[up[u].source] = IF At(u, "chosen") THEN None ELSE {u}

\* The path is not in the hand of a removal, nor among what a cleaning has found.
HandInv  == \A u \in Uploads : Untouched(u) => up[u].source \notin InHand
CleanInv ==
  /\ Cleaning => \A u \in Uploads : Untouched(u) => up[u].source \in clean.known
  /\ clean.pc = "walked" => clean.found \cap clean.known = {}

\* The files of the medias a library had are still to be removed, until none is left.
Removing == library.content /\ library.pc \in {"removing", "dropped", "closed", "gone"}
ContentInv ==
  /\ Removing => \A u \in library.listed :
       /\ up[u].pc \in {"added", "done", "failed"}
       /\ \A p \in Paths : disk[p] # None /\ u \in disk[p] => p \in library.todo
  /\ library.content /\ ~HasRow => library.todo = {}

FilesInv == BytesInv /\ PairInv /\ FileInv /\ HandInv /\ CleanInv /\ ContentInv

FInv == IInv /\ FilesInv

\* What is live is an upload with a path, and no removal has hold of the path unless
\* it has read it.
LEMMA LiveFacts ==
  ASSUME FInv, NEW u \in Uploads
  PROVE  /\ up[u].pc \in UploadStates
         /\ Live(u) => ~At(u, "idle") /\ up[u].source \in Paths
<1>1. Live(u) => ~At(u, "idle")
  BY DEF FInv, IInv, SourceInv, Live, Active, At
<1>q. QED
  BY <1>1 DEF FInv, IInv, SourceInv, TypeOK

LEMMA InHandFacts ==
  ASSUME NEW p
  PROVE  p \in InHand <=> \/ p \in library.todo
                         \/ \E r \in Removers : /\ remover[r].pc = "source"
                                               /\ up[remover[r].media].source = p
  BY DEF InHand

\* The same of the next state, in terms of the states of now where an upload keeps its path.
LEMMA SourcesStay ==
  ASSUME FInv, \A v \in Uploads : ~At(v, "idle") => up'[v].source = up[v].source,
         UNCHANGED <<remover, library>>
  PROVE  InHand' = InHand
<1>1. \A r \in Removers : remover[r].pc = "source" => remover[r].media \in Uploads /\ ~At(remover[r].media, "idle")
  BY DEF FInv, IInv, SourceInv
<1>q. QED
  BY <1>1 DEF InHand

\* A step after which no more is untouched than before, and which leaves the files of
\* what is.
LEMMA UntouchedStay ==
  ASSUME FInv,
         \A v \in Uploads : up'[v].source = up[v].source \/ ~Live(v)',
         \A v \in Uploads : Live(v)' => Live(v) /\ (At(v, "chosen")' <=> At(v, "chosen")),
         exposed \subseteq exposed',
         \A v \in Uploads : Untouched(v)' => disk'[up[v].source] = disk[up[v].source]
  PROVE  /\ \A v \in Uploads : Untouched(v)' => Untouched(v)
         /\ PairInv' /\ FileInv'
<1>1. \A v \in Uploads : Untouched(v)' => Untouched(v)
  BY DEF Untouched, Live, Active, At
<1>2. PairInv'
  BY <1>1 DEF PairInv, Untouched, Live, Active, At, FInv, FilesInv
<1>3. FileInv'
  BY <1>1 DEF FileInv, Untouched, Live, Active, At, FInv, FilesInv
<1>q. QED
  BY <1>1, <1>2, <1>3

\* A step of an upload that is none of Choose, Open and RemoveDuplicate.
Goes(u) == Write(u) \/ Hash(u) \/ CheckDuplicate(u) \/ AddRow(u) \/ SetInfos(u) \/ UploadFails(u)

LEMMA GoesFacts ==
  ASSUME FInv, NEW u \in Uploads, Goes(u)
  PROVE  /\ UNCHANGED <<disk, remover, clean, library, exposed>>
         /\ \A v \in Uploads : v # u => up'[v] = up[v]
         /\ up'[u].source = up[u].source /\ ~At(u, "idle")
         /\ up'[u].pc \notin {"idle", "chosen"}
         /\ \A v \in Uploads : v # u => (v \in rows' <=> v \in rows)
         /\ u \in rows' => up'[u].pc \in {"added", "done", "failed"}
         /\ At(u, "chosen") => u \notin rows' /\ up'[u].pc = "failed"
         /\ Live(u)' => Live(u)
         /\ up[u].pc \in {"added", "done", "failed"} => up'[u].pc \in {"added", "done", "failed"}
<1> USE DEF FInv, FilesInv
<1>0. up \in [Uploads -> UpRecord] /\ rows \subseteq Uploads
  BY DEF IInv, TypeOK, UpRecord
<1>1. ASSUME NEW pc \in UploadStates, Step(u, pc)
      PROVE  /\ up'[u].pc = pc /\ up'[u].source = up[u].source
             /\ \A v \in Uploads : v # u => up'[v] = up[v]
  BY <1>1, StepFacts DEF IInv
<1>2. CASE Write(u)
  <2>1. Step(u, "written") /\ At(u, "writing") /\ UNCHANGED <<disk, rows, remover, clean, library, exposed>>
    BY <1>2 DEF Write, history
  <2>2. u \notin rows
    BY <2>1 DEF BytesInv, At
  <2>q. QED
    BY <1>1, <2>1, <2>2 DEF At, UploadStates, Live, Active
<1>3. CASE Hash(u)
  <2>1. PICK h : up' = [up EXCEPT ![u] = [pc |-> "hashed", source |-> @.source, hash |-> h]]
    BY <1>3 DEF Hash
  <2>2. At(u, "written") /\ UNCHANGED <<disk, rows, remover, clean, library, exposed>>
    BY <1>3 DEF Hash, history
  <2>3. u \notin rows
    BY <2>2 DEF BytesInv, At
  <2>q. QED
    BY <1>0, <2>1, <2>2, <2>3 DEF At, UpRecord, Live, Active
<1>4. CASE CheckDuplicate(u)
  <2>1. /\ Step(u, "duplicate") \/ Step(u, "checked")
        /\ At(u, "hashed") /\ UNCHANGED <<disk, rows, remover, clean, library, exposed>>
    BY <1>4 DEF CheckDuplicate
  <2>2. u \notin rows
    BY <2>1 DEF BytesInv, At
  <2>q. QED
    BY <1>1, <2>1, <2>2 DEF At, UploadStates, Live, Active
<1>5. CASE AddRow(u)
  <2>1. /\ Step(u, "added") /\ At(u, "checked") /\ rows' = rows \cup {u}
        /\ UNCHANGED <<disk, remover, clean, library, exposed>>
    BY <1>5 DEF AddRow, history
  <2>q. QED
    BY <1>1, <2>1 DEF At, UploadStates, Live, Active
<1>6. CASE SetInfos(u)
  <2>1. /\ Step(u, "done") /\ At(u, "added")
        /\ UNCHANGED <<disk, rows, remover, clean, library, exposed>>
    BY <1>6 DEF SetInfos, history
  <2>q. QED
    BY <1>1, <2>1 DEF At, UploadStates, Live, Active
<1>7. CASE UploadFails(u)
  <2>1. /\ Step(u, "failed") /\ Active(u)
        /\ UNCHANGED <<disk, rows, remover, clean, library, exposed>>
    BY <1>7 DEF UploadFails, history
  <2>2. At(u, "chosen") => u \notin rows
    BY DEF BytesInv, At
  <2>q. QED
    BY <1>1, <2>1, <2>2 DEF At, UploadStates, Live, Active
<1>q. QED
  BY <1>2, <1>3, <1>4, <1>5, <1>6, <1>7 DEF Goes

LEMMA GoesFiles ==
  ASSUME FInv, NEW u \in Uploads, Goes(u)
  PROVE  FilesInv'
<1>1. /\ UNCHANGED <<disk, remover, clean, library, exposed>>
      /\ \A v \in Uploads : up'[v].source = up[v].source
      /\ \A v \in Uploads : Live(v)' => Live(v) /\ (At(v, "chosen")' <=> At(v, "chosen"))
  BY GoesFacts DEF Live, Active, At
<1>2. /\ \A v \in Uploads : Untouched(v)' => Untouched(v)
      /\ PairInv' /\ FileInv'
  BY <1>1, UntouchedStay
<1>3. BytesInv'
  <2>1. \A v \in rows' : up'[v].pc \in {"added", "done", "failed"}
    <3>1. rows' \subseteq Uploads
      BY UploadType DEF FInv, IInv, Goes, Upload, TypeOK
    <3>q. QED
      BY <3>1, GoesFacts DEF BytesInv, FInv, FilesInv
  <2>2. ASSUME NEW p \in Paths, disk[p] # None, NEW v \in disk[p]
        PROVE  up'[v].source = p /\ up'[v].pc \notin {"idle", "chosen"}
    <3>1. v \in Uploads
      BY <2>2 DEF FInv, IInv, TypeOK
    <3>q. QED
      BY <2>2, <3>1, GoesFacts DEF BytesInv, FInv, FilesInv
  <2>q. QED
    BY <1>1, <2>1, <2>2 DEF BytesInv
<1>4. HandInv'
  <2>1. InHand' = InHand
    BY <1>1, SourcesStay
  <2>q. QED
    BY <1>1, <1>2, <2>1 DEF HandInv, FInv, FilesInv
<1>5. CleanInv'
  BY <1>1, <1>2 DEF CleanInv, Cleaning, FInv, FilesInv
<1>6. ContentInv'
  <2>1. library.listed \subseteq Uploads
    BY DEF FInv, IInv, TypeOK
  <2>q. QED
    BY <1>1, <2>1, GoesFacts DEF ContentInv, Removing, HasRow, FInv, FilesInv
<1>q. QED
  BY <1>2, <1>3, <1>4, <1>5, <1>6 DEF FilesInv

\* A path is chosen that has no file, nobody who goes by it is untouched after, and the
\* upload is not either if there is anyone, a removal has hold of it or files are listed.
LEMMA ChooseFiles ==
  ASSUME FInv, NEW u \in Uploads, Choose(u)
  PROVE  FilesInv'
<1> USE DEF FInv, FilesInv
<1>1. PICK p \in Paths :
        /\ disk[p] = None
        /\ up' = [up EXCEPT ![u] = [pc |-> "chosen", source |-> p, hash |-> None]]
        /\ exposed' = exposed \cup Rivals(p) \cup
             IF Rivals(p) # {} \/ p \in InHand \/ Cleaning THEN {u} ELSE {}
  BY DEF Choose
<1>2. At(u, "idle") /\ UNCHANGED <<disk, rows, remover, clean, library>>
  BY DEF Choose
<1>3. /\ up'[u].pc = "chosen" /\ up'[u].source = p
      /\ \A v \in Uploads : v # u => up'[v] = up[v]
  BY <1>1 DEF IInv, TypeOK
<1>4. u \notin rows /\ ~Live(u)
  BY <1>2 DEF BytesInv, At, Live, Active
<1>5. \A v \in Uploads : v # u => (Live(v)' <=> Live(v)) /\ (Untouched(v)' => Untouched(v) /\ v \notin Rivals(p))
  BY <1>1, <1>2, <1>3 DEF Live, Active, Untouched, At
<1>6. \A v \in Uploads : v # u /\ Untouched(v)' => up[v].source # p
  BY <1>5 DEF Rivals, Live, Untouched
<1>7. Untouched(u)' => Rivals(p) = {} /\ p \notin InHand /\ ~Cleaning
  BY <1>1 DEF Untouched
<1>8. BytesInv'
  <2>1. rows \subseteq Uploads
    BY DEF IInv, TypeOK
  <2>2. ASSUME NEW q \in Paths, disk[q] # None, NEW v \in disk[q]
        PROVE  up'[v].source = q /\ up'[v].pc \notin {"idle", "chosen"}
    <3>1. v \in Uploads
      BY <2>2 DEF IInv, TypeOK
    <3>q. QED
      BY <1>2, <1>3, <2>2, <3>1 DEF BytesInv, At
  <2>q. QED
    BY <1>2, <1>3, <1>4, <2>1, <2>2 DEF BytesInv
<1>9. PairInv'
  <2>1. ASSUME NEW v \in Uploads, NEW w \in Uploads, Untouched(v)', Live(w)', up'[v].source = up'[w].source
        PROVE  v = w
    <3>1. CASE v # u /\ w # u
      BY <1>3, <1>5, <2>1, <3>1 DEF PairInv
    <3>2. CASE v # u /\ w = u
      BY <1>3, <1>6, <2>1, <3>2
    <3>3. CASE v = u /\ w # u
      <4>1. Live(w) /\ up[w].source = p
        BY <1>3, <1>5, <2>1, <3>3
      <4>q. QED
        BY <1>7, <2>1, <3>3, <4>1 DEF Rivals, Live
    <3>q. QED
      BY <3>1, <3>2, <3>3
  <2>q. QED
    BY <2>1 DEF PairInv
<1>10. FileInv'
  BY <1>1, <1>2, <1>3, <1>5 DEF FileInv, At
<1>11. HandInv'
  <2>1. InHand' = InHand
    BY <1>2, <1>3, SourcesStay DEF At
  <2>q. QED
    BY <1>3, <1>5, <1>7, <2>1 DEF HandInv
<1>12. CleanInv'
  BY <1>2, <1>3, <1>5, <1>7 DEF CleanInv, Cleaning
<1>13. ContentInv'
  <2>1. library.listed \subseteq Uploads
    BY DEF IInv, TypeOK
  <2>q. QED
    BY <1>2, <1>3, <2>1 DEF ContentInv, Removing, HasRow, At
<1>q. QED
  BY <1>8, <1>9, <1>10, <1>11, <1>12, <1>13

\* What is opened is new if the upload is untouched, and no untouched one's if it is not.
LEMMA OpenFiles ==
  ASSUME FInv, NEW u \in Uploads, Open(u)
  PROVE  FilesInv'
<1> USE DEF FInv, FilesInv
<1> DEFINE p == up[u].source
           new == {u} \cup IF disk[p] = None THEN {} ELSE {v \in disk[p] : At(v, "writing")}
<1>1. /\ At(u, "chosen") /\ disk' = [disk EXCEPT ![p] = new]
      /\ Step(u, "writing") /\ UNCHANGED <<rows, remover, clean, library, exposed>>
  BY DEF Open, history
<1>2. /\ up'[u].pc = "writing" /\ up'[u].source = p
      /\ \A v \in Uploads : v # u => up'[v] = up[v]
  BY <1>1, StepFacts DEF IInv, UploadStates
<1>3. p \in Paths /\ Live(u)
  BY <1>1 DEF IInv, SourceInv, At, Live, Active
<1>4. u \notin rows
  BY <1>1 DEF BytesInv, At
<1>5. /\ disk'[p] = new /\ \A q \in Paths : q # p => disk'[q] = disk[q]
      /\ disk[p] # None => new \subseteq disk[p] \cup {u}
  BY <1>1, <1>3 DEF IInv, TypeOK
<1> HIDE DEF new, p
<1>6. \A v \in Uploads : (Live(v)' <=> Live(v)) /\ (Untouched(v)' <=> Untouched(v))
  BY <1>1, <1>2, <1>3 DEF Live, Active, Untouched, At
<1>7. \A v \in Uploads : up'[v].source = up[v].source
  BY <1>2 DEF p
<1>8. BytesInv'
  <2>1. rows \subseteq Uploads
    BY DEF IInv, TypeOK
  <2>2. ASSUME NEW q \in Paths, disk'[q] # None, NEW v \in disk'[q]
        PROVE  up'[v].source = q /\ up'[v].pc \notin {"idle", "chosen"}
    <3>1. CASE q = p /\ v = u
      BY <1>2, <3>1
    <3>2. CASE q = p /\ v # u
      <4>1. disk[p] # None /\ v \in disk[p]
        BY <1>5, <2>2, <3>2 DEF new
      <4>2. v \in Uploads
        BY <1>3, <4>1 DEF IInv, TypeOK
      <4>q. QED
        BY <1>2, <1>3, <3>2, <4>1, <4>2 DEF BytesInv
    <3>3. CASE q # p
      <4>1. disk[q] # None /\ v \in disk[q]
        BY <1>5, <2>2, <3>3
      <4>2. v \in Uploads
        BY <4>1 DEF IInv, TypeOK
      <4>q. QED
        BY <1>2, <2>2, <3>3, <4>1, <4>2 DEF BytesInv, p
    <3>q. QED
      BY <3>1, <3>2, <3>3
  <2>q. QED
    BY <1>1, <1>2, <1>4, <2>1, <2>2 DEF BytesInv
<1>9. PairInv'
  BY <1>6, <1>7 DEF PairInv
<1>10. FileInv'
  <2>1. ASSUME NEW v \in Uploads, Untouched(v), v # u
        PROVE  up[v].source \in Paths /\ up[v].source # p
    BY <1>3, <2>1, LiveFacts DEF PairInv, Untouched, p
  <2>2. Untouched(u) => disk[p] = None
    BY <1>1 DEF FileInv, p
  <2>3. Untouched(u) => new = {u}
    BY <2>2 DEF new
  <2>4. ASSUME NEW v \in Uploads, Untouched(v)
        PROVE  disk'[up[v].source] = IF up'[v].pc = "chosen" THEN None ELSE {v}
    <3>1. CASE v = u
      BY <1>2, <1>5, <2>3, <2>4, <3>1 DEF p
    <3>2. CASE v # u
      BY <1>2, <1>5, <2>1, <2>4, <3>2 DEF FileInv, At
    <3>q. QED
      BY <3>1, <3>2
  <2>q. QED
    BY <1>6, <1>7, <2>4 DEF FileInv, At
<1>11. HandInv'
  <2>1. InHand' = InHand
    BY <1>1, <1>7, SourcesStay
  <2>q. QED
    BY <1>6, <1>7, <2>1 DEF HandInv
<1>12. CleanInv'
  BY <1>1, <1>6, <1>7 DEF CleanInv, Cleaning
<1>13. ContentInv'
  <2>1. library.listed \subseteq Uploads
    BY DEF IInv, TypeOK
  <2>2. Removing => \A v \in library.listed : v # u
    BY <1>1 DEF ContentInv, At
  <2>3. ASSUME NEW v \in Uploads, v # u, NEW q \in Paths, disk'[q] # None, v \in disk'[q]
        PROVE  disk[q] # None /\ v \in disk[q]
    <3>1. CASE q = p
      BY <1>5, <2>3, <3>1 DEF new
    <3>2. CASE q # p
      BY <1>5, <2>3, <3>2
    <3>q. QED
      BY <3>1, <3>2
  <2>q. QED
    BY <1>1, <1>2, <2>1, <2>2, <2>3 DEF ContentInv, Removing, HasRow
<1>q. QED
  BY <1>8, <1>9, <1>10, <1>11, <1>12, <1>13

\* Files that go are no untouched upload's, whoever removes them and whatever they are.
LEMMA Emptied ==
  ASSUME TypeOK, NEW p \in Paths, Unlink(p)
  PROVE  disk'[p] = None /\ \A q \in Paths : q # p => disk'[q] = disk[q]
  BY DEF Unlink, TypeOK

LEMMA UnlinkFiles ==
  ASSUME FInv,
         \A q \in Paths : disk'[q] # disk[q] =>
           disk'[q] = None /\ \A v \in Uploads : Untouched(v)' => up[v].source # q,
         \A v \in Uploads : up'[v].source = up[v].source \/ ~Live(v)',
         \A v \in Uploads : Live(v)' => Live(v) /\ (At(v, "chosen")' <=> At(v, "chosen")),
         exposed \subseteq exposed'
  PROVE  /\ \A v \in Uploads : Untouched(v)' => Untouched(v)
         /\ \A q \in Paths : disk'[q] # None => disk'[q] = disk[q]
         /\ PairInv' /\ FileInv'
<1>1. \A v \in Uploads : Untouched(v)' => disk'[up[v].source] = disk[up[v].source]
  <2>1. \A v \in Uploads : Untouched(v)' => up[v].source \in Paths
    BY LiveFacts DEF Untouched
  <2>q. QED
    BY <2>1
<1>2. /\ \A v \in Uploads : Untouched(v)' => Untouched(v)
      /\ PairInv' /\ FileInv'
  BY <1>1, UntouchedStay
<1>q. QED
  BY <1>2

LEMMA RemoveDuplicateFiles ==
  ASSUME FInv, NEW u \in Uploads, RemoveDuplicate(u)
  PROVE  FilesInv'
<1> USE DEF FInv, FilesInv
<1> DEFINE p == up[u].source
<1>1. /\ At(u, "duplicate") /\ Unlink(p)
      /\ Step(u, "refused") /\ UNCHANGED <<rows, remover, clean, library, exposed>>
  BY DEF RemoveDuplicate, history
<1>2. /\ up'[u].pc = "refused" /\ up'[u].source = p
      /\ \A v \in Uploads : v # u => up'[v] = up[v]
  BY <1>1, StepFacts DEF IInv, UploadStates
<1>3. p \in Paths /\ Live(u)
  BY <1>1 DEF IInv, SourceInv, At, Live, Active
<1>4. u \notin rows
  BY <1>1 DEF BytesInv, At
<1>5. \A v \in Uploads : up'[v].source = up[v].source
  BY <1>2
<1>6. \A v \in Uploads : Live(v)' => v # u /\ Live(v) /\ (At(v, "chosen")' <=> At(v, "chosen"))
  BY <1>1, <1>2, <1>4 DEF Live, Active, At
<1>7. \A v \in Uploads : Untouched(v)' => up[v].source # p
  BY <1>1, <1>3, <1>6 DEF PairInv, Untouched
<1>8. /\ \A v \in Uploads : Untouched(v)' => Untouched(v)
      /\ \A q \in Paths : disk'[q] # None => disk'[q] = disk[q]
      /\ PairInv' /\ FileInv'
  <2>1. /\ disk'[p] = None /\ \A q \in Paths : q # p => disk'[q] = disk[q]
        /\ exposed \subseteq exposed'
    BY <1>1, <1>3, Emptied DEF IInv
  <2>q. QED
    BY <1>5, <1>6, <1>7, <2>1, UnlinkFiles
<1> HIDE DEF p
<1>9. BytesInv'
  <2>1. rows \subseteq Uploads
    BY DEF IInv, TypeOK
  <2>2. ASSUME NEW q \in Paths, disk'[q] # None, NEW v \in disk'[q]
        PROVE  up'[v].source = q /\ up'[v].pc \notin {"idle", "chosen"}
    <3>1. disk[q] # None /\ v \in disk[q]
      BY <1>8, <2>2
    <3>2. v \in Uploads
      BY <3>1 DEF IInv, TypeOK
    <3>q. QED
      BY <1>2, <1>5, <2>2, <3>1, <3>2 DEF BytesInv
  <2>q. QED
    BY <1>1, <1>2, <1>4, <2>1, <2>2 DEF BytesInv
<1>10. HandInv'
  <2>1. InHand' = InHand
    BY <1>1, <1>5, SourcesStay
  <2>q. QED
    BY <1>5, <1>8, <2>1 DEF HandInv
<1>11. CleanInv'
  BY <1>1, <1>5, <1>8 DEF CleanInv, Cleaning
<1>12. ContentInv'
  <2>1. library.listed \subseteq Uploads
    BY DEF IInv, TypeOK
  <2>2. Removing => u \notin library.listed
    BY <1>1 DEF ContentInv, At
  <2>q. QED
    BY <1>1, <1>2, <1>8, <2>1, <2>2 DEF ContentInv, Removing, HasRow
<1>q. QED
  BY <1>8, <1>9, <1>10, <1>11, <1>12

\* The other requests leave the uploads as they are; what is untouched after them was so.
LEMMA OthersKeep ==
  ASSUME FInv, (\E r \in Removers : Removal(r)) \/ Clean \/ RemoveLibrary
  PROVE  /\ UNCHANGED up /\ rows' \subseteq rows /\ exposed \subseteq exposed'
         /\ \A v \in Uploads : Live(v)' => Live(v) /\ (At(v, "chosen")' <=> At(v, "chosen"))
         /\ \A v \in Uploads : Untouched(v)' => Untouched(v)
<1>1. UNCHANGED up /\ rows' \subseteq rows
  BY OthersLeave DEF FInv
<1>2. exposed \subseteq exposed'
  BY DEF Removal, ReadSource, RemoveFile, RemoveRow, RemovalStops, Clean, ListSources, Walk, Trash,
     CleanEnds, RemoveLibrary, RequestRemoval, ListTracked, RemoveTracked, LibraryRemovalFails,
     DropLibrary, CloseStore, RemoveDatabase, history
<1>3. \A v \in Uploads : Live(v)' => Live(v) /\ (At(v, "chosen")' <=> At(v, "chosen"))
  BY <1>1 DEF Live, Active, At
<1>q. QED
  BY <1>1, <1>2, <1>3 DEF Untouched

\* Where bytes are, when no untouched one's go.
LEMMA OthersFiles ==
  ASSUME FInv, (\E r \in Removers : Removal(r)) \/ Clean \/ RemoveLibrary,
         \A q \in Paths : disk'[q] # disk[q] =>
           disk'[q] = None /\ \A v \in Uploads : Untouched(v)' => up[v].source # q
  PROVE  /\ BytesInv' /\ PairInv' /\ FileInv'
         /\ \A q \in Paths : disk'[q] # None => disk'[q] = disk[q]
<1> USE DEF FInv, FilesInv
<1>1. /\ UNCHANGED up /\ rows' \subseteq rows /\ exposed \subseteq exposed'
      /\ \A v \in Uploads : Live(v)' => Live(v) /\ (At(v, "chosen")' <=> At(v, "chosen"))
  BY OthersKeep
<1>2. \A v \in Uploads : up'[v].source = up[v].source
  BY <1>1
<1>3. /\ PairInv' /\ FileInv'
      /\ \A q \in Paths : disk'[q] # None => disk'[q] = disk[q]
  BY <1>1, <1>2, UnlinkFiles
<1>4. BytesInv'
  BY <1>1, <1>3 DEF BytesInv
<1>q. QED
  BY <1>3, <1>4

\* A removal reads the source of a media, which is touched from then on.
LEMMA RemovalFiles ==
  ASSUME FInv, NEW r \in Removers, Removal(r)
  PROVE  FilesInv'
<1> USE DEF FInv, FilesInv
<1>1. /\ UNCHANGED up /\ rows' \subseteq rows
      /\ \A v \in Uploads : Untouched(v)' => Untouched(v)
  BY OthersKeep
<1>2. UNCHANGED <<clean, library>>
  BY DEF Removal, ReadSource, RemoveFile, RemoveRow, RemovalStops, history
<1>3. \A q \in Paths : disk'[q] # disk[q] =>
        disk'[q] = None /\ \A v \in Uploads : Untouched(v)' => up[v].source # q
  <2>1. CASE RemoveFile(r)
    <3> DEFINE p == up[remover[r].media].source
    <3>1. remover[r].pc = "source" /\ (Unlink(p) \/ UNCHANGED disk)
      BY <2>1 DEF RemoveFile
    <3>2. p \in Paths
      BY <3>1 DEF IInv, SourceInv
    <3>3. p \in InHand
      BY <3>1, InHandFacts
    <3>4. \A v \in Uploads : Untouched(v)' => up[v].source # p
      BY <1>1, <3>3 DEF HandInv
    <3> HIDE DEF p
    <3>q. QED
      BY <3>1, <3>2, <3>4, Emptied DEF IInv
  <2>q. QED
    BY <2>1 DEF Removal, ReadSource, RemoveRow, RemovalStops
<1>4. /\ BytesInv' /\ PairInv' /\ FileInv'
      /\ \A q \in Paths : disk'[q] # None => disk'[q] = disk[q]
  BY <1>3, OthersFiles
<1>5. HandInv'
  <2>1. ASSUME NEW v \in Uploads, Untouched(v)', NEW q \in Removers, remover'[q].pc = "source"
        PROVE  up[remover'[q].media].source # up[v].source
    <3>1. CASE q = r /\ ReadSource(r)
      <4>1. PICK u \in rows : remover' = [remover EXCEPT ![r] = [pc |-> "source", media |-> u]]
                             /\ exposed' = exposed \cup {u} /\ rows' = rows
        BY <3>1 DEF ReadSource
      <4>2. remover'[q].media = u /\ u \in Uploads
        BY <3>1, <4>1 DEF IInv, TypeOK
      <4>3. Live(u) /\ v # u
        BY <2>1, <4>1 DEF Live, Untouched
      <4>q. QED
        BY <1>1, <2>1, <4>2, <4>3 DEF PairInv
    <3>2. CASE ~(q = r /\ ReadSource(r))
      <4>1. remover'[q] = remover[q]
        BY <2>1, <3>2 DEF Removal, ReadSource, RemoveFile, RemoveRow, RemovalStops, IInv, TypeOK
      <4>2. up[remover[q].media].source \in InHand
        BY <2>1, <4>1, InHandFacts
      <4>q. QED
        BY <1>1, <2>1, <4>1, <4>2 DEF HandInv
    <3>q. QED
      BY <3>1, <3>2
  <2>2. ASSUME NEW v \in Uploads, Untouched(v)'
        PROVE  up[v].source \notin library.todo
    BY <1>1, <2>2, InHandFacts DEF HandInv
  <2>3. ASSUME NEW v \in Uploads, Untouched(v)' PROVE up'[v].source \notin InHand'
    BY <1>1, <1>2, <2>1, <2>2, <2>3 DEF InHand
  <2>q. QED
    BY <2>3 DEF HandInv
<1>6. CleanInv'
  BY <1>1, <1>2 DEF CleanInv, Cleaning
<1>7. ContentInv'
  BY <1>1, <1>2, <1>4 DEF ContentInv, Removing, HasRow
<1>q. QED
  BY <1>4, <1>5, <1>6, <1>7

\* The sources a cleaning knows are those of every row there is, and who has none yet
\* and a path is touched from then on.
LEMMA CleanFiles == FInv /\ Clean => FilesInv'
<1> SUFFICES ASSUME FInv, Clean PROVE FilesInv'
  OBVIOUS
<1> USE DEF FInv, FilesInv
<1>1. /\ UNCHANGED up /\ rows' \subseteq rows
      /\ \A v \in Uploads : Untouched(v)' => Untouched(v)
  BY OthersKeep
<1>2. UNCHANGED <<remover, library>>
  BY DEF Clean, ListSources, Walk, Trash, CleanEnds, history
<1>3. \A q \in Paths : disk'[q] # disk[q] =>
        disk'[q] = None /\ \A v \in Uploads : Untouched(v)' => up[v].source # q
  <2>1. CASE UNCHANGED disk
    BY <2>1
  <2>2. CASE ~UNCHANGED disk
    <3>1. PICK p \in Paths : Trash(p)
      BY <2>2 DEF Clean, ListSources, Walk, CleanEnds
    <3>2. clean.pc = "walked" /\ p \in clean.found /\ Unlink(p)
      BY <3>1 DEF Trash
    <3>3. \A v \in Uploads : Untouched(v)' => up[v].source # p
      BY <1>1, <3>2 DEF CleanInv, Cleaning
    <3>q. QED
      BY <3>2, <3>3, Emptied DEF IInv
  <2>q. QED
    BY <2>1, <2>2
<1>4. /\ BytesInv' /\ PairInv' /\ FileInv'
      /\ \A q \in Paths : disk'[q] # None => disk'[q] = disk[q]
  BY <1>3, OthersFiles
<1>5. HandInv'
  <2>1. InHand' = InHand
    BY <1>1, <1>2, SourcesStay
  <2>q. QED
    BY <1>1, <2>1 DEF HandInv
<1>6. CleanInv'
  <2>1. CASE ListSources
    <3>1. /\ clean' = [clean EXCEPT !.pc = "listed", !.known = Sources] /\ rows' = rows
          /\ exposed' = exposed \cup {u \in Uploads \ rows : Active(u)}
      BY <2>1 DEF ListSources
    <3>2. clean'.pc = "listed" /\ clean'.known = Sources
      BY <3>1 DEF IInv, TypeOK
    <3>3. ASSUME NEW v \in Uploads, Untouched(v)' PROVE up[v].source \in Sources
      <4>1. v \in rows
        BY <1>1, <3>1, <3>3 DEF Untouched, Live, Active
      <4>q. QED
        BY <4>1 DEF Sources
    <3>q. QED
      BY <1>1, <3>2, <3>3 DEF CleanInv
  <2>2. CASE Walk
    <3>1. /\ clean.pc = "listed" /\ clean'.known = clean.known
          /\ clean'.found = {p \in Paths : disk[p] # None} \ clean.known
      BY <2>2 DEF Walk, IInv, TypeOK
    <3>q. QED
      BY <1>1, <3>1 DEF CleanInv, Cleaning
  <2>3. ASSUME NEW p \in Paths, Trash(p) PROVE CleanInv'
    <3>1. clean'.pc = clean.pc /\ clean'.known = clean.known /\ clean'.found \subseteq clean.found
      BY <2>3 DEF Trash, IInv, TypeOK
    <3>q. QED
      BY <1>1, <3>1 DEF CleanInv, Cleaning
  <2>4. CASE CleanEnds
    <3>1. clean'.pc = "done"
      BY <2>4 DEF CleanEnds, IInv, TypeOK
    <3>q. QED
      BY <3>1 DEF CleanInv, Cleaning
  <2>q. QED
    BY <2>1, <2>2, <2>3, <2>4 DEF Clean
<1>7. ContentInv'
  BY <1>1, <1>2, <1>4 DEF ContentInv, Removing, HasRow
<1>q. QED
  BY <1>4, <1>5, <1>6, <1>7

\* The removal of the library has hold of the paths of the medias there were, which are
\* touched from then on.
LEMMA LibraryFiles == FInv /\ RemoveLibrary => FilesInv'
<1> SUFFICES ASSUME FInv, RemoveLibrary PROVE FilesInv'
  OBVIOUS
<1> USE DEF FInv, FilesInv
<1>1. /\ UNCHANGED up /\ rows' \subseteq rows
      /\ \A v \in Uploads : Untouched(v)' => Untouched(v)
  BY OthersKeep
<1>2. UNCHANGED <<remover, clean>>
  BY DEF RemoveLibrary, RequestRemoval, ListTracked, RemoveTracked, LibraryRemovalFails, DropLibrary,
     CloseStore, RemoveDatabase, history
<1>3. \A q \in Paths : disk'[q] # disk[q] =>
        disk'[q] = None /\ \A v \in Uploads : Untouched(v)' => up[v].source # q
  <2>1. CASE UNCHANGED disk
    BY <2>1
  <2>2. CASE ~UNCHANGED disk
    <3>1. PICK p \in Paths : RemoveTracked(p)
      BY <2>2 DEF RemoveLibrary, RequestRemoval, ListTracked, LibraryRemovalFails, DropLibrary,
         CloseStore, RemoveDatabase
    <3>2. p \in library.todo /\ Unlink(p)
      BY <3>1 DEF RemoveTracked
    <3>3. \A v \in Uploads : Untouched(v)' => up[v].source # p
      BY <1>1, <3>2, InHandFacts DEF HandInv
    <3>q. QED
      BY <3>2, <3>3, Emptied DEF IInv
  <2>q. QED
    BY <2>1, <2>2
<1>4. /\ BytesInv' /\ PairInv' /\ FileInv'
      /\ \A q \in Paths : disk'[q] # None => disk'[q] = disk[q]
  BY <1>3, OthersFiles
<1>5. HandInv' /\ ContentInv'
  <2>1. CASE ListTracked
    <3>1. /\ library' = [library EXCEPT !.pc = "removing", !.todo = Sources, !.listed = rows]
          /\ exposed' = exposed \cup rows /\ UNCHANGED <<disk, rows>>
      BY <2>1 DEF ListTracked
    <3>2. library'.pc = "removing" /\ library'.todo = Sources /\ library'.listed = rows
      BY <3>1 DEF IInv, TypeOK
    <3>3. rows \subseteq Uploads
      BY DEF IInv, TypeOK
    <3>4. ASSUME NEW v \in Uploads, Untouched(v)' PROVE up[v].source \notin Sources
      <4>1. v \notin rows /\ Untouched(v)
        BY <1>1, <3>1, <3>4 DEF Untouched
      <4>2. \A u \in rows : Live(u)
        BY DEF Live
      <4>q. QED
        BY <3>3, <4>1, <4>2 DEF PairInv, Sources
    <3>5. HandInv'
      <4>1. ASSUME NEW v \in Uploads, Untouched(v)', NEW q \in Removers, remover[q].pc = "source"
            PROVE  up[remover[q].media].source # up[v].source
        BY <1>1, <4>1, InHandFacts DEF HandInv
      <4>2. ASSUME NEW v \in Uploads, Untouched(v)' PROVE up'[v].source \notin InHand'
        BY <1>1, <1>2, <3>2, <3>4, <4>1, <4>2 DEF InHand
      <4>q. QED
        BY <4>2 DEF HandInv
    <3>6. ContentInv'
      <4>1. ASSUME NEW u \in rows, NEW p \in Paths, disk[p] # None, u \in disk[p]
            PROVE  p \in Sources
        BY <4>1 DEF BytesInv, Sources
      <4>q. QED
        BY <1>1, <3>1, <3>2, <4>1 DEF ContentInv, Removing, HasRow, BytesInv
    <3>q. QED
      BY <3>5, <3>6
  <2>2. ASSUME library'.todo \subseteq library.todo PROVE HandInv'
    <3>1. ASSUME NEW v \in Uploads, Untouched(v)', NEW q \in Removers, remover[q].pc = "source"
          PROVE  up[remover[q].media].source # up[v].source
      BY <1>1, <3>1, InHandFacts DEF HandInv
    <3>2. ASSUME NEW v \in Uploads, Untouched(v)' PROVE up[v].source \notin library.todo
      BY <1>1, <3>2, InHandFacts DEF HandInv
    <3>3. ASSUME NEW v \in Uploads, Untouched(v)' PROVE up'[v].source \notin InHand'
      BY <1>1, <1>2, <2>2, <3>1, <3>2, <3>3 DEF InHand
    <3>q. QED
      BY <3>3 DEF HandInv
  <2>3. CASE RequestRemoval
    <3>1. /\ library.pc = "present" /\ library'.pc = "started" /\ library'.todo = library.todo
      BY <2>3 DEF RequestRemoval, IInv, TypeOK
    <3>q. QED
      BY <2>2, <3>1 DEF ContentInv, Removing, HasRow
  <2>4. ASSUME NEW p \in Paths, RemoveTracked(p) PROVE HandInv' /\ ContentInv'
    <3>1. /\ library.pc = "removing" /\ library'.pc = "removing" /\ library'.listed = library.listed
          /\ library'.content = library.content /\ library'.todo = library.todo \ {p} /\ Unlink(p)
      BY <2>4 DEF RemoveTracked, IInv, TypeOK
    <3>2. disk'[p] = None
      BY <3>1, Emptied DEF IInv
    <3>q. QED
      BY <1>1, <1>4, <2>2, <3>1, <3>2 DEF ContentInv, Removing, HasRow
  <2>5. CASE LibraryRemovalFails
    <3>1. library'.pc = "present" /\ library'.todo = {} /\ ~library'.content
      BY <2>5 DEF LibraryRemovalFails
    <3>q. QED
      BY <2>2, <3>1 DEF ContentInv, Removing, HasRow
  <2>6. CASE DropLibrary
    <3>1. /\ (library.pc = "started" /\ ~library.content) \/ (library.pc = "removing" /\ library.todo = {})
          /\ library'.pc = "dropped" /\ library'.listed = library.listed
          /\ library'.content = library.content /\ library'.todo = library.todo /\ UNCHANGED disk
      BY <2>6 DEF DropLibrary, IInv, TypeOK
    <3>q. QED
      BY <1>1, <2>2, <3>1 DEF ContentInv, Removing, HasRow
  <2>7. CASE CloseStore \/ RemoveDatabase
    <3>1. /\ library.pc \in {"dropped", "closed"} /\ library'.pc \in {"closed", "gone"}
          /\ library'.listed = library.listed
          /\ library'.content = library.content /\ library'.todo = library.todo /\ UNCHANGED disk
      BY <2>7 DEF CloseStore, RemoveDatabase, IInv, TypeOK
    <3>q. QED
      BY <1>1, <2>2, <3>1 DEF ContentInv, Removing, HasRow
  <2>q. QED
    BY <2>1, <2>3, <2>4, <2>5, <2>6, <2>7 DEF RemoveLibrary
<1>6. CleanInv'
  BY <1>1, <1>2 DEF CleanInv, Cleaning
<1>q. QED
  BY <1>4, <1>5, <1>6

-----------------------------------------------------------------------------
LEMMA FilesInit == Init => FilesInv
<1> SUFFICES ASSUME Init PROVE FilesInv
  OBVIOUS
<1>1. \A u \in Uploads : ~Live(u)
  BY DEF Init, Live, Active
<1>2. BytesInv /\ PairInv /\ FileInv /\ HandInv
  BY <1>1 DEF Init, BytesInv, PairInv, FileInv, HandInv, Untouched
<1>3. CleanInv /\ ContentInv
  BY DEF Init, CleanInv, Cleaning, ContentInv, Removing, HasRow
<1>q. QED
  BY <1>2, <1>3 DEF FilesInv

LEMMA FilesNext == FInv /\ [Next]_vars => FilesInv'
<1> SUFFICES ASSUME FInv, [Next]_vars PROVE FilesInv'
  OBVIOUS
<1>1. ASSUME NEW u \in Uploads, Upload(u) PROVE FilesInv'
  BY <1>1, ChooseFiles, OpenFiles, RemoveDuplicateFiles, GoesFiles DEF Upload, Goes
<1>2. CASE (\E r \in Removers : Removal(r)) \/ Clean \/ RemoveLibrary
  BY <1>2, RemovalFiles, CleanFiles, LibraryFiles
<1>3. CASE UNCHANGED vars
  BY <1>3 DEF vars, FInv, FilesInv, BytesInv, PairInv, FileInv, HandInv, InHand, CleanInv, Cleaning,
     ContentInv, Removing, HasRow, Untouched, Live, Active, At
<1>q. QED
  BY <1>1, <1>2, <1>3 DEF Next

\* However many uploads, removals and cleanings run, the file of a media holds its
\* bytes and no other's, unless another request could act on its path when the upload
\* chose it, or a removal or a cleaning met the upload.
THEOREM FileKeptCorrect == Spec => []FileKept
<1>1. Init => FInv
  BY InitInv, FilesInit DEF FInv
<1>2. FInv /\ [Next]_vars => FInv'
  BY NextInv, FilesNext DEF FInv
<1>3. FInv => FileKept
  BY DEF FInv, IInv, TypeOK, FilesInv, FileInv, BytesInv, FileKept, Untouched, Live, At
<1>q. QED
  BY <1>1, <1>2, <1>3, PTL DEF Spec

\* The row of a library removed with its content goes only when no file of a media it
\* had is left, whatever is uploaded and removed meanwhile.
THEOREM ContentRemovedCorrect == Spec => []ContentRemoved
<1>1. Init => FInv
  BY InitInv, FilesInit DEF FInv
<1>2. FInv /\ [Next]_vars => FInv'
  BY NextInv, FilesNext DEF FInv
<1>3. FInv => ContentRemoved
  <2>1. ASSUME FInv, library.content, ~HasRow, NEW p \in Paths
        PROVE  disk[p] = None \/ disk[p] \cap library.listed = {}
    BY <2>1 DEF FInv, FilesInv, ContentInv, Removing, HasRow
  <2>q. QED
    BY <2>1 DEF ContentRemoved
<1>q. QED
  BY <1>1, <1>2, <1>3, PTL DEF Spec

-----------------------------------------------------------------------------
(* Stray files.                                                            *)

\* A removal is that of a media with a row; once it has tried the file, the bytes of the
\* media are nowhere but in files whose removal failed.
StrayInv ==
  /\ \A r \in Removers : remover[r].pc \in {"source", "file"} =>
       up[remover[r].media].pc \in {"added", "done", "failed"}
  /\ \A r \in Removers : remover[r].pc = "file" =>
       \A p \in Paths : disk[p] # None /\ remover[r].media \in disk[p] => p \in kept
  /\ NoStrayFile

\* What answers for a file.
Answers(u) == u \in rows \/ Active(u) \/ At(u, "failed")

\* A step that puts no bytes where there were none, and takes nobody's answer but from
\* an upload whose bytes are in files that could not be removed.
LEMMA AnswersStay ==
  ASSUME FInv, NoStrayFile,
         library.pc = "gone" => library'.pc = "gone",
         \A p \in Paths : disk'[p] # None => disk'[p] = disk[p],
         \A p \in Paths : disk'[p] # None /\ p \in kept => p \in kept',
         \A p \in Paths, u \in Uploads :
           disk'[p] # None /\ u \in disk[p] /\ Answers(u) => Answers(u)' \/ p \in kept'
  PROVE  NoStrayFile'
<1> SUFFICES ASSUME (library.pc # "gone")', NEW p \in Paths, disk'[p] # None, p \notin kept'
             PROVE  \E u \in disk'[p] : Answers(u)'
  BY DEF NoStrayFile, Answers
<1>1. disk'[p] = disk[p] /\ p \notin kept /\ library.pc # "gone"
  OBVIOUS
<1>2. PICK u \in disk[p] : Answers(u)
  BY <1>1 DEF NoStrayFile, Answers
<1>3. u \in Uploads
  BY <1>1, <1>2 DEF FInv, IInv, TypeOK
<1>q. QED
  BY <1>1, <1>2, <1>3

\* The removals, when the bytes of a media that one of them has tried stay where they are.
LEMMA TriedStay ==
  ASSUME FInv, StrayInv, UNCHANGED remover,
         \A u \in Uploads : up[u].pc \in {"added", "done", "failed"} =>
           up'[u].pc \in {"added", "done", "failed"},
         \A p \in Paths, u \in Uploads :
           /\ up[u].pc \in {"added", "done", "failed"}
           /\ disk'[p] # None /\ u \in disk'[p]
           => disk[p] # None /\ u \in disk[p] /\ (p \in kept => p \in kept')
  PROVE  /\ \A r \in Removers : remover'[r].pc \in {"source", "file"} =>
              up'[remover'[r].media].pc \in {"added", "done", "failed"}
         /\ \A r \in Removers : remover'[r].pc = "file" =>
              \A p \in Paths : disk'[p] # None /\ remover'[r].media \in disk'[p] => p \in kept'
<1>1. \A r \in Removers : remover[r].pc \in {"source", "file"} =>
        /\ remover[r].media \in Uploads
        /\ up[remover[r].media].pc \in {"added", "done", "failed"}
  BY DEF FInv, IInv, SourceInv, StrayInv
<1>2. \A r \in Removers : remover[r].pc = "file" =>
        \A p \in Paths : disk[p] # None /\ remover[r].media \in disk[p] => p \in kept
  BY DEF StrayInv
<1>3. \A r \in Removers : remover'[r].pc \in {"source", "file"} =>
        up'[remover'[r].media].pc \in {"added", "done", "failed"}
  BY <1>1
<1>4. ASSUME NEW r \in Removers, remover'[r].pc = "file",
             NEW p \in Paths, disk'[p] # None, remover'[r].media \in disk'[p]
      PROVE  p \in kept'
  <2> DEFINE u == remover[r].media
  <2>1. u \in Uploads /\ up[u].pc \in {"added", "done", "failed"} /\ u \in disk'[p]
    BY <1>1, <1>4
  <2> HIDE DEF u
  <2>2. disk[p] # None /\ u \in disk[p] /\ (p \in kept => p \in kept')
    BY <1>4, <2>1
  <2>3. p \in kept
    BY <1>2, <1>4, <2>2 DEF u
  <2>q. QED
    BY <2>2, <2>3
<1>q. QED
  BY <1>3, <1>4

\* Bytes that are removed leave every other file as it was, and kept as well.
LEMMA UnlinkLeaves ==
  ASSUME TypeOK, NEW p \in Paths, Unlink(p)
  PROVE  /\ \A q \in Paths : disk'[q] # None => disk'[q] = disk[q]
         /\ \A q \in Paths : disk'[q] # None /\ q \in kept => q \in kept'
<1>1. disk'[p] = None /\ \A q \in Paths : q # p => disk'[q] = disk[q]
  BY Emptied
<1>2. kept' = kept \ {p}
  BY DEF Unlink
<1>q. QED
  BY <1>1, <1>2

\* An upload answers for its file until it has a row, fails, or takes the file away.
LEMMA UploadStray ==
  ASSUME FInv, StrayInv, NEW u \in Uploads, Upload(u)
  PROVE  StrayInv'
<1>0. TypeOK /\ NoStrayFile
  BY DEF FInv, IInv, StrayInv
<1>a. \A p \in Paths : disk[p] # None => disk[p] \subseteq Uploads
  BY <1>0 DEF TypeOK
<1>b. \A p \in Paths : disk[p] # None => \A v \in disk[p] : up[v].source = p
  BY DEF FInv, FilesInv, BytesInv
<1>1. CASE Goes(u)
  <2>1. UNCHANGED <<disk, remover, library, kept>>
    BY <1>1 DEF Goes, Write, Hash, CheckDuplicate, AddRow, SetInfos, UploadFails, history
  <2>2. /\ \A v \in Uploads : v # u => up'[v] = up[v] /\ (v \in rows' <=> v \in rows)
        /\ up[u].pc \in {"added", "done", "failed"} => up'[u].pc \in {"added", "done", "failed"}
    BY <1>1, GoesFacts
  <2>3. Answers(u) => Answers(u)'
    <3>1. CASE SetInfos(u)
      BY <3>1 DEF SetInfos, Answers
    <3>2. CASE ~SetInfos(u)
      <4>1. up'[u].pc \in {"written", "hashed", "duplicate", "checked", "added", "failed"}
        <5>1. ASSUME NEW pc \in UploadStates, Step(u, pc) PROVE up'[u].pc = pc
          BY <1>0, <5>1, StepFacts
        <5>2. CASE Hash(u)
          BY <1>0, <5>2 DEF Hash, TypeOK
        <5>q. QED
          BY <1>1, <3>2, <5>1, <5>2
             DEF Goes, Write, CheckDuplicate, AddRow, UploadFails, UploadStates
      <4>q. QED
        BY <4>1 DEF Answers, Active, At
    <3>q. QED
      BY <3>1, <3>2
  <2>4. \A v \in Uploads : Answers(v) => Answers(v)'
    BY <2>2, <2>3 DEF Answers, Active, At
  <2>5. NoStrayFile'
    BY <1>0, <2>1, <2>4, AnswersStay
  <2>6. \A v \in Uploads : up[v].pc \in {"added", "done", "failed"} =>
          up'[v].pc \in {"added", "done", "failed"}
    BY <2>2
  <2>7. /\ \A r \in Removers : remover'[r].pc \in {"source", "file"} =>
             up'[remover'[r].media].pc \in {"added", "done", "failed"}
        /\ \A r \in Removers : remover'[r].pc = "file" =>
             \A p \in Paths : disk'[p] # None /\ remover'[r].media \in disk'[p] => p \in kept'
    BY <2>1, <2>6, TriedStay
  <2>q. QED
    BY <2>5, <2>7 DEF StrayInv
<1>2. CASE Choose(u)
  <2>1. UNCHANGED <<disk, rows, remover, library, kept>> /\ At(u, "idle")
    BY <1>2 DEF Choose
  <2>2. up'[u].pc = "chosen" /\ \A v \in Uploads : v # u => up'[v] = up[v]
    BY <1>0, <1>2 DEF Choose, TypeOK
  <2>3. \A v \in Uploads : Answers(v) => Answers(v)'
    BY <2>1, <2>2 DEF Answers, Active, At
  <2>4. NoStrayFile'
    BY <1>0, <2>1, <2>3, AnswersStay
  <2>5. \A v \in Uploads : up[v].pc \in {"added", "done", "failed"} =>
          up'[v].pc \in {"added", "done", "failed"}
    BY <2>1, <2>2 DEF At
  <2>6. /\ \A r \in Removers : remover'[r].pc \in {"source", "file"} =>
             up'[remover'[r].media].pc \in {"added", "done", "failed"}
        /\ \A r \in Removers : remover'[r].pc = "file" =>
             \A p \in Paths : disk'[p] # None /\ remover'[r].media \in disk'[p] => p \in kept'
    BY <2>1, <2>5, TriedStay
  <2>q. QED
    BY <2>4, <2>6 DEF StrayInv
<1>3. CASE Open(u)
  <2> DEFINE s == up[u].source
  <2>1. /\ UNCHANGED <<rows, remover, library, kept>> /\ At(u, "chosen") /\ Step(u, "writing")
    BY <1>3 DEF Open, history
  <2>2. up'[u].pc = "writing" /\ \A v \in Uploads : v # u => up'[v] = up[v]
    BY <1>0, <2>1, StepFacts DEF UploadStates
  <2>3. s \in Paths
    BY <2>1 DEF FInv, IInv, SourceInv, At
  <2>4. disk'[s] = {u} \cup IF disk[s] = None THEN {} ELSE {v \in disk[s] : At(v, "writing")}
    BY <1>0, <1>3, <2>3 DEF Open, TypeOK
  <2>5. \A p \in Paths : p # s => disk'[p] = disk[p]
    BY <1>0, <1>3, <2>3 DEF Open, TypeOK
  <2> HIDE DEF s
  <2>6. \A v \in Uploads : Answers(v) => Answers(v)'
    BY <2>1, <2>2 DEF Answers, Active, At
  <2>7. NoStrayFile'
    <3> SUFFICES ASSUME (library.pc # "gone")', NEW p \in Paths, disk'[p] # None, p \notin kept'
                 PROVE  \E v \in disk'[p] : Answers(v)'
      BY DEF NoStrayFile, Answers
    <3>1. CASE p = s
      <4>1. u \in disk'[p] /\ Answers(u)'
        BY <2>2, <2>4, <3>1 DEF Answers, Active
      <4>q. QED
        BY <4>1
    <3>2. CASE p # s
      <4>1. disk'[p] = disk[p] /\ p \notin kept /\ library.pc # "gone"
        BY <2>1, <2>5, <3>2
      <4>2. PICK v \in disk[p] : Answers(v)
        BY <1>0, <4>1 DEF NoStrayFile, Answers
      <4>q. QED
        BY <1>a, <2>6, <4>1, <4>2
    <3>q. QED
      BY <3>1, <3>2
  <2>8. \A v \in Uploads : up[v].pc \in {"added", "done", "failed"} =>
          v # u /\ up'[v].pc \in {"added", "done", "failed"}
    BY <2>1, <2>2 DEF At
  <2>9. ASSUME NEW p \in Paths, NEW v \in Uploads, up[v].pc \in {"added", "done", "failed"},
               disk'[p] # None, v \in disk'[p]
        PROVE  disk[p] # None /\ v \in disk[p]
    BY <2>4, <2>5, <2>8, <2>9
  <2>10. /\ \A r \in Removers : remover'[r].pc \in {"source", "file"} =>
              up'[remover'[r].media].pc \in {"added", "done", "failed"}
         /\ \A r \in Removers : remover'[r].pc = "file" =>
              \A p \in Paths : disk'[p] # None /\ remover'[r].media \in disk'[p] => p \in kept'
    BY <2>1, <2>8, <2>9, TriedStay
  <2>q. QED
    BY <2>7, <2>10 DEF StrayInv
<1>4. CASE RemoveDuplicate(u)
  <2> DEFINE s == up[u].source
  <2>1. /\ UNCHANGED <<rows, remover, library>> /\ At(u, "duplicate") /\ Step(u, "refused")
        /\ Unlink(s)
    BY <1>4 DEF RemoveDuplicate, history
  <2>2. up'[u].pc = "refused" /\ \A v \in Uploads : v # u => up'[v] = up[v]
    BY <1>0, <2>1, StepFacts DEF UploadStates
  <2>3. s \in Paths
    BY <2>1 DEF FInv, IInv, SourceInv, At
  <2>4. disk'[s] = None
    BY <1>0, <2>1, <2>3, Emptied
  <2>5. /\ \A q \in Paths : disk'[q] # None => disk'[q] = disk[q]
        /\ \A q \in Paths : disk'[q] # None /\ q \in kept => q \in kept'
    BY <1>0, <2>1, <2>3, UnlinkLeaves
  <2>6. ASSUME NEW p \in Paths, NEW v \in Uploads, disk'[p] # None, v \in disk[p], Answers(v)
        PROVE  Answers(v)'
    <3>1. v # u
      BY <1>b, <2>4, <2>5, <2>6
    <3>q. QED
      BY <2>1, <2>2, <2>6, <3>1 DEF Answers, Active, At
  <2> HIDE DEF s
  <2>7. NoStrayFile'
    BY <1>0, <2>1, <2>5, <2>6, AnswersStay
  <2>8. \A v \in Uploads : up[v].pc \in {"added", "done", "failed"} =>
          up'[v].pc \in {"added", "done", "failed"}
    BY <2>1, <2>2 DEF At
  <2>9. /\ \A r \in Removers : remover'[r].pc \in {"source", "file"} =>
             up'[remover'[r].media].pc \in {"added", "done", "failed"}
        /\ \A r \in Removers : remover'[r].pc = "file" =>
             \A p \in Paths : disk'[p] # None /\ remover'[r].media \in disk'[p] => p \in kept'
    BY <2>1, <2>5, <2>8, TriedStay
  <2>q. QED
    BY <2>7, <2>9 DEF StrayInv
<1>q. QED
  BY <1>1, <1>2, <1>3, <1>4 DEF Upload, Goes

\* A removal tries the file before it takes the row: afterwards the file is gone or kept.
LEMMA RemovalStray ==
  ASSUME FInv, StrayInv, NEW r \in Removers, Removal(r)
  PROVE  StrayInv'
<1>0. TypeOK /\ NoStrayFile
  BY DEF FInv, IInv, StrayInv
<1>a. /\ UNCHANGED <<up, library>>
      /\ \A q \in Removers : q # r => remover'[q] = remover[q]
  BY <1>0 DEF Removal, ReadSource, RemoveFile, RemoveRow, RemovalStops, history, TypeOK
<1>b. \A p \in Paths : disk[p] # None => \A v \in disk[p] : up[v].source = p
  BY DEF FInv, FilesInv, BytesInv
\* What holds for the other removals.
<1>c. ASSUME \A q \in Paths : disk'[q] # None => disk'[q] = disk[q],
             \A q \in Paths : disk'[q] # None /\ q \in kept => q \in kept',
             remover'[r].pc \in {"source", "file"} =>
               up[remover'[r].media].pc \in {"added", "done", "failed"},
             remover'[r].pc = "file" =>
               \A p \in Paths : disk'[p] # None /\ remover'[r].media \in disk'[p] => p \in kept',
             NoStrayFile'
      PROVE  StrayInv'
  <2>1. ASSUME NEW q \in Removers, remover'[q].pc \in {"source", "file"}
        PROVE  up'[remover'[q].media].pc \in {"added", "done", "failed"}
    <3>1. CASE q = r
      BY <1>a, <1>c, <2>1, <3>1
    <3>2. CASE q # r
      BY <1>a, <2>1, <3>2 DEF StrayInv
    <3>q. QED
      BY <3>1, <3>2
  <2>2. ASSUME NEW q \in Removers, remover'[q].pc = "file",
               NEW p \in Paths, disk'[p] # None, remover'[q].media \in disk'[p]
        PROVE  p \in kept'
    <3>1. CASE q = r
      BY <1>c, <2>2, <3>1
    <3>2. CASE q # r
      <4>1. remover'[q] = remover[q] /\ disk'[p] = disk[p]
        BY <1>a, <1>c, <2>2, <3>2
      <4>2. p \in kept
        BY <2>2, <4>1 DEF StrayInv
      <4>q. QED
        BY <1>c, <2>2, <4>2
    <3>q. QED
      BY <3>1, <3>2
  <2>q. QED
    BY <1>c, <2>1, <2>2 DEF StrayInv
<1>1. CASE ReadSource(r)
  <2>1. PICK u \in rows : remover' = [remover EXCEPT ![r] = [pc |-> "source", media |-> u]]
    BY <1>1 DEF ReadSource
  <2>2. UNCHANGED <<disk, rows, kept>>
    BY <1>1 DEF ReadSource
  <2>3. remover'[r] = [pc |-> "source", media |-> u]
    BY <1>0, <2>1 DEF TypeOK
  <2>4. up[u].pc \in {"added", "done", "failed"}
    BY DEF FInv, FilesInv, BytesInv
  <2>5. NoStrayFile'
    BY <1>0, <1>a, <2>2 DEF NoStrayFile, Active, At
  <2>q. QED
    BY <1>c, <2>2, <2>3, <2>4, <2>5
<1>2. CASE RemoveFile(r)
  <2> DEFINE u == remover[r].media
             p == up[u].source
  <2>1. /\ remover[r].pc = "source" /\ UNCHANGED rows
        /\ \/ Unlink(p)
           \/ UNCHANGED disk /\ kept' = IF disk[p] = None THEN kept ELSE kept \cup {p}
    BY <1>2 DEF RemoveFile, history
  <2>2. remover'[r].pc = "file" /\ remover'[r].media = u
    BY <1>0, <1>2 DEF RemoveFile, TypeOK
  <2>3. u \in Uploads /\ p \in Paths /\ up[u].pc \in {"added", "done", "failed"}
    BY <2>1 DEF FInv, IInv, SourceInv, StrayInv
  <2> HIDE DEF u
  <2>4. /\ \A q \in Paths : disk'[q] # None => disk'[q] = disk[q]
        /\ \A q \in Paths : disk'[q] # None /\ q \in kept => q \in kept'
    <3>1. CASE Unlink(p)
      BY <1>0, <2>3, <3>1, UnlinkLeaves
    <3>2. CASE UNCHANGED disk /\ kept' = IF disk[p] = None THEN kept ELSE kept \cup {p}
      BY <3>2
    <3>q. QED
      BY <2>1, <3>1, <3>2
  <2>5. disk'[p] = None \/ p \in kept'
    <3>1. CASE Unlink(p)
      BY <1>0, <2>3, <3>1, Emptied
    <3>2. CASE UNCHANGED disk /\ kept' = IF disk[p] = None THEN kept ELSE kept \cup {p}
      BY <3>2
    <3>q. QED
      BY <2>1, <3>1, <3>2
  <2>6. ASSUME NEW q \in Paths, disk'[q] # None, u \in disk'[q] PROVE q \in kept'
    <3>1. p = q
      BY <1>b, <2>4, <2>6
    <3>q. QED
      BY <2>5, <2>6, <3>1
  <2>7. \A v \in Uploads : Answers(v) => Answers(v)'
    BY <1>a, <2>1 DEF Answers, Active, At
  <2> HIDE DEF p
  <2>8. NoStrayFile'
    BY <1>0, <1>a, <2>4, <2>7, AnswersStay
  <2>q. QED
    BY <1>c, <2>2, <2>3, <2>4, <2>6, <2>8
<1>3. CASE RemoveRow(r)
  <2> DEFINE u == remover[r].media
  <2>1. /\ remover[r].pc = "file" /\ rows' = rows \ {u} /\ UNCHANGED <<disk, kept>>
    BY <1>3 DEF RemoveRow
  <2>2. remover'[r].pc = "done"
    BY <1>0, <1>3 DEF RemoveRow, TypeOK
  <2>3. ASSUME NEW p \in Paths, NEW v \in Uploads, disk'[p] # None, v \in disk[p], Answers(v)
        PROVE  Answers(v)' \/ p \in kept'
    <3>1. CASE v = u
      BY <2>1, <2>3, <3>1 DEF StrayInv
    <3>2. CASE v # u
      BY <1>a, <2>1, <2>3, <3>2 DEF Answers, Active, At
    <3>q. QED
      BY <3>1, <3>2
  <2> HIDE DEF u
  <2>4. NoStrayFile'
    BY <1>0, <1>a, <2>1, <2>3, AnswersStay
  <2>q. QED
    BY <1>c, <2>1, <2>2, <2>4
<1>4. CASE RemovalStops(r)
  <2>1. UNCHANGED <<disk, rows, kept>> /\ remover'[r].pc = "done"
    BY <1>0, <1>4 DEF RemovalStops, history, TypeOK
  <2>2. NoStrayFile'
    BY <1>0, <1>a, <2>1 DEF NoStrayFile, Active, At
  <2>q. QED
    BY <1>c, <2>1, <2>2
<1>q. QED
  BY <1>1, <1>2, <1>3, <1>4 DEF Removal

\* The cleaning changes no row, only the files it takes to the trash.
LEMMA CleanLeaves ==
  ASSUME Clean
  PROVE  /\ UNCHANGED <<rows, remover, library>>
         /\ UNCHANGED <<disk, kept>> \/ \E p \in Paths : Unlink(p)
<1>1. CASE ListSources
  BY <1>1 DEF ListSources
<1>2. CASE Walk
  BY <1>2 DEF Walk
<1>3. ASSUME NEW p \in Paths, Trash(p)
      PROVE  UNCHANGED <<rows, remover, library>> /\ Unlink(p)
  BY <1>3 DEF Trash
<1>4. CASE CleanEnds
  BY <1>4 DEF CleanEnds
<1>q. QED
  BY <1>1, <1>2, <1>3, <1>4 DEF Clean

\* The removal of the library changes no row before its last step, and only files that
\* it takes away.
LEMMA RemovalLeaves ==
  ASSUME TypeOK, RemoveLibrary
  PROVE  /\ UNCHANGED remover
         /\ UNCHANGED <<disk, kept>> \/ \E p \in Paths : Unlink(p)
         /\ \/ UNCHANGED rows /\ (library.pc = "gone" => library'.pc = "gone")
            \/ library'.pc = "gone"
<1>1. CASE RequestRemoval
  BY <1>1 DEF RequestRemoval
<1>2. CASE ListTracked
  BY <1>2 DEF ListTracked
<1>3. ASSUME NEW p \in Paths, RemoveTracked(p)
      PROVE  UNCHANGED <<rows, remover>> /\ library.pc # "gone" /\ Unlink(p)
  BY <1>3 DEF RemoveTracked
<1>4. CASE LibraryRemovalFails
  BY <1>4 DEF LibraryRemovalFails
<1>5. CASE DropLibrary
  BY <1>5 DEF DropLibrary
<1>6. CASE CloseStore
  BY <1>6 DEF CloseStore
<1>7. CASE RemoveDatabase
  BY <1>7 DEF RemoveDatabase, TypeOK
<1>q. QED
  BY <1>1, <1>2, <1>3, <1>4, <1>5, <1>6, <1>7 DEF RemoveLibrary

\* The cleaning and the removal of the library take files, and rows only with the last of
\* the library.
LEMMA RestStray ==
  ASSUME FInv, StrayInv, Clean \/ RemoveLibrary
  PROVE  StrayInv'
<1>0. TypeOK /\ NoStrayFile
  BY DEF FInv, IInv, StrayInv
<1>a. /\ UNCHANGED remover
      /\ UNCHANGED <<disk, kept>> \/ \E p \in Paths : Unlink(p)
      /\ \/ UNCHANGED rows /\ (library.pc = "gone" => library'.pc = "gone")
         \/ library'.pc = "gone"
  BY <1>0, CleanLeaves, RemovalLeaves
<1>1. UNCHANGED <<up, remover>>
  BY <1>a, OthersKeep
<1>2. /\ \A q \in Paths : disk'[q] # None => disk'[q] = disk[q]
      /\ \A q \in Paths : disk'[q] # None /\ q \in kept => q \in kept'
  <2>1. CASE UNCHANGED <<disk, kept>>
    BY <2>1
  <2>2. ASSUME NEW p \in Paths, Unlink(p)
        PROVE  /\ \A q \in Paths : disk'[q] # None => disk'[q] = disk[q]
               /\ \A q \in Paths : disk'[q] # None /\ q \in kept => q \in kept'
    BY <1>0, <2>2, UnlinkLeaves
  <2>q. QED
    BY <1>a, <2>1, <2>2
<1>3. NoStrayFile'
  <2>1. CASE library'.pc = "gone"
    BY <2>1 DEF NoStrayFile
  <2>2. CASE library'.pc # "gone"
    <3>1. UNCHANGED rows /\ library.pc # "gone"
      BY <1>a, <2>2
    <3>2. \A v \in Uploads : Answers(v) => Answers(v)'
      BY <1>1, <3>1 DEF Answers, Active, At
    <3>q. QED
      BY <1>0, <1>2, <3>1, <3>2, AnswersStay
  <2>q. QED
    BY <2>1, <2>2
<1>4. /\ \A r \in Removers : remover'[r].pc \in {"source", "file"} =>
           up'[remover'[r].media].pc \in {"added", "done", "failed"}
      /\ \A r \in Removers : remover'[r].pc = "file" =>
           \A p \in Paths : disk'[p] # None /\ remover'[r].media \in disk'[p] => p \in kept'
  BY <1>1, <1>2, TriedStay
<1>q. QED
  BY <1>3, <1>4 DEF StrayInv

LEMMA StrayStep == FInv /\ StrayInv /\ [Next]_vars => StrayInv'
<1> SUFFICES ASSUME FInv, StrayInv, [Next]_vars PROVE StrayInv'
  OBVIOUS
<1>1. ASSUME NEW u \in Uploads, Upload(u) PROVE StrayInv'
  BY <1>1, UploadStray
<1>2. ASSUME NEW r \in Removers, Removal(r) PROVE StrayInv'
  BY <1>2, RemovalStray
<1>3. CASE Clean \/ RemoveLibrary
  BY <1>3, RestStray
<1>4. CASE UNCHANGED vars
  BY <1>4 DEF vars, StrayInv, NoStrayFile, Active, At
<1>q. QED
  BY <1>1, <1>2, <1>3, <1>4 DEF Next

\* Wherever uploads, removals, cleanings and the removal of the library stop, a file
\* without a row is that of an upload at work, or was left by an upload that failed or by
\* a removal that could not remove it (add_library_file and remove_library_file,
\* medias.rs): for any uploads, names and requests.
THEOREM StrayCorrect == Spec => []NoStrayFile
<1>1. Init => FInv /\ StrayInv
  <2>1. Init => StrayInv
    BY DEF Init, StrayInv, NoStrayFile
  <2>q. QED
    BY <2>1, InitInv, FilesInit DEF FInv
<1>2. FInv /\ StrayInv /\ [Next]_vars => FInv' /\ StrayInv'
  BY NextInv, FilesNext, StrayStep DEF FInv
<1>3. StrayInv => NoStrayFile
  BY DEF StrayInv
<1>q. QED
  BY <1>1, <1>2, <1>3, PTL DEF Spec

-----------------------------------------------------------------------------
(* Conversions.                                                            *)

Working == {"polling", "linking", "reading", "importing", "cleaning",
            "encode", "encoding", "concat", "clean", "open", "import",
            "hash", "add", "update"}

Segment == [by : Merges \cup {None}, item : Nat, whole : BOOLEAN]
Data    == {<<>>} \cup [Conversions!Items -> Segment]
JobType == [pc : Working \cup {"idle", "ended"}, id : RequestIds \cup {None},
            item : Conversions!Items, tries : Nat, data : Data]

Contained == Data \cup {<<j>> : j \in Jobs} \cup {<<None>>}
MediaType == [of : Conversions!Calls, try : Nat, data : Contained,
              encrypted : BOOLEAN, hashed : BOOLEAN]

ConvertType ==
  /\ password \in BOOLEAN
  /\ job \in [Conversions!Calls -> JobType]
  /\ plugin \in [Jobs -> {"none", "processing", "completed", "failed", "cleaned"}]
  /\ late \in [Jobs -> Nat]
  /\ segments \in [RequestIds \X Conversions!Items -> Segment]
  /\ final \in [RequestIds -> Data]
  /\ medias \subseteq MediaType /\ IsFiniteSet(medias)

\* What a merge makes when nobody writes over it.
Part(g, i) == [by |-> g, item |-> i, whole |-> TRUE]
Whole(g)   == [i \in Conversions!Items |-> Part(g, i)]

\* A merge whose files are its own, and what is in them.
Alone(g) == Conversions!Merging(g) /\ job[g].id \notin shared
AloneInv ==
  /\ \A g \in Merges : Conversions!Merging(g) => job[g].id \in RequestIds
  /\ \A g \in Merges : job[g].pc = "idle" => job[g].item = 1
  /\ \A g, h \in Merges :
       Alone(g) /\ Conversions!Merging(h) /\ job[h].id = job[g].id => g = h

SegmentsOf(g) ==
  /\ job[g].pc \in {"encode", "encoding"} =>
       (\A i \in Conversions!Items : i < job[g].item => segments[<<job[g].id, i>>] = Part(g, i))
  /\ job[g].pc = "encoding" =>
       (/\ segments[<<job[g].id, job[g].item>>].by = g
        /\ segments[<<job[g].id, job[g].item>>].item = job[g].item)
  /\ job[g].pc = "concat" =>
       (\A i \in Conversions!Items : segments[<<job[g].id, i>>] = Part(g, i))
SegmentsInv == \A g \in Merges : Alone(g) => SegmentsOf(g)

FinalOf(g) ==
  /\ job[g].pc \in {"clean", "open", "import"} => final[job[g].id] = Whole(g)
  /\ job[g].pc = "import" => job[g].data = Whole(g)
FinalInv == \A g \in Merges : Alone(g) => FinalOf(g)

MergedInv ==
  \A m \in medias :
    /\ m.of \in Conversions!Calls
    /\ m.of \in Merges => /\ job[m.of].pc = "ended"
                          /\ job[m.of].id \in shared \/ m.data = Whole(m.of)

Made(j) == {m \in medias : m.of = j}
MadeInv ==
  \A j \in Jobs :
    /\ plugin[j] = "cleaned" \/ job[j].pc = "cleaning" => Made(j) # {}
    /\ Cardinality(Made(j)) <= late[j] + (IF job[j].pc \in {"cleaning", "ended"} THEN 1 ELSE 0)

ConvertInv == ConvertType /\ AloneInv /\ SegmentsInv /\ FinalInv /\ MergedInv /\ MadeInv

LEMMA CardinalityHere == \A S : Conversions!Cardinality(S) = Cardinality(S)
  BY DEF Conversions!Cardinality, Cardinality

LEMMA ConvertInit == Conversions!Init => ConvertInv
<1> SUFFICES ASSUME Conversions!Init PROVE ConvertInv
  OBVIOUS
<1>1. Conversions!Idle \in JobType
  BY DEF Conversions!Idle, JobType, Data, Conversions!Items
<1>2. ConvertType
  <2>1. Conversions!NoFile \in Segment
    BY DEF Conversions!NoFile, Segment
  <2>q. QED
    BY <1>1, <2>1, FS_EmptySet DEF ConvertType, Conversions!Init, Data
<1>3. \A t \in Conversions!Calls : job[t].pc = "idle"
  BY DEF Conversions!Init, Conversions!Idle
<1>4. medias = {} /\ \A j \in Jobs : plugin[j] = "none" /\ late[j] = 0
  BY DEF Conversions!Init
<1>5. AloneInv /\ SegmentsInv /\ FinalInv
  <2>1. \A g \in Merges : ~Conversions!Merging(g) /\ job[g].item = 1
    BY <1>3 DEF Conversions!Merging, Conversions!Calls, Conversions!Init, Conversions!Idle
  <2>q. QED
    BY <2>1 DEF AloneInv, SegmentsInv, FinalInv, Alone
<1>6. MergedInv /\ MadeInv
  <2>1. \A j \in Jobs : Made(j) = {} /\ job[j].pc = "idle"
    BY <1>3, <1>4 DEF Made, Conversions!Calls
  <2>q. QED
    BY <1>4, <2>1, FS_EmptySet DEF MergedInv, MadeInv
<1>q. QED
  BY <1>2, <1>5, <1>6 DEF ConvertInv

LEMMA ConvertGoes ==
  ASSUME ConvertType, NEW t \in Conversions!Calls, NEW pc \in Working \cup {"idle", "ended"},
         Conversions!Goes(t, pc)
  PROVE  /\ job' \in [Conversions!Calls -> JobType]
         /\ job'[t].pc = pc /\ job'[t].id = job[t].id /\ job'[t].item = job[t].item
         /\ job'[t].data = job[t].data
         /\ \A s \in Conversions!Calls : s # t => job'[s] = job[s]
  BY DEF ConvertType, Conversions!Goes, JobType

\* Whatever does nothing to a merge keeps what is said of merges.
LEMMA MergesKeep ==
  ASSUME ConvertInv, \A g \in Merges : job'[g] = job[g], UNCHANGED <<segments, final, shared>>
  PROVE  AloneInv' /\ SegmentsInv' /\ FinalInv'
<1>1. \A g \in Merges : /\ Conversions!Merging(g)' <=> Conversions!Merging(g)
                        /\ Alone(g)' <=> Alone(g)
  BY DEF Conversions!Merging, Alone
<1>2. AloneInv'
  BY <1>1 DEF ConvertInv, AloneInv
<1>3. SegmentsInv'
  BY <1>1 DEF ConvertInv, SegmentsInv, SegmentsOf
<1>4. FinalInv'
  BY <1>1 DEF ConvertInv, FinalInv, FinalOf
<1>q. QED
  BY <1>2, <1>3, <1>4

\* Whatever does nothing to a conversion by a plugin keeps what is said of those.
LEMMA MadeKeep ==
  ASSUME MadeInv, \A j \in Jobs : job'[j] = job[j] /\ Made(j)' = Made(j), UNCHANGED <<plugin, late>>
  PROVE  MadeInv'
  BY DEF MadeInv

\* A merge ends with its media, so another's step changes nothing of it.
LEMMA MergedKeep ==
  ASSUME MergedInv, \A g \in Merges : job'[g] = job[g], UNCHANGED shared,
         \A m \in medias' : \/ \E n \in medias : m.of = n.of /\ m.data = n.data
                            \/ m.of \in Conversions!Calls /\ m.of \notin Merges
  PROVE  MergedInv'
  BY DEF MergedInv

\* What the import adds is a media of its own task.
LEMMA ImportAdds ==
  ASSUME ConvertType, NEW t \in Conversions!Calls, NEW data \in Contained, NEW result \in Conversions!Results,
         Conversions!add_library_file(t, data, result)
  PROVE  \/ result = "failed" /\ UNCHANGED medias
         \/ /\ result \in {"late", "added"}
            /\ \E n \in MediaType : n.of = t /\ n.data = data /\ medias' = medias \cup {n}
<1> DEFINE n(hashed) == Conversions!Media(t, data, password, hashed)
<1>1. \A hashed \in BOOLEAN :
        n(hashed) \in MediaType /\ n(hashed).of = t /\ n(hashed).data = data
  BY DEF Conversions!Media, ConvertType, JobType, MediaType
<1>2. CASE result = "failed"
  BY <1>2 DEF Conversions!add_library_file
<1>3. CASE result = "late"
  <2>1. \E hashed \in BOOLEAN : medias' = medias \cup {n(hashed)}
    BY <1>3 DEF Conversions!add_library_file, Conversions!Adds
  <2>q. QED
    BY <1>1, <1>3, <2>1
<1>4. CASE result = "added"
  <2>1. medias' = medias \cup {n(TRUE)}
    BY <1>4 DEF Conversions!add_library_file, Conversions!Adds
  <2>q. QED
    BY <1>1, <1>4, <2>1
<1>q. QED
  BY <1>2, <1>3, <1>4 DEF Conversions!Results


LEMMA JobKept ==
  ASSUME ConvertInv, ConvertType', NEW j \in Jobs,
         \A t \in Conversions!Calls : t # j => job'[t] = job[t],
         UNCHANGED <<segments, final, shared>>,
         \A m \in medias' : m \in medias \/ m.of = j
  PROVE  AloneInv' /\ SegmentsInv' /\ FinalInv' /\ MergedInv'
<1>1. \A g \in Merges : job'[g] = job[g]
  BY ConversionsAssumption DEF Conversions!Calls
<1>2. AloneInv' /\ SegmentsInv' /\ FinalInv'
  BY <1>1, MergesKeep
<1>3. MergedInv'
  BY <1>1, MergedKeep, ConversionsAssumption DEF ConvertInv, Conversions!Calls
<1>q. QED
  BY <1>2, <1>3

\* A step of a conversion by a plugin that makes no media.
LEMMA JobWorks ==
  ASSUME ConvertInv, NEW j \in Jobs,
         \/ Conversions!convert_submit_media(j) \/ Conversions!Transcoded(j)
         \/ Conversions!NotTranscoded(j) \/ Conversions!Poll(j) \/ Conversions!Link(j)
         \/ Conversions!Read(j)
  PROVE  ConvertInv'
<1> j \in Conversions!Calls
  BY DEF Conversions!Calls
<1> ConvertType
  BY DEF ConvertInv
<1>1. /\ job' \in [Conversions!Calls -> JobType]
      /\ job'[j].pc # "cleaning" \/ job'[j].pc = job[j].pc
      /\ job[j].pc \in {"cleaning", "ended"} => job'[j].pc = job[j].pc
      /\ \A t \in Conversions!Calls : t # j => job'[t] = job[t]
  <2>1. CASE Conversions!convert_submit_media(j)
    BY <2>1, ConvertGoes DEF Conversions!convert_submit_media, Conversions!At, Working
  <2>2. CASE Conversions!Transcoded(j) \/ Conversions!NotTranscoded(j)
    BY <2>2 DEF Conversions!Transcoded, Conversions!NotTranscoded, ConvertType
  <2>3. CASE Conversions!Poll(j)
    <3>1. UNCHANGED job \/ Conversions!Goes(j, "linking") \/ Conversions!Goes(j, "ended")
      BY <2>3 DEF Conversions!Poll
    <3>q. QED
      BY <2>3, <3>1, ConvertGoes DEF Conversions!Poll, Conversions!At, Working, ConvertType
  <2>4. CASE Conversions!Link(j)
    BY <2>4, ConvertGoes DEF Conversions!Link, Conversions!At, Working
  <2>5. CASE Conversions!Read(j)
    BY <2>5 DEF Conversions!Read, Conversions!At, Working, ConvertType, JobType
  <2>q. QED
    BY <2>1, <2>2, <2>3, <2>4, <2>5
<1>2. /\ UNCHANGED <<password, late, segments, final, shared, medias>>
      /\ plugin' \in [Jobs -> {"none", "processing", "completed", "failed", "cleaned"}]
      /\ \A i \in Jobs : plugin'[i] = "cleaned" => plugin[i] = "cleaned"
  BY DEF ConvertType, Conversions!convert_submit_media, Conversions!Transcoded,
         Conversions!NotTranscoded, Conversions!Poll, Conversions!Link, Conversions!Read
<1>3. ConvertType'
  BY <1>1, <1>2 DEF ConvertType
<1>4. AloneInv' /\ SegmentsInv' /\ FinalInv' /\ MergedInv'
  BY <1>1, <1>2, <1>3, JobKept
<1>5. MadeInv'
  <2>1. \A i \in Jobs : Made(i)' = Made(i) /\ i \in Conversions!Calls
    BY <1>2 DEF Made, Conversions!Calls
  <2>2. \A i \in Jobs : /\ job'[i].pc = "cleaning" => job[i].pc = "cleaning"
                        /\ job[i].pc \in {"cleaning", "ended"} =>
                             job'[i].pc \in {"cleaning", "ended"}
    BY <1>1, <2>1
  <2>3. \A i \in Jobs : late[i] \in Nat /\ Cardinality(Made(i)) \in Nat
    BY FS_CardinalityType, FS_Subset DEF ConvertType, Made
  <2>q. QED
    BY <1>2, <2>1, <2>2, <2>3 DEF ConvertInv, MadeInv
<1>q. QED
  BY <1>3, <1>4, <1>5 DEF ConvertInv

LEMMA MadeGrows ==
  ASSUME ConvertType, NEW j \in Jobs, NEW n \in MediaType, n.of = j, medias' = medias \cup {n}
  PROVE  /\ Made(j)' = Made(j) \cup {n}
         /\ \A i \in Jobs : i # j => Made(i)' = Made(i)
         /\ Cardinality(Made(j)') <= Cardinality(Made(j)) + 1
         /\ Cardinality(Made(j)) \in Nat /\ Cardinality(Made(j)') \in Nat
         /\ medias' \subseteq MediaType /\ IsFiniteSet(medias')
<1>1. Made(j)' = Made(j) \cup {n} /\ \A i \in Jobs : i # j => Made(i)' = Made(i)
  BY DEF Made
<1>2. IsFiniteSet(Made(j))
  BY FS_Subset DEF ConvertType, Made
<1>3. /\ IsFiniteSet(Made(j) \cup {n})
      /\ Cardinality(Made(j) \cup {n}) = Cardinality(Made(j))
         \/ Cardinality(Made(j) \cup {n}) = Cardinality(Made(j)) + 1
  BY <1>2, FS_AddElement
<1>4. Cardinality(Made(j)) \in Nat /\ Cardinality(Made(j) \cup {n}) \in Nat
  BY <1>2, <1>3, FS_CardinalityType
<1>5. medias' \subseteq MediaType /\ IsFiniteSet(medias')
  BY FS_AddElement DEF ConvertType
<1>q. QED
  BY <1>1, <1>3, <1>4, <1>5

\* The plugin's result goes in, and is thrown away only after that.
LEMMA JobImports ==
  ASSUME ConvertInv, NEW j \in Jobs, Conversions!Import(j) \/ Conversions!Clean(j)
  PROVE  ConvertInv'
<1> j \in Conversions!Calls
  BY DEF Conversions!Calls
<1> ConvertType
  BY DEF ConvertInv
<1>1. CASE Conversions!Import(j)
  <2>1. PICK result \in Conversions!Results :
          /\ Conversions!add_library_file(j, <<j>>, result)
          /\ late' = [late EXCEPT ![j] = IF result = "late" THEN @ + 1 ELSE @]
          /\ CASE result = "added" -> Conversions!Goes(j, "cleaning")
               [] result # "added" /\ job[j].tries < Conversions!MaxAttempts ->
                    Conversions!Goes(j, "reading")
               [] OTHER -> Conversions!Goes(j, "ended")
    BY <1>1 DEF Conversions!Import
  <2>2. PICK pc \in {"cleaning", "reading", "ended"} :
          Conversions!Goes(j, pc) /\ (pc = "cleaning" <=> result = "added")
    BY <2>1
  <2>3. /\ job' \in [Conversions!Calls -> JobType]
        /\ job'[j].pc = pc /\ job[j].pc = "importing"
        /\ \A t \in Conversions!Calls : t # j => job'[t] = job[t]
    BY <1>1, <2>2, ConvertGoes DEF Working, Conversions!Import, Conversions!At
  <2>4. UNCHANGED <<password, plugin, segments, final, shared>>
    BY <1>1 DEF Conversions!Import
  <2>5. /\ late' \in [Jobs -> Nat] /\ late \in [Jobs -> Nat]
        /\ late'[j] = late[j] + (IF result = "late" THEN 1 ELSE 0)
        /\ \A i \in Jobs : i # j => late'[i] = late[i]
    BY <2>1 DEF ConvertType
  <2>6. \/ result = "failed" /\ UNCHANGED medias
        \/ /\ result \in {"late", "added"}
           /\ \E n \in MediaType : n.of = j /\ n.data = <<j>> /\ medias' = medias \cup {n}
    BY <2>1, ImportAdds DEF Contained
  <2>7. /\ medias' \subseteq MediaType /\ IsFiniteSet(medias')
        /\ \A m \in medias' : m \in medias \/ m.of = j
        /\ \A i \in Jobs : i # j => Made(i)' = Made(i)
        /\ result = "added" => Made(j)' # {}
        /\ Made(j) # {} => Made(j)' # {}
        /\ Cardinality(Made(j)) \in Nat /\ Cardinality(Made(j)') \in Nat
        /\ Cardinality(Made(j)') <=
             Cardinality(Made(j)) + (IF result \in {"late", "added"} THEN 1 ELSE 0)
    <3>1. CASE result = "failed" /\ UNCHANGED medias
      <4>1. Made(j)' = Made(j) /\ \A i \in Jobs : Made(i)' = Made(i)
        BY <3>1 DEF Made
      <4>2. Cardinality(Made(j)) \in Nat
        BY FS_CardinalityType, FS_Subset DEF ConvertType, Made
      <4>q. QED
        BY <3>1, <4>1, <4>2 DEF ConvertType
    <3>2. CASE result \in {"late", "added"}
      <4>1. PICK n \in MediaType : n.of = j /\ medias' = medias \cup {n}
        BY <2>6, <3>2
      <4>q. QED
        BY <3>2, <4>1, MadeGrows
    <3>q. QED
      BY <2>6, <3>1, <3>2
  <2>8. ConvertType'
    BY <2>3, <2>4, <2>5, <2>7 DEF ConvertType
  <2>9. AloneInv' /\ SegmentsInv' /\ FinalInv' /\ MergedInv'
    BY <2>3, <2>4, <2>7, <2>8, JobKept
  <2>10. MadeInv'
    <3>1. MadeInv /\ Jobs \subseteq Conversions!Calls
      BY DEF ConvertInv, Conversions!Calls
    <3>2. ASSUME NEW i \in Jobs, i # j
          PROVE  /\ plugin'[i] = "cleaned" \/ job'[i].pc = "cleaning" => Made(i)' # {}
                 /\ Cardinality(Made(i)') <=
                      late'[i] + (IF job'[i].pc \in {"cleaning", "ended"} THEN 1 ELSE 0)
      BY <2>3, <2>4, <2>5, <2>7, <3>1, <3>2 DEF MadeInv
    <3>3. plugin'[j] = "cleaned" \/ job'[j].pc = "cleaning" => Made(j)' # {}
      BY <2>2, <2>3, <2>4, <2>7, <3>1 DEF MadeInv
    <3>4. Cardinality(Made(j)) <= late[j]
      BY <2>3, <2>5, <3>1 DEF MadeInv
    <3>5. Cardinality(Made(j)') <=
            late'[j] + (IF job'[j].pc \in {"cleaning", "ended"} THEN 1 ELSE 0)
      BY <2>2, <2>3, <2>5, <2>7, <3>4
    <3>q. QED
      BY <3>2, <3>3, <3>5 DEF MadeInv
  <2>q. QED
    BY <2>8, <2>9, <2>10 DEF ConvertInv
<1>2. CASE Conversions!Clean(j)
  <2>1. /\ job' \in [Conversions!Calls -> JobType]
        /\ job'[j].pc = "ended" /\ job[j].pc = "cleaning"
        /\ \A t \in Conversions!Calls : t # j => job'[t] = job[t]
    BY <1>2, ConvertGoes DEF Conversions!Clean, Conversions!At
  <2>2. /\ UNCHANGED <<password, late, segments, final, shared, medias>>
        /\ plugin' \in [Jobs -> {"none", "processing", "completed", "failed", "cleaned"}]
        /\ \A i \in Jobs : i # j => plugin'[i] = plugin[i]
    BY <1>2 DEF Conversions!Clean, ConvertType
  <2>3. ConvertType'
    BY <2>1, <2>2 DEF ConvertType
  <2>4. AloneInv' /\ SegmentsInv' /\ FinalInv' /\ MergedInv'
    BY <2>1, <2>2, <2>3, JobKept
  <2>5. MadeInv'
    <3>1. MadeInv /\ Jobs \subseteq Conversions!Calls /\ \A i \in Jobs : Made(i)' = Made(i)
      BY <2>2 DEF ConvertInv, Conversions!Calls, Made
    <3>q. QED
      BY <2>1, <2>2, <3>1 DEF MadeInv
  <2>q. QED
    BY <2>3, <2>4, <2>5 DEF ConvertInv
<1>q. QED
  BY <1>1, <1>2


\* A step of a merge leaves the others their files.
LEMMA MergeSteps ==
  ASSUME ConvertInv, NEW g \in Merges, Conversions!Merging(g), UNCHANGED shared,
         \A h \in Merges : h # g => job'[h] = job[h],
         job'[g].id = job[g].id, job'[g].pc # "idle",
         \A id \in RequestIds : id # job[g].id =>
           /\ final'[id] = final[id]
           /\ \A i \in Conversions!Items : segments'[<<id, i>>] = segments[<<id, i>>],
         Alone(g)' => SegmentsOf(g)' /\ FinalOf(g)'
  PROVE  AloneInv' /\ SegmentsInv' /\ FinalInv'
<1>1. \A h \in Merges : h # g => /\ Conversions!Merging(h)' <=> Conversions!Merging(h)
                                 /\ Alone(h)' <=> Alone(h)
  BY DEF Conversions!Merging, Alone
<1>2. Alone(g)' => Alone(g)
  BY DEF Alone
<1>3. AloneInv'
  BY <1>1, <1>2 DEF ConvertInv, AloneInv
<1>4. ASSUME NEW h \in Merges, h # g, Alone(h)
      PROVE  SegmentsOf(h)' /\ FinalOf(h)'
  <2>1. job[h].id # job[g].id /\ job[h].id \in RequestIds
    BY <1>4 DEF ConvertInv, AloneInv, Alone
  <2>2. /\ final'[job[h].id] = final[job[h].id]
        /\ \A i \in Conversions!Items : segments'[<<job[h].id, i>>] = segments[<<job[h].id, i>>]
        /\ job'[h] = job[h] /\ job[h].item \in Conversions!Items
    BY <2>1, <1>4 DEF ConvertInv, ConvertType, Conversions!Calls, JobType
  <2>3. SegmentsOf(h) /\ FinalOf(h)
    BY <1>4 DEF ConvertInv, SegmentsInv, FinalInv
  <2>4. SegmentsOf(h)'
    BY <2>2, <2>3 DEF SegmentsOf
  <2>q. QED
    BY <2>2, <2>3, <2>4 DEF FinalOf
<1>5. \A h \in Merges : Alone(h)' => SegmentsOf(h)' /\ FinalOf(h)'
  BY <1>1, <1>4
<1>q. QED
  BY <1>3, <1>5 DEF SegmentsInv, FinalInv

\* Nor does it touch what the plugins made.
LEMMA MergeMade ==
  ASSUME ConvertInv, NEW g \in Merges \cup Splits,
         \A t \in Conversions!Calls : t # g => job'[t] = job[t],
         UNCHANGED <<plugin, late>>,
         \A m \in medias' : m \in medias \/ m.of = g, medias \subseteq medias'
  PROVE  MadeInv'
<1>1. \A j \in Jobs : j # g /\ j \in Conversions!Calls
  BY ConversionsAssumption DEF Conversions!Calls
<1>2. \A j \in Jobs : Made(j)' = Made(j)
  BY <1>1 DEF Made
<1>q. QED
  BY <1>1, <1>2, MadeKeep DEF ConvertInv

LEMMA merge_videosInv ==
  ASSUME ConvertInv, NEW g \in Merges, Conversions!merge_videos(g)
  PROVE  ConvertInv'
<1> g \in Conversions!Calls /\ Merges \subseteq Conversions!Calls
  BY DEF Conversions!Calls
<1> ConvertType
  BY DEF ConvertInv
<1>1. /\ job[g].pc = "idle"
      /\ UNCHANGED <<password, plugin, late, segments, final, medias>>
  BY DEF Conversions!merge_videos, Conversions!At
<1>2. /\ job' \in [Conversions!Calls -> JobType]
      /\ \A t \in Conversions!Calls : t # g => job'[t] = job[t]
      /\ \/ job'[g].pc = "ended" /\ UNCHANGED shared
         \/ \E id \in RequestIds :
              /\ job'[g].pc = "encode" /\ job'[g].id = id /\ job'[g].item = job[g].item
              /\ shared' = IF \E h \in Merges : Conversions!Merging(h) /\ job[h].id = id
                           THEN shared \cup {id} ELSE shared
  <2>1. CASE Conversions!Goes(g, "ended") /\ UNCHANGED shared
    BY <2>1, ConvertGoes
  <2>2. CASE \E id \in RequestIds :
               /\ job' = [job EXCEPT ![g].pc = "encode", ![g].id = id]
               /\ shared' = IF \E h \in Merges : Conversions!Merging(h) /\ job[h].id = id
                            THEN shared \cup {id} ELSE shared
    <3>1. PICK id \in RequestIds :
            /\ job' = [job EXCEPT ![g].pc = "encode", ![g].id = id]
            /\ shared' = IF \E h \in Merges : Conversions!Merging(h) /\ job[h].id = id
                         THEN shared \cup {id} ELSE shared
      BY <2>2
    <3>2. /\ job' \in [Conversions!Calls -> JobType]
          /\ \A t \in Conversions!Calls : t # g => job'[t] = job[t]
          /\ job'[g].pc = "encode" /\ job'[g].id = id /\ job'[g].item = job[g].item
      BY ZenonT(60), <3>1 DEF ConvertType, JobType, Working
    <3>q. QED
      BY <3>1, <3>2
  <2>q. QED
    BY <2>1, <2>2 DEF Conversions!merge_videos
<1>3. ConvertType'
  BY <1>1, <1>2 DEF ConvertType
<1>4. shared \subseteq shared' /\ ~Conversions!Merging(g)
  BY <1>1, <1>2 DEF Conversions!Merging
<1>5. \A h \in Merges : h # g =>
        /\ Conversions!Merging(h)' <=> Conversions!Merging(h)
        /\ Alone(h)' => Alone(h)
        /\ Alone(h)' /\ Conversions!Merging(g)' => job'[h].id # job'[g].id
  <2>1. ASSUME NEW h \in Merges, h # g
        PROVE  (Conversions!Merging(h)' <=> Conversions!Merging(h)) /\ (Alone(h)' => Alone(h))
    BY <1>2, <1>4, <2>1 DEF Conversions!Merging, Alone
  <2>2. ASSUME NEW h \in Merges, h # g, Alone(h)', Conversions!Merging(g)',
               job'[h].id = job'[g].id
        PROVE  FALSE
    <3>1. Conversions!Merging(h) /\ job[h].id = job'[g].id /\ job[h].id \notin shared'
      BY <1>2, <2>1, <2>2 DEF Alone
    <3>2. job'[g].pc # "ended"
      BY <2>2 DEF Conversions!Merging
    <3>q. QED
      BY <1>2, <3>1, <3>2
  <2>q. QED
    BY <2>1, <2>2
<1>6. AloneInv'
  <2>1. AloneInv
    BY DEF ConvertInv
  <2>2. \A h \in Merges : /\ Conversions!Merging(h)' => job'[h].id \in RequestIds
                          /\ job'[h].pc = "idle" => job'[h].item = 1
    <3>1. ASSUME NEW h \in Merges, h # g
          PROVE  /\ Conversions!Merging(h)' => job'[h].id \in RequestIds
                 /\ job'[h].pc = "idle" => job'[h].item = 1
      BY <1>2, <1>5, <2>1, <3>1 DEF AloneInv
    <3>2. /\ Conversions!Merging(g)' => job'[g].id \in RequestIds
          /\ job'[g].pc # "idle"
      BY <1>2 DEF Conversions!Merging
    <3>q. QED
      BY <3>1, <3>2
  <2>3. ASSUME NEW h \in Merges, NEW k \in Merges, Alone(h)', Conversions!Merging(k)',
               job'[k].id = job'[h].id, h # k
        PROVE  FALSE
    <3>1. CASE h # g /\ k # g
      BY <1>2, <1>5, <2>1, <2>3, <3>1 DEF AloneInv
    <3>2. CASE k = g
      BY <1>5, <2>3, <3>2
    <3>3. CASE h = g
      <4>1. Conversions!Merging(k) /\ job[k].id = job'[g].id /\ job'[g].id \notin shared'
        BY <1>2, <1>5, <2>3, <3>3 DEF Alone
      <4>2. job'[g].pc # "ended"
        BY <2>3, <3>3 DEF Conversions!Merging, Alone
      <4>q. QED
        BY <1>2, <4>1, <4>2
    <3>q. QED
      BY <3>1, <3>2, <3>3
  <2>q. QED
    BY <2>2, <2>3 DEF AloneInv
<1>7. SegmentsInv' /\ FinalInv'
  <2>1. ASSUME NEW h \in Merges, h # g, Alone(h)' PROVE SegmentsOf(h)' /\ FinalOf(h)'
    <3>1. SegmentsOf(h) /\ FinalOf(h)
      BY <1>5, <2>1 DEF ConvertInv, SegmentsInv, FinalInv
    <3>q. QED
      BY <1>1, <1>2, <2>1, <3>1 DEF SegmentsOf, FinalOf
  <2>2. ASSUME Alone(g)' PROVE SegmentsOf(g)' /\ FinalOf(g)'
    <3>1. job'[g].pc = "encode" /\ job'[g].item = 1
      BY <1>1, <1>2, <2>2 DEF Alone, Conversions!Merging, ConvertInv, AloneInv
    <3>q. QED
      BY <3>1 DEF SegmentsOf, FinalOf, Conversions!Items
  <2>q. QED
    BY <2>1, <2>2 DEF SegmentsInv, FinalInv
<1>8. MergedInv'
  <2>1. MergedInv
    BY DEF ConvertInv
  <2>q. QED
    BY <1>1, <1>2, <1>4, <2>1 DEF MergedInv
<1>9. MadeInv'
  BY <1>1, <1>2, MergeMade
<1>q. QED
  BY <1>3, <1>6, <1>7, <1>8, <1>9 DEF ConvertInv


\* What every later step of a merge needs.
LEMMA MergeFacts ==
  ASSUME ConvertInv, NEW g \in Merges, job[g].pc \notin {"idle", "ended"}
  PROVE  /\ Conversions!Merging(g) /\ g \in Conversions!Calls
         /\ job[g] \in JobType
         /\ job[g].id \in RequestIds /\ job[g].item \in Conversions!Items
         /\ Merges \subseteq Conversions!Calls
         /\ Alone(g) => SegmentsOf(g) /\ FinalOf(g)
         /\ \A m \in medias : m.of # g
<1>1. Conversions!Merging(g) /\ g \in Conversions!Calls /\ Merges \subseteq Conversions!Calls
  BY DEF Conversions!Merging, Conversions!Calls
<1>2. job[g] \in JobType /\ job[g].item \in Conversions!Items
  BY <1>1 DEF ConvertInv, ConvertType, JobType
<1>3. job[g].id \in RequestIds /\ (Alone(g) => SegmentsOf(g) /\ FinalOf(g))
  BY <1>1 DEF ConvertInv, AloneInv, SegmentsInv, FinalInv
<1>4. \A m \in medias : m.of # g
  BY DEF ConvertInv, MergedInv
<1>q. QED
  BY <1>1, <1>2, <1>3, <1>4

\* A step of a merge that makes no media.
LEMMA MergeKept ==
  ASSUME ConvertInv, NEW g \in Merges, job[g].pc \notin {"idle", "ended"},
         \A t \in Conversions!Calls : t # g => job'[t] = job[t],
         UNCHANGED <<plugin, late, shared, medias>>
  PROVE  MergedInv' /\ MadeInv'
<1>1. MadeInv'
  BY MergeMade
<1>2. MergedInv'
  <2>1. \A m \in medias : m.of # g /\ (m.of \in Merges => job'[m.of] = job[m.of])
    BY MergeFacts DEF Conversions!Calls
  <2>q. QED
    BY <2>1 DEF ConvertInv, MergedInv
<1>q. QED
  BY <1>1, <1>2

\* Any step may fail, and ends the merge.
LEMMA MergeEnds ==
  ASSUME ConvertInv, NEW g \in Merges, job[g].pc \notin {"idle", "ended"},
         Conversions!Goes(g, "ended"),
         UNCHANGED <<password, plugin, late, segments, final, shared, medias>>
  PROVE  ConvertInv'
<1>1. /\ job' \in [Conversions!Calls -> JobType]
      /\ job'[g].pc = "ended" /\ job'[g].id = job[g].id
      /\ \A t \in Conversions!Calls : t # g => job'[t] = job[t]
  BY MergeFacts, ConvertGoes DEF ConvertInv
<1>2. ConvertType'
  BY <1>1 DEF ConvertInv, ConvertType
<1>3. ~Alone(g)'
  BY <1>1 DEF Alone, Conversions!Merging
<1>4. AloneInv' /\ SegmentsInv' /\ FinalInv'
  BY <1>1, <1>3, MergeFacts, MergeSteps
<1>5. MergedInv' /\ MadeInv'
  BY <1>1, MergeKept
<1>q. QED
  BY <1>2, <1>4, <1>5 DEF ConvertInv

LEMMA EncodeInv ==
  ASSUME ConvertInv, NEW g \in Merges, Conversions!Encode(g)
  PROVE  ConvertInv'
<1> DEFINE id == job[g].id
           item == job[g].item
           new == [by |-> g, item |-> item, whole |-> FALSE]
<1>1. job[g].pc = "encode" /\ UNCHANGED <<password, plugin, late, final, shared, medias>>
  BY DEF Conversions!Encode, Conversions!At
<1>2. /\ Conversions!Merging(g) /\ g \in Conversions!Calls /\ Merges \subseteq Conversions!Calls
      /\ id \in RequestIds /\ item \in Conversions!Items
      /\ Alone(g) => SegmentsOf(g)
  BY <1>1, MergeFacts
<1>3. /\ job' \in [Conversions!Calls -> JobType]
      /\ job'[g].pc = "encoding" /\ job'[g].id = id /\ job'[g].item = item
      /\ \A t \in Conversions!Calls : t # g => job'[t] = job[t]
  BY <1>2, ConvertGoes DEF ConvertInv, Conversions!Encode, Working
<1>4. /\ segments' \in [RequestIds \X Conversions!Items -> Segment]
      /\ segments'[<<id, item>>] = new
      /\ \A f \in RequestIds \X Conversions!Items : f # <<id, item>> => segments'[f] = segments[f]
  <2>1. new \in Segment /\ <<id, item>> \in RequestIds \X Conversions!Items
    BY <1>2 DEF Segment, Conversions!Items
  <2>2. segments' = [segments EXCEPT ![<<id, item>>] = new]
    BY DEF Conversions!Encode, Conversions!segment_dest
  <2>q. QED
    BY <2>1, <2>2 DEF ConvertInv, ConvertType
<1>5. ConvertType'
  BY <1>1, <1>3, <1>4 DEF ConvertInv, ConvertType
<1>6. Alone(g)' => SegmentsOf(g)' /\ FinalOf(g)'
  <2>1. Alone(g)' => Alone(g)
    BY <1>1, <1>2, <1>3 DEF Alone
  <2>2. ASSUME SegmentsOf(g) PROVE SegmentsOf(g)'
    <3>1. \A i \in Conversions!Items : i < item => segments[<<id, i>>] = Part(g, i)
      BY <1>1, <2>2 DEF SegmentsOf
    <3>2. \A i \in Conversions!Items : i < item => segments'[<<id, i>>] = Part(g, i)
      BY <1>2, <1>4, <3>1 DEF Conversions!Items
    <3>q. QED
      BY <1>3, <1>4, <3>2 DEF SegmentsOf, Part
  <2>q. QED
    BY <1>2, <1>3, <2>1, <2>2 DEF FinalOf
<1>7. AloneInv' /\ SegmentsInv' /\ FinalInv'
  <2>1. \A k \in RequestIds : k # id =>
          \A i \in Conversions!Items : segments'[<<k, i>>] = segments[<<k, i>>]
    BY <1>4
  <2>q. QED
    BY <1>1, <1>2, <1>3, <1>6, <2>1, MergeSteps
<1>8. MergedInv' /\ MadeInv'
  BY <1>1, <1>3, MergeKept
<1>q. QED
  BY <1>5, <1>7, <1>8 DEF ConvertInv

LEMMA run_fileInv ==
  ASSUME ConvertInv, NEW g \in Merges, Conversions!run_file(g)
  PROVE  ConvertInv'
<1> DEFINE id == job[g].id
           item == job[g].item
           f == <<id, item>>
           more == item + 1 \in Conversions!Items
           new == [segments[f] EXCEPT !.whole = @ \/ segments[f].by = g]
<1>1. job[g].pc = "encoding" /\ UNCHANGED <<password, plugin, late, final, shared, medias>>
  BY DEF Conversions!run_file, Conversions!At
<1>2. /\ Conversions!Merging(g) /\ g \in Conversions!Calls /\ Merges \subseteq Conversions!Calls
      /\ job[g] \in JobType /\ id \in RequestIds /\ item \in Conversions!Items
      /\ Alone(g) => SegmentsOf(g)
  BY <1>1, MergeFacts
<1>3. CASE Conversions!Goes(g, "ended") /\ UNCHANGED segments
  BY <1>1, <1>3, MergeEnds
<1>4. CASE /\ segments' = [segments EXCEPT ![f].whole = @ \/ segments[f].by = g]
           /\ job' = [job EXCEPT ![g].pc = IF more THEN "encode" ELSE "concat",
                                 ![g].item = IF more THEN item + 1 ELSE item]
  <2>1. /\ job' \in [Conversions!Calls -> JobType]
        /\ job'[g].pc = (IF more THEN "encode" ELSE "concat") /\ job'[g].id = id
        /\ job'[g].item = (IF more THEN item + 1 ELSE item)
        /\ \A t \in Conversions!Calls : t # g => job'[t] = job[t]
    BY <1>2, <1>4 DEF ConvertInv, ConvertType, JobType, Working
  <2>2. /\ segments' \in [RequestIds \X Conversions!Items -> Segment]
        /\ segments'[f].by = segments[f].by /\ segments'[f].item = segments[f].item
        /\ segments[f].by = g => segments'[f].whole = TRUE
        /\ \A k \in RequestIds \X Conversions!Items : k # f => segments'[k] = segments[k]
    <3>1. segments \in [RequestIds \X Conversions!Items -> Segment]
      BY DEF ConvertInv, ConvertType
    <3>2. f \in RequestIds \X Conversions!Items
      BY <1>2
    <3>3. segments' = [segments EXCEPT ![f] = new]
      BY <1>4
    <3>4. /\ new \in Segment /\ new.by = segments[f].by /\ new.item = segments[f].item
          /\ segments[f].by = g => new.whole = TRUE
      <4>1. segments[f] \in Segment
        BY <3>1, <3>2
      <4>q. QED
        BY <4>1 DEF Segment
    <3> HIDE DEF new, f
    <3>q. QED
      BY <3>1, <3>2, <3>3, <3>4
  <2>3. ConvertType'
    BY <1>1, <2>1, <2>2 DEF ConvertInv, ConvertType
  <2>4. Alone(g)' => SegmentsOf(g)' /\ FinalOf(g)'
    <3>1. Alone(g)' => Alone(g)
      BY <1>1, <1>2, <2>1 DEF Alone
    <3>2. ASSUME SegmentsOf(g) PROVE SegmentsOf(g)'
      <4>1. /\ \A i \in Conversions!Items : i < item => segments[<<id, i>>] = Part(g, i)
            /\ segments[f].by = g /\ segments[f].item = item
        BY <1>1, <3>2 DEF SegmentsOf
      <4>2. \A i \in Conversions!Items : i < item => segments'[<<id, i>>] = Part(g, i)
        BY <1>2, <2>2, <4>1 DEF Conversions!Items
      <4>3. segments'[f] = Part(g, item)
        <5>1. segments'[f] \in Segment
          BY <1>2, <2>2
        <5>2. segments'[f].by = g /\ segments'[f].item = item /\ segments'[f].whole = TRUE
          BY <2>2, <4>1
        <5> HIDE DEF f, item
        <5>q. QED
          BY <5>1, <5>2 DEF Segment, Part
      <4>4. \A i \in Conversions!Items : i <= item => segments'[<<id, i>>] = Part(g, i)
        BY <1>2, <4>2, <4>3 DEF Conversions!Items
      <4>5. CASE more
        <5>1. \A i \in Conversions!Items : i < item + 1 => i <= item
          BY <1>2 DEF Conversions!Items
        <5>q. QED
          BY <2>1, <4>4, <4>5, <5>1 DEF SegmentsOf
      <4>6. CASE ~more
        <5>1. \A i \in Conversions!Items : i <= item
          BY <1>2, <4>6 DEF Conversions!Items
        <5>q. QED
          BY <2>1, <4>4, <4>6, <5>1 DEF SegmentsOf
      <4>q. QED
        BY <4>5, <4>6
    <3>q. QED
      BY <1>2, <2>1, <3>1, <3>2 DEF FinalOf
  <2>5. AloneInv' /\ SegmentsInv' /\ FinalInv'
    <3>1. \A k \in RequestIds : k # id =>
            \A i \in Conversions!Items : segments'[<<k, i>>] = segments[<<k, i>>]
      BY <2>2
    <3>2. job'[g].pc # "idle"
      BY <2>1
    <3>q. QED
      BY <1>1, <1>2, <2>1, <2>4, <3>1, <3>2, MergeSteps
  <2>6. MergedInv' /\ MadeInv'
    BY <1>1, <2>1, MergeKept
  <2>q. QED
    BY <2>3, <2>5, <2>6 DEF ConvertInv
<1>q. QED
  BY <1>3, <1>4 DEF Conversions!run_file, Conversions!segment_dest

LEMMA concat_videosInv ==
  ASSUME ConvertInv, NEW g \in Merges, Conversions!concat_videos(g)
  PROVE  ConvertInv'
<1> DEFINE id == job[g].id
           s == [i \in Conversions!Items |-> segments[<<id, i>>]]
<1>1. job[g].pc = "concat" /\ UNCHANGED <<password, plugin, late, segments, shared, medias>>
  BY DEF Conversions!concat_videos, Conversions!At
<1>2. /\ Conversions!Merging(g) /\ g \in Conversions!Calls /\ Merges \subseteq Conversions!Calls
      /\ id \in RequestIds
      /\ Alone(g) => SegmentsOf(g)
  BY <1>1, MergeFacts
<1>3. CASE Conversions!Goes(g, "ended") /\ UNCHANGED final
  BY <1>1, <1>3, MergeEnds
<1>4. CASE final' = [final EXCEPT ![id] = s] /\ Conversions!Goes(g, "clean")
  <2>1. /\ job' \in [Conversions!Calls -> JobType]
        /\ job'[g].pc = "clean" /\ job'[g].id = id
        /\ \A t \in Conversions!Calls : t # g => job'[t] = job[t]
    BY <1>2, <1>4, ConvertGoes DEF ConvertInv, Working
  <2>2. /\ final' \in [RequestIds -> Data] /\ final'[id] = s
        /\ \A k \in RequestIds : k # id => final'[k] = final[k]
    <3>1. s \in Data
      BY <1>2 DEF ConvertInv, ConvertType, Data
    <3> HIDE DEF s
    <3>q. QED
      BY <1>2, <1>4, <3>1 DEF ConvertInv, ConvertType
  <2>3. ConvertType'
    BY <1>1, <2>1, <2>2 DEF ConvertInv, ConvertType
  <2>4. Alone(g)' => SegmentsOf(g)' /\ FinalOf(g)'
    <3>1. Alone(g)' => Alone(g)
      BY <1>1, <1>2, <2>1 DEF Alone
    <3>2. SegmentsOf(g) => s = Whole(g)
      BY <1>1 DEF SegmentsOf, Whole
    <3>3. SegmentsOf(g)'
      BY <2>1 DEF SegmentsOf
    <3> HIDE DEF s
    <3>q. QED
      BY <1>2, <2>1, <2>2, <3>1, <3>2, <3>3 DEF FinalOf
  <2>5. AloneInv' /\ SegmentsInv' /\ FinalInv'
    <3> HIDE DEF s
    <3>q. QED
      BY <1>1, <1>2, <2>1, <2>2, <2>4, MergeSteps
  <2>6. MergedInv' /\ MadeInv'
    BY <1>1, <2>1, MergeKept
  <2>q. QED
    BY <2>3, <2>5, <2>6 DEF ConvertInv
<1>q. QED
  BY <1>3, <1>4 DEF Conversions!concat_videos, Conversions!segment_dest

LEMMA CleanSegmentsInv ==
  ASSUME ConvertInv, NEW g \in Merges, Conversions!CleanSegments(g)
  PROVE  ConvertInv'
<1> DEFINE id == job[g].id
<1>1. job[g].pc = "clean" /\ UNCHANGED <<password, plugin, late, final, shared, medias>>
  BY DEF Conversions!CleanSegments, Conversions!At
<1>2. /\ Conversions!Merging(g) /\ g \in Conversions!Calls /\ Merges \subseteq Conversions!Calls
      /\ id \in RequestIds
      /\ Alone(g) => FinalOf(g)
  BY <1>1, MergeFacts
<1>3. /\ job' \in [Conversions!Calls -> JobType]
      /\ job'[g].pc = "open" /\ job'[g].id = id
      /\ \A t \in Conversions!Calls : t # g => job'[t] = job[t]
  BY <1>2, ConvertGoes DEF ConvertInv, Conversions!CleanSegments, Working
<1>4. /\ segments' \in [RequestIds \X Conversions!Items -> Segment]
      /\ \A k \in RequestIds : k # id =>
           \A i \in Conversions!Items : segments'[<<k, i>>] = segments[<<k, i>>]
  <2>1. segments \in [RequestIds \X Conversions!Items -> Segment] /\ Conversions!NoFile \in Segment
    BY DEF ConvertInv, ConvertType, Conversions!NoFile, Segment
  <2>q. QED
    BY <2>1 DEF Conversions!CleanSegments, Conversions!segment_dest
<1>5. ConvertType'
  BY <1>1, <1>3, <1>4 DEF ConvertInv, ConvertType
<1>6. Alone(g)' => SegmentsOf(g)' /\ FinalOf(g)'
  <2>1. Alone(g)' => Alone(g)
    BY <1>1, <1>2, <1>3 DEF Alone
  <2>q. QED
    BY <1>1, <1>2, <1>3, <2>1 DEF SegmentsOf, FinalOf
<1>7. AloneInv' /\ SegmentsInv' /\ FinalInv'
  BY <1>1, <1>2, <1>3, <1>4, <1>6, MergeSteps
<1>8. MergedInv' /\ MadeInv'
  BY <1>1, <1>3, MergeKept
<1>q. QED
  BY <1>5, <1>7, <1>8 DEF ConvertInv

LEMMA OpenInv ==
  ASSUME ConvertInv, NEW g \in Merges, Conversions!Open(g)
  PROVE  ConvertInv'
<1> DEFINE id == job[g].id
<1>1. job[g].pc = "open" /\ UNCHANGED <<password, plugin, late, segments, final, shared, medias>>
  BY DEF Conversions!Open, Conversions!At
<1>2. /\ Conversions!Merging(g) /\ g \in Conversions!Calls /\ Merges \subseteq Conversions!Calls
      /\ id \in RequestIds
      /\ Alone(g) => FinalOf(g)
  BY <1>1, MergeFacts
<1>3. CASE Conversions!Goes(g, "ended")
  BY <1>1, <1>3, MergeEnds
<1>4. CASE job' = [job EXCEPT ![g].pc = "import", ![g].data = final[id]]
  <2>1. /\ job' \in [Conversions!Calls -> JobType]
        /\ job'[g].pc = "import" /\ job'[g].id = id /\ job'[g].data = final[id]
        /\ \A t \in Conversions!Calls : t # g => job'[t] = job[t]
    <3>1. final[id] \in Data
      BY <1>2 DEF ConvertInv, ConvertType
    <3>q. QED
      BY ZenonT(60), <1>2, <1>4, <3>1 DEF ConvertInv, ConvertType, JobType, Working
  <2>2. ConvertType'
    BY <1>1, <2>1 DEF ConvertInv, ConvertType
  <2>3. Alone(g)' => SegmentsOf(g)' /\ FinalOf(g)'
    <3>1. Alone(g)' => Alone(g)
      BY <1>1, <1>2, <2>1 DEF Alone
    <3>q. QED
      BY <1>1, <1>2, <2>1, <3>1 DEF SegmentsOf, FinalOf
  <2>4. AloneInv' /\ SegmentsInv' /\ FinalInv'
    BY <1>1, <1>2, <2>1, <2>3, MergeSteps
  <2>5. MergedInv' /\ MadeInv'
    BY <1>1, <2>1, MergeKept
  <2>q. QED
    BY <2>2, <2>4, <2>5 DEF ConvertInv
<1>q. QED
  BY <1>3, <1>4 DEF Conversions!Open

LEMMA ImportMergedInv ==
  ASSUME ConvertInv, NEW g \in Merges, Conversions!ImportMerged(g)
  PROVE  ConvertInv'
<1> DEFINE id == job[g].id
<1>1. job[g].pc = "import" /\ UNCHANGED <<password, plugin, late, segments, shared>>
  BY DEF Conversions!ImportMerged, Conversions!At
<1>2. /\ Conversions!Merging(g) /\ g \in Conversions!Calls /\ Merges \subseteq Conversions!Calls
      /\ id \in RequestIds
      /\ Alone(g) => FinalOf(g)
      /\ \A m \in medias : m.of # g
  BY <1>1, MergeFacts
<1>3. PICK result \in Conversions!Results, data \in {job[g].data, final[id]} \ {<<>>} :
        Conversions!add_library_file(g, data, result)
  BY DEF Conversions!ImportMerged
<1>4. /\ job' \in [Conversions!Calls -> JobType]
      /\ job'[g].pc = "ended" /\ job'[g].id = id
      /\ \A t \in Conversions!Calls : t # g => job'[t] = job[t]
  BY <1>2, ConvertGoes DEF ConvertInv, Conversions!ImportMerged, Working
<1>5. /\ final' \in [RequestIds -> Data]
      /\ \A k \in RequestIds : k # id => final'[k] = final[k]
  BY <1>2 DEF ConvertInv, ConvertType, Conversions!ImportMerged, Data
<1>6. /\ medias' \subseteq MediaType /\ IsFiniteSet(medias') /\ medias \subseteq medias'
      /\ \A m \in medias' : m \in medias \/ (m.of = g /\ m.data = data)
  <2>0. data \in Contained
    BY <1>2 DEF ConvertInv, ConvertType, JobType, Contained
  <2>1. \/ UNCHANGED medias
        \/ \E n \in MediaType : n.of = g /\ n.data = data /\ medias' = medias \cup {n}
    BY <1>2, <1>3, <2>0, ImportAdds DEF ConvertInv
  <2>2. medias \subseteq MediaType /\ IsFiniteSet(medias)
    BY DEF ConvertInv, ConvertType
  <2>3. CASE UNCHANGED medias
    BY <2>2, <2>3
  <2>4. CASE \E n \in MediaType : n.of = g /\ n.data = data /\ medias' = medias \cup {n}
    BY <2>2, <2>4, FS_AddElement
  <2>q. QED
    BY <2>1, <2>3, <2>4
<1>7. ConvertType'
  BY <1>1, <1>4, <1>5, <1>6 DEF ConvertInv, ConvertType
<1>8. ~Alone(g)'
  BY <1>4 DEF Alone, Conversions!Merging
<1>9. AloneInv' /\ SegmentsInv' /\ FinalInv'
  BY <1>1, <1>2, <1>4, <1>5, <1>8, MergeSteps
<1>10. MergedInv'
  <2>1. id \in shared \/ data = Whole(g)
    BY <1>1, <1>2, <1>3 DEF Alone, FinalOf
  <2>2. ASSUME NEW m \in medias', m \in medias
        PROVE  /\ m.of \in Conversions!Calls
               /\ m.of \in Merges =>
                    job'[m.of].pc = "ended" /\ (job'[m.of].id \in shared' \/ m.data = Whole(m.of))
    BY <1>1, <1>2, <1>4, <2>2 DEF ConvertInv, MergedInv
  <2>3. ASSUME NEW m \in medias', m.of = g, m.data = data
        PROVE  /\ m.of \in Conversions!Calls
               /\ m.of \in Merges =>
                    job'[m.of].pc = "ended" /\ (job'[m.of].id \in shared' \/ m.data = Whole(m.of))
    BY <1>1, <1>2, <1>4, <2>1, <2>3
  <2>q. QED
    BY <1>6, <2>2, <2>3 DEF MergedInv
<1>11. MadeInv'
  BY <1>1, <1>4, <1>6, MergeMade
<1>q. QED
  BY <1>7, <1>9, <1>10, <1>11 DEF ConvertInv


\* A part of an album is a media of its own.
LEMMA SplitSteps ==
  ASSUME ConvertInv, NEW s \in Splits,
         \/ Conversions!split_media(s) \/ Conversions!RemoveDuplicate(s)
         \/ Conversions!AddSplit(s) \/ Conversions!UpdateSplit(s)
  PROVE  ConvertInv'
<1> DEFINE updated(m) == IF m.of = s THEN [m EXCEPT !.hashed = TRUE] ELSE m
<1>1. /\ s \in Conversions!Calls /\ s \notin Jobs /\ s \notin Merges
      /\ Merges \subseteq Conversions!Calls /\ Jobs \subseteq Conversions!Calls
  BY ConversionsAssumption DEF Conversions!Calls
<1>2. UNCHANGED <<password, plugin, late, segments, final, shared>>
  BY DEF Conversions!split_media, Conversions!RemoveDuplicate, Conversions!AddSplit,
         Conversions!UpdateSplit
<1>3. \E pc \in Working \cup {"idle", "ended"} : Conversions!Goes(s, pc)
  BY DEF Conversions!split_media, Conversions!RemoveDuplicate, Conversions!AddSplit,
         Conversions!UpdateSplit, Working
<1>4. /\ job' \in [Conversions!Calls -> JobType]
      /\ \A t \in Conversions!Calls : t # s => job'[t] = job[t]
  BY <1>1, <1>3, ConvertGoes DEF ConvertInv
<1>5. \/ UNCHANGED medias
      \/ \E n \in MediaType : n.of = s /\ medias' = medias \cup {n}
      \/ medias' = {updated(m) : m \in medias}
  <2>1. CASE Conversions!split_media(s) \/ Conversions!RemoveDuplicate(s)
    BY <2>1 DEF Conversions!split_media, Conversions!RemoveDuplicate
  <2>2. CASE Conversions!AddSplit(s)
    <3> DEFINE n == Conversions!Media(s, <<None>>, FALSE, FALSE)
    <3>1. n \in MediaType /\ n.of = s
      BY <1>1 DEF Conversions!Media, ConvertInv, ConvertType, JobType, MediaType, Contained
    <3>2. UNCHANGED medias \/ medias' = medias \cup {n}
      BY <2>2 DEF Conversions!AddSplit
    <3>q. QED
      BY <3>1, <3>2
  <2>3. CASE Conversions!UpdateSplit(s)
    BY <2>3 DEF Conversions!UpdateSplit
  <2>q. QED
    BY <2>1, <2>2, <2>3
<1>6. /\ medias' \subseteq MediaType /\ IsFiniteSet(medias')
      /\ \A m \in medias' : m \in medias \/ m.of = s
      /\ \A m \in medias : m.of # s => m \in medias'
  <2>1. medias \subseteq MediaType /\ IsFiniteSet(medias)
    BY DEF ConvertInv, ConvertType
  <2>2. CASE \E n \in MediaType : n.of = s /\ medias' = medias \cup {n}
    BY <2>1, <2>2, FS_AddElement
  <2>3. CASE medias' = {updated(m) : m \in medias}
    <3>1. IsFiniteSet({updated(m) : m \in medias})
      <4> DEFINE after == {updated(m) : m \in medias}
                 f     == [m \in medias |-> updated(m)]
      <4> HIDE DEF updated
      <4>1. f \in Surjection(medias, after)
        BY DEF Surjection
      <4> HIDE DEF f, after
      <4>2. IsFiniteSet(after)
        BY <2>1, <4>1, FS_Surjection
      <4>q. QED
        BY <4>2 DEF after
    <3>2. \A m \in medias :
            updated(m) \in MediaType /\ updated(m).of = m.of /\ (m.of # s => updated(m) = m)
      BY <2>1 DEF MediaType
    <3> HIDE DEF updated
    <3>q. QED
      BY <2>3, <3>1, <3>2
  <2>q. QED
    BY <1>5, <2>1, <2>2, <2>3
<1>7. ConvertType'
  BY <1>2, <1>4, <1>6 DEF ConvertInv, ConvertType
<1>8. AloneInv' /\ SegmentsInv' /\ FinalInv'
  BY <1>1, <1>2, <1>4, MergesKeep
<1>9. MergedInv'
  BY <1>1, <1>2, <1>4, <1>6, MergedKeep DEF ConvertInv
<1>10. MadeInv'
  <2>1. \A j \in Jobs : Made(j)' = Made(j)
    BY <1>1, <1>6 DEF Made
  <2>q. QED
    BY <1>1, <1>2, <1>4, <2>1, MadeKeep DEF ConvertInv
<1>q. QED
  BY <1>7, <1>8, <1>9, <1>10 DEF ConvertInv

LEMMA ConvertStop ==
  ASSUME ConvertInv, Conversions!Stop
  PROVE  ConvertInv'
<1>1. UNCHANGED <<password, plugin, late, segments, final, shared, medias>>
  BY DEF Conversions!Stop
<1>2. /\ job' \in [Conversions!Calls -> JobType]
      /\ \A t \in Conversions!Calls : /\ job'[t].id = job[t].id /\ job'[t].item = job[t].item
                                      /\ job'[t].pc = IF job[t].pc = "idle" THEN "idle" ELSE "ended"
  BY DEF ConvertInv, ConvertType, Conversions!Stop, Conversions!At, JobType
<1>3. ConvertType'
  BY <1>1, <1>2 DEF ConvertInv, ConvertType
<1>4. \A g \in Merges : g \in Conversions!Calls /\ ~Conversions!Merging(g)' /\ ~Alone(g)'
  BY <1>2 DEF Alone, Conversions!Merging, Conversions!Calls
<1>5. AloneInv' /\ SegmentsInv' /\ FinalInv'
  BY <1>2, <1>4 DEF ConvertInv, AloneInv, SegmentsInv, FinalInv
<1>6. MergedInv'
  BY <1>1, <1>2 DEF ConvertInv, MergedInv
<1>7. MadeInv'
  <2>1. \A j \in Jobs : /\ j \in Conversions!Calls /\ Made(j)' = Made(j)
                        /\ late[j] \in Nat /\ Cardinality(Made(j)) \in Nat
    BY <1>1, FS_CardinalityType, FS_Subset DEF ConvertInv, ConvertType, Made, Conversions!Calls
  <2>q. QED
    BY <1>1, <1>2, <2>1 DEF ConvertInv, MadeInv
<1>q. QED
  BY <1>3, <1>5, <1>6, <1>7 DEF ConvertInv

LEMMA ConvertNext == ConvertInv /\ Conversions!Next => ConvertInv'
<1> SUFFICES ASSUME ConvertInv, Conversions!Next PROVE ConvertInv'
  OBVIOUS
<1>1. CASE \E j \in Jobs :
        \/ Conversions!convert_submit_media(j) \/ Conversions!Transcoded(j)
        \/ Conversions!NotTranscoded(j) \/ Conversions!Poll(j) \/ Conversions!Link(j)
        \/ Conversions!Read(j) \/ Conversions!Import(j) \/ Conversions!Clean(j)
  BY <1>1, JobWorks, JobImports
<1>2. CASE \E g \in Merges :
        \/ Conversions!merge_videos(g) \/ Conversions!Encode(g) \/ Conversions!run_file(g)
        \/ Conversions!concat_videos(g) \/ Conversions!CleanSegments(g) \/ Conversions!Open(g)
        \/ Conversions!ImportMerged(g)
  BY <1>2, merge_videosInv, EncodeInv, run_fileInv, concat_videosInv, CleanSegmentsInv, OpenInv,
     ImportMergedInv
<1>3. CASE \E s \in Splits :
        \/ Conversions!split_media(s) \/ Conversions!RemoveDuplicate(s)
        \/ Conversions!AddSplit(s) \/ Conversions!UpdateSplit(s)
  BY <1>3, SplitSteps
<1>4. CASE Conversions!Stop
  BY <1>4, ConvertStop
<1>q. QED
  BY <1>1, <1>2, <1>3, <1>4 DEF Conversions!Next

\* However many merges and conversions run, fail and are stopped, a merged video is
\* all its own parts unless another merge had its id meanwhile, and a plugin's result
\* is thrown away only once it is in the library, where no import puts it twice unless
\* one failed too late.
THEOREM ResultsWholeCorrect == MCSpec => []ResultsWhole
<1> DEFINE Inv == subject = "conversions" => ConvertInv
<1>1. MCInit => Inv
  BY ConvertInit DEF MCInit
<1>2. Inv /\ [MCNext]_<<subject, vars, downloadVars, convertVars>> => Inv'
  <2> SUFFICES ASSUME Inv, subject' = "conversions",
                      [MCNext]_<<subject, vars, downloadVars, convertVars>>
               PROVE  ConvertInv'
    OBVIOUS
  <2>1. CASE MCNext
    BY <2>1, ConvertNext DEF MCNext
  <2>2. CASE UNCHANGED <<subject, vars, downloadVars, convertVars>>
    <3>1. ConvertInv /\ UNCHANGED <<password, job, plugin, late, segments, final, shared, medias>>
      BY <2>2 DEF convertVars
    <3>q. QED
      BY ZenonT(60), <3>1 DEF ConvertInv, ConvertType, AloneInv, SegmentsInv, SegmentsOf, FinalInv, FinalOf,
         MergedInv, MadeInv, Made, Alone, Conversions!Merging
  <2>q. QED
    BY <2>1, <2>2
<1>3. Inv => ResultsWhole
  <2> SUFFICES ASSUME ConvertInv PROVE Conversions!ResultsWhole
    BY DEF ResultsWhole
  <2>1. \A m \in medias : m.of \in Merges /\ job[m.of].id \notin shared =>
          m.data = [i \in Conversions!Items |-> [by |-> m.of, item |-> i, whole |-> TRUE]]
    BY DEF ConvertInv, MergedInv, Whole, Part
  <2>2. ASSUME NEW j \in Jobs
        PROVE  /\ plugin[j] = "cleaned" => {m \in medias : m.of = j} # {}
               /\ Conversions!Cardinality({m \in medias : m.of = j}) <= late[j] + 1
    <3>1. Cardinality(Made(j)) \in Nat /\ late[j] \in Nat
      BY FS_CardinalityType, FS_Subset DEF ConvertInv, ConvertType, Made
    <3>2. Cardinality(Made(j)) <= late[j] + 1
      BY <3>1 DEF ConvertInv, MadeInv
    <3>3. Conversions!Cardinality(Made(j)) = Cardinality(Made(j))
      BY CardinalityHere
    <3>4. plugin[j] = "cleaned" => Made(j) # {}
      BY DEF ConvertInv, MadeInv
    <3>q. QED
      BY <3>2, <3>3, <3>4 DEF Made
  <2>q. QED
    BY <2>1, <2>2 DEF Conversions!ResultsWhole
<1>q. QED
  BY <1>1, <1>2, <1>3, PTL DEF MCSpec

-----------------------------------------------------------------------------
(* Downloads.                                                              *)

Before == {"idle", "start", "read", "write", "close", "hash", "add"}
After  == {"update", "thumb", "answered"}

Addresses == Requests \cup {None, Post}
Origins   == [id : Addresses, file : Addresses]
Sums      == {None} \cup Requests \cup Seq(Requests)
LoadType  == [pc : Before \cup After \cup {"failed"}, list : Lists \cup {<<>>}, at : Nat,
              grouped : BOOLEAN, post : BOOLEAN, ignore : BOOLEAN,
              pages : Seq(Requests), hash : Sums]
HeldType  == [task : Tasks, at : Nat, request : Requests, grouped : BOOLEAN,
              pages : Seq(Requests), ignored : BOOLEAN, origin : Origins, hash : Sums]

DownloadType ==
  /\ kind \in {"plain", "password", "virtual"}
  /\ download \in [Tasks -> LoadType]
  /\ held \subseteq HeldType

\* Where a download is in its list.
ListOf(t) ==
  /\ download[t].pc = "idle" => download[t].at = 1
  /\ download[t].pc # "idle" =>
       /\ download[t].list \in Lists
       /\ download[t].at \in 1..Len(download[t].list)
  /\ download[t].pc = "close" => download[t].grouped
  /\ download[t].pc = "answered" /\ ~download[t].grouped =>
       download[t].at = Len(download[t].list)
  /\ /\ kind # "virtual" /\ ~download[t].grouped
     /\ download[t].pc \in {"hash", "add", "update"}
     => download[t].hash \in {None, Downloads!Request(t)}

\* A row is what its download was told to get.
RowOf(m) ==
  /\ download[m.task].pc # "idle"
  /\ m.grouped = download[m.task].grouped /\ m.ignored = download[m.task].ignore
  /\ ~m.grouped => /\ m.request = download[m.task].list[m.at]
                   /\ kind # "virtual" => m.hash \in {None, m.request}

\* The rows of a download are those of the requests it has come through.
Stored(t) == {m \in held : m.task = t}
Ats(t)    == {m.at : m \in Stored(t)}
StoredOf(t) ==
  /\ ~download[t].grouped =>
       /\ \A m, n \in Stored(t) : m.at = n.at => m = n
       /\ download[t].pc \in Before => Ats(t) = 1..(download[t].at - 1)
       /\ download[t].pc \in After  => Ats(t) = 1..download[t].at
       /\ download[t].pc = "failed" =>
            \E k \in {download[t].at - 1, download[t].at} : Ats(t) = 1..k
  /\ download[t].grouped =>
       /\ download[t].pc \in Before => Stored(t) = {}
       /\ download[t].pc \in After  => \E m \in held : Stored(t) = {m}

\* Past its checks, a download finds nothing that it did not find at them.
Checking(t) ==
  /\ download[t].pc \in {"read", "write", "hash", "add", "update"} /\ ~download[t].grouped
  /\ Downloads!Request(t) \notin raced
Compared(t, m) ==
  /\ ~m.grouped /\ m.request = Downloads!Request(t)
  /\ m.origin # Downloads!NoOrigin /\ ~Downloads!Mine(t, m)
CheckedOf(t) ==
  kind # "virtual" /\ Checking(t) =>
    \A m \in held : Compared(t, m) =>
      /\ \/ download[t].ignore
         \/ m.origin # Downloads!Origin(t)
         \/ Downloads!Origin(t) = Downloads!NoOrigin
      /\ download[t].pc \in {"add", "update"} /\ kind = "plain" =>
           download[t].hash = None \/ m.hash = None

OverlapInv ==
  kind # "virtual" =>
    \A t, u \in Tasks : t # u => Downloads!InFlight(t) \cap Downloads!InFlight(u) \subseteq raced

DownloadInv ==
  /\ DownloadType
  /\ \A t \in Tasks : ListOf(t)
  /\ \A m \in held : RowOf(m)
  /\ \A t \in Tasks : StoredOf(t)
  /\ \A t \in Tasks : CheckedOf(t)
  /\ OverlapInv
  /\ Downloads!HeldOnce

LEMMA CardinalityThere == \A S : Downloads!Cardinality(S) = Cardinality(S)
  BY DEF Downloads!Cardinality, Cardinality

LEMMA DownloadInit == Downloads!Init => DownloadInv
<1> SUFFICES ASSUME Downloads!Init PROVE DownloadInv
  OBVIOUS
<1>1. <<>> \in Seq(Requests)
  OBVIOUS
<1>2. Downloads!Idle \in LoadType
  BY <1>1 DEF Downloads!Idle, LoadType, Before, Sums
<1>3. DownloadType
  BY <1>2 DEF Downloads!Init, Downloads!Kinds, DownloadType
<1>4. held = {} /\ \A t \in Tasks : /\ download[t].pc = "idle" /\ download[t].at = 1
                                    /\ download[t].grouped = FALSE
  BY DEF Downloads!Init, Downloads!Idle
<1>5. \A t \in Tasks : ListOf(t) /\ CheckedOf(t)
  BY <1>4 DEF ListOf, CheckedOf, Checking
<1>6. \A t \in Tasks : StoredOf(t)
  <2>1. \A t \in Tasks : Stored(t) = {} /\ Ats(t) = {}
    BY <1>4 DEF Stored, Ats
  <2>2. 1..(1 - 1) = {}
    OBVIOUS
  <2>q. QED
    BY <1>4, <2>1, <2>2 DEF StoredOf, Before, After
<1>7. OverlapInv
  BY <1>4 DEF OverlapInv, Downloads!InFlight
<1>q. QED
  BY <1>3, <1>4, <1>5, <1>6, <1>7 DEF DownloadInv, Downloads!HeldOnce

\* What a download is at work on is in the lists.
LEMMA LoadFacts ==
  ASSUME DownloadInv, NEW t \in Tasks
  PROVE  /\ download[t] \in LoadType
         /\ download[t].pc # "idle" =>
              /\ download[t].list \in Seq(Requests) /\ download[t].at \in Nat
              /\ download[t].at \in 1..Len(download[t].list)
              /\ Downloads!Request(t) \in Requests
         /\ download[t].pc = "idle" => Stored(t) = {}
<1>1. download[t] \in LoadType
  BY DEF DownloadInv, DownloadType
<1>2. ASSUME download[t].pc # "idle"
      PROVE  /\ download[t].list \in Seq(Requests) /\ download[t].at \in Nat
             /\ download[t].at \in 1..Len(download[t].list)
             /\ Downloads!Request(t) \in Requests
  <2>1. download[t].list \in Lists /\ download[t].at \in 1..Len(download[t].list)
    BY <1>2 DEF DownloadInv, ListOf
  <2>2. download[t].list \in Seq(Requests)
    BY <2>1, DownloadsAssumption
  <2>q. QED
    BY <1>1, <2>1, <2>2 DEF Downloads!Request, LoadType
<1>3. download[t].pc = "idle" => Stored(t) = {}
  BY DEF DownloadInv, RowOf, Stored
<1>q. QED
  BY <1>1, <1>2, <1>3

\* A step of one download leaves what is said of the others.
LEMMA OthersLoad ==
  ASSUME NEW u \in Tasks, download'[u] = download[u], UNCHANGED <<kind, held>>,
         raced \subseteq raced'
  PROVE  /\ ListOf(u) => ListOf(u)'
         /\ StoredOf(u) => StoredOf(u)'
         /\ CheckedOf(u) => CheckedOf(u)'
<1>1. Downloads!Request(u)' = Downloads!Request(u)
  BY DEF Downloads!Request
<1>2. Downloads!Origin(u)' = Downloads!Origin(u)
  BY <1>1 DEF Downloads!Origin
<1>3. ListOf(u) => ListOf(u)'
  BY <1>1 DEF ListOf
<1>4. StoredOf(u) => StoredOf(u)'
  BY DEF StoredOf, Stored, Ats
<1>5. \A m : Compared(u, m)' <=> Compared(u, m)
  BY <1>1 DEF Compared, Downloads!Mine
<1>6. Checking(u)' => Checking(u)
  BY <1>1 DEF Checking
<1>7. CheckedOf(u) => CheckedOf(u)'
  BY <1>2, <1>5, <1>6 DEF CheckedOf
<1>q. QED
  BY <1>3, <1>4, <1>7

LEMMA OverlapKeep ==
  ASSUME OverlapInv, UNCHANGED kind, raced \subseteq raced',
         \A u \in Tasks : Downloads!InFlight(u)' \subseteq Downloads!InFlight(u)
  PROVE  OverlapInv'
  BY DEF OverlapInv

LEMMA OnceKeep ==
  ASSUME Downloads!HeldOnce, UNCHANGED <<kind, held>>, raced \subseteq raced'
  PROVE  Downloads!HeldOnce'
  BY DEF Downloads!HeldOnce

\* A step of a download that stores nothing.
LEMMA LoadSteps ==
  ASSUME DownloadInv, NEW t \in Tasks, download' \in [Tasks -> LoadType],
         \A u \in Tasks : u # t => download'[u] = download[u],
         UNCHANGED <<kind, held>>, raced \subseteq raced',
         download'[t].pc # "idle",
         Stored(t) # {} => /\ download'[t].grouped = download[t].grouped
                           /\ download'[t].ignore = download[t].ignore
                           /\ download'[t].list = download[t].list,
         ListOf(t)', StoredOf(t)', CheckedOf(t)', OverlapInv'
  PROVE  DownloadInv'
<1>1. DownloadType'
  BY DEF DownloadInv, DownloadType
<1>2. \A u \in Tasks : ListOf(u)' /\ StoredOf(u)' /\ CheckedOf(u)'
  BY OthersLoad DEF DownloadInv
<1>3. \A m \in held' : RowOf(m)'
  <2>1. ASSUME NEW m \in held PROVE RowOf(m)'
    <3>1. RowOf(m) /\ m.task \in Tasks
      BY DEF DownloadInv, DownloadType, HeldType
    <3>2. m.task = t => Stored(t) # {}
      BY DEF Stored
    <3>q. QED
      BY <3>1, <3>2 DEF RowOf
  <2>q. QED
    BY <2>1
<1>4. Downloads!HeldOnce'
  BY OnceKeep DEF DownloadInv
<1>q. QED
  BY <1>1, <1>2, <1>3, <1>4 DEF DownloadInv

LEMMA LoadGoes ==
  ASSUME DownloadInv, NEW t \in Tasks, NEW pc \in Before \cup After \cup {"failed"},
         Downloads!Goes(t, pc)
  PROVE  /\ download' \in [Tasks -> LoadType]
         /\ download'[t].pc = pc /\ download'[t].list = download[t].list
         /\ download'[t].at = download[t].at /\ download'[t].grouped = download[t].grouped
         /\ download'[t].post = download[t].post /\ download'[t].ignore = download[t].ignore
         /\ download'[t].hash = download[t].hash
         /\ \A u \in Tasks : u # t => download'[u] = download[u]
  BY DEF DownloadInv, DownloadType, Downloads!Goes, LoadType

\* What is kept where neither the request nor the group changes.
Stays(t) ==
  /\ download'[t].list = download[t].list /\ download'[t].at = download[t].at
  /\ download'[t].grouped = download[t].grouped
  /\ download'[t].post = download[t].post /\ download'[t].ignore = download[t].ignore

LEMMA StaysFacts ==
  ASSUME NEW t, Stays(t)
  PROVE  /\ Downloads!Request(t)' = Downloads!Request(t)
         /\ Downloads!Origin(t)' = Downloads!Origin(t)
         /\ raced \subseteq raced' => \A m : Compared(t, m)' <=> Compared(t, m)
<1>1. Downloads!Request(t)' = Downloads!Request(t)
  BY DEF Stays, Downloads!Request
<1>2. Downloads!Origin(t)' = Downloads!Origin(t)
  BY <1>1 DEF Stays, Downloads!Origin
<1>3. \A m : Compared(t, m)' <=> Compared(t, m)
  BY <1>1 DEF Stays, Compared, Downloads!Mine
<1>q. QED
  BY <1>1, <1>2, <1>3

LEMMA FlightFacts ==
  ASSUME DownloadInv, NEW t \in Tasks, Stays(t),
         \A u \in Tasks : u # t => download'[u] = download[u],
         download'[t].pc \in {"idle", "start", "answered", "failed"}
           \/ download[t].pc \notin {"idle", "start", "answered", "failed"}
  PROVE  \A u \in Tasks : Downloads!InFlight(u)' \subseteq Downloads!InFlight(u)
<1>1. Downloads!InFlight(t)' \subseteq Downloads!InFlight(t)
  BY StaysFacts DEF Stays, Downloads!InFlight
<1>2. ASSUME NEW u \in Tasks, u # t PROVE Downloads!InFlight(u)' = Downloads!InFlight(u)
  BY <1>2 DEF Downloads!InFlight, Downloads!Request
<1>q. QED
  BY <1>1, <1>2

\* A download can fail anywhere.
LEMMA LoadFails ==
  ASSUME DownloadInv, NEW t \in Tasks, Downloads!Fails(t), UNCHANGED <<kind, held>>,
         raced' = raced, download[t].pc # "idle"
  PROVE  DownloadInv'
<1>1. /\ download' \in [Tasks -> LoadType] /\ download'[t].pc = "failed" /\ Stays(t)
      /\ \A u \in Tasks : u # t => download'[u] = download[u]
  BY LoadGoes DEF Downloads!Fails, Stays
<1>2. ListOf(t) /\ StoredOf(t) /\ download[t] \in LoadType
  BY LoadFacts DEF DownloadInv
<1>3. ListOf(t)'
  BY <1>1, <1>2 DEF ListOf, Stays
<1>4. StoredOf(t)'
  <2>1. Stored(t)' = Stored(t) /\ Ats(t)' = Ats(t)
    BY DEF Stored, Ats
  <2>2. download[t].pc \in Before \cup After \cup {"failed"}
    BY <1>2 DEF LoadType
  <2>3. ~download[t].grouped =>
          \E k \in {download[t].at - 1, download[t].at} : Ats(t) = 1..k
    BY <1>2, <2>2 DEF StoredOf
  <2>q. QED
    BY <1>1, <1>2, <2>1, <2>3 DEF StoredOf, Stays, Before, After
<1>5. CheckedOf(t)'
  BY <1>1 DEF CheckedOf, Checking
<1>6. OverlapInv'
  BY <1>1, FlightFacts, OverlapKeep DEF DownloadInv
<1>q. QED
  BY <1>1, <1>3, <1>4, <1>5, <1>6, LoadSteps DEF Stays

LEMMA StartInv ==
  ASSUME DownloadInv, NEW t \in Tasks, Downloads!download_library_url(t)
  PROVE  DownloadInv'
<1>1. PICK list \in Lists, grouped \in BOOLEAN, post \in BOOLEAN, ignore \in BOOLEAN :
        download' = [download EXCEPT ![t] =
                       [Downloads!Idle EXCEPT !.list = list, !.pc = "start", !.post = post,
                                              !.grouped = grouped /\ kind # "virtual",
                                              !.ignore = ignore]]
  BY DEF Downloads!download_library_url
<1>2. download[t].pc = "idle" /\ UNCHANGED <<kind, held, raced>>
  BY DEF Downloads!download_library_url, Downloads!At
<1>3. /\ download' \in [Tasks -> LoadType]
      /\ download'[t].pc = "start" /\ download'[t].list = list /\ download'[t].at = 1
      /\ \A u \in Tasks : u # t => download'[u] = download[u]
  <2>1. <<>> \in Seq(Requests) /\ (grouped /\ kind # "virtual") \in BOOLEAN
    OBVIOUS
  <2>q. QED
    BY <1>1, <2>1 DEF DownloadInv, DownloadType, Downloads!Idle, LoadType, Before, Sums
<1>4. Stored(t) = {} /\ Stored(t)' = {} /\ Ats(t)' = {}
  BY <1>2, LoadFacts DEF Stored, Ats
<1>5. ListOf(t)'
  <2>1. 1 \in 1..Len(list)
    BY DownloadsAssumption
  <2>q. QED
    BY <1>3, <2>1 DEF ListOf
<1>6. StoredOf(t)'
  <2>1. 1..(1 - 1) = {}
    OBVIOUS
  <2>q. QED
    BY <1>3, <1>4, <2>1 DEF StoredOf, Before, After
<1>7. CheckedOf(t)'
  BY <1>3 DEF CheckedOf, Checking
<1>8. OverlapInv'
  <2>1. \A u \in Tasks : Downloads!InFlight(u)' \subseteq Downloads!InFlight(u)
    BY <1>3 DEF Downloads!InFlight, Downloads!Request
  <2>q. QED
    BY <1>2, <2>1, OverlapKeep DEF DownloadInv
<1>q. QED
  BY <1>2, <1>3, <1>4, <1>5, <1>6, <1>7, <1>8, LoadSteps

LEMMA CheckInv ==
  ASSUME DownloadInv, NEW t \in Tasks, Downloads!check_origin_duplicate(t)
  PROVE  DownloadInv'
<1> DEFINE mine == IF download[t].grouped
                   THEN {download[t].list[i] : i \in DOMAIN download[t].list}
                   ELSE {Downloads!Request(t)}
           others == UNION {Downloads!InFlight(u) : u \in Tasks \ {t}}
           origin == Downloads!Origin(t)
<1>1. download[t].pc = "start" /\ kind # "virtual" /\ UNCHANGED <<kind, held>>
  BY DEF Downloads!check_origin_duplicate, Downloads!At
<1>2. CASE Downloads!Fails(t) /\ UNCHANGED raced
  BY <1>1, <1>2, LoadFails
<1>3. CASE /\ ~(~download[t].ignore /\ origin # Downloads!NoOrigin
                /\ Downloads!get_media_by_origin(origin) # {})
           /\ Downloads!Goes(t, "read")
           /\ raced' = raced \cup (mine \cap others)
  <2>1. /\ download' \in [Tasks -> LoadType] /\ download'[t].pc = "read" /\ Stays(t)
        /\ \A u \in Tasks : u # t => download'[u] = download[u]
    BY <1>3, LoadGoes DEF Stays, Before
  <2>2. ListOf(t) /\ StoredOf(t) /\ raced \subseteq raced'
    BY <1>3 DEF DownloadInv
  <2>3. ListOf(t)'
    BY <1>1, <2>1, <2>2 DEF ListOf, Stays
  <2>4. StoredOf(t)'
    <3>1. Stored(t)' = Stored(t) /\ Ats(t)' = Ats(t)
      BY <1>1 DEF Stored, Ats
    <3>q. QED
      BY <1>1, <2>1, <2>2, <3>1 DEF StoredOf, Stays, Before, After
  <2>5. CheckedOf(t)'
    <3>1. download[t].ignore \/ origin = Downloads!NoOrigin
          \/ (\A m \in held : m.origin # origin)
      BY <1>3 DEF Downloads!get_media_by_origin
    <3>2. Downloads!Origin(t)' = origin
      BY <2>1, StaysFacts
    <3> HIDE DEF origin
    <3>q. QED
      BY <1>1, <2>1, <3>1, <3>2 DEF CheckedOf, Stays
  <2>6. OverlapInv'
    <3>1. Downloads!InFlight(t)' = mine
      BY ZenonT(60), <2>1, StaysFacts DEF Downloads!InFlight, Stays
    <3>2. \A u \in Tasks : u # t => Downloads!InFlight(u)' = Downloads!InFlight(u)
      BY <2>1 DEF Downloads!InFlight, Downloads!Request
    <3>3. \A u \in Tasks : u # t => mine \cap Downloads!InFlight(u) \subseteq raced'
      BY <1>3
    <3> HIDE DEF mine, others
    <3>4. OverlapInv
      BY DEF DownloadInv
    <3>5. ASSUME NEW u \in Tasks, NEW v \in Tasks, u # v
          PROVE  Downloads!InFlight(u)' \cap Downloads!InFlight(v)' \subseteq raced'
      <4>1. CASE u = t
        BY <3>1, <3>2, <3>3, <3>5, <4>1
      <4>2. CASE v = t
        BY <3>1, <3>2, <3>3, <3>5, <4>2
      <4>3. CASE u # t /\ v # t
        BY <1>1, <2>2, <3>2, <3>4, <3>5, <4>3 DEF OverlapInv
      <4>q. QED
        BY <4>1, <4>2, <4>3
    <3>q. QED
      BY <3>5 DEF OverlapInv
  <2>q. QED
    BY <1>1, <2>1, <2>2, <2>3, <2>4, <2>5, <2>6, LoadSteps DEF Stays
<1>q. QED
  BY <1>2, <1>3 DEF Downloads!check_origin_duplicate

\* A step between the checks and the row, of the same request.
LEMMA WorkSteps ==
  ASSUME DownloadInv, NEW t \in Tasks, download' \in [Tasks -> LoadType], Stays(t),
         \A u \in Tasks : u # t => download'[u] = download[u],
         UNCHANGED <<kind, held, raced>>,
         download[t].pc \in Before \ {"idle", "start"}
           \/ (download[t].pc = "start" /\ kind = "virtual"),
         download'[t].pc \in Before \ {"idle", "start"},
         ListOf(t)', CheckedOf(t)'
  PROVE  DownloadInv'
<1>1. StoredOf(t)'
  <2>1. Stored(t)' = Stored(t) /\ Ats(t)' = Ats(t)
    BY DEF Stored, Ats
  <2>2. StoredOf(t)
    BY DEF DownloadInv
  <2>q. QED
    BY <2>1, <2>2 DEF StoredOf, Stays, Before, After
<1>2. OverlapInv'
  <2>1. CASE kind = "virtual"
    BY <2>1 DEF OverlapInv
  <2>2. CASE kind # "virtual"
    BY <2>2, FlightFacts, OverlapKeep DEF DownloadInv, Before
  <2>q. QED
    BY <2>1, <2>2
<1>3. download'[t].pc # "idle"
  OBVIOUS
<1>q. QED
  BY <1>1, <1>2, <1>3, LoadSteps DEF Stays

LEMMA ReadInv ==
  ASSUME DownloadInv, NEW t \in Tasks,
         Downloads!into_reader(t) \/ Downloads!Write(t) \/ Downloads!exec_request(t)
  PROVE  DownloadInv'
<1>1. UNCHANGED <<kind, held, raced>> /\ download[t].pc # "idle" /\ ListOf(t) /\ CheckedOf(t)
  BY DEF Downloads!into_reader, Downloads!Write, Downloads!exec_request, Downloads!At, DownloadInv
<1>2. CASE Downloads!Fails(t)
  BY <1>1, <1>2, LoadFails
<1>3. CASE Downloads!into_reader(t) /\ Downloads!Goes(t, "write")
  <2>1. /\ download[t].pc = "read"
        /\ download' \in [Tasks -> LoadType] /\ download'[t].pc = "write" /\ Stays(t)
        /\ \A u \in Tasks : u # t => download'[u] = download[u]
    BY <1>3, LoadGoes DEF Stays, Before, Downloads!into_reader, Downloads!At
  <2>2. ListOf(t)'
    BY <1>1, <2>1 DEF ListOf, Stays
  <2>3. CheckedOf(t)'
    BY <1>1, <2>1, StaysFacts DEF CheckedOf, Checking, Stays
  <2>q. QED
    BY <1>1, <2>1, <2>2, <2>3, WorkSteps DEF Before
<1>4. CASE /\ Downloads!Write(t)
           /\ \E hash \in {None, Downloads!Request(t)} :
                download' = [download EXCEPT ![t].pc = "hash", ![t].hash = hash]
  <2>1. PICK hash \in {None, Downloads!Request(t)} :
          download' = [download EXCEPT ![t].pc = "hash", ![t].hash = hash]
    BY <1>4
  <2>2. hash \in Sums /\ download[t].pc = "write"
    BY <1>1, <1>4, LoadFacts DEF Sums, Downloads!Write, Downloads!At
  <2>3. /\ download' \in [Tasks -> LoadType] /\ download'[t].pc = "hash" /\ Stays(t)
        /\ download'[t].hash = hash
        /\ \A u \in Tasks : u # t => download'[u] = download[u]
    BY <2>1, <2>2 DEF DownloadInv, DownloadType, LoadType, Stays, Before
  <2>4. ListOf(t)'
    BY <1>1, <2>2, <2>3, StaysFacts DEF ListOf, Stays
  <2>5. CheckedOf(t)'
    BY <1>1, <2>2, <2>3, StaysFacts DEF CheckedOf, Checking, Stays
  <2>q. QED
    BY <1>1, <2>2, <2>3, <2>4, <2>5, WorkSteps DEF Before
<1>5. CASE Downloads!exec_request(t) /\ Downloads!Goes(t, "add")
  <2>1. /\ download[t].pc = "start" /\ kind = "virtual"
        /\ download' \in [Tasks -> LoadType] /\ download'[t].pc = "add" /\ Stays(t)
        /\ \A u \in Tasks : u # t => download'[u] = download[u]
    BY <1>5, LoadGoes DEF Stays, Before, Downloads!exec_request, Downloads!At
  <2>2. ListOf(t)'
    BY <1>1, <2>1 DEF ListOf, Stays
  <2>3. CheckedOf(t)'
    BY <1>1, <2>1 DEF CheckedOf
  <2>q. QED
    BY <1>1, <2>1, <2>2, <2>3, WorkSteps DEF Before
<1>q. QED
  BY <1>2, <1>3, <1>4, <1>5
     DEF Downloads!into_reader, Downloads!Write, Downloads!exec_request

\* The pages of a group are read one by one, and are one file.
LEMMA GroupInv ==
  ASSUME DownloadInv, NEW t \in Tasks, Downloads!ReadPages(t) \/ Downloads!Close(t)
  PROVE  DownloadInv'
<1> DEFINE last == Downloads!Last(t)
           at   == download[t].at
           pages(read) == IF read THEN Append(download[t].pages, Downloads!Request(t))
                          ELSE download[t].pages
<1>1. UNCHANGED <<kind, held, raced>> /\ download[t].pc # "idle" /\ ListOf(t) /\ StoredOf(t)
  BY DEF Downloads!ReadPages, Downloads!Close, Downloads!At, DownloadInv
<1>2. /\ download[t] \in LoadType /\ at \in 1..Len(download[t].list)
      /\ download[t].list \in Seq(Requests) /\ Downloads!Request(t) \in Requests
  BY <1>1, LoadFacts
<1>3. CASE Downloads!Fails(t)
  BY <1>1, <1>3, LoadFails
<1>4. CASE /\ Downloads!ReadPages(t)
           /\ \E read \in BOOLEAN :
                download' = [download EXCEPT ![t].pc = IF last THEN "close" ELSE "read",
                                             ![t].at = IF last THEN @ ELSE @ + 1,
                                             ![t].pages = IF read
                                                          THEN Append(@, Downloads!Request(t))
                                                          ELSE @]
  <2>1. PICK read \in BOOLEAN :
          download' = [download EXCEPT ![t].pc = IF last THEN "close" ELSE "read",
                                       ![t].at = IF last THEN at ELSE at + 1,
                                       ![t].pages = pages(read)]
    BY <1>4
  <2>2. pages(read) \in Seq(Requests)
    BY <1>2 DEF LoadType
  <2>3. download[t].pc = "read" /\ download[t].grouped
    BY <1>4 DEF Downloads!ReadPages, Downloads!At
  <2>4. /\ download' \in [Tasks -> LoadType]
        /\ download'[t].pc = (IF last THEN "close" ELSE "read")
        /\ download'[t].at = (IF last THEN at ELSE at + 1)
        /\ download'[t].list = download[t].list /\ download'[t].grouped = download[t].grouped
        /\ download'[t].ignore = download[t].ignore
        /\ \A u \in Tasks : u # t => download'[u] = download[u]
    <3> DEFINE pc   == IF last THEN "close" ELSE "read"
               next == IF last THEN at ELSE at + 1
    <3>1. pc \in Before /\ next \in Nat
      BY <1>2 DEF Before
    <3>2. download' = [download EXCEPT ![t].pc = pc, ![t].at = next, ![t].pages = pages(read)]
      BY <2>1
    <3>3. download \in [Tasks -> LoadType]
      BY DEF DownloadInv, DownloadType
    <3> HIDE DEF pages, last, pc, next
    <3>4. /\ download' \in [Tasks -> LoadType]
          /\ download'[t].pc = pc /\ download'[t].at = next
          /\ download'[t].list = download[t].list /\ download'[t].grouped = download[t].grouped
          /\ download'[t].ignore = download[t].ignore
          /\ \A u \in Tasks : u # t => download'[u] = download[u]
      BY ZenonT(60), <2>2, <3>1, <3>2, <3>3 DEF LoadType
    <3>q. QED
      BY <3>4 DEF pc, next
  <2>5. download'[t].at \in 1..Len(download[t].list)
    BY <1>2, <2>4 DEF Downloads!Last
  <2>6. ListOf(t)'
    BY <1>1, <2>3, <2>4, <2>5 DEF ListOf
  <2>7. StoredOf(t)'
    <3>1. Stored(t)' = Stored(t) /\ Ats(t)' = Ats(t)
      BY <1>1 DEF Stored, Ats
    <3>q. QED
      BY <1>1, <2>3, <2>4, <3>1 DEF StoredOf, Before, After
  <2>8. CheckedOf(t)'
    BY <2>3, <2>4 DEF CheckedOf, Checking
  <2>9. OverlapInv'
    <3>1. \A u \in Tasks : Downloads!InFlight(u)' \subseteq Downloads!InFlight(u)
      <4>1. Downloads!InFlight(t) = {download[t].list[i] : i \in DOMAIN download[t].list}
        BY <2>3 DEF Downloads!InFlight
      <4>2. Downloads!InFlight(t)' = {download[t].list[i] : i \in DOMAIN download[t].list}
        BY <2>3, <2>4 DEF Downloads!InFlight
      <4>3. ASSUME NEW u \in Tasks, u # t
            PROVE  Downloads!InFlight(u)' = Downloads!InFlight(u)
        BY <2>4, <4>3 DEF Downloads!InFlight, Downloads!Request
      <4>q. QED
        BY <4>1, <4>2, <4>3
    <3>q. QED
      BY <1>1, <3>1, OverlapKeep DEF DownloadInv
  <2>q. QED
    BY <1>1, <2>4, <2>6, <2>7, <2>8, <2>9, LoadSteps
<1>5. CASE /\ Downloads!Close(t)
           /\ download' = [download EXCEPT ![t].pc = "hash", ![t].hash = download[t].pages]
  <2>1. download[t].pc = "close" /\ download[t].grouped
    BY <1>1, <1>5 DEF Downloads!Close, Downloads!At, ListOf
  <2>2. /\ download' \in [Tasks -> LoadType] /\ download'[t].pc = "hash" /\ Stays(t)
        /\ \A u \in Tasks : u # t => download'[u] = download[u]
    BY <1>2, <1>5 DEF DownloadInv, DownloadType, LoadType, Stays, Before, Sums
  <2>3. ListOf(t)'
    BY <1>1, <2>1, <2>2 DEF ListOf, Stays
  <2>4. CheckedOf(t)'
    BY <2>1, <2>2 DEF CheckedOf, Checking, Stays
  <2>q. QED
    BY <1>1, <2>1, <2>2, <2>3, <2>4, WorkSteps DEF Before
<1>q. QED
  BY <1>3, <1>4, <1>5 DEF Downloads!ReadPages, Downloads!Close

LEMMA HashInv ==
  ASSUME DownloadInv, NEW t \in Tasks, Downloads!check_hash_duplicate(t)
  PROVE  DownloadInv'
<1>1. /\ UNCHANGED <<kind, held, raced>> /\ download[t].pc = "hash"
      /\ ListOf(t) /\ CheckedOf(t)
  BY DEF Downloads!check_hash_duplicate, Downloads!At, DownloadInv
<1>2. CASE Downloads!Fails(t)
  BY <1>1, <1>2, LoadFails
<1>3. CASE /\ ~(/\ download[t].hash # None
                /\ Downloads!get_media_by_hash(download[t].hash) # {})
           /\ Downloads!Goes(t, "add")
  <2>1. /\ download' \in [Tasks -> LoadType] /\ download'[t].pc = "add" /\ Stays(t)
        /\ download'[t].hash = download[t].hash
        /\ \A u \in Tasks : u # t => download'[u] = download[u]
    BY <1>3, LoadGoes DEF Stays, Before
  <2>2. ListOf(t)'
    BY <1>1, <2>1, StaysFacts DEF ListOf, Stays
  <2>3. CheckedOf(t)'
    <3>1. ASSUME kind = "plain", ~download[t].grouped, NEW m \in held, Compared(t, m)
          PROVE  download[t].hash = None \/ m.hash = None
      <4>1. download[t].hash \in {None, Downloads!Request(t)}
        BY <1>1, <3>1 DEF ListOf
      <4>2. m.hash \in {None, Downloads!Request(t)}
        BY <3>1 DEF DownloadInv, RowOf, Compared
      <4>3. download[t].hash = None \/ m.hash # download[t].hash
        BY <1>3, <3>1 DEF Downloads!get_media_by_hash
      <4>q. QED
        BY <4>1, <4>2, <4>3
    <3>q. QED
      BY <1>1, <2>1, <3>1, StaysFacts DEF CheckedOf, Checking, Stays
  <2>q. QED
    BY <1>1, <2>1, <2>2, <2>3, WorkSteps DEF Before
<1>q. QED
  BY <1>2, <1>3 DEF Downloads!check_hash_duplicate

\* The thumb ends a request, and the next one starts.
LEMMA FinishInv ==
  ASSUME DownloadInv, NEW t \in Tasks, Downloads!Finish(t) \/ Downloads!HangUp(t)
  PROVE  DownloadInv'
<1> DEFINE last == Downloads!Last(t)
           at   == download[t].at
<1>1. /\ UNCHANGED <<kind, held, raced>> /\ download[t].pc # "idle"
      /\ ListOf(t) /\ StoredOf(t)
  BY DEF Downloads!Finish, Downloads!HangUp, Downloads!At, DownloadInv
<1>2. CASE Downloads!Fails(t)
  BY <1>1, <1>2, LoadFails
<1>3. CASE Downloads!Finish(t) /\ ~Downloads!Fails(t)
  <2>1. download[t].pc = "thumb"
    BY <1>3 DEF Downloads!Finish, Downloads!At
  <2>2. /\ download[t] \in LoadType /\ at \in 1..Len(download[t].list)
        /\ download[t].list \in Seq(Requests)
    BY <1>1, LoadFacts
  <2>3. /\ download' \in [Tasks -> LoadType]
        /\ download'[t].list = download[t].list /\ download'[t].grouped = download[t].grouped
        /\ download'[t].ignore = download[t].ignore
        /\ \/ download'[t].pc = "answered" /\ download'[t].at = at /\ (download[t].grouped \/ last)
           \/ download'[t].pc = "start" /\ download'[t].at = at + 1
              /\ ~download[t].grouped /\ ~last
        /\ \A u \in Tasks : u # t => download'[u] = download[u]
    <3>1. CASE download[t].grouped
      BY <1>3, <3>1, LoadGoes DEF Downloads!Finish, After
    <3>2. CASE ~download[t].grouped
      <4>1. download' = [download EXCEPT ![t].pc = IF last THEN "answered" ELSE "start",
                                         ![t].at = IF last THEN at ELSE at + 1]
        BY <1>3, <3>2 DEF Downloads!Finish, Downloads!Next_
      <4> DEFINE pc   == IF last THEN "answered" ELSE "start"
                 next == IF last THEN at ELSE at + 1
      <4>2. pc \in Before \cup After /\ next \in Nat
        BY <2>2 DEF Before, After
      <4>3. download' = [download EXCEPT ![t].pc = pc, ![t].at = next]
        BY <4>1
      <4>4. download \in [Tasks -> LoadType]
        BY DEF DownloadInv, DownloadType
      <4> HIDE DEF last, pc, next
      <4>5. /\ download' \in [Tasks -> LoadType]
            /\ download'[t].pc = pc /\ download'[t].at = next
            /\ download'[t].list = download[t].list /\ download'[t].grouped = download[t].grouped
            /\ download'[t].ignore = download[t].ignore
            /\ \A u \in Tasks : u # t => download'[u] = download[u]
        BY <4>2, <4>3, <4>4 DEF LoadType
      <4>q. QED
        BY <3>2, <4>5 DEF pc, next
    <3>q. QED
      BY <3>1, <3>2
  <2>4. /\ download'[t].at \in 1..Len(download[t].list)
        /\ last <=> at = Len(download[t].list)
    BY <2>2, <2>3 DEF Downloads!Last
  <2>5. ListOf(t)'
    BY <1>1, <2>1, <2>3, <2>4 DEF ListOf
  <2>6. StoredOf(t)'
    <3>1. Stored(t)' = Stored(t) /\ Ats(t)' = Ats(t)
      BY <1>1 DEF Stored, Ats
    <3>2. (at + 1) - 1 = at
      BY <2>2
    <3>3. CASE ~download[t].grouped
      <4>1. Ats(t) = 1..at
        BY <1>1, <2>1, <3>3 DEF StoredOf, After
      <4>q. QED
        BY <1>1, <2>3, <3>1, <3>2, <3>3, <4>1 DEF StoredOf, Before, After
    <3>4. CASE download[t].grouped
      BY <1>1, <2>1, <2>3, <3>1, <3>4 DEF StoredOf, Before, After
    <3>q. QED
      BY <3>3, <3>4
  <2>7. CheckedOf(t)'
    BY <2>3 DEF CheckedOf, Checking
  <2>8. OverlapInv'
    <3>1. \A u \in Tasks : Downloads!InFlight(u)' \subseteq Downloads!InFlight(u)
      BY <2>3 DEF Downloads!InFlight, Downloads!Request
    <3>q. QED
      BY <1>1, <3>1, OverlapKeep DEF DownloadInv
  <2>q. QED
    BY <1>1, <2>3, <2>5, <2>6, <2>7, <2>8, LoadSteps
<1>q. QED
  BY <1>2, <1>3 DEF Downloads!HangUp

\* The row of a request goes in without its origin and its hash.
LEMMA AddInv ==
  ASSUME DownloadInv, NEW t \in Tasks, Downloads!add_media(t)
  PROVE  DownloadInv'
<1> DEFINE at == download[t].at
           r  == [task |-> t, at |-> at, request |-> Downloads!Request(t),
                  grouped |-> download[t].grouped, pages |-> download[t].pages,
                  ignored |-> download[t].ignore, origin |-> Downloads!NoOrigin, hash |-> None]
<1>1. /\ download[t].pc = "add" /\ UNCHANGED <<kind, raced>> /\ held' = held \cup {r}
      /\ Downloads!Goes(t, "update")
      /\ ListOf(t) /\ StoredOf(t) /\ CheckedOf(t)
  BY DEF Downloads!add_media, Downloads!At, DownloadInv
<1>2. /\ download[t] \in LoadType /\ at \in Nat /\ at \in 1..Len(download[t].list)
      /\ Downloads!Request(t) \in Requests
  BY <1>1, LoadFacts
<1>3. /\ download' \in [Tasks -> LoadType] /\ download'[t].pc = "update" /\ Stays(t)
      /\ download'[t].hash = download[t].hash
      /\ \A u \in Tasks : u # t => download'[u] = download[u]
  BY <1>1, LoadGoes DEF Stays, After
<1>4. /\ r \in HeldType /\ r.task = t /\ r.at = at /\ r.request = Downloads!Request(t)
      /\ r.grouped = download[t].grouped /\ r.ignored = download[t].ignore
      /\ r.origin = Downloads!NoOrigin /\ r.hash = None
  BY <1>2 DEF HeldType, LoadType, Origins, Addresses, Sums, Downloads!NoOrigin
<1> HIDE DEF r
<1>5. DownloadType'
  BY <1>1, <1>3, <1>4 DEF DownloadInv, DownloadType
<1>6. ASSUME NEW u \in Tasks PROVE ListOf(u)'
  <2>1. CASE u = t
    BY <1>1, <1>3, <2>1, StaysFacts DEF ListOf, Stays
  <2>2. CASE u # t
    <3>1. Downloads!Request(u)' = Downloads!Request(u) /\ ListOf(u)
      BY <1>3, <2>2 DEF Downloads!Request, DownloadInv
    <3>q. QED
      BY <1>1, <1>3, <2>2, <3>1 DEF ListOf
  <2>q. QED
    BY <2>1, <2>2
<1>7. ASSUME NEW m \in held' PROVE RowOf(m)'
  <2>1. CASE m = r
    <3>1. Downloads!Request(t) = download[t].list[at]
      BY DEF Downloads!Request
    <3>q. QED
      BY <1>3, <1>4, <2>1, <3>1 DEF RowOf, Stays
  <2>2. CASE m \in held
    <3>1. RowOf(m) /\ m.task \in Tasks
      BY <2>2 DEF DownloadInv, DownloadType, HeldType
    <3>q. QED
      BY <1>1, <1>3, <3>1 DEF RowOf, Stays
  <2>q. QED
    BY <1>1, <2>1, <2>2
<1>8. ASSUME NEW u \in Tasks PROVE StoredOf(u)'
  <2>1. CASE u = t
    <3>1. Stored(t)' = Stored(t) \cup {r} /\ Ats(t)' = Ats(t) \cup {at}
      BY <1>1, <1>4 DEF Stored, Ats
    <3>2. CASE download[t].grouped
      <4>1. Stored(t)' = {r} /\ r \in held'
        BY <1>1, <3>1, <3>2 DEF StoredOf, Before
      <4>q. QED
        BY <1>3, <2>1, <3>2, <4>1 DEF StoredOf, Stays, Before, After
    <3>3. CASE ~download[t].grouped
      <4>1. Ats(t) = 1..(at - 1) /\ \A m, n \in Stored(t) : m.at = n.at => m = n
        BY <1>1, <3>3 DEF StoredOf, Before
      <4>2. Ats(t)' = 1..at
        <5>1. (1..(at - 1)) \cup {at} = 1..at
          BY <1>2
        <5>q. QED
          BY <3>1, <4>1, <5>1
      <4>3. \A m \in Stored(t) : m.at # at
        <5>1. at \notin 1..(at - 1)
          BY <1>2
        <5>q. QED
          BY <4>1, <5>1 DEF Ats
      <4>4. \A m, n \in Stored(t)' : m.at = n.at => m = n
        BY <1>4, <3>1, <4>1, <4>3
      <4>q. QED
        BY <1>3, <2>1, <3>3, <4>2, <4>4 DEF StoredOf, Stays, Before, After
    <3>q. QED
      BY <3>2, <3>3
  <2>2. CASE u # t
    <3>1. Stored(u)' = Stored(u) /\ Ats(u)' = Ats(u) /\ StoredOf(u)
      BY <1>1, <1>4, <2>2 DEF Stored, Ats, DownloadInv
    <3>q. QED
      BY <1>1, <1>3, <2>2, <3>1 DEF StoredOf
  <2>q. QED
    BY <2>1, <2>2
<1>9. ASSUME NEW u \in Tasks PROVE CheckedOf(u)'
  <2>1. Stays(u) /\ download'[u].hash = download[u].hash
    BY <1>3 DEF Stays
  <2>2. \A m : m = r => ~Compared(u, m)'
    BY <1>4 DEF Compared, Downloads!NoOrigin
  <2>3. /\ Checking(u)' => Checking(u)
        /\ download'[u].pc \in {"add", "update"} => download[u].pc \in {"add", "update"}
    BY <1>1, <1>3, <2>1, StaysFacts DEF Checking, Stays
  <2>4. \A m : Compared(u, m)' <=> Compared(u, m)
    BY <1>1, <2>1, StaysFacts
  <2>5. CheckedOf(u) /\ Downloads!Origin(u)' = Downloads!Origin(u)
    BY <2>1, StaysFacts DEF DownloadInv
  <2>6. Downloads!NoOrigin' = Downloads!NoOrigin /\ download'[u].ignore = download[u].ignore
    BY <2>1 DEF Stays
  <2>q. QED
    BY <1>1, <2>1, <2>2, <2>3, <2>4, <2>5, <2>6 DEF CheckedOf
<1>10. OverlapInv'
  BY <1>1, <1>3, FlightFacts, OverlapKeep DEF DownloadInv
<1>11. Downloads!HeldOnce'
  BY <1>1, <1>4 DEF DownloadInv, Downloads!HeldOnce
<1>q. QED
  BY <1>5, <1>6, <1>7, <1>8, <1>9, <1>10, <1>11 DEF DownloadInv

\* The row gets its origin and its hash.
LEMMA UpdateInv ==
  ASSUME DownloadInv, NEW t \in Tasks, Downloads!update_media(t)
  PROVE  DownloadInv'
<1> DEFINE at == download[t].at
           new(m) == [m EXCEPT !.hash = download[t].hash,
                               !.origin = IF kind = "virtual" THEN @ ELSE Downloads!Origin(t)]
           upd(m) == IF Downloads!Mine(t, m) THEN new(m) ELSE m
<1>1. /\ download[t].pc = "update" /\ UNCHANGED <<kind, raced>>
      /\ ListOf(t) /\ StoredOf(t) /\ CheckedOf(t)
  BY DEF Downloads!update_media, Downloads!At, DownloadInv
<1>2. CASE Downloads!Fails(t) /\ UNCHANGED held
  BY <1>1, <1>2, LoadFails
<1>3. CASE held' = {upd(m) : m \in held} /\ Downloads!Goes(t, "thumb")
  <2>1. /\ download' \in [Tasks -> LoadType] /\ download'[t].pc = "thumb" /\ Stays(t)
        /\ \A u \in Tasks : u # t => download'[u] = download[u]
    BY <1>3, LoadGoes DEF Stays, After
  <2>2. /\ download[t] \in LoadType /\ at \in Nat /\ at \in 1..Len(download[t].list)
        /\ Downloads!Request(t) \in Requests
    BY <1>1, LoadFacts
  <2>3. Downloads!Origin(t) \in Origins
    BY <2>2 DEF Downloads!Origin, Downloads!NoOrigin, Origins, Addresses
  <2>4. \A m \in held :
          /\ m \in HeldType /\ upd(m) \in HeldType
          /\ upd(m).task = m.task /\ upd(m).at = m.at /\ upd(m).request = m.request
          /\ upd(m).grouped = m.grouped /\ upd(m).ignored = m.ignored
          /\ ~Downloads!Mine(t, m) => upd(m) = m
          /\ Downloads!Mine(t, m) =>
               /\ upd(m).hash = download[t].hash
               /\ kind # "virtual" => upd(m).origin = Downloads!Origin(t)
    <3>1. ASSUME NEW m \in held
          PROVE  /\ m \in HeldType /\ new(m) \in HeldType
                 /\ new(m).task = m.task /\ new(m).at = m.at /\ new(m).request = m.request
                 /\ new(m).grouped = m.grouped /\ new(m).ignored = m.ignored
                 /\ new(m).hash = download[t].hash
                 /\ kind # "virtual" => new(m).origin = Downloads!Origin(t)
      <4>1. m \in HeldType /\ download[t].hash \in Sums
        BY <2>2 DEF DownloadInv, DownloadType, LoadType
      <4>q. QED
        BY <2>3, <4>1 DEF HeldType
    <3> HIDE DEF new
    <3>q. QED
      BY <3>1
  <2> HIDE DEF upd
  <2>5. DownloadType'
    BY <1>1, <1>3, <2>1, <2>4 DEF DownloadInv, DownloadType
  <2>6. ASSUME NEW u \in Tasks PROVE ListOf(u)'
    <3>1. CASE u = t
      BY <1>1, <2>1, <3>1 DEF ListOf, Stays
    <3>2. CASE u # t
      <4>1. Downloads!Request(u)' = Downloads!Request(u) /\ ListOf(u)
        BY <2>1, <3>2 DEF Downloads!Request, DownloadInv
      <4>q. QED
        BY <1>1, <2>1, <3>2, <4>1 DEF ListOf
    <3>q. QED
      BY <3>1, <3>2
  <2>7. ASSUME NEW m \in held, ~m.grouped, Downloads!Mine(t, m)
        PROVE  m.request = Downloads!Request(t) /\ ~download[t].grouped
    BY <2>7 DEF DownloadInv, RowOf, Downloads!Mine, Downloads!Request
  <2>8. ASSUME NEW m \in held, NEW n, n = upd(m) PROVE RowOf(n)'
    <3>1. RowOf(m) /\ m.task \in Tasks
      BY <2>4 DEF DownloadInv, HeldType
    <3>2. /\ download'[m.task].pc # "idle"
          /\ download'[m.task].list = download[m.task].list
          /\ download'[m.task].grouped = download[m.task].grouped
          /\ download'[m.task].ignore = download[m.task].ignore
      BY <2>1, <3>1 DEF Stays, RowOf
    <3>3. ~m.grouped /\ kind # "virtual" => upd(m).hash \in {None, m.request}
      <4>1. CASE Downloads!Mine(t, m)
        BY <1>1, <2>4, <2>7, <4>1 DEF ListOf
      <4>2. CASE ~Downloads!Mine(t, m)
        BY <2>4, <3>1, <4>2 DEF RowOf
      <4>q. QED
        BY <4>1, <4>2
    <3>q. QED
      BY <1>1, <2>4, <2>8, <3>1, <3>2, <3>3 DEF RowOf
  <2>9. ASSUME NEW u \in Tasks PROVE StoredOf(u)'
    <3>1. CASE u = t
      <4>1. Stored(t)' = {upd(m) : m \in Stored(t)}
        BY <1>3, <2>4 DEF Stored
      <4>2. CASE download[t].grouped
        <5>1. PICK m \in held : Stored(t) = {m}
          BY <1>1, <4>2 DEF StoredOf, After
        <5>2. Stored(t)' = {upd(m)} /\ upd(m) \in held'
          BY <1>3, <4>1, <5>1
        <5>q. QED
          BY <2>1, <3>1, <4>2, <5>2 DEF StoredOf, Stays, Before, After
      <4>3. CASE ~download[t].grouped
        <5>1. Ats(t) = 1..at /\ \A m, n \in Stored(t) : m.at = n.at => m = n
          BY <1>1, <4>3 DEF StoredOf, After
        <5>2. \A m \in Stored(t) : m \in held
          BY DEF Stored
        <5>3. Ats(t)' = Ats(t)
          BY <2>4, <4>1, <5>2 DEF Ats
        <5>4. \A m, n \in Stored(t)' : m.at = n.at => m = n
          BY <2>4, <4>1, <5>1, <5>2
        <5>q. QED
          BY <2>1, <3>1, <4>3, <5>1, <5>3, <5>4 DEF StoredOf, Stays, Before, After
      <4>q. QED
        BY <4>2, <4>3
    <3>2. CASE u # t
      <4>1. \A m \in held : m.task = u => upd(m) = m
        BY <2>4, <3>2 DEF Downloads!Mine
      <4>2. Stored(u)' = Stored(u)
        BY <1>3, <2>4, <4>1 DEF Stored
      <4>3. Ats(u)' = Ats(u) /\ StoredOf(u)
        BY <4>2 DEF Ats, DownloadInv
      <4>4. Stored(u) \subseteq held' /\ Stored(u) \subseteq held
        BY <4>2 DEF Stored
      <4>q. QED
        BY <1>1, <2>1, <3>2, <4>2, <4>3, <4>4 DEF StoredOf
    <3>q. QED
      BY <3>1, <3>2
  <2>10. ASSUME NEW u \in Tasks PROVE CheckedOf(u)'
    <3>1. CASE u = t
      BY <2>1, <3>1 DEF CheckedOf, Checking
    <3>2. CASE u # t
      <4>1. Stays(u) /\ download'[u] = download[u] /\ CheckedOf(u)
        BY <2>1, <3>2 DEF Stays, DownloadInv
      <4>2. \A m : Compared(u, m)' <=> Compared(u, m)
        BY <1>1, <4>1, StaysFacts
      <4>3. Downloads!Origin(u)' = Downloads!Origin(u) /\ Downloads!Request(u)' = Downloads!Request(u)
        BY <4>1, StaysFacts
      <4>4. ASSUME NEW m \in held, kind # "virtual", Checking(u), Compared(u, upd(m))
            PROVE  upd(m) = m
        <5>1. CASE Downloads!Mine(t, m)
          <6>1. Downloads!Request(u) = Downloads!Request(t) /\ ~download[t].grouped
            BY <2>4, <2>7, <4>4, <5>1 DEF Compared
          <6>2. /\ Downloads!Request(t) \in Downloads!InFlight(t)
                /\ Downloads!Request(u) \in Downloads!InFlight(u)
            BY <1>1, <4>4, <6>1 DEF Downloads!InFlight, Checking
          <6>3. Downloads!Request(u) \in raced
            BY <3>2, <4>4, <6>1, <6>2 DEF DownloadInv, OverlapInv
          <6>q. QED
            BY <4>4, <6>3 DEF Checking
        <5>2. CASE ~Downloads!Mine(t, m)
          BY <2>4, <5>2
        <5>q. QED
          BY <5>1, <5>2
      <4>5. Checking(u)' <=> Checking(u)
        BY <1>1, <4>1, <4>3 DEF Checking
      <4>q. QED
        BY <1>1, <1>3, <4>1, <4>2, <4>3, <4>4, <4>5 DEF CheckedOf
    <3>q. QED
      BY <3>1, <3>2
  <2>11. OverlapInv'
    BY <1>1, <2>1, FlightFacts, OverlapKeep DEF DownloadInv
  <2>12. Downloads!HeldOnce'
    <3> DEFINE Apart(m, n) ==
                 /\ m.origin # n.origin \/ m.ignored \/ n.ignored
                 /\ kind = "password" \/ m.hash = None \/ n.hash = None
               Alike(m, n) ==
                 /\ kind # "virtual" /\ m # n /\ m.request = n.request
                 /\ ~m.grouped /\ ~n.grouped /\ m.request \notin raced
                 /\ m.origin # Downloads!NoOrigin /\ n.origin # Downloads!NoOrigin
    <3>1. ASSUME NEW m \in held, NEW n \in held, Downloads!Mine(t, m), ~Downloads!Mine(t, n),
                 Alike(upd(m), n)
          PROVE  Apart(upd(m), n) /\ Apart(n, upd(m))
      <4>1. m.request = Downloads!Request(t) /\ ~download[t].grouped
        BY <2>4, <2>7, <3>1
      <4>2. Checking(t) /\ Compared(t, n)
        BY <1>1, <2>4, <3>1, <4>1 DEF Checking, Compared
      <4>3. /\ \/ download[t].ignore
               \/ n.origin # Downloads!Origin(t)
               \/ Downloads!Origin(t) = Downloads!NoOrigin
            /\ kind = "plain" => download[t].hash = None \/ n.hash = None
        BY <1>1, <3>1, <4>2 DEF CheckedOf
      <4>4. upd(m).hash = download[t].hash /\ upd(m).origin = Downloads!Origin(t)
        BY <2>4, <3>1
      <4>5. upd(m).ignored = download[t].ignore
        BY <2>4, <3>1 DEF DownloadInv, RowOf, Downloads!Mine
      <4>6. kind \in {"plain", "password"}
        BY <3>1 DEF DownloadInv, DownloadType
      <4>q. QED
        BY <3>1, <4>3, <4>4, <4>5, <4>6
    <3>2. ASSUME NEW m \in held, NEW n \in held, Alike(upd(m), upd(n))
          PROVE  Apart(upd(m), upd(n))
      <4>1. CASE Downloads!Mine(t, m) /\ Downloads!Mine(t, n)
        <5>1. ~download[t].grouped /\ m \in Stored(t) /\ n \in Stored(t) /\ m.at = n.at
          BY <2>4, <2>7, <3>2, <4>1 DEF Stored, Downloads!Mine
        <5>2. m = n
          BY <1>1, <5>1 DEF StoredOf
        <5>q. QED
          BY <3>2, <5>2
      <4>2. CASE Downloads!Mine(t, m) /\ ~Downloads!Mine(t, n)
        <5>1. upd(n) = n
          BY <2>4, <4>2
        <5>q. QED
          BY <3>1, <3>2, <4>2, <5>1
      <4>3. CASE ~Downloads!Mine(t, m) /\ Downloads!Mine(t, n)
        <5>1. upd(m) = m /\ Alike(upd(n), m)
          BY <2>4, <3>2, <4>3
        <5>q. QED
          BY <3>1, <4>3, <5>1
      <4>4. CASE ~Downloads!Mine(t, m) /\ ~Downloads!Mine(t, n)
        <5>1. upd(m) = m /\ upd(n) = n
          BY <2>4, <4>4
        <5>q. QED
          BY <3>2, <5>1 DEF DownloadInv, Downloads!HeldOnce
      <4>q. QED
        BY <4>1, <4>2, <4>3, <4>4
    <3>3. \A m, n \in held' : Alike(m, n) => Apart(m, n)
      <4> HIDE DEF Alike, Apart
      <4>q. QED
        BY <1>3, <3>2
    <3>q. QED
      BY <1>1, <3>3 DEF Downloads!HeldOnce
  <2>13. \A m \in held' : RowOf(m)'
    BY <1>3, <2>8
  <2>q. QED
    BY <2>5, <2>6, <2>9, <2>10, <2>11, <2>12, <2>13 DEF DownloadInv
<1>q. QED
  BY <1>2, <1>3 DEF Downloads!update_media

LEMMA DownloadNext == DownloadInv /\ Downloads!Next => DownloadInv'
  BY StartInv, CheckInv, ReadInv, GroupInv, HashInv, AddInv, UpdateInv, FinishInv
     DEF Downloads!Next

\* As many rows as there are places.
LEMMA StoredCount ==
  ASSUME NEW t, NEW k \in Nat, Ats(t) = 1..k,
         \A m, n \in Stored(t) : m.at = n.at => m = n
  PROVE  Cardinality(Stored(t)) = k
<1> DEFINE f == [m \in Stored(t) |-> m.at]
<1>1. IsFiniteSet(1..k) /\ Cardinality(1..k) = k
  BY FS_Interval
<1>2. f \in Injection(Stored(t), 1..k) /\ f \in Surjection(Stored(t), 1..k)
  <2>1. /\ f \in [Stored(t) -> 1..k]
        /\ \A m, n \in Stored(t) : f[m] = f[n] => m = n
        /\ \A i \in 1..k : \E m \in Stored(t) : f[m] = i
    BY DEF Ats
  <2> HIDE DEF f
  <2>q. QED
    BY <2>1 DEF Injection, IsInjective, Surjection
<1> HIDE DEF f
<1>q. QED
  BY <1>1, <1>2, FS_Injection

\* However many downloads overlap, fail and hang up, each has stored its list as far
\* as it came, once each, and what the library has already is not stored again unless
\* two downloads of it met, the second one was told to store it, or nothing was there
\* to compare.
THEOREM ListsStoredCorrect == MCSpec => []ListsStored
<1> DEFINE Inv == subject = "downloads" => DownloadInv
<1>1. MCInit => Inv
  BY DownloadInit DEF MCInit
<1>2. Inv /\ [MCNext]_<<subject, vars, downloadVars, convertVars>> => Inv'
  <2> SUFFICES ASSUME Inv, subject' = "downloads",
                      [MCNext]_<<subject, vars, downloadVars, convertVars>>
               PROVE  DownloadInv'
    OBVIOUS
  <2>1. CASE MCNext
    BY <2>1, DownloadNext DEF MCNext
  <2>2. CASE UNCHANGED <<subject, vars, downloadVars, convertVars>>
    <3>1. DownloadInv /\ UNCHANGED <<kind, download, held, raced>>
      BY <2>2 DEF downloadVars
    <3>2. DownloadType' /\ Downloads!HeldOnce'
      BY <3>1 DEF DownloadInv, DownloadType, Downloads!HeldOnce
    <3>3. \A u \in Tasks : ListOf(u)' /\ StoredOf(u)' /\ CheckedOf(u)'
      BY <3>1, OthersLoad DEF DownloadInv
    <3>4. \A m \in held' : RowOf(m)'
      BY <3>1 DEF DownloadInv, RowOf
    <3>5. OverlapInv'
      BY <3>1 DEF DownloadInv, OverlapInv, Downloads!InFlight, Downloads!Request
    <3>q. QED
      BY <3>2, <3>3, <3>4, <3>5 DEF DownloadInv
  <2>q. QED
    BY <2>1, <2>2
<1>3. Inv => ListsStored
  <2> SUFFICES ASSUME DownloadInv PROVE Downloads!StoredInOrder /\ Downloads!HeldOnce
    BY DEF ListsStored, Downloads!ListsStored
  <2>1. ASSUME NEW t \in Tasks
        PROVE  /\ ~download[t].grouped =>
                    /\ Ats(t) = 1..Cardinality(Stored(t))
                    /\ \A m \in Stored(t) : m.request = download[t].list[m.at]
                    /\ download[t].pc = "answered" =>
                         Cardinality(Stored(t)) = Len(download[t].list)
               /\ download[t].grouped /\ download[t].pc = "answered" =>
                    Cardinality(Stored(t)) = 1
    <3>1. /\ ListOf(t) /\ StoredOf(t) /\ download[t] \in LoadType
          /\ \A m \in Stored(t) : RowOf(m) /\ m.task = t
      BY LoadFacts DEF DownloadInv, Stored
    <3>2. download[t].at \in Nat \ {0}
      <4>1. download[t].pc # "idle" => download[t].at \in 1..Len(download[t].list)
        BY LoadFacts
      <4>2. download[t].at \in Nat
        BY <3>1 DEF LoadType
      <4>q. QED
        BY <3>1, <4>1, <4>2 DEF ListOf
    <3>3. ASSUME ~download[t].grouped
          PROVE  /\ Ats(t) = 1..Cardinality(Stored(t))
                 /\ download[t].pc = "answered" =>
                      Cardinality(Stored(t)) = Len(download[t].list)
      <4>1. \A m, n \in Stored(t) : m.at = n.at => m = n
        BY <3>1, <3>3 DEF StoredOf
      <4>2. \E k \in {download[t].at - 1, download[t].at} :
              Ats(t) = 1..k /\ (download[t].pc = "answered" => k = download[t].at)
        BY <3>1, <3>3 DEF StoredOf, LoadType, Before, After
      <4>3. PICK k \in {download[t].at - 1, download[t].at} :
              Ats(t) = 1..k /\ (download[t].pc = "answered" => k = download[t].at)
        BY <4>2
      <4>4. k \in Nat
        BY <3>2
      <4>5. Cardinality(Stored(t)) = k
        BY <4>1, <4>3, <4>4, StoredCount
      <4>q. QED
        BY <3>1, <3>3, <4>3, <4>5 DEF ListOf
    <3>4. ~download[t].grouped => \A m \in Stored(t) : m.request = download[t].list[m.at]
      BY <3>1 DEF RowOf
    <3>5. ASSUME download[t].grouped, download[t].pc = "answered"
          PROVE  Cardinality(Stored(t)) = 1
      BY <3>1, <3>5, FS_Singleton DEF StoredOf, After
    <3>q. QED
      BY <3>3, <3>4, <3>5
  <2>2. Downloads!StoredInOrder
    BY <2>1, CardinalityThere DEF Downloads!StoredInOrder, Downloads!At, Stored, Ats
  <2>q. QED
    BY <2>2 DEF DownloadInv
<1>q. QED
  BY <1>1, <1>2, <1>3, PTL DEF MCSpec

=============================================================================
