--------------------------- MODULE Catalogue_proofs ---------------------------
(***************************************************************************)
(* The catalogue of a library: what its run checks, for every number of    *)
(* requests, rows, medias and edits.  One section per component; Episodes  *)
(* is proved of its own specification, the others of the one that chooses  *)
(* among the components, where each step is one of the component or leaves *)
(* its variables alone.                                                    *)
(***************************************************************************)
EXTENDS MCCatalogue, Integers, TLAPS

\* The state of all components.
CatalogueVars == <<subject, vars, tagVars, workVars, faceVars, editVars, pageVars>>

-----------------------------------------------------------------------------
(***************************************************************************)
(* EPISODES                                                                *)
(* Overlapping refreshes leave the complete list. RefreshesComplete says   *)
(* nothing of the refreshes still running; the invariant behind it does:   *)
(* an episode that is missing lies ahead of some running refresh, and of   *)
(* one that is past every episode before the missing one. A refresh that   *)
(* stops because an episode is there already stands at that episode, so    *)
(* the refresh that is past it is another one.                             *)
(***************************************************************************)

\* Running refresh r will come to the missing m, and is past n.
Witness(r, n, m) == Active(r) /\ n < refresh[r].next /\ refresh[r].next <= m

\* With 0 for the beginning of the list.
MissingIsAhead ==
  cleared /\ ~spoiled =>
    \A n \in table \cup {0} : \A m \in Listed \ table :
      n < m => \E r \in Refreshes : Witness(r, n, m)

\* A refresh reads again what it added.
Added == \A r \in Refreshes : At(r, "get") => refresh[r].next > 1

IInv == TypeOK /\ Added /\ MissingIsAhead /\ OrphansAreLate

\* All of IInv holds initially: nothing is cleared, the serie is there.
LEMMA InitIInv == Init => IInv
<1> SUFFICES ASSUME Init PROVE IInv
  OBVIOUS
<1>1. mapped \subseteq Medias \X Listed
  BY DEF Init
<1>2. TypeOK
  <2>1. 1 \in 1..NumListed + 1
    BY EpisodeAssumption
  <2>2. refresh \in [Refreshes -> [pc : {"idle", "fetch", "clear", "add", "get", "ended"},
                                   next : 1..NumListed + 1]]
    BY <2>1 DEF Init
  <2> QED
    BY <1>1, <2>2 DEF Init, TypeOK
<1>3. Added /\ MissingIsAhead /\ OrphansAreLate
  BY DEF Init, Added, At, MissingIsAhead, OrphansAreLate
<1> QED
  BY <1>2, <1>3 DEF IInv

\* Every step keeps the types.
LEMMA StepType == IInv /\ [Next]_vars => TypeOK'
<1> SUFFICES ASSUME IInv, [Next]_vars PROVE TypeOK'
  OBVIOUS
<1> USE EpisodeAssumption DEF IInv, TypeOK, Listed
<1>1. ASSUME NEW r \in Refreshes, ReadIds(r) PROVE TypeOK'
  <2>1. Go(r, "fetch", 1) \/ Go(r, "ended", 1)
    BY <1>1 DEF ReadIds
  <2> QED
    BY <1>1, <2>1 DEF ReadIds, Go
<1>2. ASSUME NEW r \in Refreshes, Fetch(r) PROVE TypeOK'
  BY <1>2 DEF Fetch, Go, At
<1>3. ASSUME NEW r \in Refreshes, Clear(r) PROVE TypeOK'
  BY <1>3 DEF Clear, Delete, Go, At
<1>4. ASSUME NEW r \in Refreshes, Add(r) PROVE TypeOK'
  <2>1. refresh[r].next \in Listed /\ refresh[r].next + 1 \in 1..NumListed + 1
    BY <1>4 DEF Add
  <2>2. refresh' \in [Refreshes -> [pc : {"idle", "fetch", "clear", "add", "get", "ended"},
                                    next : 1..NumListed + 1]]
    BY <1>4, <2>1 DEF Add, Go
  <2> QED
    BY <1>4, <2>1, <2>2 DEF Add, Insert
<1>5. ASSUME NEW r \in Refreshes, AddConflicts(r) PROVE TypeOK'
  BY <1>5 DEF AddConflicts, Stops, Go, At
<1>6. ASSUME NEW r \in Refreshes, Reread(r) PROVE TypeOK'
  BY <1>6 DEF Reread, Stops, Go, At
<1>7. ASSUME NEW r \in Refreshes, Finish(r) PROVE TypeOK'
  BY <1>7 DEF Finish, Stops, Go, At
<1>8. ASSUME NEW r \in Refreshes, Drop(r) PROVE TypeOK'
  BY <1>8 DEF Drop, Stops, Go, Active
<1>9. ASSUME NEW n \in Listed, AddEpisode(n) PROVE TypeOK'
  BY <1>9 DEF AddEpisode, Insert
<1>10. ASSUME NEW n \in Listed, RemoveEpisode(n) PROVE TypeOK'
  BY <1>10 DEF RemoveEpisode, Delete
<1>11. ASSUME NEW n \in Listed, NEW m \in Medias, MapMedia(m, n) PROVE TypeOK'
  BY <1>11 DEF MapMedia
<1>12. CASE RemoveSerie
  BY <1>12 DEF RemoveSerie
<1>13. CASE UNCHANGED vars
  BY <1>13 DEF vars
<1> QED
  BY <1>1, <1>2, <1>3, <1>4, <1>5, <1>6, <1>7, <1>8, <1>9, <1>10, <1>11, <1>12, <1>13 DEF Next

\* An editor's step spoils the list, so that nothing is claimed of it.
LEMMA SpoiledKeeps == spoiled' => MissingIsAhead'
BY DEF MissingIsAhead

\* The refresh that just deleted everything is ahead of all that is missing.
LEMMA ClearKeeps ==
  ASSUME IInv, NEW r \in Refreshes, Clear(r)
  PROVE  MissingIsAhead'
<1> SUFFICES ASSUME NEW n \in (table \cup {0})', NEW m \in (Listed \ table)', n < m
             PROVE  \E q \in Refreshes : Witness(q, n, m)'
  BY DEF MissingIsAhead
<1>1. n = 0
  BY DEF Clear, Delete
<1>2. Witness(r, n, m)'
  BY <1>1, EpisodeAssumption DEF Witness, Clear, Go, Active, IInv, TypeOK, Listed
<1> QED
  BY <1>2

\* A refresh that adds an episode is past it, and where it was useful it still is.
LEMMA AddKeeps ==
  ASSUME IInv, NEW r \in Refreshes, Add(r)
  PROVE  MissingIsAhead'
<1> DEFINE added == refresh[r].next
<1> SUFFICES ASSUME cleared, ~spoiled,
                    NEW n \in (table \cup {0})', NEW m \in (Listed \ table)', n < m
             PROVE  \E q \in Refreshes : Witness(q, n, m)'
  BY DEF MissingIsAhead, Add
<1>1. /\ table' = table \cup {added} /\ added \in Listed
      /\ refresh' = [refresh EXCEPT ![r] = [pc |-> "get", next |-> added + 1]]
  BY EpisodeAssumption DEF Add, Insert, Go, IInv, TypeOK, Listed
<1>2. m \in Listed \ table /\ m # added /\ m \in Nat /\ n \in Nat
  BY <1>1, EpisodeAssumption DEF Listed, IInv, TypeOK
<1>3. CASE n = added
  <2>1. Witness(r, n, m)'
    BY <1>1, <1>2, <1>3, EpisodeAssumption DEF Witness, Active, IInv, TypeOK, Listed
  <2> QED
    BY <2>1
<1>4. CASE n # added
  <2>1. PICK q \in Refreshes : Witness(q, n, m)
    BY <1>1, <1>2, <1>4 DEF IInv, MissingIsAhead
  <2>2. CASE q = r
    <3>1. n < added /\ added <= m /\ added \in Nat
      BY <2>1, <2>2, EpisodeAssumption DEF Witness, IInv, TypeOK
    <3>2. Witness(r, n, m)'
      BY <1>1, <1>2, <3>1, EpisodeAssumption DEF Witness, Active, IInv, TypeOK
    <3> QED
      BY <3>2
  <2>3. CASE q # r
    <3>1. Witness(q, n, m)'
      BY <1>1, <2>1, <2>3 DEF Witness, Active, IInv, TypeOK
    <3> QED
      BY <3>1
  <2> QED
    BY <2>2, <2>3
<1> QED
  BY <1>3, <1>4

\* A refresh that stops at `at`, an episode that is there, leaves another one
\* to come to every later missing episode.
LEMMA StopKeeps ==
  ASSUME IInv, NEW r \in Refreshes, Active(r), Stops(r), UNCHANGED <<table, cleared, spoiled>>,
         refresh[r].next \in table \/ refresh[r].next = NumListed + 1
                                   \/ refresh[r].next - 1 \in Listed \ table
  PROVE  MissingIsAhead'
<1> DEFINE added == refresh[r].next
<1> SUFFICES ASSUME cleared, ~spoiled,
                    NEW n \in table \cup {0}, NEW m \in Listed \ table, n < m
             PROVE  \E q \in Refreshes : Witness(q, n, m)'
  BY DEF MissingIsAhead, Listed
<1>1. /\ added \in Nat /\ m \in Nat /\ n \in Nat /\ m <= NumListed
      /\ refresh' = [refresh EXCEPT ![r] = [pc |-> "ended", next |-> added]]
  BY EpisodeAssumption DEF IInv, TypeOK, Listed, Stops, Go
<1>2. PICK q \in Refreshes : Witness(q, n, m)
  BY DEF IInv, MissingIsAhead
<1>3. ASSUME NEW p \in Refreshes, p # r, Witness(p, n, m) PROVE Witness(p, n, m)'
  BY <1>1, <1>3 DEF Witness, Active, IInv, TypeOK
<1>4. CASE q # r
  BY <1>2, <1>3, <1>4
<1>5. CASE q = r
  <2>1. n < added /\ added <= m
    BY <1>2, <1>5 DEF Witness
  <2>2. CASE added \in table
    <3>1. added < m
      BY <2>1, <2>2, <1>1
    <3>2. PICK p \in Refreshes : Witness(p, added, m)
      BY <2>2, <3>1 DEF IInv, MissingIsAhead
    <3>3. p # r /\ Witness(p, n, m)
      BY <2>1, <3>2, <1>1, EpisodeAssumption DEF Witness, IInv, TypeOK
    <3> QED
      BY <1>3, <3>3
  <2>3. CASE added = NumListed + 1
    BY <2>1, <2>3, <1>1, EpisodeAssumption
  <2>4. CASE added - 1 \in Listed \ table
    <3>1. n < added - 1
      BY <2>1, <2>4, <1>1, EpisodeAssumption DEF Listed
    <3>2. PICK p \in Refreshes : Witness(p, n, added - 1)
      BY <2>4, <3>1 DEF IInv, MissingIsAhead
    <3>3. p # r /\ Witness(p, n, m)
      BY <2>1, <3>2, <1>1, EpisodeAssumption DEF Witness, IInv, TypeOK
    <3> QED
      BY <1>3, <3>3
  <2> QED
    BY <2>2, <2>3, <2>4
<1> QED
  BY <1>4, <1>5

\* A step that leaves the table, and where the running refreshes stand.
LEMMA StandingKeeps ==
  ASSUME IInv, UNCHANGED <<table, cleared, spoiled>>,
         \A r \in Refreshes : Active(r) => Active(r)' /\ refresh'[r].next = refresh[r].next
  PROVE  MissingIsAhead'
BY DEF IInv, MissingIsAhead, Witness

\* Every step keeps the missing ahead.
LEMMA StepMissing == IInv /\ [Next]_vars => MissingIsAhead'
<1> SUFFICES ASSUME IInv, [Next]_vars PROVE MissingIsAhead'
  OBVIOUS
<1>1. ASSUME NEW r \in Refreshes, ReadIds(r) \/ Fetch(r) PROVE MissingIsAhead'
  BY <1>1, StandingKeeps DEF ReadIds, Fetch, Go, At, Active, IInv, TypeOK
<1>2. ASSUME NEW r \in Refreshes, Clear(r) PROVE MissingIsAhead'
  BY <1>2, ClearKeeps
<1>3. ASSUME NEW r \in Refreshes, Add(r) PROVE MissingIsAhead'
  BY <1>3, AddKeeps
<1>4. ASSUME NEW r \in Refreshes, AddConflicts(r) PROVE MissingIsAhead'
  BY <1>4, StopKeeps DEF AddConflicts, At, Active
<1>5. ASSUME NEW r \in Refreshes, Reread(r) PROVE MissingIsAhead'
  <2>1. CASE refresh[r].next - 1 \in table
    <3>1. Go(r, "add", refresh[r].next) /\ UNCHANGED <<table, cleared, spoiled>>
      BY <1>5, <2>1 DEF Reread
    <3> QED
      BY <3>1, StandingKeeps DEF Go, Active, IInv, TypeOK
  <2>2. CASE refresh[r].next - 1 \notin table
    <3>1. Stops(r) /\ Active(r) /\ UNCHANGED <<table, cleared, spoiled>>
      BY <1>5, <2>2 DEF Reread, At, Active
    <3>2. refresh[r].next - 1 \in Listed \ table
      BY <1>5, <2>2, EpisodeAssumption DEF IInv, Added, TypeOK, Listed, Reread
    <3> QED
      BY <3>1, <3>2, StopKeeps
  <2> QED
    BY <2>1, <2>2
<1>6. ASSUME NEW r \in Refreshes, Finish(r) PROVE MissingIsAhead'
  BY <1>6, StopKeeps DEF Finish, At, Active
<1>7. ASSUME NEW r \in Refreshes, Drop(r) PROVE MissingIsAhead'
  <2>1. CASE Active(r)
    BY <1>7, <2>1, SpoiledKeeps DEF Drop
  <2>2. CASE ~Active(r)
    BY <1>7, <2>2, StandingKeeps DEF Drop, Stops, Go, Active, IInv, TypeOK
  <2> QED
    BY <2>1, <2>2
<1>8. ASSUME NEW n \in Listed, AddEpisode(n) \/ RemoveEpisode(n) PROVE MissingIsAhead'
  BY <1>8, SpoiledKeeps DEF AddEpisode, RemoveEpisode
<1>9. ASSUME NEW n \in Listed, NEW m \in Medias, MapMedia(m, n) PROVE MissingIsAhead'
  BY <1>9, StandingKeeps DEF MapMedia, Active
<1>10. CASE RemoveSerie
  BY <1>10, SpoiledKeeps DEF RemoveSerie
<1>11. CASE UNCHANGED vars
  BY <1>11, StandingKeeps DEF vars, Active
<1> QED
  BY <1>1, <1>2, <1>3, <1>4, <1>5, <1>6, <1>7, <1>8, <1>9, <1>10, <1>11 DEF Next

\* Every step keeps the next episode ahead of the one to read again.
LEMMA StepAdded == IInv /\ [Next]_vars => Added'
<1> SUFFICES ASSUME IInv, [Next]_vars PROVE Added'
  OBVIOUS
<1> USE EpisodeAssumption DEF IInv, TypeOK, Listed, Added, At
<1>1. ASSUME NEW r \in Refreshes, NEW pc \in {"fetch", "clear", "ended", "add"},
             NEW next \in Nat, Go(r, pc, next)
      PROVE  Added'
  BY <1>1 DEF Go
<1>2. ASSUME NEW r \in Refreshes, ReadIds(r) \/ Fetch(r) \/ Clear(r) PROVE Added'
  BY <1>1, <1>2 DEF ReadIds, Fetch, Clear
<1>3. ASSUME NEW r \in Refreshes, Add(r) PROVE Added'
  BY <1>3 DEF Add, Go
<1>4. ASSUME NEW r \in Refreshes, AddConflicts(r) \/ Reread(r) \/ Finish(r) \/ Drop(r)
      PROVE  Added'
  BY <1>1, <1>4 DEF AddConflicts, Reread, Finish, Drop, Stops
<1>5. ASSUME UNCHANGED refresh PROVE Added'
  BY <1>5
<1> QED
  BY <1>2, <1>3, <1>4, <1>5
     DEF Next, vars, AddEpisode, RemoveEpisode, MapMedia, RemoveSerie

\* Every step leaves only late episodes to a serie that is gone.
LEMMA StepOrphans == IInv /\ [Next]_vars => OrphansAreLate'
<1> SUFFICES ASSUME IInv, [Next]_vars PROVE OrphansAreLate'
  OBVIOUS
<1> USE DEF IInv, OrphansAreLate
<1>1. ASSUME NEW n, Insert(n), UNCHANGED present PROVE OrphansAreLate'
  BY <1>1 DEF Insert
<1>2. ASSUME NEW gone, Delete(gone), UNCHANGED <<present, late>> PROVE OrphansAreLate'
  BY <1>2 DEF Delete
<1>3. ASSUME UNCHANGED <<present, table, late>> PROVE OrphansAreLate'
  BY <1>3
<1>4. CASE RemoveSerie
  BY <1>4 DEF RemoveSerie
<1> QED
  BY <1>1, <1>2, <1>3, <1>4
     DEF Next, vars, ReadIds, Fetch, Clear, Add, AddConflicts, Reread, Finish, Drop,
         AddEpisode, RemoveEpisode, MapMedia

-----------------------------------------------------------------------------
\* The invariant holds in every state.
THEOREM Invariance == Spec => []IInv
<1>1. IInv /\ [Next]_vars => IInv'
  BY StepType, StepMissing, StepAdded, StepOrphans DEF IInv
<1> QED
  BY InitIInv, <1>1, PTL DEF Spec

\* The variables keep their types.
THEOREM TypeCorrect == Spec => []TypeOK
BY Invariance, PTL DEF IInv

\* However many refreshes of however long a list overlap, and whichever stop
\* at an episode another added, the list is complete once all have ended.
THEOREM CompleteAfterRefreshes == Spec => []RefreshesComplete
<1>1. IInv => RefreshesComplete
  <2> SUFFICES ASSUME IInv, cleared, ~spoiled, \A r \in Refreshes : ~Active(r)
               PROVE  \A m \in Listed : m \in table
    BY DEF RefreshesComplete, IInv, TypeOK
  <2> SUFFICES ASSUME NEW m \in Listed, m \notin table PROVE FALSE
    OBVIOUS
  <2>1. 0 < m
    BY EpisodeAssumption DEF Listed
  <2>2. PICK r \in Refreshes : Witness(r, 0, m)
    BY <2>1 DEF IInv, MissingIsAhead
  <2> QED
    BY <2>2 DEF Witness
<1> QED
  BY Invariance, <1>1, PTL

\* An episode whose serie is gone was added when it was gone already: the
\* trigger leaves none behind.
THEOREM OrphansOnlyLate == Spec => []OrphansAreLate
BY Invariance, PTL DEF IInv

-----------------------------------------------------------------------------
(***************************************************************************)
(* WORKS                                                                   *)
(* An add checks that no work has the identifier and inserts later. A      *)
(* checked identifier stays nobody's until the insert, unless two checks   *)
(* of it overlapped or an update set it. The spawned task writes the       *)
(* identifier it fetched only if it saw none, and there is none then       *)
(* either, unless an update overlapped. A removal deletes the row first    *)
(* and records it later; what is in between is in some request's hands.    *)
(***************************************************************************)

\* A row of a movie, a serie or a book.
Row == [kind : Works!Types, main : Mains, extra : Looks \cup {None},
        serie : Works!Ids \cup {None}, chapter : BOOLEAN]

\* Where a request is.
WorkStages ==
  {"idle", "insert", "fetched", "failed", "added", "checkbook", "resolve", "upsert", "insertserie",
   "done", "chapter", "serie", "refresh", "medias", "remove", "record"}

\* What a request has at hand.
WorkRequest ==
  [pc : WorkStages, kind : Works!Types \cup {None}, id : Works!Ids \cup {None},
   main : Mains \cup {None}, seen : Row \cup {None}, serie : Works!Ids \cup {None},
   with : Mains \cup {None}, admin : BOOLEAN]

\* The task spawned for a work.
WorkTask == [pc : {"none", "refresh", "refreshed", "queued", "read"},
             seen : Row \cup {None}, admin : BOOLEAN]

\* A request inserts works of known kinds and identifiers.
WorksTyped ==
  /\ works \in [Works!Ids -> Row \cup {None}]
  /\ worksUsed \in 0..MaxWorks
  /\ \A w \in Works!Ids : works[w] # None => w \in 1..worksUsed
  /\ workCall \in [Callers -> WorkRequest]
  /\ task \in [Works!Ids -> WorkTask]
  /\ ofWork \in [Medias -> Works!Ids \cup {None, Deleted}]

\* Request c is about to insert a work of that kind with that identifier: what it
\* checked is behind it.
Inserting(c, kind, main) ==
  \/ workCall[c].pc = "insert" /\ workCall[c].kind = kind /\ workCall[c].main = main
  \/ kind = "serie" /\ workCall[c].pc = "insertserie" /\ workCall[c].with = main

\* What a request has read by the time it needs it.
Knows(r) ==
  /\ r.pc \in {"insert", "fetched"} => r.kind \in Works!Types /\ r.main \in Mains
  /\ r.pc \in {"upsert", "insertserie", "resolve"} => r.with \in Mains
  /\ r.pc \in {"upsert", "insertserie", "resolve", "checkbook"} =>
        r.kind = "book" /\ r.main \in Mains
  /\ r.pc \in {"chapter", "serie", "added", "refresh", "remove", "medias", "record"} =>
        r.id \in Works!Ids

\* That holds of every request.
InsertsKnown == \A c \in Callers : Knows(workCall[c])

\* A checked identifier is no work's until it is inserted, and no other request is
\* about to insert it, unless two checks overlapped.
CheckHolds ==
  \A c \in Callers, kind \in Works!Types, main \in Mains :
    Inserting(c, kind, main) /\ <<kind, main>> \notin twice =>
      /\ \A w \in Works!Live : ~(works[w].kind = kind /\ works[w].main = main)
      /\ \A d \in Callers : Inserting(d, kind, main) => d = c

\* A task that will write an identifier saw a work without one, and the work has
\* none yet, unless an update overlapped.
Unread ==
  \A w \in Works!Ids :
    task[w].pc = "read" =>
      /\ task[w].seen # None
      /\ w \in Works!Live \ raced => works[w].extra = None

\* What the two invariants of the works rest on, with them.
WorksInv == WorksTyped /\ InsertsKnown /\ CheckHolds /\ Unread /\ UniqueIdentifiers
   /\ RemovalsRecorded

-----------------------------------------------------------------------------
(* The rows and the requests keep their form.                              *)

\* A request becomes another.
LEMMA WorkBecomes ==
  ASSUME WorksTyped, InsertsKnown, NEW c \in Callers, NEW to \in WorkRequest, Knows(to),
         workCall' = [workCall EXCEPT ![c] = to]
  PROVE  workCall' \in [Callers -> WorkRequest] /\ InsertsKnown'
BY DEF WorksTyped, InsertsKnown

\* A request goes on as what it is.
LEMMA WorkGoes ==
  ASSUME WorksTyped, InsertsKnown, NEW c \in Callers, NEW pc \in WorkStages,
         workCall' = [workCall EXCEPT ![c].pc = pc],
         \/ pc \in {"failed", "done"}
         \/ workCall[c].pc \in {"fetched", "checkbook"} /\ pc = "insert"
         \/ workCall[c].pc = "resolve" /\ pc \in {"checkbook", "upsert"}
         \/ workCall[c].pc = "upsert" /\ pc = "insertserie"
         \/ workCall[c].pc = "medias" /\ pc = "remove"
         \/ workCall[c].pc = "remove" /\ pc = "record"
  PROVE  workCall' \in [Callers -> WorkRequest] /\ InsertsKnown'
<1> DEFINE to == [workCall[c] EXCEPT !.pc = pc]
<1>1. to \in WorkRequest
  BY DEF WorksTyped, WorkRequest
<1>2. Knows(to)
  <2>1. workCall[c] \in WorkRequest /\ Knows(workCall[c])
    BY DEF WorksTyped, InsertsKnown
  <2> QED
    BY <2>1 DEF WorkRequest, WorkStages, Knows, Works!Types
<1>3. workCall' = [workCall EXCEPT ![c] = to]
  OBVIOUS
<1> HIDE DEF to
<1> QED
  BY <1>1, <1>2, <1>3, WorkBecomes

\* What an add asks for is an add.
LEMMA WorkAdds ==
  ASSUME NEW kind \in Works!Types, NEW main \in Mains, NEW admin \in BOOLEAN,
         NEW pc \in {"insert", "fetched", "failed"}
  PROVE  /\ [Works!Adding(kind, main, admin) EXCEPT !.pc = pc] \in WorkRequest
         /\ Knows([Works!Adding(kind, main, admin) EXCEPT !.pc = pc])
         /\ Works!Adding(kind, main, admin) \in WorkRequest
         /\ Knows(Works!Adding(kind, main, admin))
BY DEF Works!Adding, Works!Idle, WorkRequest, WorkStages, Knows, Works!Types

\* The extra of a row is set, where it is there.
LEMMA SetExtra ==
  ASSUME WorksTyped, NEW w \in Works!Ids, NEW value \in Looks, Works!SetColumn(w, "extra", value)
  PROVE  /\ works' \in [Works!Ids -> Row \cup {None}]
         /\ \A v \in Works!Ids :
              /\ works'[v] # None <=> works[v] # None
              /\ v # w \/ works[v] = None => works'[v] = works[v]
              /\ v = w /\ works[v] # None =>
                   /\ works'[v].kind = works[v].kind
                   /\ works'[v].main = works[v].main
                   /\ works'[v].extra = value
<1> USE DEF Works!SetColumn, WorksTyped, Works!Live
<1>1. CASE works[w] = None
  BY <1>1
<1>2. CASE works[w] # None
  <2> DEFINE row == [works[w] EXCEPT !.extra = value]
  <2>1. row \in Row /\ row.kind = works[w].kind /\ row.main = works[w].main /\ row.extra = value
    BY <1>2 DEF Row
  <2>2. works' = [works EXCEPT ![w] = row]
    BY <1>2
  <2>3. row # None
    BY <2>1, WorksAssumption DEF Row
  <2> HIDE DEF row
  <2> QED
    BY <1>2, <2>1, <2>2, <2>3
<1> QED
  BY <1>1, <1>2

\* The main of a row is set, where it is there.
LEMMA SetMain ==
  ASSUME WorksTyped, NEW w \in Works!Ids, NEW value \in Mains, Works!SetColumn(w, "main", value)
  PROVE  /\ works' \in [Works!Ids -> Row \cup {None}]
         /\ \A v \in Works!Ids :
              /\ works'[v] # None <=> works[v] # None
              /\ v # w \/ works[v] = None => works'[v] = works[v]
              /\ v = w /\ works[v] # None =>
                   /\ works'[v].kind = works[v].kind
                   /\ works'[v].main = value
                   /\ works'[v].extra = works[v].extra
<1> USE DEF Works!SetColumn, WorksTyped, Works!Live
<1>1. CASE works[w] = None
  BY <1>1
<1>2. CASE works[w] # None
  <2> DEFINE row == [works[w] EXCEPT !.main = value]
  <2>1. row \in Row /\ row.kind = works[w].kind /\ row.main = value /\ row.extra = works[w].extra
    BY <1>2 DEF Row
  <2>2. works' = [works EXCEPT ![w] = row]
    BY <1>2
  <2>3. row # None
    BY <2>1, WorksAssumption DEF Row
  <2> HIDE DEF row
  <2> QED
    BY <1>2, <2>1, <2>2, <2>3
<1> QED
  BY <1>1, <1>2

\* The serie of a row is set, where it is there.
LEMMA SetSerie ==
  ASSUME WorksTyped, NEW w \in Works!Ids, NEW value \in Works!Ids \cup {None},
     Works!SetColumn(w, "serie", value)
  PROVE  /\ works' \in [Works!Ids -> Row \cup {None}]
         /\ \A v \in Works!Ids :
              /\ works'[v] # None <=> works[v] # None
              /\ v # w \/ works[v] = None => works'[v] = works[v]
              /\ v = w /\ works[v] # None =>
                   /\ works'[v].kind = works[v].kind
                   /\ works'[v].main = works[v].main
                   /\ works'[v].extra = works[v].extra
<1> USE DEF Works!SetColumn, WorksTyped, Works!Live
<1>1. CASE works[w] = None
  BY <1>1
<1>2. CASE works[w] # None
  <2> DEFINE row == [works[w] EXCEPT !.serie = value]
  <2>1. row \in Row /\ row.kind = works[w].kind /\ row.main = works[w].main
           /\ row.extra = works[w].extra
    BY <1>2 DEF Row
  <2>2. works' = [works EXCEPT ![w] = row]
    BY <1>2
  <2>3. row # None
    BY <2>1, WorksAssumption DEF Row
  <2> HIDE DEF row
  <2> QED
    BY <1>2, <2>1, <2>2, <2>3
<1> QED
  BY <1>1, <1>2

\* The chapter of a row is set, where it is there.
LEMMA SetChapter ==
  ASSUME WorksTyped, NEW w \in Works!Ids, NEW value \in BOOLEAN,
     Works!SetColumn(w, "chapter", value)
  PROVE  /\ works' \in [Works!Ids -> Row \cup {None}]
         /\ \A v \in Works!Ids :
              /\ works'[v] # None <=> works[v] # None
              /\ v # w \/ works[v] = None => works'[v] = works[v]
              /\ v = w /\ works[v] # None =>
                   /\ works'[v].kind = works[v].kind
                   /\ works'[v].main = works[v].main
                   /\ works'[v].extra = works[v].extra
<1> USE DEF Works!SetColumn, WorksTyped, Works!Live
<1>1. CASE works[w] = None
  BY <1>1
<1>2. CASE works[w] # None
  <2> DEFINE row == [works[w] EXCEPT !.chapter = value]
  <2>1. row \in Row /\ row.kind = works[w].kind /\ row.main = works[w].main
           /\ row.extra = works[w].extra
    BY <1>2 DEF Row
  <2>2. works' = [works EXCEPT ![w] = row]
    BY <1>2
  <2>3. row # None
    BY <2>1, WorksAssumption DEF Row
  <2> HIDE DEF row
  <2> QED
    BY <1>2, <2>1, <2>2, <2>3
<1> QED
  BY <1>1, <1>2

\* Every step leaves each request with what it needs.
LEMMA WorkRequests ==
  ASSUME WorksTyped, InsertsKnown, Works!Next
  PROVE  workCall' \in [Callers -> WorkRequest] /\ InsertsKnown'
<1> DEFINE Goal == workCall' \in [Callers -> WorkRequest] /\ InsertsKnown'
<1>0. \A c \in Callers : workCall[c] \in WorkRequest /\ Knows(workCall[c])
  BY DEF WorksTyped, InsertsKnown
<1>u. ASSUME UNCHANGED workCall PROVE Goal
  BY <1>u DEF WorksTyped, InsertsKnown
<1>1. ASSUME NEW c \in Callers, Works!AddMovie(c) PROVE Goal
  <2>1. CASE workCall[c].pc = "fetched"
    <3>1. workCall' = [workCall EXCEPT ![c].pc = "failed"]
             \/ workCall' = [workCall EXCEPT ![c] = [workCall[c] EXCEPT !.pc = "insert"]]
      BY <1>1, <2>1 DEF Works!AddMovie, Works!Checked, Works!Goes, Works!Becomes, Works!Starts,
         Works!At
    <3> QED
      BY <2>1, <3>1, WorkGoes DEF WorkStages
  <2>2. CASE workCall[c].pc # "fetched"
    <3>1. PICK main \in Mains, admin \in BOOLEAN :
             workCall' = [workCall EXCEPT ![c].pc = "failed"]
                \/ Works!Becomes(c, Works!Adding("movie", main, admin))
      BY <1>1, <2>2 DEF Works!AddMovie, Works!Checked, Works!Goes, Works!At
    <3>2. Works!Adding("movie", main, admin) \in WorkRequest
             /\ Knows(Works!Adding("movie", main, admin))
      BY WorkAdds DEF Works!Types
    <3> QED
      BY <3>1, <3>2, WorkGoes, WorkBecomes DEF Works!Becomes, WorkStages
  <2> QED
    BY <2>1, <2>2
<1>2. ASSUME NEW c \in Callers, Works!AddSerie(c) PROVE Goal
  <2>1. CASE workCall[c].pc = "fetched"
    <3>1. workCall' = [workCall EXCEPT ![c].pc = "failed"]
             \/ workCall' = [workCall EXCEPT ![c] = [workCall[c] EXCEPT !.pc = "insert"]]
      BY <1>2, <2>1 DEF Works!AddSerie, Works!Checked, Works!Goes, Works!Becomes, Works!Starts,
         Works!At
    <3> QED
      BY <2>1, <3>1, WorkGoes DEF WorkStages
  <2>2. CASE workCall[c].pc # "fetched"
    <3>1. PICK main \in Mains, admin \in BOOLEAN :
             workCall' = [workCall EXCEPT ![c].pc = "failed"]
                \/ Works!Becomes(c, Works!Adding("serie", main, admin))
      BY <1>2, <2>2 DEF Works!AddSerie, Works!Checked, Works!Goes, Works!At
    <3>2. Works!Adding("serie", main, admin) \in WorkRequest
             /\ Knows(Works!Adding("serie", main, admin))
      BY WorkAdds DEF Works!Types
    <3> QED
      BY <3>1, <3>2, WorkGoes, WorkBecomes DEF Works!Becomes, WorkStages
  <2> QED
    BY <2>1, <2>2
<1>3. ASSUME NEW c \in Callers, Works!ImportMovie(c) PROVE Goal
  <2>1. PICK main \in Mains, admin \in BOOLEAN, pc \in {"fetched", "failed"} :
          Works!Becomes(c, [Works!Adding("movie", main, admin) EXCEPT !.pc = pc])
    BY <1>3 DEF Works!ImportMovie, Works!Import
  <2>2. /\ [Works!Adding("movie", main, admin) EXCEPT !.pc = pc] \in WorkRequest
        /\ Knows([Works!Adding("movie", main, admin) EXCEPT !.pc = pc])
    BY WorkAdds DEF Works!Types
  <2> QED
    BY <2>1, <2>2, WorkBecomes DEF Works!Becomes
<1>4. ASSUME NEW c \in Callers, Works!ImportSerie(c) PROVE Goal
  <2>1. PICK main \in Mains, admin \in BOOLEAN, pc \in {"fetched", "failed"} :
          Works!Becomes(c, [Works!Adding("serie", main, admin) EXCEPT !.pc = pc])
    BY <1>4 DEF Works!ImportSerie, Works!Import
  <2>2. /\ [Works!Adding("serie", main, admin) EXCEPT !.pc = pc] \in WorkRequest
        /\ Knows([Works!Adding("serie", main, admin) EXCEPT !.pc = pc])
    BY WorkAdds DEF Works!Types
  <2> QED
    BY <2>1, <2>2, WorkBecomes DEF Works!Becomes
<1>5. ASSUME NEW c \in Callers, Works!InsertMovie(c) PROVE Goal
  <2> DEFINE to == [workCall[c] EXCEPT !.pc = "added", !.id = worksUsed + 1]
  <2>1. Works!Becomes(c, to) /\ worksUsed + 1 \in Works!Ids
    BY <1>5, WorksAssumption DEF Works!InsertMovie, Works!InsertMovieRow, Works!InsertSerieRow,
       Works!InsertBookRow, Works!InsertRow, WorksTyped, Works!Ids
  <2>2. to \in WorkRequest /\ Knows(to)
    BY <1>0, <2>1 DEF WorkRequest, WorkStages, Knows
  <2> HIDE DEF to
  <2> QED
    BY <2>1, <2>2, WorkBecomes DEF Works!Becomes
<1>6. ASSUME NEW c \in Callers, Works!InsertSerie(c) PROVE Goal
  <2> DEFINE to == [workCall[c] EXCEPT !.pc = "added", !.id = worksUsed + 1]
  <2>1. Works!Becomes(c, to) /\ worksUsed + 1 \in Works!Ids
    BY <1>6, WorksAssumption DEF Works!InsertSerie, Works!InsertMovieRow, Works!InsertSerieRow,
       Works!InsertBookRow, Works!InsertRow, WorksTyped, Works!Ids
  <2>2. to \in WorkRequest /\ Knows(to)
    BY <1>0, <2>1 DEF WorkRequest, WorkStages, Knows
  <2> HIDE DEF to
  <2> QED
    BY <2>1, <2>2, WorkBecomes DEF Works!Becomes
<1>7. ASSUME NEW c \in Callers, Works!InsertBook(c) PROVE Goal
  <2> DEFINE to == [workCall[c] EXCEPT !.pc = "added", !.id = worksUsed + 1]
  <2>1. Works!Becomes(c, to) /\ worksUsed + 1 \in Works!Ids
    BY <1>7, WorksAssumption DEF Works!InsertBook, Works!InsertMovieRow, Works!InsertSerieRow,
       Works!InsertBookRow, Works!InsertRow, WorksTyped, Works!Ids
  <2>2. to \in WorkRequest /\ Knows(to)
    BY <1>0, <2>1 DEF WorkRequest, WorkStages, Knows
  <2> HIDE DEF to
  <2> QED
    BY <2>1, <2>2, WorkBecomes DEF Works!Becomes
<1>8. ASSUME NEW c \in Callers, Works!AddBook(c) PROVE Goal
  <2>1. PICK main \in Mains, with \in Mains \cup {None} :
          Works!Becomes(c, [Works!Adding("book", main, FALSE) EXCEPT
                     !.with = with, !.pc = IF with = None THEN "checkbook" ELSE "resolve"])
    BY <1>8 DEF Works!AddBook
  <2> DEFINE to == [Works!Adding("book", main, FALSE) EXCEPT
                     !.with = with, !.pc = IF with = None THEN "checkbook" ELSE "resolve"]
  <2>2. to \in WorkRequest /\ Knows(to)
    BY DEF Works!Adding, Works!Idle, WorkRequest, WorkStages, Knows, Works!Types
  <2> QED
    BY <2>1, <2>2, WorkBecomes DEF Works!Becomes
<1>9. ASSUME NEW c \in Callers, Works!ResolveSerie(c) PROVE Goal
  <2>1. CASE workCall' = [workCall EXCEPT ![c].pc = "checkbook"]
           \/ workCall' = [workCall EXCEPT ![c].pc = "upsert"]
    BY <1>9, <2>1, WorkGoes DEF WorkStages, Works!ResolveSerie, Works!At
  <2>2. CASE \E s \in Works!Ids :
           Works!Becomes(c, [workCall[c] EXCEPT !.pc = "checkbook", !.serie = s])
    <3>1. PICK s \in Works!Ids :
             Works!Becomes(c, [workCall[c] EXCEPT !.pc = "checkbook", !.serie = s])
      BY <2>2
    <3>2. [workCall[c] EXCEPT !.pc = "checkbook", !.serie = s] \in WorkRequest
             /\ Knows([workCall[c] EXCEPT !.pc = "checkbook", !.serie = s])
      BY <1>0, <1>9 DEF WorkRequest, WorkStages, Knows, Works!ResolveSerie, Works!At
    <3> QED
      BY <3>1, <3>2, WorkBecomes DEF Works!Becomes
  <2> QED
    BY <1>9, <2>1, <2>2 DEF Works!ResolveSerie, Works!SerieByAnyId, Works!SerieByExternalId,
       Works!Of, Works!Live, Works!Goes
<1>10. ASSUME NEW c \in Callers, Works!UpsertSerie(c) PROVE Goal
  <2>1. CASE workCall[c].pc = "upsert"
    <3>1. workCall' = [workCall EXCEPT ![c].pc = "failed"]
             \/ workCall' = [workCall EXCEPT ![c].pc = "insertserie"]
      BY <1>10, <2>1 DEF Works!UpsertSerie, Works!Goes, Works!At
    <3> QED
      BY <2>1, <3>1, WorkGoes DEF WorkStages
  <2>2. CASE workCall[c].pc = "insertserie"
    <3> DEFINE to == [workCall[c] EXCEPT !.pc = "checkbook", !.serie = worksUsed + 1]
    <3>1. Works!Becomes(c, to) /\ worksUsed + 1 \in Works!Ids
      BY <1>10, <2>2, WorksAssumption DEF Works!UpsertSerie, Works!At, Works!InsertSerieRow,
         Works!InsertRow, WorksTyped, Works!Ids
    <3>2. to \in WorkRequest /\ Knows(to)
      BY <1>0, <2>2, <3>1 DEF WorkRequest, WorkStages, Knows
    <3> HIDE DEF to
    <3> QED
      BY <3>1, <3>2, WorkBecomes DEF Works!Becomes
  <2> QED
    BY <1>10, <2>1, <2>2 DEF Works!UpsertSerie, Works!At
<1>11. ASSUME NEW c \in Callers, Works!CheckBook(c) PROVE Goal
  <2>1. workCall[c].pc = "checkbook"
    BY <1>11 DEF Works!CheckBook, Works!At
  <2>2. workCall' = [workCall EXCEPT ![c].pc = "failed"]
           \/ workCall' = [workCall EXCEPT ![c] = [workCall[c] EXCEPT !.pc = "insert"]]
    BY <1>11 DEF Works!CheckBook, Works!Checked, Works!Goes, Works!Becomes
  <2> QED
    BY <2>1, <2>2, WorkGoes DEF WorkStages
<1>12. ASSUME NEW c \in Callers, Works!Added(c) PROVE Goal
  <2>1. workCall' = [workCall EXCEPT ![c].pc = "done"]
           \/ workCall' = [workCall EXCEPT ![c].pc = "failed"]
    BY <1>12 DEF Works!Added, Works!Goes, Works!At, Works!Becomes
  <2> QED
    BY <2>1, <1>u, WorkGoes DEF WorkStages
<1>13. ASSUME NEW c \in Callers, Works!UpdateBookWrite(c) PROVE Goal
  <2>1. workCall' = [workCall EXCEPT ![c].pc = "done"]
           \/ workCall' = [workCall EXCEPT ![c].pc = "failed"]
    BY <1>13 DEF Works!UpdateBookWrite, Works!Goes, Works!At, Works!Becomes
  <2> QED
    BY <2>1, <1>u, WorkGoes DEF WorkStages
<1>14. ASSUME NEW c \in Callers, Works!RefreshMovie(c) PROVE Goal
  <2>1. workCall' = [workCall EXCEPT ![c].pc = "done"]
           \/ workCall' = [workCall EXCEPT ![c].pc = "failed"]
    BY <1>14 DEF Works!RefreshMovie, Works!Goes, Works!At, Works!Becomes
  <2> QED
    BY <2>1, <1>u, WorkGoes DEF WorkStages
<1>15. ASSUME NEW c \in Callers, Works!RefreshSerie(c) PROVE Goal
  <2>1. workCall' = [workCall EXCEPT ![c].pc = "done"]
           \/ workCall' = [workCall EXCEPT ![c].pc = "failed"]
    BY <1>15 DEF Works!RefreshSerie, Works!Goes, Works!At, Works!Becomes
  <2> QED
    BY <2>1, <1>u, WorkGoes DEF WorkStages
<1>16. ASSUME NEW c \in Callers, Works!RemoveSerieMedia(c) PROVE Goal
  <2>1. workCall[c].pc = "medias"
    BY <1>16 DEF Works!RemoveSerieMedia, Works!At
  <2>2. workCall' = [workCall EXCEPT ![c].pc = "remove"] \/ UNCHANGED workCall
    BY <1>16 DEF Works!RemoveSerieMedia, Works!Goes
  <2> QED
    BY <2>1, <2>2, <1>u, WorkGoes DEF WorkStages
<1>17. ASSUME NEW c \in Callers, Works!RemoveMovie(c) PROVE Goal
  <2>1. workCall[c].pc = "remove" /\ workCall' = [workCall EXCEPT ![c].pc = "record"]
    BY <1>17 DEF Works!RemoveMovie, Works!Goes, Works!At, Works!Becomes, Works!RemoveOwner
  <2> QED
    BY <2>1, <1>u, WorkGoes DEF WorkStages
<1>18. ASSUME NEW c \in Callers, Works!RemoveBook(c) PROVE Goal
  <2>1. workCall[c].pc = "remove" /\ workCall' = [workCall EXCEPT ![c].pc = "record"]
    BY <1>18 DEF Works!RemoveBook, Works!Goes, Works!At, Works!Becomes, Works!RemoveOwner
  <2> QED
    BY <2>1, <1>u, WorkGoes DEF WorkStages
<1>19. ASSUME NEW c \in Callers, Works!RemoveSerie(c) PROVE Goal
  <2>1. workCall[c].pc = "remove"
           /\ (workCall' = [workCall EXCEPT ![c].pc = "record"]
                 \/ workCall' = [workCall EXCEPT ![c].pc = "failed"])
    BY <1>19 DEF Works!RemoveSerie, Works!Goes, Works!At, Works!Becomes
  <2> QED
    BY <2>1, <1>u, WorkGoes DEF WorkStages
<1>20. ASSUME NEW c \in Callers, Works!Record(c) PROVE Goal
  <2>1. workCall' = [workCall EXCEPT ![c].pc = "done"]
    BY <1>20 DEF Works!Record, Works!Goes, Works!At, Works!Becomes
  <2> QED
    BY <2>1, <1>u, WorkGoes DEF WorkStages
<1>21. ASSUME NEW c \in Callers, Works!Return(c) PROVE Goal
  <2>1. Works!Becomes(c, Works!Idle)
    BY <1>21 DEF Works!Return
  <2>2. Works!Idle \in WorkRequest /\ Knows(Works!Idle)
    BY DEF Works!Idle, WorkRequest, WorkStages, Knows
  <2> QED
    BY <2>1, <2>2, WorkBecomes DEF Works!Becomes
<1>22. ASSUME NEW c \in Callers, Works!UpdateBook(c) PROVE Goal
  <2>1. PICK w \in Works!Ids, s \in Works!Ids \cup {None}, pc \in {"failed", "chapter", "serie"} :
          Works!Becomes(c, [Works!Idle EXCEPT !.pc = pc, !.id = w, !.serie = s])
    <3>1. PICK w \in Works!Of("book") :
       \/ Works!Becomes(c, [Works!Idle EXCEPT !.pc = IF works[w].serie = None THEN "failed" ELSE "chapter",
                                  !.id = w, !.serie = works[w].serie])
       \/ \E s \in Works!Of("serie") :
             Works!Becomes(c, [Works!Idle EXCEPT !.pc = "serie", !.id = w, !.serie = s])
      BY <1>22 DEF Works!UpdateBook
    <3>2. w \in Works!Ids /\ works[w].serie \in Works!Ids \cup {None}
             /\ \A s \in Works!Of("serie") : s \in Works!Ids
      BY DEF Works!Of, Works!Live, WorksTyped, Row
    <3> QED
      BY <3>1, <3>2
  <2>2. [Works!Idle EXCEPT !.pc = pc, !.id = w, !.serie = s] \in WorkRequest
           /\ Knows([Works!Idle EXCEPT !.pc = pc, !.id = w, !.serie = s])
    BY DEF Works!Idle, WorkRequest, WorkStages, Knows
  <2> QED
    BY <2>1, <2>2, WorkBecomes DEF Works!Becomes
<1>23. ASSUME NEW c \in Callers, Works!StartRefresh(c) PROVE Goal
  <2>1. PICK w \in Works!Live, admin \in BOOLEAN :
          Works!Becomes(c, [Works!Idle EXCEPT !.pc = "refresh", !.kind = works[w].kind, !.id = w,
                               !.seen = works[w], !.admin = admin])
    BY <1>23 DEF Works!StartRefresh, Works!Of
  <2> DEFINE to == [Works!Idle EXCEPT !.pc = "refresh", !.kind = works[w].kind, !.id = w,
                               !.seen = works[w], !.admin = admin]
  <2>2. w \in Works!Ids /\ works[w] \in Row
    BY DEF Works!Live, WorksTyped
  <2>3. to \in WorkRequest /\ Knows(to)
    BY <2>2 DEF Works!Idle, WorkRequest, WorkStages, Knows, Row
  <2> QED
    BY <2>1, <2>3, WorkBecomes DEF Works!Becomes
<1>24. ASSUME NEW c \in Callers, Works!StartRemove(c) PROVE Goal
  <2>1. PICK w \in Works!Live, pc \in {"medias", "remove"} :
          Works!Becomes(c, [Works!Idle EXCEPT !.id = w, !.kind = works[w].kind, !.pc = pc])
    BY <1>24 DEF Works!StartRemove
  <2> DEFINE to == [Works!Idle EXCEPT !.id = w, !.kind = works[w].kind, !.pc = pc]
  <2>2. w \in Works!Ids /\ works[w] \in Row
    BY DEF Works!Live, WorksTyped
  <2>3. to \in WorkRequest /\ Knows(to)
    BY <2>2 DEF Works!Idle, WorkRequest, WorkStages, Knows, Row
  <2> QED
    BY <2>1, <2>3, WorkBecomes DEF Works!Becomes
<1>25. ASSUME NEW c \in Callers, Works!UpdateMovie(c) \/ Works!UpdateSerie(c) PROVE Goal
  BY <1>25, <1>u DEF Works!UpdateMovie, Works!UpdateSerie
<1>26. ASSUME NEW w \in Works!Ids, Works!RefreshNewSerie(w) \/ Works!EnrichRead(w)
              \/ Works!EnrichMovieIds(w) \/ Works!EnrichSerieIds(w) \/ Works!EnrichBookIds(w)
                 PROVE Goal
  BY <1>26, <1>u DEF Works!RefreshNewSerie, Works!EnrichRead, Works!EnrichMovieIds,
     Works!EnrichSerieIds, Works!EnrichBookIds, Works!Enrich
<1>27. ASSUME NEW x \in Medias, Works!AttachMedia(x) PROVE Goal
  BY <1>27, <1>u DEF Works!AttachMedia
<1> QED
  BY <1>1, <1>2, <1>3, <1>4, <1>5, <1>6, <1>7, <1>8, <1>9, <1>10, <1>11, <1>12, <1>13, <1>14, <1>15,
     <1>16, <1>17, <1>18, <1>19, <1>20, <1>21, <1>22, <1>23, <1>24, <1>25, <1>26,
        <1>27 DEF Works!Next

\* A row is inserted under a new number.
LEMMA RowInserted ==
  ASSUME WorksTyped, NEW kind \in Works!Types, NEW main \in Mains,
         NEW serie \in Works!Ids \cup {None}, Works!InsertRow(kind, main, serie)
  PROVE  /\ works' \in [Works!Ids -> Row \cup {None}]
         /\ worksUsed' = worksUsed + 1 /\ worksUsed + 1 \in Works!Ids /\ worksUsed' \in 0..MaxWorks
         /\ works[worksUsed + 1] = None
         /\ works'[worksUsed + 1] # None
         /\ works'[worksUsed + 1].kind = kind
         /\ works'[worksUsed + 1].main = main
         /\ works'[worksUsed + 1].extra = None
         /\ \A w \in Works!Ids : w # worksUsed + 1 => works'[w] = works[w]
<1> DEFINE row == [kind |-> kind, main |-> main, extra |-> None, serie |-> serie,
                   chapter |-> serie # None]
<1>1. row \in Row /\ row.kind = kind /\ row.main = main /\ row.extra = None
  BY DEF Row
<1>2. row # None
  BY <1>1, WorksAssumption DEF Row
<1>3. works' = [works EXCEPT ![worksUsed + 1] = row] /\ worksUsed' = worksUsed + 1
         /\ worksUsed < MaxWorks
  BY DEF Works!InsertRow
<1>4. worksUsed + 1 \in Works!Ids /\ worksUsed' \in 0..MaxWorks /\ worksUsed + 1 \notin 1..worksUsed
  BY <1>3, WorksAssumption DEF WorksTyped, Works!Ids
<1> HIDE DEF row
<1> QED
  BY <1>1, <1>2, <1>3, <1>4 DEF WorksTyped

\* The books of a serie are detached from it.
LEMMA BooksDetached ==
  ASSUME WorksTyped, NEW w \in Works!Ids, works' = Works!DetachBooks(w)
  PROVE  /\ works' \in [Works!Ids -> Row \cup {None}]
         /\ works'[w] = None
         /\ \A v \in Works!Ids : v # w =>
              /\ works'[v] # None <=> works[v] # None
              /\ works[v] # None => /\ works'[v].kind = works[v].kind
                                    /\ works'[v].main = works[v].main
                                    /\ works'[v].extra = works[v].extra
<1>1. ASSUME NEW v \in Works!Ids, v # w, works[v] # None
      PROVE  /\ works'[v] \in Row /\ works'[v] # None
             /\ works'[v].kind = works[v].kind
             /\ works'[v].main = works[v].main
             /\ works'[v].extra = works[v].extra
  <2>1. works[v] \in Row
    BY <1>1 DEF WorksTyped
  <2> DEFINE row == [works[v] EXCEPT !.serie = None, !.chapter = FALSE]
  <2>2. row \in Row /\ row.kind = works[v].kind /\ row.main = works[v].main
           /\ row.extra = works[v].extra
    BY <2>1 DEF Row
  <2>3. works'[v] = row \/ works'[v] = works[v]
    BY <1>1 DEF Works!DetachBooks
  <2>4. \A x \in Row : x # None
    BY WorksAssumption DEF Row
  <2> HIDE DEF row
  <2> QED
    BY <2>1, <2>2, <2>3, <2>4
<1>2. ASSUME NEW v \in Works!Ids, v = w \/ works[v] = None PROVE works'[v] = None
  BY <1>2 DEF Works!DetachBooks
<1>3. \A v \in Works!Ids : works'[v] \in Row \cup {None}
  BY <1>1, <1>2
<1>4. works' \in [Works!Ids -> Row \cup {None}]
  BY <1>3 DEF Works!DetachBooks
<1> QED
  BY <1>1, <1>2, <1>4

\* A step that inserts nothing: a row that is left was there, of the same kind,
\* and has an identifier of its own only if an update set it.
RowsKept ==
  /\ works' \in [Works!Ids -> Row \cup {None}]
  /\ UNCHANGED worksUsed /\ twice \subseteq twice'
  /\ \A w \in Works!Ids : works'[w] # None =>
       /\ works[w] # None
       /\ works'[w].kind = works[w].kind
       /\ works'[w].main = works[w].main \/ <<works'[w].kind, works'[w].main>> \in twice'

\* Request c inserts what it is about to insert.
RowAdded(c, kind, main) ==
  /\ Inserting(c, kind, main) /\ kind \in Works!Types /\ main \in Mains
  /\ \E serie \in Works!Ids \cup {None} : Works!InsertRow(kind, main, serie)
  /\ \E to \in WorkRequest : /\ to.pc \in {"added", "checkbook"}
                             /\ workCall' = [workCall EXCEPT ![c] = to]
  /\ UNCHANGED <<twice, ofWork, recorded, dropped>>
  /\ \A w \in Works!Ids : w # worksUsed + 1 => task'[w] = task[w]
  /\ workCall[c].pc # "record"
  /\ raced \subseteq raced'

\* Every step keeps the kinds and identifiers of the rows or inserts one.
LEMMA RowsKeptOrAdded ==
  ASSUME WorksTyped, InsertsKnown, Works!Next
  PROVE  RowsKept \/ \E c \in Callers, kind \in Works!Types, main \in Mains :
     RowAdded(c, kind, main)
<1> DEFINE Adds == \E c \in Callers, kind \in Works!Types, main \in Mains : RowAdded(c, kind, main)
<1>0. \A c \in Callers : workCall[c] \in WorkRequest /\ Knows(workCall[c])
  BY DEF WorksTyped, InsertsKnown
<1>r. \A w \in Works!Live : w \in Works!Ids /\ works[w] \in Row
  BY DEF WorksTyped, Works!Live
<1>u. ASSUME UNCHANGED <<works, worksUsed>>, twice \subseteq twice' PROVE RowsKept
  BY <1>u DEF WorksTyped, RowsKept
<1>e. ASSUME NEW w \in Works!Ids, NEW e \in Looks, Works!SetColumn(w, "extra", e),
             UNCHANGED <<worksUsed, twice>>
      PROVE RowsKept
  BY <1>e, SetExtra DEF RowsKept
<1>m. ASSUME NEW w \in Works!Ids, NEW i \in Mains, Works!SetColumn(w, "main", i),
             UNCHANGED worksUsed,
             w \in Works!Live, twice' = twice \cup {<<works[w].kind, i>>}
      PROVE RowsKept
  BY <1>m, SetMain DEF RowsKept
<1>1. ASSUME NEW c \in Callers, Works!AddMovie(c) PROVE RowsKept
  BY <1>1, <1>u DEF Works!AddMovie, Works!Checked, Works!Import
<1>2. ASSUME NEW c \in Callers, Works!AddSerie(c) PROVE RowsKept
  BY <1>2, <1>u DEF Works!AddSerie, Works!Checked, Works!Import
<1>3. ASSUME NEW c \in Callers, Works!ImportMovie(c) PROVE RowsKept
  BY <1>3, <1>u DEF Works!ImportMovie, Works!Checked, Works!Import
<1>4. ASSUME NEW c \in Callers, Works!ImportSerie(c) PROVE RowsKept
  BY <1>4, <1>u DEF Works!ImportSerie, Works!Checked, Works!Import
<1>5. ASSUME NEW c \in Callers, Works!AddBook(c) PROVE RowsKept
  BY <1>5, <1>u DEF Works!AddBook, Works!Checked, Works!Import
<1>6. ASSUME NEW c \in Callers, Works!ResolveSerie(c) PROVE RowsKept
  BY <1>6, <1>u DEF Works!ResolveSerie, Works!Checked, Works!Import
<1>7. ASSUME NEW c \in Callers, Works!CheckBook(c) PROVE RowsKept
  BY <1>7, <1>u DEF Works!CheckBook, Works!Checked, Works!Import
<1>8. ASSUME NEW c \in Callers, Works!Added(c) PROVE RowsKept
  BY <1>8, <1>u DEF Works!Added, Works!Checked, Works!Import
<1>9. ASSUME NEW c \in Callers, Works!UpdateBook(c) PROVE RowsKept
  BY <1>9, <1>u DEF Works!UpdateBook, Works!Checked, Works!Import
<1>10. ASSUME NEW c \in Callers, Works!StartRefresh(c) PROVE RowsKept
  BY <1>10, <1>u DEF Works!StartRefresh, Works!Checked, Works!Import
<1>11. ASSUME NEW c \in Callers, Works!StartRemove(c) PROVE RowsKept
  BY <1>11, <1>u DEF Works!StartRemove, Works!Checked, Works!Import
<1>12. ASSUME NEW c \in Callers, Works!RemoveSerieMedia(c) PROVE RowsKept
  BY <1>12, <1>u DEF Works!RemoveSerieMedia, Works!Checked, Works!Import
<1>13. ASSUME NEW c \in Callers, Works!Record(c) PROVE RowsKept
  BY <1>13, <1>u DEF Works!Record, Works!Checked, Works!Import
<1>14. ASSUME NEW c \in Callers, Works!Return(c) PROVE RowsKept
  BY <1>14, <1>u DEF Works!Return, Works!Checked, Works!Import
<1>15. ASSUME NEW c \in Callers, Works!InsertMovie(c) PROVE Adds
  <2>1. workCall[c].pc = "insert" /\ workCall[c].kind = "movie" /\ workCall[c].main \in Mains
           /\ workCall[c].serie \in Works!Ids \cup {None}
    BY <1>15, <1>0 DEF Works!InsertMovie, Works!At, Knows, WorkRequest
  <2>2. Works!InsertRow("movie", workCall[c].main, None)
    BY <1>15 DEF Works!InsertMovie, Works!InsertMovieRow
  <2> DEFINE to == [workCall[c] EXCEPT !.pc = "added", !.id = worksUsed + 1]
  <2>3. workCall' = [workCall EXCEPT ![c] = to]
    BY <1>15 DEF Works!InsertMovie, Works!Becomes
  <2>4. worksUsed + 1 \in Works!Ids
    BY <2>1, <2>2, RowInserted DEF Works!Types
  <2>5. to \in WorkRequest /\ to.pc = "added"
    BY <1>0, <2>4 DEF WorkRequest, WorkStages
  <2>6. UNCHANGED <<twice, ofWork, recorded, dropped, task>> /\ raced \subseteq raced'
    BY <1>15 DEF Works!InsertMovie
  <2> HIDE DEF to
  <2>7. RowAdded(c, "movie", workCall[c].main)
    BY <2>1, <2>2, <2>3, <2>5, <2>6 DEF RowAdded, Inserting, Works!Types
  <2> QED
    BY <2>1, <2>7 DEF Works!Types
<1>16. ASSUME NEW c \in Callers, Works!InsertSerie(c) PROVE Adds
  <2>1. workCall[c].pc = "insert" /\ workCall[c].kind = "serie" /\ workCall[c].main \in Mains
           /\ workCall[c].serie \in Works!Ids \cup {None}
    BY <1>16, <1>0 DEF Works!InsertSerie, Works!At, Knows, WorkRequest
  <2>2. Works!InsertRow("serie", workCall[c].main, None)
    BY <1>16 DEF Works!InsertSerie, Works!InsertSerieRow
  <2> DEFINE to == [workCall[c] EXCEPT !.pc = "added", !.id = worksUsed + 1]
  <2>3. workCall' = [workCall EXCEPT ![c] = to]
    BY <1>16 DEF Works!InsertSerie, Works!Becomes
  <2>4. worksUsed + 1 \in Works!Ids
    BY <2>1, <2>2, RowInserted DEF Works!Types
  <2>5. to \in WorkRequest /\ to.pc = "added"
    BY <1>0, <2>4 DEF WorkRequest, WorkStages
  <2>6. UNCHANGED <<twice, ofWork, recorded, dropped, task>> /\ raced \subseteq raced'
    BY <1>16 DEF Works!InsertSerie
  <2> HIDE DEF to
  <2>7. RowAdded(c, "serie", workCall[c].main)
    BY <2>1, <2>2, <2>3, <2>5, <2>6 DEF RowAdded, Inserting, Works!Types
  <2> QED
    BY <2>1, <2>7 DEF Works!Types
<1>17. ASSUME NEW c \in Callers, Works!InsertBook(c) PROVE Adds
  <2>1. workCall[c].pc = "insert" /\ workCall[c].kind = "book" /\ workCall[c].main \in Mains
           /\ workCall[c].serie \in Works!Ids \cup {None}
    BY <1>17, <1>0 DEF Works!InsertBook, Works!At, Knows, WorkRequest
  <2>2. Works!InsertRow("book", workCall[c].main, workCall[c].serie)
    BY <1>17 DEF Works!InsertBook, Works!InsertBookRow
  <2> DEFINE to == [workCall[c] EXCEPT !.pc = "added", !.id = worksUsed + 1]
  <2>3. workCall' = [workCall EXCEPT ![c] = to]
    BY <1>17 DEF Works!InsertBook, Works!Becomes
  <2>4. worksUsed + 1 \in Works!Ids
    BY <2>1, <2>2, RowInserted DEF Works!Types
  <2>5. to \in WorkRequest /\ to.pc = "added"
    BY <1>0, <2>4 DEF WorkRequest, WorkStages
  <2>6. UNCHANGED <<twice, ofWork, recorded, dropped, task>> /\ raced \subseteq raced'
    BY <1>17 DEF Works!InsertBook
  <2> HIDE DEF to
  <2>7. RowAdded(c, "book", workCall[c].main)
    BY <2>1, <2>2, <2>3, <2>5, <2>6 DEF RowAdded, Inserting, Works!Types
  <2> QED
    BY <2>1, <2>7 DEF Works!Types
<1>18. ASSUME NEW c \in Callers, Works!UpsertSerie(c) PROVE RowsKept \/ Adds
  <2>1. CASE workCall[c].pc = "upsert"
    BY <1>18, <2>1, <1>u DEF Works!UpsertSerie, Works!At
  <2>2. CASE workCall[c].pc = "insertserie"
    <3>1. workCall[c].with \in Mains
      BY <1>0, <2>2 DEF Knows
    <3>2. Works!InsertRow("serie", workCall[c].with, None)
      BY <1>18, <2>2 DEF Works!UpsertSerie, Works!InsertSerieRow, Works!At
    <3> DEFINE to == [workCall[c] EXCEPT !.pc = "checkbook", !.serie = worksUsed + 1]
    <3>3. workCall' = [workCall EXCEPT ![c] = to]
      BY <1>18, <2>2 DEF Works!UpsertSerie, Works!Becomes, Works!At
    <3>4. worksUsed + 1 \in Works!Ids
      BY <3>1, <3>2, RowInserted DEF Works!Types
    <3>5. to \in WorkRequest /\ to.pc = "checkbook"
      BY <1>0, <3>4 DEF WorkRequest, WorkStages
    <3>6. UNCHANGED <<twice, ofWork, recorded, dropped, raced>>
             /\ task' = [task EXCEPT ![worksUsed + 1] = [Works!Spent EXCEPT !.pc = "refresh"]]
      BY <1>18, <2>2 DEF Works!UpsertSerie, Works!At
    <3> HIDE DEF to
    <3>7. \A w \in Works!Ids : w # worksUsed + 1 => task'[w] = task[w]
      BY <3>6 DEF WorksTyped
    <3>8. RowAdded(c, "serie", workCall[c].with)
      BY <3>1, <3>2, <3>3, <3>5, <3>6, <3>7, <2>2 DEF RowAdded, Inserting, Works!Types
    <3> QED
      BY <3>1, <3>8 DEF Works!Types
  <2> QED
    BY <1>18, <2>1, <2>2 DEF Works!UpsertSerie, Works!At
<1>19. ASSUME NEW c \in Callers, Works!UpdateMovie(c) PROVE RowsKept
  <2>1. PICK w \in Works!Of("movie") :
       \/ \E e \in Looks : Works!SetColumn(w, "extra", e) /\ UNCHANGED twice
       \/ \E i \in Mains : Works!SetColumn(w, "main", i) /\ twice' = twice \cup {<<"movie", i>>}
    BY <1>19 DEF Works!UpdateMovie, Works!UpdateMovieRow
  <2>2. w \in Works!Live /\ w \in Works!Ids /\ works[w].kind = "movie" /\ UNCHANGED worksUsed
    BY <1>19 DEF Works!UpdateMovie, Works!Of, Works!Live
  <2> QED
    BY <2>1, <2>2, <1>e, <1>m
<1>20. ASSUME NEW c \in Callers, Works!UpdateSerie(c) PROVE RowsKept
  <2>1. PICK w \in Works!Of("serie") :
       \/ \E e \in Looks : Works!SetColumn(w, "extra", e) /\ UNCHANGED twice
       \/ \E i \in Mains : Works!SetColumn(w, "main", i) /\ twice' = twice \cup {<<"serie", i>>}
    BY <1>20 DEF Works!UpdateSerie, Works!UpdateSerieRow
  <2>2. w \in Works!Live /\ w \in Works!Ids /\ works[w].kind = "serie" /\ UNCHANGED worksUsed
    BY <1>20 DEF Works!UpdateSerie, Works!Of, Works!Live
  <2> QED
    BY <2>1, <2>2, <1>e, <1>m
<1>21. ASSUME NEW c \in Callers, Works!UpdateBookWrite(c) PROVE RowsKept
  <2>1. workCall[c].id \in Works!Ids /\ workCall[c].serie \in Works!Ids \cup {None}
    BY <1>21, <1>0 DEF Works!UpdateBookWrite, Works!At, Knows, WorkRequest
  <2>2. UNCHANGED <<worksUsed, twice>>
           /\ (Works!SetColumn(workCall[c].id, "chapter", TRUE)
                 \/ Works!SetColumn(workCall[c].id, "serie", workCall[c].serie))
    BY <1>21 DEF Works!UpdateBookWrite, Works!UpdateBookRow
  <2> QED
    BY <2>1, <2>2, SetChapter, SetSerie DEF RowsKept
<1>22. ASSUME NEW c \in Callers, Works!RefreshMovie(c) PROVE RowsKept
  <2>1. workCall[c].id \in Works!Ids /\ UNCHANGED <<worksUsed, twice>>
    BY <1>22, <1>0 DEF Works!RefreshMovie, Works!Refreshed, Works!At, Knows
  <2>2. UNCHANGED works \/ \E e \in Looks : Works!SetColumn(workCall[c].id, "extra", e)
    BY <1>22 DEF Works!RefreshMovie, Works!UpdateMovieRow
  <2> QED
    BY <2>1, <2>2, <1>u, <1>e
<1>23. ASSUME NEW c \in Callers, Works!RefreshSerie(c) PROVE RowsKept
  <2>1. workCall[c].id \in Works!Ids /\ UNCHANGED <<worksUsed, twice>>
    BY <1>23, <1>0 DEF Works!RefreshSerie, Works!Refreshed, Works!At, Knows
  <2>2. UNCHANGED works \/ \E e \in Looks : Works!SetColumn(workCall[c].id, "extra", e)
    BY <1>23 DEF Works!RefreshSerie, Works!UpdateSerieRow
  <2> QED
    BY <2>1, <2>2, <1>u, <1>e
<1>24. ASSUME NEW c \in Callers, Works!RemoveMovie(c) PROVE RowsKept
  <2>1. works' = [works EXCEPT ![workCall[c].id] = None] /\ UNCHANGED <<worksUsed, twice>>
    BY <1>24 DEF Works!RemoveMovie, Works!RemoveOwner, Works!DeleteOwner
  <2> QED
    BY <2>1 DEF RowsKept, WorksTyped
<1>25. ASSUME NEW c \in Callers, Works!RemoveBook(c) PROVE RowsKept
  <2>1. works' = [works EXCEPT ![workCall[c].id] = None] /\ UNCHANGED <<worksUsed, twice>>
    BY <1>25 DEF Works!RemoveBook, Works!RemoveOwner, Works!DeleteOwner
  <2> QED
    BY <2>1 DEF RowsKept, WorksTyped
<1>26. ASSUME NEW c \in Callers, Works!RemoveSerie(c) PROVE RowsKept
  <2>1. works' = Works!DetachBooks(workCall[c].id) /\ UNCHANGED <<worksUsed, twice>>
    BY <1>26 DEF Works!RemoveSerie, Works!DeleteSerie
  <2>2. workCall[c].id \in Works!Ids
    BY <1>26, <1>0 DEF Works!RemoveSerie, Works!At, Knows
  <2> QED
    BY <2>1, <2>2, BooksDetached DEF RowsKept
<1>27. ASSUME NEW w \in Works!Ids, Works!RefreshNewSerie(w) PROVE RowsKept
  BY <1>27, <1>u, <1>e DEF Works!RefreshNewSerie, Works!UpdateSerieRow
<1>28. ASSUME NEW w \in Works!Ids, Works!EnrichRead(w) PROVE RowsKept
  BY <1>28, <1>u DEF Works!EnrichRead
<1>29. ASSUME NEW w \in Works!Ids, Works!EnrichMovieIds(w) \/ Works!EnrichSerieIds(w)
              \/ Works!EnrichBookIds(w) PROVE RowsKept
  <2>1. UNCHANGED <<worksUsed, twice>>
    BY <1>29 DEF Works!EnrichMovieIds, Works!EnrichSerieIds, Works!EnrichBookIds, Works!Enrich
  <2>2. UNCHANGED works \/ \E e \in Looks : Works!SetColumn(w, "extra", e)
    BY <1>29 DEF Works!EnrichMovieIds, Works!EnrichSerieIds, Works!EnrichBookIds,
       Works!UpdateMovieRow, Works!UpdateSerieRow, Works!UpdateBookRow
  <2> QED
    BY <2>1, <2>2, <1>u, <1>e
<1>30. ASSUME NEW x \in Medias, Works!AttachMedia(x) PROVE RowsKept
  BY <1>30, <1>u DEF Works!AttachMedia
<1> QED
  BY <1>1, <1>2, <1>3, <1>4, <1>5, <1>6, <1>7, <1>8, <1>9, <1>10, <1>11, <1>12, <1>13, <1>14, <1>15,
     <1>16, <1>17, <1>18, <1>19, <1>20, <1>21, <1>22, <1>23, <1>24, <1>25, <1>26, <1>27, <1>28,
        <1>29, <1>30 DEF Works!Next

\* A step that starts no insertion keeps what the checks established.
LEMMA CheckKept ==
  ASSUME WorksTyped, CheckHolds, UniqueIdentifiers, RowsKept,
         \A c \in Callers : workCall'[c] = workCall[c]
            \/ workCall'[c].pc \notin {"insert", "insertserie"}
  PROVE  CheckHolds' /\ UniqueIdentifiers'
<1>1. \A c \in Callers : \A kind, main : Inserting(c, kind, main)' => Inserting(c, kind, main)
  BY DEF Inserting
<1>2. ASSUME NEW c \in Callers, NEW kind \in Works!Types, NEW main \in Mains,
             Inserting(c, kind, main)', <<kind, main>> \notin twice'
      PROVE  /\ \A w \in Works!Live' : ~(works'[w].kind = kind /\ works'[w].main = main)
             /\ \A d \in Callers : Inserting(d, kind, main)' => d = c
  <2>1. Inserting(c, kind, main) /\ <<kind, main>> \notin twice
    BY <1>1, <1>2 DEF RowsKept
  <2>2. /\ \A w \in Works!Live : ~(works[w].kind = kind /\ works[w].main = main)
        /\ \A d \in Callers : Inserting(d, kind, main) => d = c
    BY <2>1 DEF CheckHolds
  <2>3. ASSUME NEW w \in Works!Ids, works'[w] # None
        PROVE ~(works'[w].kind = kind /\ works'[w].main = main)
    BY <1>2, <2>2, <2>3 DEF RowsKept, Works!Live
  <2> QED
    BY <1>1, <2>2, <2>3 DEF Works!Live
<1>3. CheckHolds'
  BY <1>2 DEF CheckHolds
<1>4. ASSUME NEW v \in Works!Ids, NEW w \in Works!Ids, works'[v] # None, works'[w] # None, v # w,
             works'[v].kind = works'[w].kind, works'[v].main = works'[w].main
      PROVE  <<works'[v].kind, works'[v].main>> \in twice'
  BY <1>4 DEF RowsKept, UniqueIdentifiers, Works!UniqueIdentifiers, Works!Live
<1>5. UniqueIdentifiers'
  BY <1>4 DEF UniqueIdentifiers, Works!UniqueIdentifiers, Works!Live
<1> QED
  BY <1>3, <1>5

\* An insertion answers to the check of the request, or two were past it.
LEMMA CheckAdded ==
  ASSUME WorksTyped, CheckHolds, UniqueIdentifiers, NEW x \in Callers, NEW kind, NEW main,
         RowAdded(x, kind, main)
  PROVE  CheckHolds' /\ UniqueIdentifiers'
<1> DEFINE new == worksUsed + 1
<1>0. kind \in Works!Types /\ main \in Mains /\ Inserting(x, kind, main) /\ twice' = twice
  BY DEF RowAdded
<1>1. PICK serie \in Works!Ids \cup {None} : Works!InsertRow(kind, main, serie)
  BY DEF RowAdded
<1>2. /\ new \in Works!Ids /\ works[new] = None
      /\ works'[new].kind = kind /\ works'[new].main = main
      /\ \A w \in Works!Ids : w # new => works'[w] = works[w]
  BY <1>0, <1>1, RowInserted
<1> HIDE DEF new
<1>3. ASSUME NEW c \in Callers, NEW k, NEW i, Inserting(c, k, i)' PROVE c # x /\ Inserting(c, k, i)
  BY <1>3 DEF RowAdded, Inserting, WorksTyped
<1>4. \A w \in Works!Live : works[w].kind = kind /\ works[w].main = main => <<kind, main>> \in twice
  BY <1>0 DEF CheckHolds
<1>5. ASSUME NEW c \in Callers, NEW k \in Works!Types, NEW i \in Mains, Inserting(c, k, i)',
             <<k, i>> \notin twice'
      PROVE  /\ \A w \in Works!Ids : works'[w] # None => ~(works'[w].kind = k /\ works'[w].main = i)
             /\ \A d \in Callers : Inserting(d, k, i)' => d = c
  <2>1. Inserting(c, k, i) /\ c # x
    BY <1>3, <1>5
  <2>2. /\ \A w \in Works!Live : ~(works[w].kind = k /\ works[w].main = i)
        /\ \A d \in Callers : Inserting(d, k, i) => d = c
    BY <1>0, <1>5, <2>1 DEF CheckHolds
  <2>3. ~(kind = k /\ main = i)
    BY <1>0, <2>1, <2>2
  <2> QED
    BY <1>2, <1>3, <2>2, <2>3 DEF Works!Live
<1>6. CheckHolds'
  BY <1>5 DEF CheckHolds, Works!Live
<1>7. ASSUME NEW v \in Works!Ids, NEW w \in Works!Ids, works'[v] # None, works'[w] # None, v # w,
             works'[v].kind = works'[w].kind, works'[v].main = works'[w].main
      PROVE  <<works'[v].kind, works'[v].main>> \in twice'
  <2>1. CASE v = new \/ w = new
    BY <1>0, <1>2, <1>4, <1>7, <2>1 DEF Works!Live
  <2>2. CASE v # new /\ w # new
    BY <1>0, <1>2, <1>7, <2>2 DEF UniqueIdentifiers, Works!UniqueIdentifiers, Works!Live
  <2> QED
    BY <2>1, <2>2
<1> QED
  BY <1>6, <1>7 DEF UniqueIdentifiers, Works!UniqueIdentifiers, Works!Live

\* The check of an add that finds nobody with the identifier.
LEMMA CheckPassed ==
  ASSUME WorksTyped, CheckHolds, UniqueIdentifiers, NEW x \in Callers,
         NEW kind \in Works!Types, NEW main \in Mains, NEW to,
         {w \in Works!Of(kind) : works[w].main = main} = {},
         \/ to.pc = "insert" /\ to.kind = kind /\ to.main = main
         \/ to.pc = "insertserie" /\ kind = "serie" /\ to.with = main,
         workCall' = [workCall EXCEPT ![x] = to], UNCHANGED works,
         twice' = IF Works!Overlaps(x, kind, main) THEN twice \cup {<<kind, main>>} ELSE twice
  PROVE  CheckHolds' /\ UniqueIdentifiers'
<1>1. UniqueIdentifiers'
  BY DEF UniqueIdentifiers, Works!UniqueIdentifiers, Works!Live
<1>2. \A w \in Works!Live : ~(works[w].kind = kind /\ works[w].main = main)
  BY DEF Works!Of
<1>3. \A d \in Callers : d # x /\ Inserting(d, kind, main) => <<kind, main>> \in twice'
  BY DEF Works!Overlaps, Works!At, Inserting
<1>4. \A d \in Callers : \A k, i : Inserting(d, k, i)' => IF d = x THEN k = kind /\ i = main
                                                      ELSE Inserting(d, k, i)
  BY DEF Inserting, WorksTyped, Works!Types
<1>5. ASSUME NEW c \in Callers, NEW k \in Works!Types, NEW i \in Mains, Inserting(c, k, i)',
             <<k, i>> \notin twice'
      PROVE  /\ \A w \in Works!Live : ~(works[w].kind = k /\ works[w].main = i)
             /\ \A d \in Callers : Inserting(d, k, i)' => d = c
  <2>1. <<k, i>> \notin twice
    BY <1>5
  <2>2. CASE k = kind /\ i = main
    BY <1>2, <1>3, <1>4, <1>5, <2>2
  <2>3. CASE ~(k = kind /\ i = main)
    BY <1>4, <1>5, <2>1, <2>3 DEF CheckHolds
  <2> QED
    BY <2>2, <2>3
<1> QED
  BY <1>1, <1>5 DEF CheckHolds, Works!Live

\* Every step keeps the identifiers apart.
LEMMA CheckStep ==
  ASSUME WorksTyped, InsertsKnown, CheckHolds, UniqueIdentifiers, Works!Next
  PROVE  CheckHolds' /\ UniqueIdentifiers'
<1> DEFINE Goal == CheckHolds' /\ UniqueIdentifiers'
<1> SUFFICES ASSUME RowsKept PROVE Goal
  BY RowsKeptOrAdded, CheckAdded
<1>0. \A c \in Callers : workCall[c] \in WorkRequest /\ Knows(workCall[c])
  BY DEF WorksTyped, InsertsKnown
<1>u. ASSUME UNCHANGED workCall PROVE Goal
  BY <1>u, CheckKept
<1>b. ASSUME NEW c \in Callers, NEW to, workCall' = [workCall EXCEPT ![c] = to],
             to.pc \notin {"insert", "insertserie"}
      PROVE  Goal
  BY <1>b, CheckKept DEF WorksTyped
<1>g. ASSUME NEW c \in Callers, NEW pc, workCall' = [workCall EXCEPT ![c].pc = pc],
             pc \notin {"insert", "insertserie"}
      PROVE  Goal
  BY <1>g, <1>0, CheckKept DEF WorksTyped, WorkRequest
<1>1. ASSUME NEW c \in Callers, Works!ImportMovie(c) PROVE Goal
  <2>1. \A d \in Callers : workCall'[d] = workCall[d]
           \/ workCall'[d].pc \notin {"insert", "insertserie"}
    BY <1>1, <1>0 DEF Works!ImportMovie, Works!Import, Works!Becomes, Works!Adding, Works!Idle,
       WorkRequest, WorksTyped
  <2> QED
    BY <2>1, CheckKept
<1>2. ASSUME NEW c \in Callers, Works!ImportSerie(c) PROVE Goal
  <2>1. \A d \in Callers : workCall'[d] = workCall[d]
           \/ workCall'[d].pc \notin {"insert", "insertserie"}
    BY <1>2, <1>0 DEF Works!ImportSerie, Works!Import, Works!Becomes, Works!Adding, Works!Idle,
       WorkRequest, WorksTyped
  <2> QED
    BY <2>1, CheckKept
<1>3. ASSUME NEW c \in Callers, Works!AddBook(c) PROVE Goal
  <2>1. \A d \in Callers : workCall'[d] = workCall[d]
           \/ workCall'[d].pc \notin {"insert", "insertserie"}
    BY <1>3, <1>0 DEF Works!AddBook, Works!Import, Works!Becomes, Works!Adding, Works!Idle,
       WorkRequest, WorksTyped
  <2> QED
    BY <2>1, CheckKept
<1>4. ASSUME NEW c \in Callers, Works!UpdateBook(c) PROVE Goal
  <2> DEFINE Stay == \A d \in Callers : workCall'[d] = workCall[d]
         \/ workCall'[d].pc \notin {"insert", "insertserie"}
  <2>1. PICK w \in Works!Of("book") :
     \/ Works!Becomes(c, [Works!Idle EXCEPT !.pc = IF works[w].serie = None THEN "failed" ELSE "chapter",
                                !.id = w, !.serie = works[w].serie])
     \/ \E t \in Works!Of("serie") :
           Works!Becomes(c, [Works!Idle EXCEPT !.pc = "serie", !.id = w, !.serie = t])
    BY <1>4 DEF Works!UpdateBook
  <2>2. CASE Works!Becomes(c,
           [Works!Idle EXCEPT !.pc = IF works[w].serie = None THEN "failed" ELSE "chapter",
                                !.id = w, !.serie = works[w].serie])
    <3>1. Stay
      BY <2>2 DEF Works!Becomes, Works!Idle, WorksTyped
    <3> QED
      BY <3>1, CheckKept
  <2>3. ASSUME NEW t, Works!Becomes(c, [Works!Idle EXCEPT !.pc = "serie", !.id = w, !.serie = t])
        PROVE Goal
    <3>1. Stay
      BY <2>3 DEF Works!Becomes, Works!Idle, WorksTyped
    <3> QED
      BY <3>1, CheckKept
  <2> QED
    BY <2>1, <2>2, <2>3
<1>5. ASSUME NEW c \in Callers, Works!StartRefresh(c) PROVE Goal
  <2>1. \A d \in Callers : workCall'[d] = workCall[d]
           \/ workCall'[d].pc \notin {"insert", "insertserie"}
    BY <1>5, <1>0 DEF Works!StartRefresh, Works!Import, Works!Becomes, Works!Adding, Works!Idle,
       WorkRequest, WorksTyped
  <2> QED
    BY <2>1, CheckKept
<1>6. ASSUME NEW c \in Callers, Works!StartRemove(c) PROVE Goal
  <2>1. \A d \in Callers : workCall'[d] = workCall[d]
           \/ workCall'[d].pc \notin {"insert", "insertserie"}
    BY <1>6, <1>0 DEF Works!StartRemove, Works!Import, Works!Becomes, Works!Adding, Works!Idle,
       WorkRequest, WorksTyped
  <2> QED
    BY <2>1, CheckKept
<1>7. ASSUME NEW c \in Callers, Works!Return(c) PROVE Goal
  <2>1. \A d \in Callers : workCall'[d] = workCall[d]
           \/ workCall'[d].pc \notin {"insert", "insertserie"}
    BY <1>7, <1>0 DEF Works!Return, Works!Import, Works!Becomes, Works!Adding, Works!Idle,
       WorkRequest, WorksTyped
  <2> QED
    BY <2>1, CheckKept
<1>8. ASSUME NEW c \in Callers, Works!InsertMovie(c) PROVE Goal
  <2>1. \A d \in Callers : workCall'[d] = workCall[d]
           \/ workCall'[d].pc \notin {"insert", "insertserie"}
    BY <1>8, <1>0 DEF Works!InsertMovie, Works!Import, Works!Becomes, Works!Adding, Works!Idle,
       WorkRequest, WorksTyped
  <2> QED
    BY <2>1, CheckKept
<1>9. ASSUME NEW c \in Callers, Works!InsertSerie(c) PROVE Goal
  <2>1. \A d \in Callers : workCall'[d] = workCall[d]
           \/ workCall'[d].pc \notin {"insert", "insertserie"}
    BY <1>9, <1>0 DEF Works!InsertSerie, Works!Import, Works!Becomes, Works!Adding, Works!Idle,
       WorkRequest, WorksTyped
  <2> QED
    BY <2>1, CheckKept
<1>10. ASSUME NEW c \in Callers, Works!InsertBook(c) PROVE Goal
  <2>1. \A d \in Callers : workCall'[d] = workCall[d]
           \/ workCall'[d].pc \notin {"insert", "insertserie"}
    BY <1>10, <1>0 DEF Works!InsertBook, Works!Import, Works!Becomes, Works!Adding, Works!Idle,
       WorkRequest, WorksTyped
  <2> QED
    BY <2>1, CheckKept
<1>11. ASSUME NEW c \in Callers, Works!Added(c) PROVE Goal
  <2>1. UNCHANGED workCall \/ \E pc \in {"failed", "done", "remove", "record"} :
           workCall' = [workCall EXCEPT ![c].pc = pc]
    BY <1>11 DEF Works!Added, Works!Goes, Works!RemoveOwner
  <2> QED
    BY <2>1, <1>g, <1>u
<1>12. ASSUME NEW c \in Callers, Works!UpdateBookWrite(c) PROVE Goal
  <2>1. UNCHANGED workCall \/ \E pc \in {"failed", "done", "remove", "record"} :
           workCall' = [workCall EXCEPT ![c].pc = pc]
    BY <1>12 DEF Works!UpdateBookWrite, Works!Goes, Works!RemoveOwner
  <2> QED
    BY <2>1, <1>g, <1>u
<1>13. ASSUME NEW c \in Callers, Works!RefreshMovie(c) PROVE Goal
  <2>1. UNCHANGED workCall \/ \E pc \in {"failed", "done", "remove", "record"} :
           workCall' = [workCall EXCEPT ![c].pc = pc]
    BY <1>13 DEF Works!RefreshMovie, Works!Goes, Works!RemoveOwner
  <2> QED
    BY <2>1, <1>g, <1>u
<1>14. ASSUME NEW c \in Callers, Works!RefreshSerie(c) PROVE Goal
  <2>1. UNCHANGED workCall \/ \E pc \in {"failed", "done", "remove", "record"} :
           workCall' = [workCall EXCEPT ![c].pc = pc]
    BY <1>14 DEF Works!RefreshSerie, Works!Goes, Works!RemoveOwner
  <2> QED
    BY <2>1, <1>g, <1>u
<1>15. ASSUME NEW c \in Callers, Works!RemoveSerieMedia(c) PROVE Goal
  <2>1. UNCHANGED workCall \/ \E pc \in {"failed", "done", "remove", "record"} :
           workCall' = [workCall EXCEPT ![c].pc = pc]
    BY <1>15 DEF Works!RemoveSerieMedia, Works!Goes, Works!RemoveOwner
  <2> QED
    BY <2>1, <1>g, <1>u
<1>16. ASSUME NEW c \in Callers, Works!RemoveMovie(c) PROVE Goal
  <2>1. UNCHANGED workCall \/ \E pc \in {"failed", "done", "remove", "record"} :
           workCall' = [workCall EXCEPT ![c].pc = pc]
    BY <1>16 DEF Works!RemoveMovie, Works!Goes, Works!RemoveOwner
  <2> QED
    BY <2>1, <1>g, <1>u
<1>17. ASSUME NEW c \in Callers, Works!RemoveBook(c) PROVE Goal
  <2>1. UNCHANGED workCall \/ \E pc \in {"failed", "done", "remove", "record"} :
           workCall' = [workCall EXCEPT ![c].pc = pc]
    BY <1>17 DEF Works!RemoveBook, Works!Goes, Works!RemoveOwner
  <2> QED
    BY <2>1, <1>g, <1>u
<1>18. ASSUME NEW c \in Callers, Works!RemoveSerie(c) PROVE Goal
  <2>1. UNCHANGED workCall \/ \E pc \in {"failed", "done", "remove", "record"} :
           workCall' = [workCall EXCEPT ![c].pc = pc]
    BY <1>18 DEF Works!RemoveSerie, Works!Goes, Works!RemoveOwner
  <2> QED
    BY <2>1, <1>g, <1>u
<1>19. ASSUME NEW c \in Callers, Works!Record(c) PROVE Goal
  <2>1. UNCHANGED workCall \/ \E pc \in {"failed", "done", "remove", "record"} :
           workCall' = [workCall EXCEPT ![c].pc = pc]
    BY <1>19 DEF Works!Record, Works!Goes, Works!RemoveOwner
  <2> QED
    BY <2>1, <1>g, <1>u
<1>20. ASSUME NEW c \in Callers, Works!UpdateMovie(c) PROVE Goal
  <2>1. UNCHANGED workCall \/ \E pc \in {"failed", "done", "remove", "record"} :
           workCall' = [workCall EXCEPT ![c].pc = pc]
    BY <1>20 DEF Works!UpdateMovie, Works!Goes, Works!RemoveOwner
  <2> QED
    BY <2>1, <1>g, <1>u
<1>21. ASSUME NEW c \in Callers, Works!UpdateSerie(c) PROVE Goal
  <2>1. UNCHANGED workCall \/ \E pc \in {"failed", "done", "remove", "record"} :
           workCall' = [workCall EXCEPT ![c].pc = pc]
    BY <1>21 DEF Works!UpdateSerie, Works!Goes, Works!RemoveOwner
  <2> QED
    BY <2>1, <1>g, <1>u
<1>22. ASSUME NEW c \in Callers, Works!AddMovie(c) PROVE Goal
  <2>1. ASSUME NEW to, to.pc = "insert", to.kind = "movie", to.main \in Mains,
               Works!Checked(c, Works!MovieByExternalId(to.main) # {}, to)
        PROVE  Goal
    <3>1. CASE Works!MovieByExternalId(to.main) = {}
      <4>1. /\ workCall' = [workCall EXCEPT ![c] = to] /\ UNCHANGED works
            /\ twice' = IF Works!Overlaps(c, "movie", to.main) THEN twice \cup {<<"movie",
                  to.main>>} ELSE twice
        BY <2>1, <3>1 DEF Works!Checked, Works!Becomes
      <4>2. {w \in Works!Of("movie") : works[w].main = to.main} = {}
        BY <3>1 DEF Works!MovieByExternalId
      <4> QED
        BY <2>1, <4>1, <4>2, CheckPassed DEF Works!Types
    <3>2. CASE Works!MovieByExternalId(to.main) # {}
      BY <2>1, <3>2, <1>g DEF Works!Checked, Works!Goes
    <3> QED
      BY <3>1, <3>2
  <2>2. PICK to : /\ to.pc = "insert" /\ to.kind = "movie" /\ to.main \in Mains
                  /\ Works!Checked(c, Works!MovieByExternalId(to.main) # {}, to)
    <3>1. CASE workCall[c].pc = "fetched"
      <4> DEFINE to == [workCall[c] EXCEPT !.pc = "insert"]
      <4>1. workCall[c].kind = "movie"
               /\ Works!Checked(c, Works!MovieByExternalId(workCall[c].main) # {}, to)
        BY <1>22, <3>1 DEF Works!AddMovie, Works!Starts, Works!At
      <4>2. to.pc = "insert" /\ to.kind = workCall[c].kind /\ to.main = workCall[c].main
               /\ workCall[c].main \in Mains
        BY <1>0, <3>1 DEF WorkRequest, Knows
      <4> QED
        BY <4>1, <4>2
    <3>2. CASE workCall[c].pc # "fetched"
      <4>1. PICK main \in Mains, admin \in BOOLEAN :
               Works!Checked(c, Works!MovieByExternalId(main) # {}, Works!Adding("movie", main,
                  admin))
        BY <1>22, <3>2 DEF Works!AddMovie, Works!At
      <4>2. Works!Adding("movie", main, admin).pc = "insert"
               /\ Works!Adding("movie", main, admin).kind = "movie"
                     /\ Works!Adding("movie", main, admin).main = main
        BY DEF Works!Adding, Works!Idle
      <4> QED
        BY <4>1, <4>2
    <3> QED
      BY <3>1, <3>2
  <2> QED
    BY <2>1, <2>2
<1>23. ASSUME NEW c \in Callers, Works!AddSerie(c) PROVE Goal
  <2>1. ASSUME NEW to, to.pc = "insert", to.kind = "serie", to.main \in Mains,
               Works!Checked(c, Works!SerieByExternalId(to.main) # {}, to)
        PROVE  Goal
    <3>1. CASE Works!SerieByExternalId(to.main) = {}
      <4>1. /\ workCall' = [workCall EXCEPT ![c] = to] /\ UNCHANGED works
            /\ twice' = IF Works!Overlaps(c, "serie", to.main) THEN twice \cup {<<"serie",
                  to.main>>} ELSE twice
        BY <2>1, <3>1 DEF Works!Checked, Works!Becomes
      <4>2. {w \in Works!Of("serie") : works[w].main = to.main} = {}
        BY <3>1 DEF Works!SerieByExternalId
      <4> QED
        BY <2>1, <4>1, <4>2, CheckPassed DEF Works!Types
    <3>2. CASE Works!SerieByExternalId(to.main) # {}
      BY <2>1, <3>2, <1>g DEF Works!Checked, Works!Goes
    <3> QED
      BY <3>1, <3>2
  <2>2. PICK to : /\ to.pc = "insert" /\ to.kind = "serie" /\ to.main \in Mains
                  /\ Works!Checked(c, Works!SerieByExternalId(to.main) # {}, to)
    <3>1. CASE workCall[c].pc = "fetched"
      <4> DEFINE to == [workCall[c] EXCEPT !.pc = "insert"]
      <4>1. workCall[c].kind = "serie"
               /\ Works!Checked(c, Works!SerieByExternalId(workCall[c].main) # {}, to)
        BY <1>23, <3>1 DEF Works!AddSerie, Works!Starts, Works!At
      <4>2. to.pc = "insert" /\ to.kind = workCall[c].kind /\ to.main = workCall[c].main
               /\ workCall[c].main \in Mains
        BY <1>0, <3>1 DEF WorkRequest, Knows
      <4> QED
        BY <4>1, <4>2
    <3>2. CASE workCall[c].pc # "fetched"
      <4>1. PICK main \in Mains, admin \in BOOLEAN :
               Works!Checked(c, Works!SerieByExternalId(main) # {}, Works!Adding("serie", main,
                  admin))
        BY <1>23, <3>2 DEF Works!AddSerie, Works!At
      <4>2. Works!Adding("serie", main, admin).pc = "insert"
               /\ Works!Adding("serie", main, admin).kind = "serie"
                     /\ Works!Adding("serie", main, admin).main = main
        BY DEF Works!Adding, Works!Idle
      <4> QED
        BY <4>1, <4>2
    <3> QED
      BY <3>1, <3>2
  <2> QED
    BY <2>1, <2>2
<1>24. ASSUME NEW c \in Callers, Works!CheckBook(c) PROVE Goal
  <2>1. CASE workCall' = [workCall EXCEPT ![c].pc = "failed"]
    <3>1. \A d \in Callers : workCall'[d] = workCall[d]
             \/ workCall'[d].pc \notin {"insert", "insertserie"}
      BY <2>1, <1>0 DEF WorksTyped, WorkRequest
    <3> QED
      BY <3>1, CheckKept
  <2>2. CASE workCall' # [workCall EXCEPT ![c].pc = "failed"]
    <3> DEFINE to == [workCall[c] EXCEPT !.pc = "insert"]
    <3>1. /\ workCall[c].pc = "checkbook" /\ Works!BookByExternalId(workCall[c].main) = {}
          /\ workCall' = [workCall EXCEPT ![c] = to] /\ UNCHANGED works
          /\ twice' = IF Works!Overlaps(c, to.kind, to.main) THEN twice \cup {<<to.kind,
                to.main>>} ELSE twice
      BY <1>24, <2>2 DEF Works!CheckBook, Works!Checked, Works!Goes, Works!Becomes, Works!At
    <3>2. /\ to.pc = "insert" /\ to.kind = "book" /\ to.main = workCall[c].main
                /\ workCall[c].main \in Mains
      BY <1>0, <3>1 DEF WorkRequest, Knows
    <3>3. {w \in Works!Of("book") : works[w].main = workCall[c].main} = {}
      BY <3>1 DEF Works!BookByExternalId
    <3> HIDE DEF to
    <3> QED
      BY <3>1, <3>2, <3>3, CheckPassed DEF Works!Types
  <2> QED
    BY <2>1, <2>2
<1>25. ASSUME NEW c \in Callers, Works!ResolveSerie(c) PROVE Goal
  <2>1. CASE \E pc \in {"checkbook", "upsert"} : workCall' = [workCall EXCEPT ![c].pc = pc]
    BY <2>1, <1>g
  <2>2. CASE \E t : workCall' = [workCall EXCEPT ![c] = [workCall[c] EXCEPT !.pc = "checkbook",
           !.serie = t]]
    <3>1. PICK t : workCall' = [workCall EXCEPT ![c] = [workCall[c] EXCEPT !.pc = "checkbook",
             !.serie = t]]
      BY <2>2
    <3>2. [workCall[c] EXCEPT !.pc = "checkbook", !.serie = t].pc = "checkbook"
      BY <1>0 DEF WorkRequest
    <3> QED
      BY <3>1, <3>2, <1>b
  <2> QED
    BY <1>25, <2>1, <2>2 DEF Works!ResolveSerie, Works!Goes, Works!Becomes
<1>26. ASSUME NEW c \in Callers, Works!UpsertSerie(c) PROVE Goal
  <2>1. CASE workCall[c].pc = "insertserie"
    <3> DEFINE to == [workCall[c] EXCEPT !.pc = "checkbook", !.serie = worksUsed + 1]
    <3>1. workCall' = [workCall EXCEPT ![c] = to]
      BY <1>26, <2>1 DEF Works!UpsertSerie, Works!Becomes, Works!At
    <3>2. to.pc = "checkbook"
      BY <1>0 DEF WorkRequest
    <3> HIDE DEF to
    <3> QED
      BY <3>1, <3>2, <1>b
  <2>2. CASE workCall' = [workCall EXCEPT ![c].pc = "failed"]
    <3>1. \A d \in Callers : workCall'[d] = workCall[d]
             \/ workCall'[d].pc \notin {"insert", "insertserie"}
      BY <2>2, <1>0 DEF WorksTyped, WorkRequest
    <3> QED
      BY <3>1, CheckKept
  <2>3. CASE workCall[c].pc # "insertserie" /\ workCall' # [workCall EXCEPT ![c].pc = "failed"]
    <3> DEFINE to == [workCall[c] EXCEPT !.pc = "insertserie"]
    <3>1. /\ workCall[c].pc = "upsert" /\ Works!SerieByExternalId(workCall[c].with) = {}
          /\ workCall' = [workCall EXCEPT ![c] = to] /\ UNCHANGED works
          /\ twice' = IF Works!Overlaps(c, "serie", workCall[c].with) THEN twice \cup {<<"serie",
                workCall[c].with>>} ELSE twice
      BY <1>26, <2>3 DEF Works!UpsertSerie, Works!Goes, Works!At
    <3>2. /\ to.pc = "insertserie" /\ to.with = workCall[c].with /\ workCall[c].with \in Mains
      BY <1>0, <3>1 DEF WorkRequest, Knows
    <3>3. {w \in Works!Of("serie") : works[w].main = workCall[c].with} = {}
      BY <3>1 DEF Works!SerieByExternalId
    <3> HIDE DEF to
    <3> QED
      BY <3>1, <3>2, <3>3, CheckPassed DEF Works!Types
  <2> QED
    BY <2>1, <2>2, <2>3
<1>27. ASSUME NEW w \in Works!Ids, Works!RefreshNewSerie(w) \/ Works!EnrichRead(w)
              \/ Works!EnrichMovieIds(w) \/ Works!EnrichSerieIds(w) \/ Works!EnrichBookIds(w)
                 PROVE Goal
  BY <1>27, <1>u DEF Works!RefreshNewSerie, Works!EnrichRead, Works!EnrichMovieIds,
     Works!EnrichSerieIds, Works!EnrichBookIds, Works!Enrich
<1>28. ASSUME NEW x \in Medias, Works!AttachMedia(x) PROVE Goal
  BY <1>28, <1>u DEF Works!AttachMedia
<1> QED
  BY <1>1, <1>2, <1>3, <1>4, <1>5, <1>6, <1>7, <1>8, <1>9, <1>10, <1>11, <1>12, <1>13, <1>14, <1>15,
     <1>16, <1>17, <1>18, <1>19, <1>20, <1>21, <1>22, <1>23, <1>24, <1>25, <1>26, <1>27,
        <1>28 DEF Works!Next

-----------------------------------------------------------------------------
(* The tasks of the new works.                                             *)

\* Who will write an identifier saw that the work had none, and it has none yet.
LEMMA UnreadKept ==
  ASSUME Unread, raced \subseteq raced',
         \A w \in Works!Ids : task'[w].pc = "read" =>
           /\ task'[w] = task[w]
           /\ works'[w] # None =>
                \/ w \in raced' \/ works'[w].extra = None
                \/ works[w] # None /\ works'[w].extra = works[w].extra
  PROVE  Unread'
BY DEF Unread, Works!Live

\* Every step keeps what a task that will write has seen.
LEMMA UnreadStep ==
  ASSUME WorksTyped, InsertsKnown, Unread, Works!Next
  PROVE  Unread'
<1>0. \A c \in Callers : workCall[c] \in WorkRequest /\ Knows(workCall[c])
  BY DEF WorksTyped, InsertsKnown
<1>u. ASSUME UNCHANGED <<works, task>>, raced \subseteq raced' PROVE Unread'
  BY <1>u DEF Unread, Works!Live
<1>d. ASSUME raced \subseteq raced', UNCHANGED task,
             \A w \in Works!Ids : works'[w] # None =>
                works[w] # None /\ works'[w].extra = works[w].extra
      PROVE  Unread'
  BY <1>d, UnreadKept
<1>1. ASSUME NEW c \in Callers, Works!AddMovie(c) PROVE Unread'
  BY <1>1, <1>u DEF Works!AddMovie, Works!Checked, Works!Import
<1>2. ASSUME NEW c \in Callers, Works!AddSerie(c) PROVE Unread'
  BY <1>2, <1>u DEF Works!AddSerie, Works!Checked, Works!Import
<1>3. ASSUME NEW c \in Callers, Works!ImportMovie(c) PROVE Unread'
  BY <1>3, <1>u DEF Works!ImportMovie, Works!Checked, Works!Import
<1>4. ASSUME NEW c \in Callers, Works!ImportSerie(c) PROVE Unread'
  BY <1>4, <1>u DEF Works!ImportSerie, Works!Checked, Works!Import
<1>5. ASSUME NEW c \in Callers, Works!AddBook(c) PROVE Unread'
  BY <1>5, <1>u DEF Works!AddBook, Works!Checked, Works!Import
<1>6. ASSUME NEW c \in Callers, Works!ResolveSerie(c) PROVE Unread'
  BY <1>6, <1>u DEF Works!ResolveSerie, Works!Checked, Works!Import
<1>7. ASSUME NEW c \in Callers, Works!CheckBook(c) PROVE Unread'
  BY <1>7, <1>u DEF Works!CheckBook, Works!Checked, Works!Import
<1>8. ASSUME NEW c \in Callers, Works!UpdateBook(c) PROVE Unread'
  BY <1>8, <1>u DEF Works!UpdateBook, Works!Checked, Works!Import
<1>9. ASSUME NEW c \in Callers, Works!StartRefresh(c) PROVE Unread'
  BY <1>9, <1>u DEF Works!StartRefresh, Works!Checked, Works!Import
<1>10. ASSUME NEW c \in Callers, Works!StartRemove(c) PROVE Unread'
  BY <1>10, <1>u DEF Works!StartRemove, Works!Checked, Works!Import
<1>11. ASSUME NEW c \in Callers, Works!RemoveSerieMedia(c) PROVE Unread'
  BY <1>11, <1>u DEF Works!RemoveSerieMedia, Works!Checked, Works!Import
<1>12. ASSUME NEW c \in Callers, Works!Record(c) PROVE Unread'
  BY <1>12, <1>u DEF Works!Record, Works!Checked, Works!Import
<1>13. ASSUME NEW c \in Callers, Works!Return(c) PROVE Unread'
  BY <1>13, <1>u DEF Works!Return, Works!Checked, Works!Import
<1>i. ASSUME NEW kind \in Works!Types, NEW main \in Mains, NEW serie \in Works!Ids \cup {None},
             Works!InsertRow(kind, main, serie), UNCHANGED task, raced \subseteq raced'
      PROVE  Unread'
  <2>1. /\ worksUsed + 1 \in Works!Ids /\ works'[worksUsed + 1].extra = None
        /\ \A w \in Works!Ids : w # worksUsed + 1 => works'[w] = works[w]
    BY <1>i, RowInserted
  <2> QED
    BY <1>i, <2>1, UnreadKept
<1>14. ASSUME NEW c \in Callers, Works!InsertMovie(c) PROVE Unread'
  <2>1. workCall[c].main \in Mains /\ workCall[c].serie \in Works!Ids \cup {None}
    BY <1>14, <1>0 DEF Works!InsertMovie, Works!At, Knows, WorkRequest
  <2>2. Works!InsertRow("movie", workCall[c].main, None) /\ UNCHANGED task /\ raced \subseteq raced'
    BY <1>14 DEF Works!InsertMovie, Works!InsertMovieRow
  <2> QED
    BY <2>1, <2>2, <1>i DEF Works!Types
<1>15. ASSUME NEW c \in Callers, Works!InsertSerie(c) PROVE Unread'
  <2>1. workCall[c].main \in Mains /\ workCall[c].serie \in Works!Ids \cup {None}
    BY <1>15, <1>0 DEF Works!InsertSerie, Works!At, Knows, WorkRequest
  <2>2. Works!InsertRow("serie", workCall[c].main, None) /\ UNCHANGED task /\ raced \subseteq raced'
    BY <1>15 DEF Works!InsertSerie, Works!InsertSerieRow
  <2> QED
    BY <2>1, <2>2, <1>i DEF Works!Types
<1>16. ASSUME NEW c \in Callers, Works!InsertBook(c) PROVE Unread'
  <2>1. workCall[c].main \in Mains /\ workCall[c].serie \in Works!Ids \cup {None}
    BY <1>16, <1>0 DEF Works!InsertBook, Works!At, Knows, WorkRequest
  <2>2. Works!InsertRow("book", workCall[c].main, workCall[c].serie) /\ UNCHANGED task
           /\ raced \subseteq raced'
    BY <1>16 DEF Works!InsertBook, Works!InsertBookRow
  <2> QED
    BY <2>1, <2>2, <1>i DEF Works!Types
<1>17. ASSUME NEW c \in Callers, Works!UpsertSerie(c) PROVE Unread'
  <2>1. CASE workCall[c].pc = "upsert"
    BY <1>17, <2>1, <1>u DEF Works!UpsertSerie, Works!At
  <2>2. CASE workCall[c].pc = "insertserie"
    <3>1. workCall[c].with \in Mains
      BY <1>0, <2>2 DEF Knows
    <3>2. Works!InsertRow("serie", workCall[c].with, None) /\ UNCHANGED raced
      BY <1>17, <2>2 DEF Works!UpsertSerie, Works!InsertSerieRow, Works!At
    <3>3. /\ worksUsed + 1 \in Works!Ids /\ works'[worksUsed + 1].extra = None
          /\ \A w \in Works!Ids : w # worksUsed + 1 => works'[w] = works[w]
      BY <3>1, <3>2, RowInserted DEF Works!Types
    <3>4. task' = [task EXCEPT ![worksUsed + 1] = [Works!Spent EXCEPT !.pc = "refresh"]]
      BY <1>17, <2>2 DEF Works!UpsertSerie, Works!At
    <3>5. \A w \in Works!Ids : task'[w].pc = "read" => task'[w] = task[w]
      BY <3>4, <3>3 DEF WorksTyped, Works!Spent
    <3> QED
      BY <3>2, <3>3, <3>5, UnreadKept
  <2> QED
    BY <1>17, <2>1, <2>2 DEF Works!UpsertSerie, Works!At
<1>18. ASSUME NEW c \in Callers, Works!Added(c) PROVE Unread'
  <2>1. UNCHANGED <<works, raced>> /\ (UNCHANGED task \/ \E pc \in {"refresh", "queued"} :
          task' = [task EXCEPT ![workCall[c].id] = [Works!Spent EXCEPT !.admin = workCall[c].admin,
             !.pc = pc]])
    BY <1>18 DEF Works!Added
  <2>2. \A w \in Works!Ids : task'[w].pc = "read" => task'[w] = task[w]
    BY <2>1 DEF WorksTyped, Works!Spent
  <2> QED
    BY <2>1, <2>2, UnreadKept
<1>x. ASSUME NEW w \in Works!Ids, NEW e \in Looks, Works!SetColumn(w, "extra", e), UNCHANGED task,
             raced \subseteq raced', task[w].seen # None => w \in raced'
      PROVE  Unread'
  <2>1. \A v \in Works!Ids : v # w \/ works[v] = None => works'[v] = works[v]
    BY <1>x, SetExtra
  <2>2. \A v \in Works!Ids : task'[v].pc = "read" => task[v].seen # None
    BY <1>x DEF Unread
  <2>3. \A v \in Works!Ids : task'[v].pc = "read" =>
           /\ task'[v] = task[v]
           /\ works'[v] # None =>
                \/ v \in raced'
                \/ works[v] # None /\ works'[v].extra = works[v].extra
    BY <1>x, <2>1, <2>2
  <2> QED
    BY <1>x, <2>3, UnreadKept
<1>19. ASSUME NEW c \in Callers, Works!UpdateMovie(c) PROVE Unread'
  <2>1. PICK w \in Works!Of("movie") :
       /\ \/ \E e \in Looks : Works!SetColumn(w, "extra", e)
          \/ \E i \in Mains : Works!SetColumn(w, "main", i)
       /\ raced' = Works!Edited(w)
    BY <1>19 DEF Works!UpdateMovie, Works!UpdateMovieRow
  <2>2. w \in Works!Ids /\ UNCHANGED task /\ raced \subseteq raced'
           /\ (task[w].seen # None => w \in raced')
    BY <1>19, <2>1 DEF Works!UpdateMovie, Works!Of, Works!Live, Works!Edited, Works!InHand
  <2>3. ASSUME NEW i \in Mains, Works!SetColumn(w, "main", i) PROVE Unread'
    BY <2>2, <2>3, <1>d, SetMain
  <2> QED
    BY <2>1, <2>2, <2>3, <1>x
<1>20. ASSUME NEW c \in Callers, Works!UpdateSerie(c) PROVE Unread'
  <2>1. PICK w \in Works!Of("serie") :
       /\ \/ \E e \in Looks : Works!SetColumn(w, "extra", e)
          \/ \E i \in Mains : Works!SetColumn(w, "main", i)
       /\ raced' = Works!Edited(w)
    BY <1>20 DEF Works!UpdateSerie, Works!UpdateSerieRow
  <2>2. w \in Works!Ids /\ UNCHANGED task /\ raced \subseteq raced'
           /\ (task[w].seen # None => w \in raced')
    BY <1>20, <2>1 DEF Works!UpdateSerie, Works!Of, Works!Live, Works!Edited, Works!InHand
  <2>3. ASSUME NEW i \in Mains, Works!SetColumn(w, "main", i) PROVE Unread'
    BY <2>2, <2>3, <1>d, SetMain
  <2> QED
    BY <2>1, <2>2, <2>3, <1>x
<1>21. ASSUME NEW c \in Callers, Works!UpdateBookWrite(c) PROVE Unread'
  <2>1. workCall[c].id \in Works!Ids /\ workCall[c].serie \in Works!Ids \cup {None}
    BY <1>21, <1>0 DEF Works!UpdateBookWrite, Works!At, Knows, WorkRequest
  <2>2. UNCHANGED task /\ raced \subseteq raced'
           /\ (Works!SetColumn(workCall[c].id, "chapter", TRUE)
                 \/ Works!SetColumn(workCall[c].id, "serie", workCall[c].serie))
    BY <1>21 DEF Works!UpdateBookWrite, Works!UpdateBookRow
  <2> QED
    BY <2>1, <2>2, SetChapter, SetSerie, <1>d
<1>22. ASSUME NEW c \in Callers, Works!RefreshMovie(c) PROVE Unread'
  <2>1. workCall[c].id \in Works!Ids /\ UNCHANGED task
    BY <1>22, <1>0 DEF Works!RefreshMovie, Works!Refreshed, Works!At, Knows
  <2>2. \/ UNCHANGED works /\ raced \subseteq raced'
        \/ /\ \E e \in Looks : Works!SetColumn(workCall[c].id, "extra", e)
           /\ raced' = IF task[workCall[c].id].seen # None THEN raced \cup {workCall[c].id} ELSE raced
    BY <1>22 DEF Works!RefreshMovie, Works!UpdateMovieRow
  <2> QED
    BY <2>1, <2>2, <1>u, <1>x
<1>23. ASSUME NEW c \in Callers, Works!RefreshSerie(c) PROVE Unread'
  <2>1. workCall[c].id \in Works!Ids /\ UNCHANGED task
    BY <1>23, <1>0 DEF Works!RefreshSerie, Works!Refreshed, Works!At, Knows
  <2>2. \/ UNCHANGED works /\ raced \subseteq raced'
        \/ /\ \E e \in Looks : Works!SetColumn(workCall[c].id, "extra", e)
           /\ raced' = IF task[workCall[c].id].seen # None THEN raced \cup {workCall[c].id} ELSE raced
    BY <1>23 DEF Works!RefreshSerie, Works!UpdateSerieRow
  <2> QED
    BY <2>1, <2>2, <1>u, <1>x
<1>24. ASSUME NEW c \in Callers, Works!RemoveMovie(c) PROVE Unread'
  <2>1. works' = [works EXCEPT ![workCall[c].id] = None] /\ UNCHANGED task /\ raced \subseteq raced'
    BY <1>24 DEF Works!RemoveMovie, Works!RemoveOwner, Works!DeleteOwner
  <2>2. \A w \in Works!Ids : works'[w] # None => works[w] # None /\ works'[w].extra = works[w].extra
    BY <2>1 DEF WorksTyped
  <2> QED
    BY <2>1, <2>2, <1>d
<1>25. ASSUME NEW c \in Callers, Works!RemoveBook(c) PROVE Unread'
  <2>1. works' = [works EXCEPT ![workCall[c].id] = None] /\ UNCHANGED task /\ raced \subseteq raced'
    BY <1>25 DEF Works!RemoveBook, Works!RemoveOwner, Works!DeleteOwner
  <2>2. \A w \in Works!Ids : works'[w] # None => works[w] # None /\ works'[w].extra = works[w].extra
    BY <2>1 DEF WorksTyped
  <2> QED
    BY <2>1, <2>2, <1>d
<1>26. ASSUME NEW c \in Callers, Works!RemoveSerie(c) PROVE Unread'
  <2>1. works' = Works!DetachBooks(workCall[c].id) /\ UNCHANGED task /\ raced \subseteq raced'
    BY <1>26 DEF Works!RemoveSerie, Works!DeleteSerie
  <2>2. workCall[c].id \in Works!Ids
    BY <1>26, <1>0 DEF Works!RemoveSerie, Works!At, Knows
  <2>3. \A w \in Works!Ids : works'[w] # None => works[w] # None /\ works'[w].extra = works[w].extra
    BY <2>1, <2>2, BooksDetached
  <2> QED
    BY <2>1, <2>3, <1>d
<1>t. ASSUME NEW w \in Works!Ids, NEW to, task' = [task EXCEPT ![w] = to], to.pc # "read",
             raced \subseteq raced', \A v \in Works!Ids : v # w => works'[v] = works[v]
      PROVE  Unread'
  <2>1. \A v \in Works!Ids : task'[v].pc = "read" => v # w /\ task'[v] = task[v]
    BY <1>t DEF WorksTyped
  <2> QED
    BY <1>t, <2>1, UnreadKept
<1>s. Works!Spent.pc # "read" /\ [Works!Spent EXCEPT !.pc = "queued"].pc # "read"
  BY DEF Works!Spent
<1>27. ASSUME NEW w \in Works!Ids, Works!RefreshNewSerie(w) PROVE Unread'
  <2>1. task[w] \in WorkTask /\ [task[w] EXCEPT !.pc = "refreshed", !.seen = works[w]].pc # "read"
    BY DEF WorksTyped, WorkTask
  <2>2. \/ task' = [task EXCEPT ![w] = [task[w] EXCEPT !.pc = "refreshed", !.seen = works[w]]]
        \/ task' = [task EXCEPT ![w] = Works!Spent]
        \/ task' = [task EXCEPT ![w] = [Works!Spent EXCEPT !.pc = "queued"]]
    BY <1>27 DEF Works!RefreshNewSerie
  <2>0. raced \subseteq raced'
    BY <1>27 DEF Works!RefreshNewSerie
  <2>3. UNCHANGED works \/ \E e \in Looks : Works!SetColumn(w, "extra", e)
    BY <1>27 DEF Works!RefreshNewSerie, Works!UpdateSerieRow
  <2>4. \A v \in Works!Ids : v # w => works'[v] = works[v]
    BY <2>3, SetExtra
  <2>5. CASE task' = [task EXCEPT ![w] = [task[w] EXCEPT !.pc = "refreshed", !.seen = works[w]]]
    <3> DEFINE to == [task[w] EXCEPT !.pc = "refreshed", !.seen = works[w]]
    <3>1. to.pc # "read" /\ task' = [task EXCEPT ![w] = to] /\ raced \subseteq raced'
      BY <2>0, <2>1, <2>5
    <3> HIDE DEF to
    <3> QED
      BY <3>1, <2>4, <1>t
  <2>6. CASE task' = [task EXCEPT ![w] = Works!Spent]
    BY <2>0, <2>4, <2>6, <1>t, <1>s
  <2>7. CASE task' = [task EXCEPT ![w] = [Works!Spent EXCEPT !.pc = "queued"]]
    BY <2>0, <2>4, <2>7, <1>t, <1>s
  <2> QED
    BY <2>2, <2>5, <2>6, <2>7
<1>28. ASSUME NEW w \in Works!Ids, Works!EnrichRead(w) PROVE Unread'
  <2>1. UNCHANGED <<works, raced>>
    BY <1>28 DEF Works!EnrichRead
  <2>2. CASE task' = [task EXCEPT ![w] = Works!Spent]
    BY <2>1, <2>2, <1>t, <1>s
  <2>3. CASE works[w] # None /\ works[w].extra = None
           /\ task' = [task EXCEPT ![w] = [Works!Spent EXCEPT !.pc = "read", !.seen = works[w]]]
    <3>1. task'[w].seen # None
      BY <2>3 DEF WorksTyped, Works!Spent
    <3>2. \A v \in Works!Ids : v # w => task'[v] = task[v]
      BY <2>3 DEF WorksTyped
    <3> QED
      BY <2>1, <2>3, <3>1, <3>2 DEF Unread, Works!Live
  <2> QED
    BY <1>28, <2>2, <2>3 DEF Works!EnrichRead, Works!Live
<1>29. ASSUME NEW w \in Works!Ids, Works!EnrichMovieIds(w) \/ Works!EnrichSerieIds(w)
              \/ Works!EnrichBookIds(w) PROVE Unread'
  <2>1. UNCHANGED raced /\ task' = [task EXCEPT ![w] = Works!Spent]
    BY <1>29 DEF Works!EnrichMovieIds, Works!EnrichSerieIds, Works!EnrichBookIds, Works!Enrich
  <2>2. UNCHANGED works \/ \E e \in Looks : Works!SetColumn(w, "extra", e)
    BY <1>29 DEF Works!EnrichMovieIds, Works!EnrichSerieIds, Works!EnrichBookIds,
       Works!UpdateMovieRow, Works!UpdateSerieRow, Works!UpdateBookRow
  <2>3. \A v \in Works!Ids : v # w => works'[v] = works[v]
    BY <2>2, SetExtra
  <2> QED
    BY <2>1, <2>3, <1>t, <1>s
<1>30. ASSUME NEW x \in Medias, Works!AttachMedia(x) PROVE Unread'
  BY <1>30, <1>u DEF Works!AttachMedia
<1> QED
  BY <1>1, <1>2, <1>3, <1>4, <1>5, <1>6, <1>7, <1>8, <1>9, <1>10, <1>11, <1>12, <1>13, <1>14, <1>15,
     <1>16, <1>17, <1>18, <1>19, <1>20, <1>21, <1>22, <1>23, <1>24, <1>25, <1>26, <1>27, <1>28,
        <1>29, <1>30 DEF Works!Next

-----------------------------------------------------------------------------
(* What is removed.                                                        *)

\* A step that removes nothing keeps what followers can find of the removals.
LEMMA RecordsKept ==
  ASSUME WorksTyped, RemovalsRecorded, recorded \subseteq recorded', dropped \subseteq dropped',
         \A w \in 1..worksUsed' : w \in Works!Ids,
         \A w \in Works!Ids : works[w] # None \/ w \notin 1..worksUsed =>
            \/ works'[w] # None \/ w \in recorded' \/ w \notin 1..worksUsed'
            \/ \E c \in Callers : workCall'[c].pc = "record" /\ workCall'[c].id = w,
         \A c \in Callers : workCall[c].pc = "record" =>
            workCall'[c] = workCall[c] \/ workCall[c].id \in recorded' \cup dropped',
         \A x \in Medias \ workLate' :
            \/ x \notin workLate /\ ofWork'[x] = ofWork[x]
                  /\ (ofWork[x] \in Works!Live => works'[ofWork[x]] # None)
            \/ ofWork'[x] \in {None, Deleted}
            \/ ofWork'[x] \in Works!Ids /\ works'[ofWork'[x]] # None
  PROVE  RemovalsRecorded'
<1>1. ASSUME NEW w \in (1..worksUsed \ (Works!Live \cup dropped \cup recorded))'
      PROVE  \E c \in Callers : workCall'[c].pc = "record" /\ workCall'[c].id = w
  <2>1. w \in Works!Ids /\ works'[w] = None /\ w \notin dropped' /\ w \notin recorded'
           /\ w \in 1..worksUsed'
    BY <1>1 DEF Works!Live
  <2>2. CASE works[w] # None \/ w \notin 1..worksUsed
    BY <2>1, <2>2
  <2>3. CASE works[w] = None /\ w \in 1..worksUsed
    <3>1. w \in 1..worksUsed \ (Works!Live \cup dropped \cup recorded)
      BY <2>1, <2>3 DEF Works!Live
    <3>2. PICK c \in Callers : workCall[c].pc = "record" /\ workCall[c].id = w
      BY <3>1 DEF RemovalsRecorded, Works!RemovalsRecorded, Works!At
    <3> QED
      BY <2>1, <3>2
  <2> QED
    BY <2>2, <2>3
<1>2. ASSUME NEW x \in Medias \ workLate'
      PROVE  ofWork'[x] \in Works!Live' \cup {None, Deleted}
  BY <1>2 DEF RemovalsRecorded, Works!RemovalsRecorded, Works!Live
<1> QED
  BY <1>1, <1>2 DEF RemovalsRecorded, Works!RemovalsRecorded, Works!At

\* Every step leaves a removed work recorded, about to be, or dropped by a request
\* that failed.
LEMMA RecordsStep ==
  ASSUME WorksTyped, InsertsKnown, RemovalsRecorded, Works!Next
  PROVE  RemovalsRecorded'
<1>0. \A c \in Callers : workCall[c] \in WorkRequest /\ Knows(workCall[c])
  BY DEF WorksTyped, InsertsKnown
<1>v. \A w \in 1..worksUsed : w \in Works!Ids
  BY WorksAssumption DEF WorksTyped, Works!Ids
\* Nothing is removed, and no record is forgotten.
<1>k. ASSUME UNCHANGED <<worksUsed, ofWork, workLate>>, recorded \subseteq recorded',
             dropped \subseteq dropped',
             \A w \in Works!Ids : works[w] # None => works'[w] # None,
             \A c \in Callers : workCall[c].pc = "record" =>
               workCall'[c] = workCall[c] \/ workCall[c].id \in recorded' \cup dropped'
      PROVE  RemovalsRecorded'
  BY <1>k, <1>v, RecordsKept DEF Works!Live, RemovalsRecorded, Works!RemovalsRecorded
\* Only a request that has nothing to record changes.
<1>c. ASSUME NEW c \in Callers, UNCHANGED <<worksUsed, ofWork, workLate>>,
             recorded \subseteq recorded', UNCHANGED dropped,
             \A w \in Works!Ids : works[w] # None => works'[w] # None,
             workCall[c].pc # "record", \A d \in Callers : d # c => workCall'[d] = workCall[d]
      PROVE  RemovalsRecorded'
  BY <1>c, <1>k
<1>u. ASSUME UNCHANGED <<worksUsed, ofWork, workLate, workCall, recorded, dropped>>,
             \A w \in Works!Ids : works[w] # None => works'[w] # None
      PROVE  RemovalsRecorded'
  BY <1>u, <1>k
<1>1. ASSUME NEW c \in Callers, Works!AddMovie(c) PROVE RemovalsRecorded'
  <2>1. UNCHANGED <<works, worksUsed, ofWork, workLate, recorded, dropped>>
           /\ workCall[c].pc # "record"
    BY <1>1 DEF Works!AddMovie, Works!Checked, Works!Import, Works!Starts, Works!At
  <2>2. \A d \in Callers : d # c => workCall'[d] = workCall[d]
    BY <1>1 DEF Works!AddMovie, Works!Checked, Works!Import, Works!Becomes, Works!Goes, WorksTyped
  <2> QED
    BY <2>1, <2>2, <1>c
<1>2. ASSUME NEW c \in Callers, Works!AddSerie(c) PROVE RemovalsRecorded'
  <2>1. UNCHANGED <<works, worksUsed, ofWork, workLate, recorded, dropped>>
           /\ workCall[c].pc # "record"
    BY <1>2 DEF Works!AddSerie, Works!Checked, Works!Import, Works!Starts, Works!At
  <2>2. \A d \in Callers : d # c => workCall'[d] = workCall[d]
    BY <1>2 DEF Works!AddSerie, Works!Checked, Works!Import, Works!Becomes, Works!Goes, WorksTyped
  <2> QED
    BY <2>1, <2>2, <1>c
<1>3. ASSUME NEW c \in Callers, Works!ImportMovie(c) PROVE RemovalsRecorded'
  <2>1. UNCHANGED <<works, worksUsed, ofWork, workLate, recorded, dropped>>
           /\ workCall[c].pc # "record"
    BY <1>3 DEF Works!ImportMovie, Works!Checked, Works!Import, Works!Starts, Works!At
  <2>2. \A d \in Callers : d # c => workCall'[d] = workCall[d]
    BY <1>3 DEF Works!ImportMovie, Works!Checked, Works!Import, Works!Becomes, Works!Goes,
       WorksTyped
  <2> QED
    BY <2>1, <2>2, <1>c
<1>4. ASSUME NEW c \in Callers, Works!ImportSerie(c) PROVE RemovalsRecorded'
  <2>1. UNCHANGED <<works, worksUsed, ofWork, workLate, recorded, dropped>>
           /\ workCall[c].pc # "record"
    BY <1>4 DEF Works!ImportSerie, Works!Checked, Works!Import, Works!Starts, Works!At
  <2>2. \A d \in Callers : d # c => workCall'[d] = workCall[d]
    BY <1>4 DEF Works!ImportSerie, Works!Checked, Works!Import, Works!Becomes, Works!Goes,
       WorksTyped
  <2> QED
    BY <2>1, <2>2, <1>c
<1>5. ASSUME NEW c \in Callers, Works!AddBook(c) PROVE RemovalsRecorded'
  <2>1. UNCHANGED <<works, worksUsed, ofWork, workLate, recorded, dropped>>
           /\ workCall[c].pc # "record"
    BY <1>5 DEF Works!AddBook, Works!Checked, Works!Import, Works!Starts, Works!At
  <2>2. \A d \in Callers : d # c => workCall'[d] = workCall[d]
    BY <1>5 DEF Works!AddBook, Works!Checked, Works!Import, Works!Becomes, Works!Goes, WorksTyped
  <2> QED
    BY <2>1, <2>2, <1>c
<1>6. ASSUME NEW c \in Callers, Works!ResolveSerie(c) PROVE RemovalsRecorded'
  <2>1. UNCHANGED <<works, worksUsed, ofWork, workLate, recorded, dropped>>
           /\ workCall[c].pc # "record"
    BY <1>6 DEF Works!ResolveSerie, Works!Checked, Works!Import, Works!Starts, Works!At
  <2>2. \A d \in Callers : d # c => workCall'[d] = workCall[d]
    BY <1>6 DEF Works!ResolveSerie, Works!Checked, Works!Import, Works!Becomes, Works!Goes,
       WorksTyped
  <2> QED
    BY <2>1, <2>2, <1>c
<1>7. ASSUME NEW c \in Callers, Works!CheckBook(c) PROVE RemovalsRecorded'
  <2>1. UNCHANGED <<works, worksUsed, ofWork, workLate, recorded, dropped>>
           /\ workCall[c].pc # "record"
    BY <1>7 DEF Works!CheckBook, Works!Checked, Works!Import, Works!Starts, Works!At
  <2>2. \A d \in Callers : d # c => workCall'[d] = workCall[d]
    BY <1>7 DEF Works!CheckBook, Works!Checked, Works!Import, Works!Becomes, Works!Goes, WorksTyped
  <2> QED
    BY <2>1, <2>2, <1>c
<1>8. ASSUME NEW c \in Callers, Works!UpdateBook(c) PROVE RemovalsRecorded'
  <2>1. UNCHANGED <<works, worksUsed, ofWork, workLate, recorded, dropped>>
           /\ workCall[c].pc # "record"
    BY <1>8 DEF Works!UpdateBook, Works!Checked, Works!Import, Works!Starts, Works!At
  <2>2. \A d \in Callers : d # c => workCall'[d] = workCall[d]
    BY <1>8 DEF Works!UpdateBook, Works!Checked, Works!Import, Works!Becomes, Works!Goes, WorksTyped
  <2> QED
    BY <2>1, <2>2, <1>c
<1>9. ASSUME NEW c \in Callers, Works!StartRefresh(c) PROVE RemovalsRecorded'
  <2>1. UNCHANGED <<works, worksUsed, ofWork, workLate, recorded, dropped>>
           /\ workCall[c].pc # "record"
    BY <1>9 DEF Works!StartRefresh, Works!Checked, Works!Import, Works!Starts, Works!At
  <2>2. \A d \in Callers : d # c => workCall'[d] = workCall[d]
    BY <1>9 DEF Works!StartRefresh, Works!Checked, Works!Import, Works!Becomes, Works!Goes,
       WorksTyped
  <2> QED
    BY <2>1, <2>2, <1>c
<1>10. ASSUME NEW c \in Callers, Works!StartRemove(c) PROVE RemovalsRecorded'
  <2>1. UNCHANGED <<works, worksUsed, ofWork, workLate, recorded, dropped>>
           /\ workCall[c].pc # "record"
    BY <1>10 DEF Works!StartRemove, Works!Checked, Works!Import, Works!Starts, Works!At
  <2>2. \A d \in Callers : d # c => workCall'[d] = workCall[d]
    BY <1>10 DEF Works!StartRemove, Works!Checked, Works!Import, Works!Becomes, Works!Goes,
       WorksTyped
  <2> QED
    BY <2>1, <2>2, <1>c
<1>11. ASSUME NEW c \in Callers, Works!Added(c) PROVE RemovalsRecorded'
  <2>1. UNCHANGED <<works, worksUsed, ofWork, workLate, recorded, dropped>>
           /\ workCall[c].pc # "record"
    BY <1>11 DEF Works!Added, Works!Checked, Works!Import, Works!Starts, Works!At
  <2>2. \A d \in Callers : d # c => workCall'[d] = workCall[d]
    BY <1>11 DEF Works!Added, Works!Checked, Works!Import, Works!Becomes, Works!Goes, WorksTyped
  <2> QED
    BY <2>1, <2>2, <1>c
\* What is inserted is there.
<1>i. ASSUME NEW c \in Callers, NEW kind \in Works!Types, NEW main \in Mains,
             NEW serie \in Works!Ids \cup {None},
             Works!InsertRow(kind, main, serie), UNCHANGED <<ofWork, workLate, recorded, dropped>>,
             workCall[c].pc # "record", \A d \in Callers : d # c => workCall'[d] = workCall[d]
      PROVE  RemovalsRecorded'
  <2>1. /\ worksUsed' = worksUsed + 1 /\ worksUsed + 1 \in Works!Ids /\ works'[worksUsed + 1] # None
        /\ \A w \in Works!Ids : w # worksUsed + 1 => works'[w] = works[w]
    BY <1>i, RowInserted
  <2>2. \A w \in 1..worksUsed' : w \in Works!Ids
    BY <2>1, <1>v, WorksAssumption DEF WorksTyped, Works!Ids
  <2>3. \A w \in Works!Ids : works[w] # None \/ w \notin 1..worksUsed =>
           works'[w] # None \/ w \notin 1..worksUsed'
    BY <2>1, WorksAssumption DEF WorksTyped, Works!Ids
  <2>4. \A x \in Medias \ workLate' :
            \/ x \notin workLate /\ ofWork'[x] = ofWork[x]
                  /\ (ofWork[x] \in Works!Live => works'[ofWork[x]] # None)
    BY <1>i, <2>1 DEF Works!Live
  <2> QED
    BY <1>i, <2>2, <2>3, <2>4, RecordsKept
<1>12. ASSUME NEW c \in Callers, Works!InsertMovie(c) PROVE RemovalsRecorded'
  <2>1. workCall[c].main \in Mains /\ workCall[c].serie \in Works!Ids \cup {None}
           /\ workCall[c].pc # "record"
    BY <1>12, <1>0 DEF Works!InsertMovie, Works!At, Knows, WorkRequest
  <2>2. Works!InsertRow("movie", workCall[c].main, None)
           /\ UNCHANGED <<ofWork, workLate, recorded, dropped>>
    BY <1>12 DEF Works!InsertMovie, Works!InsertMovieRow
  <2>3. \A d \in Callers : d # c => workCall'[d] = workCall[d]
    BY <1>12 DEF Works!InsertMovie, Works!Becomes, WorksTyped
  <2> QED
    BY <2>1, <2>2, <2>3, <1>i DEF Works!Types
<1>13. ASSUME NEW c \in Callers, Works!InsertSerie(c) PROVE RemovalsRecorded'
  <2>1. workCall[c].main \in Mains /\ workCall[c].serie \in Works!Ids \cup {None}
           /\ workCall[c].pc # "record"
    BY <1>13, <1>0 DEF Works!InsertSerie, Works!At, Knows, WorkRequest
  <2>2. Works!InsertRow("serie", workCall[c].main, None)
           /\ UNCHANGED <<ofWork, workLate, recorded, dropped>>
    BY <1>13 DEF Works!InsertSerie, Works!InsertSerieRow
  <2>3. \A d \in Callers : d # c => workCall'[d] = workCall[d]
    BY <1>13 DEF Works!InsertSerie, Works!Becomes, WorksTyped
  <2> QED
    BY <2>1, <2>2, <2>3, <1>i DEF Works!Types
<1>14. ASSUME NEW c \in Callers, Works!InsertBook(c) PROVE RemovalsRecorded'
  <2>1. workCall[c].main \in Mains /\ workCall[c].serie \in Works!Ids \cup {None}
           /\ workCall[c].pc # "record"
    BY <1>14, <1>0 DEF Works!InsertBook, Works!At, Knows, WorkRequest
  <2>2. Works!InsertRow("book", workCall[c].main, workCall[c].serie)
           /\ UNCHANGED <<ofWork, workLate, recorded, dropped>>
    BY <1>14 DEF Works!InsertBook, Works!InsertBookRow
  <2>3. \A d \in Callers : d # c => workCall'[d] = workCall[d]
    BY <1>14 DEF Works!InsertBook, Works!Becomes, WorksTyped
  <2> QED
    BY <2>1, <2>2, <2>3, <1>i DEF Works!Types
<1>15. ASSUME NEW c \in Callers, Works!UpsertSerie(c) PROVE RemovalsRecorded'
  <2>1. UNCHANGED <<ofWork, workLate, recorded, dropped>> /\ workCall[c].pc # "record"
    BY <1>15 DEF Works!UpsertSerie, Works!At
  <2>2. \A d \in Callers : d # c => workCall'[d] = workCall[d]
    BY <1>15 DEF Works!UpsertSerie, Works!Becomes, Works!Goes, WorksTyped
  <2>3. CASE workCall[c].pc = "upsert"
    <3>1. UNCHANGED <<works, worksUsed>>
      BY <1>15, <2>3 DEF Works!UpsertSerie, Works!At
    <3> QED
      BY <2>1, <2>2, <3>1, <1>c
  <2>4. CASE workCall[c].pc = "insertserie"
    <3>1. workCall[c].with \in Mains
      BY <1>0, <2>4 DEF Knows
    <3>2. Works!InsertRow("serie", workCall[c].with, None)
      BY <1>15, <2>4 DEF Works!UpsertSerie, Works!InsertSerieRow, Works!At
    <3> QED
      BY <2>1, <2>2, <3>1, <3>2, <1>i DEF Works!Types
  <2> QED
    BY <1>15, <2>3, <2>4 DEF Works!UpsertSerie, Works!At
<1>16. ASSUME NEW c \in Callers, Works!UpdateMovie(c) PROVE RemovalsRecorded'
  <2>1. PICK w \in Works!Of("movie") :
          \/ \E e \in Looks : Works!SetColumn(w, "extra", e)
          \/ \E i \in Mains : Works!SetColumn(w, "main", i)
    BY <1>16 DEF Works!UpdateMovie, Works!UpdateMovieRow
  <2>2. w \in Works!Ids /\ UNCHANGED <<worksUsed, ofWork, workLate, workCall, recorded, dropped>>
    BY <1>16 DEF Works!UpdateMovie, Works!Of, Works!Live
  <2>3. \A v \in Works!Ids : works[v] # None => works'[v] # None
    BY <2>1, <2>2, SetExtra, SetMain
  <2> QED
    BY <2>2, <2>3, <1>u
<1>17. ASSUME NEW c \in Callers, Works!UpdateSerie(c) PROVE RemovalsRecorded'
  <2>1. PICK w \in Works!Of("serie") :
          \/ \E e \in Looks : Works!SetColumn(w, "extra", e)
          \/ \E i \in Mains : Works!SetColumn(w, "main", i)
    BY <1>17 DEF Works!UpdateSerie, Works!UpdateSerieRow
  <2>2. w \in Works!Ids /\ UNCHANGED <<worksUsed, ofWork, workLate, workCall, recorded, dropped>>
    BY <1>17 DEF Works!UpdateSerie, Works!Of, Works!Live
  <2>3. \A v \in Works!Ids : works[v] # None => works'[v] # None
    BY <2>1, <2>2, SetExtra, SetMain
  <2> QED
    BY <2>2, <2>3, <1>u
<1>18. ASSUME NEW c \in Callers, Works!UpdateBookWrite(c) PROVE RemovalsRecorded'
  <2>1. workCall[c].id \in Works!Ids /\ workCall[c].serie \in Works!Ids \cup {None}
           /\ workCall[c].pc # "record"
    BY <1>18, <1>0 DEF Works!UpdateBookWrite, Works!At, Knows, WorkRequest
  <2>2. UNCHANGED <<worksUsed, ofWork, workLate, recorded, dropped>>
    BY <1>18 DEF Works!UpdateBookWrite
  <2>3. Works!SetColumn(workCall[c].id, "chapter", TRUE)
           \/ Works!SetColumn(workCall[c].id, "serie", workCall[c].serie)
    BY <1>18 DEF Works!UpdateBookWrite, Works!UpdateBookRow
  <2>4. \A v \in Works!Ids : works[v] # None => works'[v] # None
    BY <2>1, <2>3, SetChapter, SetSerie
  <2>5. \A d \in Callers : d # c => workCall'[d] = workCall[d]
    BY <1>18 DEF Works!UpdateBookWrite, Works!Goes, WorksTyped
  <2> QED
    BY <2>1, <2>2, <2>4, <2>5, <1>c
<1>19. ASSUME NEW c \in Callers, Works!RefreshMovie(c) PROVE RemovalsRecorded'
  <2>1. workCall[c].id \in Works!Ids /\ UNCHANGED <<worksUsed, ofWork, workLate, recorded, dropped>>
           /\ workCall[c].pc # "record"
    BY <1>19, <1>0 DEF Works!RefreshMovie, Works!Refreshed, Works!At, Knows
  <2>2. UNCHANGED works \/ \E e \in Looks : Works!SetColumn(workCall[c].id, "extra", e)
    BY <1>19 DEF Works!RefreshMovie, Works!UpdateMovieRow
  <2>3. \A v \in Works!Ids : works[v] # None => works'[v] # None
    BY <2>1, <2>2, SetExtra
  <2>4. \A d \in Callers : d # c => workCall'[d] = workCall[d]
    BY <1>19 DEF Works!RefreshMovie, Works!Goes, WorksTyped
  <2> QED
    BY <2>1, <2>3, <2>4, <1>c
<1>20. ASSUME NEW c \in Callers, Works!RefreshSerie(c) PROVE RemovalsRecorded'
  <2>1. workCall[c].id \in Works!Ids /\ UNCHANGED <<worksUsed, ofWork, workLate, recorded, dropped>>
           /\ workCall[c].pc # "record"
    BY <1>20, <1>0 DEF Works!RefreshSerie, Works!Refreshed, Works!At, Knows
  <2>2. UNCHANGED works \/ \E e \in Looks : Works!SetColumn(workCall[c].id, "extra", e)
    BY <1>20 DEF Works!RefreshSerie, Works!UpdateSerieRow
  <2>3. \A v \in Works!Ids : works[v] # None => works'[v] # None
    BY <2>1, <2>2, SetExtra
  <2>4. \A d \in Callers : d # c => workCall'[d] = workCall[d]
    BY <1>20 DEF Works!RefreshSerie, Works!Goes, WorksTyped
  <2> QED
    BY <2>1, <2>3, <2>4, <1>c
<1>21. ASSUME NEW c \in Callers, Works!RemoveSerieMedia(c) PROVE RemovalsRecorded'
  <2>1. UNCHANGED <<works, worksUsed, workLate, dropped>> /\ recorded \subseteq recorded'
           /\ workCall[c].pc = "medias"
    BY <1>21 DEF Works!RemoveSerieMedia, Works!At
  <2>2. \A d \in Callers : d # c => workCall'[d] = workCall[d]
    BY <1>21 DEF Works!RemoveSerieMedia, Works!Goes, WorksTyped
  <2>3. \A x \in Medias : ofWork'[x] = ofWork[x] \/ ofWork'[x] \in {None, Deleted}
    BY <1>21 DEF Works!RemoveSerieMedia, WorksTyped
  <2>4. \A x \in Medias \ workLate' :
            \/ x \notin workLate /\ ofWork'[x] = ofWork[x]
                  /\ (ofWork[x] \in Works!Live => works'[ofWork[x]] # None)
            \/ ofWork'[x] \in {None, Deleted}
    BY <2>1, <2>3 DEF Works!Live
  <2>5. \A d \in Callers : workCall[d].pc = "record" => workCall'[d] = workCall[d]
    BY <2>1, <2>2
  <2> QED
    BY <2>1, <2>4, <2>5, <1>v, RecordsKept
<1>22. ASSUME NEW c \in Callers, Works!RemoveMovie(c) PROVE RemovalsRecorded'
  <2>1. workCall[c].id \in Works!Ids /\ workCall[c].pc = "remove"
    BY <1>22, <1>0 DEF Works!RemoveMovie, Works!RemoveOwner, Works!At, Knows
  <2>2. /\ works' = [works EXCEPT ![workCall[c].id] = None]
              /\ UNCHANGED <<worksUsed, workLate, dropped, recorded>>
        /\ ofWork' = [x \in Medias |-> IF ofWork[x] = workCall[c].id THEN Deleted ELSE ofWork[x]]
    BY <1>22 DEF Works!RemoveMovie, Works!RemoveOwner, Works!DeleteOwner
  <2>3. \A w \in Works!Ids : w # workCall[c].id => (works'[w] # None <=> works[w] # None)
    BY <2>2 DEF WorksTyped
  <2>a. workCall' = [workCall EXCEPT ![c].pc = "record"]
    BY <1>22 DEF Works!RemoveMovie, Works!RemoveOwner, Works!Goes
  <2>b. workCall'[c].pc = "record" /\ workCall'[c].id = workCall[c].id
    BY <2>a, <1>0 DEF WorkRequest, WorksTyped
  <2>4. \A d \in Callers : d # c => workCall'[d] = workCall[d]
    BY <2>a DEF WorksTyped
  <2>5. \A w \in Works!Ids : works[w] # None \/ w \notin 1..worksUsed =>
            \/ works'[w] # None \/ w \notin 1..worksUsed'
            \/ \E d \in Callers : workCall'[d].pc = "record" /\ workCall'[d].id = w
    BY <2>2, <2>3, <2>b
  <2>6. \A x \in Medias \ workLate' :
            \/ x \notin workLate /\ ofWork'[x] = ofWork[x]
                  /\ (ofWork[x] \in Works!Live => works'[ofWork[x]] # None)
            \/ ofWork'[x] \in {None, Deleted}
    BY <2>2, <2>3 DEF Works!Live
  <2>7. \A d \in Callers : workCall[d].pc = "record" => workCall'[d] = workCall[d]
    BY <2>1, <2>4
  <2> QED
    BY <2>2, <2>5, <2>6, <2>7, <1>v, RecordsKept
<1>23. ASSUME NEW c \in Callers, Works!RemoveBook(c) PROVE RemovalsRecorded'
  <2>1. workCall[c].id \in Works!Ids /\ workCall[c].pc = "remove"
    BY <1>23, <1>0 DEF Works!RemoveBook, Works!RemoveOwner, Works!At, Knows
  <2>2. /\ works' = [works EXCEPT ![workCall[c].id] = None]
              /\ UNCHANGED <<worksUsed, workLate, dropped, recorded>>
        /\ ofWork' = [x \in Medias |-> IF ofWork[x] = workCall[c].id THEN Deleted ELSE ofWork[x]]
    BY <1>23 DEF Works!RemoveBook, Works!RemoveOwner, Works!DeleteOwner
  <2>3. \A w \in Works!Ids : w # workCall[c].id => (works'[w] # None <=> works[w] # None)
    BY <2>2 DEF WorksTyped
  <2>a. workCall' = [workCall EXCEPT ![c].pc = "record"]
    BY <1>23 DEF Works!RemoveBook, Works!RemoveOwner, Works!Goes
  <2>b. workCall'[c].pc = "record" /\ workCall'[c].id = workCall[c].id
    BY <2>a, <1>0 DEF WorkRequest, WorksTyped
  <2>4. \A d \in Callers : d # c => workCall'[d] = workCall[d]
    BY <2>a DEF WorksTyped
  <2>5. \A w \in Works!Ids : works[w] # None \/ w \notin 1..worksUsed =>
            \/ works'[w] # None \/ w \notin 1..worksUsed'
            \/ \E d \in Callers : workCall'[d].pc = "record" /\ workCall'[d].id = w
    BY <2>2, <2>3, <2>b
  <2>6. \A x \in Medias \ workLate' :
            \/ x \notin workLate /\ ofWork'[x] = ofWork[x]
                  /\ (ofWork[x] \in Works!Live => works'[ofWork[x]] # None)
            \/ ofWork'[x] \in {None, Deleted}
    BY <2>2, <2>3 DEF Works!Live
  <2>7. \A d \in Callers : workCall[d].pc = "record" => workCall'[d] = workCall[d]
    BY <2>1, <2>4
  <2> QED
    BY <2>2, <2>5, <2>6, <2>7, <1>v, RecordsKept
<1>24. ASSUME NEW c \in Callers, Works!RemoveSerie(c) PROVE RemovalsRecorded'
  <2>1. workCall[c].id \in Works!Ids /\ workCall[c].pc = "remove"
    BY <1>24, <1>0 DEF Works!RemoveSerie, Works!RemoveOwner, Works!At, Knows
  <2>2. /\ works' = Works!DetachBooks(workCall[c].id) /\ UNCHANGED <<worksUsed, workLate, dropped>>
        /\ workCall[c].id \in recorded' /\ recorded \subseteq recorded'
        /\ ofWork' = [x \in Medias |-> IF ofWork[x] = workCall[c].id THEN None ELSE ofWork[x]]
    BY <1>24 DEF Works!RemoveSerie, Works!DeleteSerie
  <2>3. /\ works'[workCall[c].id] = None
        /\ \A w \in Works!Ids : w # workCall[c].id => (works'[w] # None <=> works[w] # None)
    BY <2>1, <2>2, BooksDetached
  <2>4. \A d \in Callers : d # c => workCall'[d] = workCall[d]
    BY <1>24 DEF Works!RemoveSerie, Works!Goes, WorksTyped
  <2>5. \A w \in Works!Ids : works[w] # None \/ w \notin 1..worksUsed =>
            works'[w] # None \/ w \in recorded' \/ w \notin 1..worksUsed'
    BY <2>2, <2>3
  <2>6. \A x \in Medias \ workLate' :
            \/ x \notin workLate /\ ofWork'[x] = ofWork[x]
                  /\ (ofWork[x] \in Works!Live => works'[ofWork[x]] # None)
            \/ ofWork'[x] \in {None, Deleted}
    BY <2>2, <2>3 DEF Works!Live
  <2>7. \A d \in Callers : workCall[d].pc = "record" => workCall'[d] = workCall[d]
    BY <2>1, <2>4
  <2> QED
    BY <2>2, <2>5, <2>6, <2>7, <1>v, RecordsKept
<1>25. ASSUME NEW c \in Callers, Works!Record(c) PROVE RemovalsRecorded'
  <2>1. UNCHANGED <<works, worksUsed, ofWork, workLate, dropped>>
           /\ recorded' = recorded \cup {workCall[c].id}
    BY <1>25 DEF Works!Record
  <2>2. \A d \in Callers : d # c => workCall'[d] = workCall[d]
    BY <1>25 DEF Works!Record, Works!Goes, WorksTyped
  <2> QED
    BY <2>1, <2>2, <1>k
<1>26. ASSUME NEW c \in Callers, Works!Return(c) PROVE RemovalsRecorded'
  <2>1. UNCHANGED <<works, worksUsed, ofWork, workLate, recorded>> /\ dropped \subseteq dropped'
        /\ (workCall[c].pc = "record" => workCall[c].id \in dropped')
    BY <1>26 DEF Works!Return, Works!At
  <2>2. \A d \in Callers : d # c => workCall'[d] = workCall[d]
    BY <1>26 DEF Works!Return, Works!Becomes, WorksTyped
  <2> QED
    BY <2>1, <2>2, <1>k
<1>27. ASSUME NEW w \in Works!Ids,
             \/ Works!RefreshNewSerie(w) \/ Works!EnrichRead(w)
             \/ Works!EnrichMovieIds(w) \/ Works!EnrichSerieIds(w) \/ Works!EnrichBookIds(w)
      PROVE RemovalsRecorded'
  <2>1. UNCHANGED <<worksUsed, ofWork, workLate, workCall, recorded, dropped>>
    BY <1>27 DEF Works!RefreshNewSerie, Works!EnrichRead, Works!EnrichMovieIds,
       Works!EnrichSerieIds, Works!EnrichBookIds, Works!Enrich
  <2>2. UNCHANGED works \/ \E e \in Looks : Works!SetColumn(w, "extra", e)
    BY <1>27 DEF Works!RefreshNewSerie, Works!EnrichRead, Works!EnrichMovieIds,
       Works!EnrichSerieIds, Works!EnrichBookIds, Works!UpdateMovieRow, Works!UpdateSerieRow,
          Works!UpdateBookRow
  <2>3. \A v \in Works!Ids : works[v] # None => works'[v] # None
    BY <2>2, SetExtra
  <2> QED
    BY <2>1, <2>3, <1>u
<1>28. ASSUME NEW x \in Medias, Works!AttachMedia(x) PROVE RemovalsRecorded'
  <2>1. UNCHANGED <<works, worksUsed, workCall, recorded, dropped>>
    BY <1>28 DEF Works!AttachMedia
  <2>2. PICK w \in 1..worksUsed : ofWork' = [ofWork EXCEPT ![x] = w]
           /\ workLate' = IF w \in Works!Live THEN workLate \ {x} ELSE workLate \cup {x}
    BY <1>28 DEF Works!AttachMedia
  <2>3. \A y \in Medias \ workLate' :
            \/ y \notin workLate /\ ofWork'[y] = ofWork[y]
                  /\ (ofWork[y] \in Works!Live => works'[ofWork[y]] # None)
            \/ ofWork'[y] \in Works!Ids /\ works'[ofWork'[y]] # None
    BY <2>1, <2>2 DEF Works!Live, WorksTyped
  <2> QED
    BY <2>1, <2>3, <1>v, RecordsKept
<1> QED
  BY <1>1, <1>2, <1>3, <1>4, <1>5, <1>6, <1>7, <1>8, <1>9, <1>10, <1>11, <1>12, <1>13, <1>14, <1>15,
     <1>16, <1>17, <1>18, <1>19, <1>20, <1>21, <1>22, <1>23, <1>24, <1>25, <1>26, <1>27,
        <1>28 DEF Works!Next

-----------------------------------------------------------------------------
(* All together.                                                           *)

\* The tasks keep their form.
LEMMA TasksTyped ==
  ASSUME WorksTyped, InsertsKnown, Works!Next
  PROVE  task' \in [Works!Ids -> WorkTask]
<1>0. \A c \in Callers : workCall[c] \in WorkRequest /\ Knows(workCall[c])
  BY DEF WorksTyped, InsertsKnown
<1>1. \A pc \in {"none", "refresh", "queued"}, admin \in BOOLEAN :
         [Works!Spent EXCEPT !.pc = pc, !.admin = admin] \in WorkTask
  BY DEF Works!Spent, WorkTask
<1>2. ASSUME NEW c \in Callers, Works!Added(c) PROVE task' \in [Works!Ids -> WorkTask]
  <2>1. \/ UNCHANGED task
        \/ \E pc \in {"refresh", "queued"} :
             task' = [task EXCEPT ![workCall[c].id] = [Works!Spent EXCEPT !.admin = workCall[c].admin, !.pc = pc]]
    BY <1>2 DEF Works!Added
  <2>2. \A pc \in {"refresh", "queued"} :
           [Works!Spent EXCEPT !.admin = workCall[c].admin, !.pc = pc] \in WorkTask
    BY <1>0 DEF Works!Spent, WorkTask, WorkRequest
  <2> QED
    BY <2>1, <2>2 DEF WorksTyped
<1>3. ASSUME NEW c \in Callers, Works!UpsertSerie(c) PROVE task' \in [Works!Ids -> WorkTask]
  <2>1. UNCHANGED task \/ task' = [task EXCEPT ![worksUsed + 1] = [Works!Spent EXCEPT !.pc = "refresh"]]
    BY <1>3 DEF Works!UpsertSerie
  <2>2. [Works!Spent EXCEPT !.pc = "refresh"] \in WorkTask
    BY DEF Works!Spent, WorkTask
  <2> QED
    BY <2>1, <2>2 DEF WorksTyped
<1>4. ASSUME NEW w \in Works!Ids, Works!RefreshNewSerie(w) PROVE task' \in [Works!Ids -> WorkTask]
  <2>1. \/ task' = [task EXCEPT ![w] = [task[w] EXCEPT !.pc = "refreshed", !.seen = works[w]]]
        \/ task' = [task EXCEPT ![w] = Works!Spent]
        \/ task' = [task EXCEPT ![w] = [Works!Spent EXCEPT !.pc = "queued"]]
    BY <1>4 DEF Works!RefreshNewSerie
  <2>2. /\ [task[w] EXCEPT !.pc = "refreshed", !.seen = works[w]] \in WorkTask
        /\ Works!Spent \in WorkTask /\ [Works!Spent EXCEPT !.pc = "queued"] \in WorkTask
    BY DEF Works!Spent, WorkTask, WorksTyped
  <2> QED
    BY <2>1, <2>2 DEF WorksTyped
<1>5. ASSUME NEW w \in Works!Ids, Works!EnrichRead(w) PROVE task' \in [Works!Ids -> WorkTask]
  <2>1. \/ task' = [task EXCEPT ![w] = Works!Spent]
        \/ task' = [task EXCEPT ![w] = [Works!Spent EXCEPT !.pc = "read", !.seen = works[w]]]
    BY <1>5 DEF Works!EnrichRead
  <2>2. Works!Spent \in WorkTask
           /\ [Works!Spent EXCEPT !.pc = "read", !.seen = works[w]] \in WorkTask
    BY DEF Works!Spent, WorkTask, WorksTyped
  <2> QED
    BY <2>1, <2>2 DEF WorksTyped
<1>6. ASSUME NEW w \in Works!Ids, Works!EnrichMovieIds(w) \/ Works!EnrichSerieIds(w)
             \/ Works!EnrichBookIds(w)
      PROVE task' \in [Works!Ids -> WorkTask]
  <2>1. task' = [task EXCEPT ![w] = Works!Spent]
    BY <1>6 DEF Works!EnrichMovieIds, Works!EnrichSerieIds, Works!EnrichBookIds, Works!Enrich
  <2>2. Works!Spent \in WorkTask
    BY DEF Works!Spent, WorkTask
  <2> QED
    BY <2>1, <2>2 DEF WorksTyped
<1>7. ASSUME UNCHANGED task PROVE task' \in [Works!Ids -> WorkTask]
  BY <1>7 DEF WorksTyped
<1> QED
  BY ZenonT(60), <1>2, <1>3, <1>4, <1>5, <1>6, <1>7
     DEF Works!Next, Works!AddMovie, Works!InsertMovie, Works!ImportMovie, Works!AddSerie,
         Works!InsertSerie, Works!ImportSerie, Works!AddBook, Works!ResolveSerie, Works!CheckBook,
         Works!InsertBook, Works!UpdateMovie, Works!UpdateSerie, Works!UpdateBook,
         Works!UpdateBookWrite, Works!StartRefresh, Works!RefreshMovie, Works!RefreshSerie,
         Works!Refreshed, Works!StartRemove, Works!RemoveSerieMedia, Works!RemoveMovie,
         Works!RemoveBook, Works!RemoveOwner, Works!RemoveSerie, Works!Record, Works!Return,
         Works!AttachMedia, Works!Checked, Works!Import

\* The medias' rows keep their form.
LEMMA OwnersTyped ==
  ASSUME WorksTyped, Works!Next
  PROVE  ofWork' \in [Medias -> Works!Ids \cup {None, Deleted}]
<1> DEFINE Goal == ofWork' \in [Medias -> Works!Ids \cup {None, Deleted}]
<1>1. ASSUME NEW x \in Medias, Works!AttachMedia(x) PROVE Goal
  <2>1. PICK w \in 1..worksUsed : ofWork' = [ofWork EXCEPT ![x] = w]
    BY <1>1 DEF Works!AttachMedia
  <2>2. w \in Works!Ids
    BY WorksAssumption DEF WorksTyped, Works!Ids
  <2> QED
    BY <2>1, <2>2 DEF WorksTyped
<1>2. ASSUME NEW c \in Callers, Works!RemoveSerieMedia(c) PROVE Goal
  BY <1>2 DEF Works!RemoveSerieMedia, WorksTyped
<1>3. ASSUME NEW c \in Callers, Works!RemoveMovie(c) \/ Works!RemoveBook(c) PROVE Goal
  BY <1>3 DEF Works!RemoveMovie, Works!RemoveBook, Works!RemoveOwner, Works!DeleteOwner, WorksTyped
<1>4. ASSUME NEW c \in Callers, Works!RemoveSerie(c) PROVE Goal
  BY <1>4 DEF Works!RemoveSerie, Works!DeleteSerie, WorksTyped
<1>5. ASSUME UNCHANGED ofWork PROVE Goal
  BY <1>5 DEF WorksTyped
<1> QED
  BY ZenonT(60), <1>1, <1>2, <1>3, <1>4, <1>5
     DEF Works!Next, Works!AddMovie, Works!InsertMovie, Works!ImportMovie, Works!AddSerie,
         Works!InsertSerie, Works!ImportSerie, Works!AddBook, Works!ResolveSerie, Works!CheckBook,
         Works!UpsertSerie, Works!Added,
         Works!InsertBook, Works!UpdateMovie, Works!UpdateSerie, Works!UpdateBook,
         Works!UpdateBookWrite, Works!StartRefresh, Works!RefreshMovie, Works!RefreshSerie,
         Works!Refreshed, Works!StartRemove, Works!Record, Works!Return,
         Works!RefreshNewSerie, Works!EnrichRead, Works!EnrichMovieIds, Works!EnrichSerieIds,
         Works!EnrichBookIds, Works!Enrich, Works!Checked, Works!Import

\* Every step keeps the invariant.
LEMMA WorksStep == WorksInv /\ Works!Next => WorksInv'
<1> SUFFICES ASSUME WorksInv, Works!Next PROVE WorksInv'
  OBVIOUS
<1> USE DEF WorksInv
<1>1. /\ works' \in [Works!Ids -> Row \cup {None}] /\ worksUsed' \in 0..MaxWorks
      /\ \A w \in Works!Ids : works'[w] # None => w \in 1..worksUsed'
  <2>1. CASE RowsKept
    BY <2>1 DEF RowsKept, WorksTyped
  <2>2. ASSUME NEW c \in Callers, NEW kind \in Works!Types, NEW main \in Mains,
               RowAdded(c, kind, main)
        PROVE  /\ works' \in [Works!Ids -> Row \cup {None}] /\ worksUsed' \in 0..MaxWorks
               /\ \A w \in Works!Ids : works'[w] # None => w \in 1..worksUsed'
    <3>1. PICK serie \in Works!Ids \cup {None} : Works!InsertRow(kind, main, serie)
      BY <2>2 DEF RowAdded
    <3>2. /\ works' \in [Works!Ids -> Row \cup {None}] /\ worksUsed' = worksUsed + 1
          /\ worksUsed' \in 0..MaxWorks
          /\ \A w \in Works!Ids : w # worksUsed + 1 => works'[w] = works[w]
      BY <3>1, RowInserted
    <3>3. \A w \in Works!Ids : works[w] # None => w \in 1..worksUsed
      BY DEF WorksTyped
    <3>4. worksUsed \in Nat
      BY WorksAssumption DEF WorksTyped
    <3> QED
      BY <3>2, <3>3, <3>4, WorksAssumption DEF Works!Ids
  <2> QED
    BY <2>1, <2>2, RowsKeptOrAdded
<1>2. WorksTyped'
  BY <1>1, WorkRequests, TasksTyped, OwnersTyped DEF WorksTyped
<1> QED
  BY <1>2, WorkRequests, CheckStep, UnreadStep, RecordsStep

\* Nothing is there at first.
LEMMA WorksFirst == Works!Init => WorksInv
<1> SUFFICES ASSUME Works!Init PROVE WorksInv
  OBVIOUS
<1> USE DEF Works!Init
<1>1. WorksTyped
  BY WorksAssumption DEF WorksTyped, WorkRequest, WorkStages, WorkTask, Works!Idle, Works!Spent
<1>2. InsertsKnown /\ CheckHolds
  BY DEF InsertsKnown, Knows, CheckHolds, Inserting, Works!Idle
<1>3. Unread
  BY DEF Unread, Works!Spent
<1>4. UniqueIdentifiers
  BY DEF UniqueIdentifiers, Works!UniqueIdentifiers, Works!Live
<1>5. RemovalsRecorded
  BY DEF RemovalsRecorded, Works!RemovalsRecorded, Works!Live
<1> QED
  BY <1>1, <1>2, <1>3, <1>4, <1>5 DEF WorksInv

\* The invariant holds in every state.
LEMMA WorksInvariance == MCSpec => []WorksInv
<1>1. MCInit => WorksInv
  BY WorksFirst DEF MCInit
<1>2. WorksInv /\ [MCNext]_<<subject, vars, tagVars, workVars, faceVars, editVars, pageVars>> =>
         WorksInv'
  <2> SUFFICES ASSUME WorksInv,
         [MCNext]_<<subject, vars, tagVars, workVars, faceVars, editVars, pageVars>>
               PROVE  WorksInv'
    OBVIOUS
  <2>1. CASE Works!Next
    BY <2>1, WorksStep
  <2>2. CASE UNCHANGED workVars
    <3>1. WorksTyped'
      BY <2>2 DEF WorksInv, WorksTyped, workVars
    <3>2. InsertsKnown' /\ CheckHolds'
      BY <2>2 DEF WorksInv, InsertsKnown, CheckHolds, Inserting, Works!Live, workVars
    <3>3. Unread'
      BY <2>2 DEF WorksInv, Unread, Works!Live, workVars
    <3>4. UniqueIdentifiers'
      BY <2>2 DEF WorksInv, UniqueIdentifiers, Works!UniqueIdentifiers, Works!Live, workVars
    <3>5. RemovalsRecorded'
      BY <2>2 DEF WorksInv, RemovalsRecorded, Works!RemovalsRecorded, Works!Live, Works!At, workVars
    <3> QED
      BY <3>1, <3>2, <3>3, <3>4, <3>5 DEF WorksInv
  <2> QED
    BY <2>1, <2>2 DEF MCNext
<1> QED
  BY <1>1, <1>2, PTL DEF MCSpec

\* Two works of one kind share an identifier only if their adds overlapped, or
\* an editor said so.
THEOREM IdentifiersUnique == MCSpec => []UniqueIdentifiers
BY WorksInvariance, PTL DEF WorksInv

\* Followers find every work that was removed, unless recording it failed, and no
\* media is left with one, unless it was given it meanwhile.
THEOREM RemovalsFound == MCSpec => []RemovalsRecorded
BY WorksInvariance, PTL DEF WorksInv

\* What a step does to a work whose task is at work on it.
KeepsEdits ==
  \A w \in Works!Live \ raced :
    /\ works[w].extra # None /\ task[w].pc \in {"queued", "read"} /\ task'[w] # task[w]
    => works'[w] = works[w]

\* A task that saw an identifier goes away without writing.
LEMMA EditsKept == WorksInv /\ Works!Next => KeepsEdits
<1> SUFFICES ASSUME WorksInv, Works!Next,
                    NEW w \in Works!Live \ raced, works[w].extra # None,
                    task[w].pc \in {"queued", "read"}, task'[w] # task[w]
             PROVE  works'[w] = works[w]
  BY DEF KeepsEdits
<1>0. w \in Works!Ids /\ works[w] # None /\ task[w].pc # "read" /\ task \in [Works!Ids -> WorkTask]
  BY DEF WorksInv, WorksTyped, Unread, Works!Live
<1>1. ASSUME NEW c \in Callers, Works!UpsertSerie(c) PROVE works'[w] = works[w]
  <2>1. CASE workCall[c].pc = "upsert"
    BY <1>1, <2>1 DEF Works!UpsertSerie, Works!At
  <2>2. CASE workCall[c].pc = "insertserie"
    <3>1. task' = [task EXCEPT ![worksUsed + 1] = [Works!Spent EXCEPT !.pc = "refresh"]]
             /\ worksUsed < MaxWorks
      BY <1>1, <2>2 DEF Works!UpsertSerie, Works!At, Works!InsertSerieRow, Works!InsertRow
    <3>2. w = worksUsed + 1
      BY <1>0, <3>1
    <3>3. w \in 1..worksUsed /\ worksUsed \in Nat
      BY <1>0, WorksAssumption DEF WorksInv, WorksTyped
    <3> QED
      BY <3>2, <3>3
  <2> QED
    BY <1>1, <2>1, <2>2 DEF Works!UpsertSerie, Works!At
<1>2. ASSUME NEW v \in Works!Ids, Works!RefreshNewSerie(v) PROVE FALSE
  <2>1. task[v].pc \in {"refresh", "refreshed"}
    BY <1>2 DEF Works!RefreshNewSerie
  <2>2. \E to : task' = [task EXCEPT ![v] = to]
    BY <1>2 DEF Works!RefreshNewSerie
  <2> QED
    BY <1>0, <2>1, <2>2
<1>3. ASSUME NEW v \in Works!Ids, Works!EnrichMovieIds(v) \/ Works!EnrichSerieIds(v)
             \/ Works!EnrichBookIds(v)
      PROVE  FALSE
  <2>1. task[v].pc = "read" /\ task' = [task EXCEPT ![v] = Works!Spent]
    BY <1>3 DEF Works!EnrichMovieIds, Works!EnrichSerieIds, Works!EnrichBookIds, Works!Enrich
  <2> QED
    BY <1>0, <2>1
<1>4. ASSUME UNCHANGED works \/ UNCHANGED task PROVE works'[w] = works[w]
  BY <1>4
<1> QED
  BY ZenonT(60), <1>1, <1>2, <1>3, <1>4
     DEF Works!Next, Works!AddMovie, Works!InsertMovie, Works!ImportMovie, Works!AddSerie,
         Works!InsertSerie, Works!ImportSerie, Works!AddBook, Works!ResolveSerie, Works!CheckBook,
         Works!InsertBook, Works!Added, Works!UpdateMovie, Works!UpdateSerie, Works!UpdateBook,
         Works!UpdateBookWrite, Works!StartRefresh, Works!RefreshMovie, Works!RefreshSerie,
         Works!Refreshed, Works!StartRemove, Works!RemoveSerieMedia, Works!RemoveMovie,
         Works!RemoveBook, Works!RemoveOwner, Works!RemoveSerie, Works!Record, Works!Return,
         Works!AttachMedia, Works!Checked, Works!Import, Works!EnrichRead

\* A task spawned for a new work replaces no identifier it did not see was missing.
THEOREM EnrichmentKeepsEdits == MCSpec => EnrichKeepsEdits
<1>1. WorksInv /\ [MCNext]_<<subject, vars, tagVars, workVars, faceVars, editVars, pageVars>>
        => [KeepsEdits]_(Works!vars)
  <2>1. WorksInv /\ MCNext => KeepsEdits \/ UNCHANGED Works!vars
    BY EditsKept DEF MCNext, workVars, Works!vars
  <2> QED
    BY <2>1 DEF workVars, Works!vars
<1> QED
  BY <1>1, WorksInvariance, PTL DEF MCSpec, EnrichKeepsEdits, Works!EnrichKeepsEdits, KeepsEdits

-----------------------------------------------------------------------------
(***************************************************************************)
(* TAGS                                                                    *)
(* A merge that no other request overlapped is alone, so that its items    *)
(* have the old tag until they have the new one, and the new one is only   *)
(* gone if the merge itself answers that it is.                            *)
(***************************************************************************)

\* The tags of the table have been made.
TagsMade ==
  /\ DOMAIN tags = Tags!Ids
  /\ tagsUsed \in 0..MaxTags
  /\ \A t \in Tags!Ids : tags[t] # None => t \in 1..tagsUsed

\* What is known of request c, whose record is r.
RequestForm(r) ==
  /\ DOMAIN r = {"pc", "op", "tag", "into", "seen", "had"}
  /\ r.pc \in {"merge", "recall"} => r.op = "merge"
  /\ r.pc \in {"update", "find", "make", "findLast", "makeLast"} => r.op = None
  /\ r.pc = "remove" => r.op \in {"merge", "remove"}
  /\ r.op = "merge" => r.into \in 1..tagsUsed /\ r.had \subseteq Tags!Kinds

\* A merge that nothing overlapped is alone.
MergeAlone ==
  \A c \in Callers : tagCall[c].op = "merge" /\ c \notin crossed =>
    \A d \in Callers : d # c => tagCall[d].op = None

\* Its items have the old tag until they have the new one, if that is left.
ItemsTagged ==
  \A c \in Callers : tagCall[c].op = "merge" /\ c \notin crossed =>
    /\ tagCall[c].pc = "merge" => \A k \in tagCall[c].had : <<k, tagCall[c].tag>> \in tagMapping
    /\ tagCall[c].pc \in {"remove", "recall"} /\ tags[tagCall[c].into] # None =>
         \A k \in tagCall[c].had \ {"book"} : <<k, tagCall[c].into>> \in tagMapping

\* What the answer to a merge rests on.
TagsInv ==
  /\ TagsMade
  /\ DOMAIN tagCall = Callers /\ \A c \in Callers : RequestForm(tagCall[c])
  /\ MergeAlone /\ ItemsTagged

\* Every step leaves the tags that are gone gone, and the made ones made.
LEMMA TagsGone ==
  ASSUME TagsMade, Tags!Next
  PROVE  /\ TagsMade' /\ tagsUsed <= tagsUsed'
         /\ \A t \in 1..tagsUsed : tags[t] = None => tags'[t] = None
<1> DEFINE Goal == /\ TagsMade' /\ tagsUsed <= tagsUsed'
                   /\ \A t \in 1..tagsUsed : tags[t] = None => tags'[t] = None
<1> USE TagsAssumption DEF TagsMade, Tags!Ids
<1>1. ASSUME NEW name, NEW parent, Tags!AddRow(name, parent) PROVE Goal
  <2>1. PICK row : tags' = [tags EXCEPT ![tagsUsed + 1] = row]
    BY <1>1 DEF Tags!AddRow
  <2>2. tagsUsed' = tagsUsed + 1 /\ tagsUsed < MaxTags
    BY <1>1 DEF Tags!AddRow
  <2> QED
    BY <2>1, <2>2
<1>2. ASSUME tagsUsed' = tagsUsed, DOMAIN tags' = Tags!Ids,
             \A t \in Tags!Ids : tags[t] = None => tags'[t] = None
      PROVE  Goal
  BY <1>2
<1>3. ASSUME NEW t, NEW seen, NEW name, Tags!RenameRow(t, seen, name), UNCHANGED tagsUsed PROVE Goal
  <2> DEFINE named == IF tags[t] = None THEN tags ELSE [tags EXCEPT ![t].name = name]
  <2>1. \A u \in Tags!Ids : tags[u] = None => named[u] = None
    OBVIOUS
  <2>2. PICK from, to : tags' = Tags!MovePaths(named, from, to)
    BY <1>3 DEF Tags!RenameRow
  <2> HIDE DEF named
  <2>3. DOMAIN tags' = Tags!Ids /\ \A u \in Tags!Ids : named[u] = None => tags'[u] = None
    BY <2>2 DEF Tags!MovePaths
  <2> QED
    BY <1>2, <1>3, <2>1, <2>3
<1>4. ASSUME NEW t, NEW seen, NEW parent, Tags!MoveRow(t, seen, parent), UNCHANGED tagsUsed
      PROVE Goal
  <2> DEFINE below == Tags!ChildsPath(tags[parent])
             placed == IF tags[t] = None THEN tags ELSE [tags EXCEPT ![t].parent = parent,
                ![t].path = below]
  <2>1. \A u \in Tags!Ids : tags[u] = None => placed[u] = None
    OBVIOUS
  <2>2. PICK from, to : tags' = Tags!MovePaths(placed, from, to)
    BY <1>4 DEF Tags!MoveRow
  <2> HIDE DEF placed
  <2>3. DOMAIN tags' = Tags!Ids /\ \A u \in Tags!Ids : placed[u] = None => tags'[u] = None
    BY <2>2 DEF Tags!MovePaths
  <2> QED
    BY <1>2, <1>4, <2>1, <2>3
<1>5. ASSUME NEW t, Tags!RemoveRow(t), UNCHANGED tagsUsed PROVE Goal
  BY <1>2, <1>5 DEF Tags!RemoveRow
<1>6. ASSUME UNCHANGED <<tags, tagsUsed>> PROVE Goal
  BY <1>6
<1> QED
  BY <1>1, <1>3, <1>4, <1>5, <1>6
     DEF Tags!Next, Tags!AddTag, Tags!TagItem, Tags!StartUpdate, Tags!Rename, Tags!Move,
         Tags!StartMerge, Tags!Migrate, Tags!MergeFails, Tags!MergeAnswers, Tags!StartRemove,
         Tags!RemoveTag, Tags!RemoveFails, Tags!StartPath, Tags!FindParent, Tags!MakeParent,
         Tags!FindLast, Tags!MakeLast, Tags!Return

\* A request becomes one that merges nothing.
LEMMA OtherKept ==
  ASSUME TagsInv, Tags!Next, NEW c \in Callers, NEW r, tagCall' = [tagCall EXCEPT ![c] = r],
         DOMAIN r = {"pc", "op", "tag", "into", "seen", "had"}, r.op = None,
         r.pc \notin {"merge", "recall", "remove"}, UNCHANGED crossed,
         \A x \in tagMapping : x \in tagMapping'
  PROVE  TagsInv'
<1>1. TagsMade' /\ tagsUsed <= tagsUsed' /\ \A t \in 1..tagsUsed : tags[t] = None => tags'[t] = None
  BY TagsGone DEF TagsInv
<1>2. tagsUsed \in Nat /\ tagsUsed' \in Nat
  BY <1>1, TagsAssumption DEF TagsInv, TagsMade
<1>3. r.op # "merge"
  BY TagsAssumption
<1>4. \A d \in Callers : d # c => tagCall'[d] = tagCall[d]
  BY DEF TagsInv
<1>5. tagCall'[c] = r /\ DOMAIN tagCall' = Callers
  BY DEF TagsInv
<1>6. \A d \in Callers : RequestForm(tagCall[d])'
  BY <1>1, <1>2, <1>3, <1>4, <1>5, TagsAssumption DEF TagsInv, RequestForm
<1>7. MergeAlone'
  BY <1>3, <1>4, <1>5 DEF TagsInv, MergeAlone
<1>8. ItemsTagged'
  <2>1. \A d \in Callers : tagCall'[d].op = "merge" =>
           d # c /\ tagCall'[d] = tagCall[d] /\ tagCall[d].into \in 1..tagsUsed
    BY <1>3, <1>4, <1>5 DEF TagsInv, RequestForm
  <2> QED
    BY <1>1, <2>1 DEF TagsInv, ItemsTagged
<1> QED
  BY <1>1, <1>5, <1>6, <1>7, <1>8 DEF TagsInv

\* A request that goes on with its merge or removal, the mappings grown at most.
LEMMA GoesOnKept ==
  ASSUME TagsInv, Tags!Next, NEW c \in Callers, NEW pc,
         tagCall' = [tagCall EXCEPT ![c].pc = pc], UNCHANGED crossed,
         pc \in {"failed", "ok"}, UNCHANGED tagMapping
  PROVE  TagsInv'
<1> DEFINE r == [tagCall[c] EXCEPT !.pc = pc]
<1>1. TagsMade' /\ tagsUsed <= tagsUsed' /\ \A t \in 1..tagsUsed : tags[t] = None => tags'[t] = None
  BY TagsGone DEF TagsInv
<1>2. tagsUsed \in Nat /\ tagsUsed' \in Nat
  BY <1>1, TagsAssumption DEF TagsInv, TagsMade
<1>3. /\ DOMAIN r = {"pc", "op", "tag", "into", "seen", "had"}
      /\ r.pc = pc /\ r.op = tagCall[c].op /\ r.into = tagCall[c].into /\ r.had = tagCall[c].had
  BY DEF TagsInv, RequestForm
<1>4. /\ DOMAIN tagCall' = Callers /\ tagCall'[c] = r
      /\ \A d \in Callers : d # c => tagCall'[d] = tagCall[d]
  BY DEF TagsInv
<1> HIDE DEF r
<1>6. \A d \in Callers : RequestForm(tagCall[d])'
  BY <1>1, <1>2, <1>3, <1>4 DEF TagsInv, RequestForm
<1>7. MergeAlone'
  BY <1>3, <1>4 DEF TagsInv, MergeAlone
<1>8. ItemsTagged'
  <2>1. \A d \in Callers : tagCall'[d].op = "merge"
           /\ tagCall'[d].pc \in {"merge", "remove", "recall"} =>
          tagCall'[d] = tagCall[d] /\ tagCall[d].into \in 1..tagsUsed
    BY <1>3, <1>4 DEF TagsInv, RequestForm
  <2> QED
    BY <1>1, <2>1 DEF TagsInv, ItemsTagged
<1> QED
  BY <1>1, <1>4, <1>6, <1>7, <1>8 DEF TagsInv

\* A merge, or a removal, begins: it crosses those that are under way.
LEMMA BeginKept ==
  ASSUME TagsInv, Tags!Next, NEW c \in Callers, NEW r, tagCall' = [tagCall EXCEPT ![c] = r],
         DOMAIN r = {"pc", "op", "tag", "into", "seen", "had"},
         \/ /\ r.pc = "merge" /\ r.op = "merge" /\ r.into \in 1..tagsUsed
            /\ r.had = {k \in Tags!Kinds : <<k, r.tag>> \in tagMapping}
         \/ r.pc = "remove" /\ r.op = "remove",
         Tags!Crosses(c), UNCHANGED tagMapping
  PROVE  TagsInv'
<1>1. TagsMade' /\ tagsUsed <= tagsUsed' /\ \A t \in 1..tagsUsed : tags[t] = None => tags'[t] = None
  BY TagsGone DEF TagsInv
<1>2. tagsUsed \in Nat /\ tagsUsed' \in Nat
  BY <1>1, TagsAssumption DEF TagsInv, TagsMade
<1>4. /\ DOMAIN tagCall' = Callers /\ tagCall'[c] = r
      /\ \A d \in Callers : d # c => tagCall'[d] = tagCall[d]
  BY DEF TagsInv
<1>5. /\ \A d \in Callers : d # c /\ tagCall[d].op # None => d \in crossed'
      /\ c \notin crossed' => \A d \in Callers : d # c => tagCall[d].op = None
  BY DEF Tags!Crosses, Tags!Busy
<1>6. \A d \in Callers : RequestForm(tagCall[d])'
  <2>1. r.had \subseteq Tags!Kinds \/ r.op = "remove"
    OBVIOUS
  <2>2. RequestForm(r)'
    BY <1>1, <1>2, <2>1, TagsAssumption DEF RequestForm
  <2>3. \A d \in Callers : d # c => RequestForm(tagCall[d])'
    BY <1>1, <1>2, <1>4 DEF TagsInv, RequestForm
  <2> QED
    BY <1>4, <2>2, <2>3 DEF RequestForm
<1>7. \A d \in Callers : tagCall'[d].op = "merge" /\ d \notin crossed' => d = c
  BY <1>4, <1>5, TagsAssumption
<1>8. MergeAlone'
  BY <1>4, <1>5, <1>7 DEF MergeAlone
<1>9. ItemsTagged'
  BY <1>4, <1>7 DEF ItemsTagged
<1> QED
  BY <1>1, <1>4, <1>6, <1>8, <1>9 DEF TagsInv

\* A step of request c with a merge or removal of its own: nobody else's items move
\* without a trace.
LEMMA OwnStepKept ==
  ASSUME TagsInv, Tags!Next, NEW c \in Callers, NEW pc,
         tagCall' = [tagCall EXCEPT ![c].pc = pc], UNCHANGED crossed, tagCall[c].op # None,
         RequestForm([tagCall[c] EXCEPT !.pc = pc]),
         tagCall[c].op = "merge" /\ c \notin crossed =>
           /\ pc \in {"remove", "recall"}
           /\ tags'[tagCall[c].into] # None =>
                 \A k \in tagCall[c].had \ {"book"} : <<k, tagCall[c].into>> \in tagMapping'
  PROVE  TagsInv'
<1> DEFINE r == [tagCall[c] EXCEPT !.pc = pc]
<1>1. TagsMade' /\ tagsUsed <= tagsUsed'
  BY TagsGone DEF TagsInv
<1>2. tagsUsed \in Nat /\ tagsUsed' \in Nat
  BY <1>1, TagsAssumption DEF TagsInv, TagsMade
<1>3. /\ DOMAIN r = {"pc", "op", "tag", "into", "seen", "had"} /\ RequestForm(r)
      /\ r.pc = pc /\ r.op = tagCall[c].op /\ r.into = tagCall[c].into /\ r.had = tagCall[c].had
  BY DEF TagsInv, RequestForm
<1>4. /\ DOMAIN tagCall' = Callers /\ tagCall'[c] = r
      /\ \A d \in Callers : d # c => tagCall'[d] = tagCall[d]
  BY DEF TagsInv
<1> HIDE DEF r
<1>6. \A d \in Callers : RequestForm(tagCall[d])'
  BY <1>1, <1>2, <1>3, <1>4 DEF TagsInv, RequestForm
<1>7. \A d \in Callers : tagCall'[d].op = "merge" /\ d \notin crossed' =>
         d = c /\ tagCall[c].op = "merge"
  BY <1>3, <1>4 DEF TagsInv, MergeAlone
<1>8. MergeAlone'
  BY <1>3, <1>4 DEF TagsInv, MergeAlone
<1>9. ItemsTagged'
  BY <1>3, <1>4, <1>7 DEF ItemsTagged
<1> QED
  BY <1>1, <1>4, <1>6, <1>8, <1>9 DEF TagsInv

\* Every step of every request keeps it.
LEMMA TagsStep == TagsInv /\ Tags!Next => TagsInv'
<1> SUFFICES ASSUME TagsInv, Tags!Next PROVE TagsInv'
  OBVIOUS
<1>0. \A c \in Callers : RequestForm(tagCall[c])
         /\ DOMAIN tagCall[c] = {"pc", "op", "tag", "into", "seen", "had"}
  BY DEF TagsInv, RequestForm
<1>a. TagsMade' /\ tagsUsed <= tagsUsed' /\ \A t \in 1..tagsUsed : tags[t] = None => tags'[t] = None
  BY TagsGone DEF TagsInv
<1>b. tagsUsed \in Nat /\ tagsUsed' \in Nat
  BY <1>a, TagsAssumption DEF TagsInv, TagsMade
<1>1. ASSUME NEW c \in Callers, Tags!AddTag(c) \/ Tags!TagItem(c) PROVE TagsInv'
  <2>1. UNCHANGED <<tagCall, crossed>> /\ \A x \in tagMapping : x \in tagMapping'
    BY <1>1 DEF Tags!AddTag, Tags!TagItem
  <2>2. \A d \in Callers : RequestForm(tagCall[d])'
    BY <1>0, <1>a, <1>b, <2>1 DEF RequestForm
  <2>3. MergeAlone'
    BY <2>1 DEF TagsInv, MergeAlone
  <2>4. ItemsTagged'
    <3>1. \A d \in Callers : tagCall[d].op = "merge" => tagCall[d].into \in 1..tagsUsed
      BY <1>0 DEF RequestForm
    <3> QED
      BY <1>a, <2>1, <3>1 DEF TagsInv, ItemsTagged
  <2> QED
    BY <1>a, <2>1, <2>2, <2>3, <2>4 DEF TagsInv
<1>2. ASSUME NEW c \in Callers, NEW to, NEW pc \in {"update", "find", "idle"},
             tagCall' = [tagCall EXCEPT ![c] = to],
             to.pc = pc, to.op = None, DOMAIN to = {"pc", "op", "tag", "into", "seen", "had"},
             UNCHANGED <<tagMapping, crossed>>
      PROVE  TagsInv'
  BY <1>2, OtherKept
<1>i. /\ DOMAIN Tags!Idle = {"pc", "op", "tag", "into", "seen", "had"} /\ Tags!Idle.op = None
            /\ Tags!Idle.pc = "idle"
  BY DEF Tags!Idle
<1>3. ASSUME NEW c \in Callers, Tags!Rename(c) \/ Tags!Move(c) \/ Tags!Return(c) PROVE TagsInv'
  <2>1. tagCall' = [tagCall EXCEPT ![c] = Tags!Idle] /\ UNCHANGED <<tagMapping, crossed>>
    BY <1>3 DEF Tags!Rename, Tags!Move, Tags!Return, Tags!Becomes
  <2> QED
    BY <2>1, <1>i, <1>2
<1>4. ASSUME NEW c \in Callers, Tags!StartUpdate(c) PROVE TagsInv'
  <2>1. PICK t \in Tags!Live :
           tagCall' = [tagCall EXCEPT ![c] = [Tags!Idle EXCEPT !.pc = "update", !.tag = t,
              !.seen = tags[t]]]
    BY <1>4 DEF Tags!StartUpdate, Tags!Becomes
  <2> DEFINE to == [Tags!Idle EXCEPT !.pc = "update", !.tag = t, !.seen = tags[t]]
  <2>2. tagCall' = [tagCall EXCEPT ![c] = to] /\ to.pc = "update" /\ to.op = None
           /\ DOMAIN to = {"pc", "op", "tag", "into", "seen", "had"}
    BY <2>1 DEF Tags!Idle
  <2>3. UNCHANGED <<tagMapping, crossed>>
    BY <1>4 DEF Tags!StartUpdate
  <2> HIDE DEF to
  <2> QED
    BY <2>2, <2>3, <1>2
<1>5. ASSUME NEW c \in Callers, Tags!StartPath(c) PROVE TagsInv'
  <2>1. PICK first, last \in Looks :
           tagCall' = [tagCall EXCEPT ![c] = [Tags!Idle EXCEPT !.pc = "find", !.seen = <<first,
              last>>]]
    BY <1>5 DEF Tags!StartPath, Tags!Becomes
  <2> DEFINE to == [Tags!Idle EXCEPT !.pc = "find", !.seen = <<first, last>>]
  <2>2. tagCall' = [tagCall EXCEPT ![c] = to] /\ to.pc = "find" /\ to.op = None
           /\ DOMAIN to = {"pc", "op", "tag", "into", "seen", "had"}
    BY <2>1 DEF Tags!Idle
  <2>3. UNCHANGED <<tagMapping, crossed>>
    BY <1>5 DEF Tags!StartPath
  <2> HIDE DEF to
  <2> QED
    BY <2>2, <2>3, <1>2
\* The two tags of a path, found or made.
<1>6. ASSUME NEW c \in Callers, NEW to, tagCall' = [tagCall EXCEPT ![c] = to],
             tagCall[c].pc \in {"find", "make", "findLast", "makeLast"},
             to.pc \in {"make", "findLast", "makeLast", "ok", "failed"}, to.op = tagCall[c].op,
             DOMAIN to = DOMAIN tagCall[c], UNCHANGED <<tagMapping, crossed>>
      PROVE  TagsInv'
  <2>1. to.op = None
    BY <1>0, <1>6 DEF RequestForm
  <2>2. DOMAIN to = {"pc", "op", "tag", "into", "seen", "had"}
           /\ to.pc \notin {"merge", "recall", "remove"}
    BY <1>0, <1>6
  <2> QED
    BY <1>6, <2>1, <2>2, OtherKept
<1>7. ASSUME NEW c \in Callers, NEW pc \in {"make", "findLast", "makeLast", "ok", "failed"},
             tagCall' = [tagCall EXCEPT ![c].pc = pc],
             tagCall[c].pc \in {"find", "make", "findLast", "makeLast"},
                UNCHANGED <<tagMapping, crossed>>
      PROVE  TagsInv'
  <2> DEFINE to == [tagCall[c] EXCEPT !.pc = pc]
  <2>1. to.pc = pc /\ to.op = tagCall[c].op /\ DOMAIN to = DOMAIN tagCall[c]
    BY <1>0
  <2>2. tagCall' = [tagCall EXCEPT ![c] = to]
    BY <1>7
  <2> HIDE DEF to
  <2> QED
    BY <1>6, <1>7, <2>1, <2>2
<1>8. ASSUME NEW c \in Callers, NEW t,
             tagCall' = [tagCall EXCEPT ![c] = [tagCall[c] EXCEPT !.pc = "findLast", !.tag = t]],
             tagCall[c].pc \in {"find", "make", "findLast", "makeLast"},
                UNCHANGED <<tagMapping, crossed>>
      PROVE  TagsInv'
  <2> DEFINE to == [tagCall[c] EXCEPT !.pc = "findLast", !.tag = t]
  <2>1. to.pc = "findLast" /\ to.op = tagCall[c].op /\ DOMAIN to = DOMAIN tagCall[c]
    BY <1>0
  <2>2. tagCall' = [tagCall EXCEPT ![c] = to]
    BY <1>8
  <2> HIDE DEF to
  <2> QED
    BY <1>6, <1>8, <2>1, <2>2
<1>9. ASSUME NEW c \in Callers, Tags!FindParent(c) \/ Tags!MakeParent(c) \/ Tags!FindLast(c)
             \/ Tags!MakeLast(c) PROVE TagsInv'
  <2>1. tagCall[c].pc \in {"find", "make", "findLast", "makeLast"}
           /\ UNCHANGED <<tagMapping, crossed>>
    BY <1>9 DEF Tags!FindParent, Tags!MakeParent, Tags!FindLast, Tags!MakeLast, Tags!At
  <2>2. \/ \E t : tagCall' = [tagCall EXCEPT ![c] = [tagCall[c] EXCEPT !.pc = "findLast",
              !.tag = t]]
        \/ \E pc \in {"make", "makeLast", "ok", "failed"} : tagCall' = [tagCall EXCEPT ![c].pc = pc]
    BY <1>9 DEF Tags!FindParent, Tags!MakeParent, Tags!FindLast, Tags!MakeLast, Tags!Becomes,
       Tags!Answer
  <2> QED
    BY <2>1, <2>2, <1>7, <1>8
<1>10. ASSUME NEW c \in Callers, Tags!MergeFails(c) \/ Tags!MergeAnswers(c) \/ Tags!RemoveFails(c)
       PROVE TagsInv'
  <2>1. UNCHANGED <<tagMapping, crossed>> /\ \E pc \in {"failed", "ok"} :
           tagCall' = [tagCall EXCEPT ![c].pc = pc]
    BY <1>10 DEF Tags!MergeFails, Tags!MergeAnswers, Tags!RemoveFails, Tags!Answer
  <2> QED
    BY <2>1, GoesOnKept
<1>11. ASSUME NEW c \in Callers, Tags!StartMerge(c) PROVE TagsInv'
  <2>1. PICK old \in Tags!Live, into \in Tags!Live :
          tagCall' = [tagCall EXCEPT ![c] = [Tags!Idle EXCEPT !.pc = "merge", !.op = "merge",
             !.tag = old, !.into = into,
                     !.had = {k \in Tags!Kinds : <<k, old>> \in tagMapping}]]
    BY <1>11 DEF Tags!StartMerge, Tags!Becomes
  <2> DEFINE to == [Tags!Idle EXCEPT !.pc = "merge", !.op = "merge", !.tag = old, !.into = into,
                     !.had = {k \in Tags!Kinds : <<k, old>> \in tagMapping}]
  <2>2. /\ tagCall' = [tagCall EXCEPT ![c] = to]
              /\ DOMAIN to = {"pc", "op", "tag", "into", "seen", "had"}
        /\ to.pc = "merge" /\ to.op = "merge" /\ to.into = into /\ to.tag = old
        /\ to.had = {k \in Tags!Kinds : <<k, old>> \in tagMapping}
    BY <2>1 DEF Tags!Idle
  <2>3. into \in 1..tagsUsed
    BY DEF TagsInv, TagsMade, Tags!Live
  <2>4. UNCHANGED tagMapping /\ Tags!Crosses(c)
    BY <1>11 DEF Tags!StartMerge
  <2> HIDE DEF to
  <2> QED
    BY <2>2, <2>3, <2>4, BeginKept
<1>12. ASSUME NEW c \in Callers, Tags!StartRemove(c) PROVE TagsInv'
  <2>1. PICK t \in Tags!Live :
           tagCall' = [tagCall EXCEPT ![c] = [Tags!Idle EXCEPT !.pc = "remove", !.op = "remove",
              !.tag = t]]
    BY <1>12 DEF Tags!StartRemove, Tags!Becomes
  <2> DEFINE to == [Tags!Idle EXCEPT !.pc = "remove", !.op = "remove", !.tag = t]
  <2>2. /\ tagCall' = [tagCall EXCEPT ![c] = to]
              /\ DOMAIN to = {"pc", "op", "tag", "into", "seen", "had"}
        /\ to.pc = "remove" /\ to.op = "remove"
    BY <2>1 DEF Tags!Idle
  <2>4. UNCHANGED tagMapping /\ Tags!Crosses(c)
    BY <1>12 DEF Tags!StartRemove
  <2> HIDE DEF to
  <2> QED
    BY <2>2, <2>4, BeginKept
<1>13. ASSUME NEW c \in Callers, Tags!Migrate(c) PROVE TagsInv'
  <2> DEFINE old == tagCall[c].tag
             into == tagCall[c].into
             moving == {k \in {"media", "channel"} : <<k, old>> \in tagMapping}
  <2>1. /\ tagCall[c].pc = "merge" /\ tagCall' = [tagCall EXCEPT ![c].pc = "remove"]
              /\ UNCHANGED crossed
        /\ tagMapping' = {x \in tagMapping : x[2] # old \/ x[1] = "book"} \cup (moving \X {into})
    BY <1>13 DEF Tags!Migrate, Tags!At, Tags!Answer, Tags!MigrateRows
  <2>2. tagCall[c].op = "merge" /\ tagCall[c].op # None /\ tagCall[c].had \subseteq Tags!Kinds
    BY <1>0, <2>1, TagsAssumption DEF RequestForm
  <2>3. RequestForm([tagCall[c] EXCEPT !.pc = "remove"])
    BY <1>0, <2>2 DEF RequestForm
  <2>4. ASSUME c \notin crossed, NEW k \in tagCall[c].had \ {"book"}
        PROVE <<k, into>> \in tagMapping'
    <3>1. <<k, old>> \in tagMapping
      BY <2>1, <2>2, <2>4 DEF TagsInv, ItemsTagged
    <3>2. k \in moving
      BY <2>2, <3>1 DEF Tags!Kinds
    <3> HIDE DEF moving, old, into
    <3> QED
      BY <2>1, <3>2
  <2> QED
    BY <2>1, <2>2, <2>3, <2>4, OwnStepKept
<1>14. ASSUME NEW c \in Callers, Tags!RemoveTag(c) PROVE TagsInv'
  <2> DEFINE gone == {tagCall[c].tag} \cup Tags!Under(tags, tags[tagCall[c].tag])
             pc == IF tagCall[c].op = "merge" THEN "recall" ELSE "ok"
  <2>1. /\ tagCall[c].pc = "remove" /\ tagCall' = [tagCall EXCEPT ![c].pc = pc] /\ UNCHANGED crossed
        /\ tagMapping' = {x \in tagMapping : x[2] \notin gone}
        /\ tags' = [u \in Tags!Ids |-> IF u \in gone THEN None ELSE tags[u]]
    BY <1>14 DEF Tags!RemoveTag, Tags!At, Tags!Answer, Tags!RemoveRow, Tags!CascadeMappings
  <2>2. tagCall[c].op \in {"merge", "remove"} /\ tagCall[c].op # None
    BY <1>0, <2>1, TagsAssumption DEF RequestForm
  <2>3. RequestForm([tagCall[c] EXCEPT !.pc = pc])
    BY <1>0, <2>2 DEF RequestForm
  <2>4. ASSUME tagCall[c].op = "merge", c \notin crossed, tags'[tagCall[c].into] # None
        PROVE  \A k \in tagCall[c].had \ {"book"} : <<k, tagCall[c].into>> \in tagMapping'
    <3>1. tagCall[c].into \in Tags!Ids
      BY <1>0, <2>4, TagsAssumption DEF RequestForm, TagsInv, TagsMade, Tags!Ids
    <3>2. tagCall[c].into \notin gone /\ tags[tagCall[c].into] # None
      BY <2>1, <2>4, <3>1
    <3>3. \A k \in tagCall[c].had \ {"book"} : <<k, tagCall[c].into>> \in tagMapping
      BY <2>1, <2>4, <3>2 DEF TagsInv, ItemsTagged
    <3> HIDE DEF gone
    <3> QED
      BY <2>1, <3>2, <3>3
  <2> HIDE DEF gone
  <2> QED
    BY <2>1, <2>2, <2>3, <2>4, OwnStepKept
<1> QED
  BY <1>1, <1>3, <1>4, <1>5, <1>9, <1>10, <1>11, <1>12, <1>13, <1>14 DEF Tags!Next

\* At first nothing is asked.
LEMMA TagsFirst == Tags!Init => TagsInv
<1> SUFFICES ASSUME Tags!Init PROVE TagsInv
  OBVIOUS
<1>1. TagsMade
  <2>1. tagsUsed \in 0..MaxTags
    BY DEF Tags!Init
  <2>2. DOMAIN tags = Tags!Ids /\ \A t \in Tags!Ids : t > tagsUsed => tags[t] = None
    BY DEF Tags!Init
  <2> QED
    BY <2>1, <2>2, TagsAssumption DEF TagsMade, Tags!Ids
<1>2. tagCall = [c \in Callers |-> Tags!Idle]
  BY DEF Tags!Init
<1>3. \A c \in Callers : tagCall[c].op = None /\ RequestForm(tagCall[c])
  BY <1>2, TagsAssumption DEF RequestForm, Tags!Idle
<1> QED
  BY <1>1, <1>2, <1>3, TagsAssumption DEF TagsInv, MergeAlone, ItemsTagged

\* The invariant holds in every state.
LEMMA TagsInvariance == MCSpec => []TagsInv
<1>1. MCInit => TagsInv
  BY TagsFirst DEF MCInit
<1>2. TagsInv /\ [MCNext]_<<subject, vars, tagVars, workVars, faceVars, editVars, pageVars>> =>
         TagsInv'
  <2>1. TagsInv /\ UNCHANGED tagVars => TagsInv'
    BY DEF TagsInv, TagsMade, RequestForm, MergeAlone, ItemsTagged, tagVars
  <2> QED
    BY <2>1, TagsStep DEF MCNext
<1> QED
  BY <1>1, <1>2, PTL DEF MCSpec

\* The answer to a merge is true.
MergeTrue ==
  \A c \in Callers :
    tagCall[c].pc = "recall" /\ tagCall'[c].pc = "ok" /\ c \notin crossed =>
      \A k \in tagCall[c].had \ {"book"} : \E t \in Tags!Live : <<k, t>> \in tagMapping

\* A merge that answers read the tag its items went to, after they had it.
LEMMA AnswerTrue == TagsInv /\ Tags!Next => MergeTrue
<1> SUFFICES ASSUME TagsInv, Tags!Next, NEW c \in Callers, tagCall[c].pc = "recall",
                    tagCall'[c].pc = "ok", c \notin crossed,
                    NEW k \in tagCall[c].had \ {"book"}
             PROVE  \E t \in Tags!Live : <<k, t>> \in tagMapping
  BY DEF MergeTrue
<1>1. tagCall[c].op = "merge" /\ tagCall[c].into \in Tags!Ids
  BY TagsAssumption DEF TagsInv, TagsMade, RequestForm, Tags!Ids
<1>2. tags[tagCall[c].into] # None
  <2>1. PICK d \in Callers :
           \/ Tags!AddTag(d) \/ Tags!TagItem(d) \/ Tags!StartUpdate(d) \/ Tags!Rename(d)
                 \/ Tags!Move(d)
           \/ Tags!StartMerge(d) \/ Tags!Migrate(d) \/ Tags!MergeFails(d) \/ Tags!MergeAnswers(d)
           \/ Tags!StartRemove(d) \/ Tags!RemoveTag(d) \/ Tags!RemoveFails(d)
           \/ Tags!StartPath(d) \/ Tags!FindParent(d) \/ Tags!MakeParent(d) \/ Tags!FindLast(d)
                 \/ Tags!MakeLast(d)
           \/ Tags!Return(d)
    BY DEF Tags!Next
  <2>2. CASE d # c
    <3>1. tagCall'[c] = tagCall[c]
      BY <2>1, <2>2 DEF TagsInv, Tags!AddTag, Tags!TagItem, Tags!StartUpdate, Tags!Rename,
         Tags!Move,
         Tags!StartMerge, Tags!Migrate, Tags!MergeFails, Tags!MergeAnswers, Tags!StartRemove,
         Tags!RemoveTag, Tags!RemoveFails, Tags!StartPath, Tags!FindParent, Tags!MakeParent,
         Tags!FindLast, Tags!MakeLast, Tags!Return, Tags!Becomes, Tags!Answer
    <3> QED
      BY <3>1
  <2>3. CASE d = c
    <3>1. Tags!MergeAnswers(c) \/ Tags!Return(c) \/ UNCHANGED tagCall
      BY <2>1, <2>3 DEF Tags!AddTag, Tags!TagItem, Tags!StartUpdate, Tags!Rename, Tags!Move,
         Tags!StartMerge, Tags!Migrate, Tags!MergeFails, Tags!StartRemove,
         Tags!RemoveTag, Tags!RemoveFails, Tags!StartPath, Tags!FindParent, Tags!MakeParent,
         Tags!FindLast, Tags!MakeLast, Tags!Starts, Tags!At
    <3>2. CASE Tags!Return(c)
      BY <3>2 DEF TagsInv, Tags!Return, Tags!Becomes, Tags!Idle
    <3>3. CASE Tags!MergeAnswers(c)
      <4>1. tagCall' = [tagCall EXCEPT ![c].pc = IF tags[tagCall[c].into] = None THEN "failed" ELSE "ok"]
        BY <3>3 DEF Tags!MergeAnswers, Tags!Answer
      <4>2. tagCall'[c].pc = IF tags[tagCall[c].into] = None THEN "failed" ELSE "ok"
        BY <4>1 DEF TagsInv, RequestForm
      <4> QED
        BY <4>2
    <3> QED
      BY <3>1, <3>2, <3>3
  <2> QED
    BY <2>2, <2>3
<1>3. <<k, tagCall[c].into>> \in tagMapping
  BY <1>1, <1>2 DEF TagsInv, ItemsTagged
<1> QED
  BY <1>1, <1>2, <1>3 DEF Tags!Live

\* A media or a channel that had the old tag of a merge has one, when the merge answers.
THEOREM MergesKeepItems == MCSpec => MergeKeepsItems
<1>1. TagsInv /\ [MCNext]_<<subject, vars, tagVars, workVars, faceVars, editVars, pageVars>>
        => [MergeTrue]_(Tags!vars)
  <2>1. TagsInv /\ MCNext => MergeTrue \/ UNCHANGED Tags!vars
    BY AnswerTrue DEF MCNext, tagVars, Tags!vars
  <2> QED
    BY <2>1 DEF tagVars, Tags!vars
<1> QED
  BY <1>1, TagsInvariance, PTL DEF MCSpec, MergeKeepsItems, Tags!MergeKeepsItems, MergeTrue

-----------------------------------------------------------------------------
(***************************************************************************)
(* EDITS OF A MEDIA                                                        *)
(* What an update read as there, and therefore does not write, is there    *)
(* still unless another change is noted in undone since; so what it        *)
(* asked for is there when it answers.                                     *)
(***************************************************************************)

\* Where an update or a processing is.
EditStages == {"idle", "read", "find", "path", "make", "made", "write", "reread", "ok", "failed",
               "existing", "faces", "infos", "predict"}

\* What it has at hand.
EditRecord ==
  [pc : EditStages, step : {None, "faces", "infos", "predict"}, todo : SUBSET Mains,
   made : 0..MaxMadeTags, add : SUBSET MediaEdits!Tags,
   conf : {MediaEdits!Sure, MediaEdits!Predicted}, who : SUBSET Medias, seek : SUBSET Medias,
   off : SUBSET MediaEdits!Tags, exact : SUBSET MediaEdits!Tags, here : SUBSET Medias]

\* The types of the rows, and the tags made so far.
EditsTyped ==
  /\ mediaTag \in [MediaEdits!Tags -> Mains \cup {None}]
  /\ mediaTagsUsed \in 0..MaxMadeTags
  /\ \A t \in MediaEdits!Tags : mediaTag[t] # None => t \in 1..mediaTagsUsed
  /\ tagged \in [MediaEdits!Tags -> {0, MediaEdits!Exact, MediaEdits!Predicted, MediaEdits!Sure}]
  /\ mediaPeople \subseteq Medias /\ inMedia \subseteq Medias
  /\ edit \in [Callers -> EditRecord]
  /\ DOMAIN undone = Callers

\* What is known of an update, whose record is r.
EditForm(r) ==
  /\ r.pc = "idle" => r.exact = {} /\ r.here = {}
  /\ r.pc = "predict" => r.step = "predict"
  /\ r.step = None => r.conf = MediaEdits!Sure

\* What c read as there, and will not write, is there, if nobody else changed it.
StillThere(c) ==
  /\ \A t \in edit[c].exact \ undone[c] : tagged[t] = MediaEdits!Exact
  /\ \A p \in edit[c].here \ undone[c] : p \in inMedia

\* What c wrote is there.
Taken(c) ==
  edit[c].pc \in {"reread", "ok"} /\ edit[c].step = None =>
    /\ \A t \in edit[c].add \ undone[c] : t \notin edit[c].off =>
          tagged[t] \in {MediaEdits!Sure, MediaEdits!Exact}
    /\ \A p \in edit[c].who \ undone[c] : p \in inMedia
    /\ \A t \in edit[c].off \ undone[c] : tagged[t] = 0

\* What EditsTaken rests on, with it.
EditsInv ==
  EditsTyped /\ \A c \in Callers : EditForm(edit[c]) /\ StillThere(c) /\ Taken(c)

\* An edit that is not the one at work keeps what is known of it, when what
\* changes of the media is noted for it.
LEMMA OtherEditKept ==
  ASSUME EditsInv, NEW d \in Callers,
         edit'[d] = edit[d], undone[d] \subseteq undone'[d],
         edit[d].pc # "idle" =>
           /\ \A t \in MediaEdits!Tags : tagged'[t] = tagged[t] \/ t \in undone'[d]
           /\ \A p \in inMedia : p \in inMedia' \/ p \in undone'[d]
  PROVE  (EditForm(edit[d]) /\ StillThere(d) /\ Taken(d))'
<1>1. edit[d] \in EditRecord /\ EditForm(edit[d]) /\ StillThere(d) /\ Taken(d)
  BY DEF EditsInv, EditsTyped
<1>2. EditForm(edit[d])'
  BY <1>1 DEF EditForm
<1>3. StillThere(d)'
  <2>1. CASE edit[d].pc = "idle"
    BY <1>1, <2>1 DEF EditForm, StillThere
  <2>2. CASE edit[d].pc # "idle"
    BY <1>1, <2>2 DEF EditRecord, StillThere
  <2> QED
    BY <2>1, <2>2
<1>4. Taken(d)'
  <2> SUFFICES ASSUME edit[d].pc \in {"reread", "ok"}, edit[d].step = None PROVE Taken(d)'
    BY DEF Taken
  <2>1. edit[d].pc # "idle"
    OBVIOUS
  <2> QED
    BY <1>1, <2>1 DEF EditRecord, Taken
<1> QED
  BY <1>2, <1>3, <1>4

\* A step of an edit that leaves the media, and what others changed, alone.
LEMMA OwnEditKept ==
  ASSUME EditsInv, NEW c \in Callers, NEW to \in EditRecord,
         edit' = [edit EXCEPT ![c] = to], UNCHANGED <<tagged, inMedia, undone>>,
         mediaPeople' = mediaPeople,
         to.pc = "idle" => to.exact = {} /\ to.here = {},
         to.pc = "predict" => to.step = "predict",
         to.step = None => to.conf = MediaEdits!Sure,
         to.exact \subseteq edit[c].exact, to.here \subseteq edit[c].here,
         to.pc \in {"reread", "ok"} /\ to.step = None =>
           /\ edit[c].pc = "reread" /\ edit[c].step = None
           /\ to.add = edit[c].add /\ to.who = edit[c].who /\ to.off = edit[c].off,
         /\ mediaTag' \in [MediaEdits!Tags -> Mains \cup {None}]
         /\ mediaTagsUsed' \in 0..MaxMadeTags
         /\ \A t \in MediaEdits!Tags : mediaTag'[t] # None => t \in 1..mediaTagsUsed'
  PROVE  EditsInv'
<1>1. EditsTyped /\ \A d \in Callers : EditForm(edit[d]) /\ StillThere(d) /\ Taken(d)
  BY DEF EditsInv
<1>2. edit'[c] = to /\ \A d \in Callers : d # c => edit'[d] = edit[d]
  BY <1>1 DEF EditsTyped
<1>3. edit' \in [Callers -> EditRecord]
  BY <1>1 DEF EditsTyped
<1>4. EditsTyped'
  BY <1>1, <1>3 DEF EditsTyped
<1>5. ASSUME NEW d \in Callers PROVE (EditForm(edit[d]) /\ StillThere(d) /\ Taken(d))'
  <2>1. CASE d # c
    BY <1>2, <2>1, OtherEditKept
  <2>2. CASE d = c
    <3>1. EditForm(edit[c])'
      BY <1>2 DEF EditForm
    <3>2. StillThere(c)'
      BY <1>1, <1>2 DEF StillThere
    <3>3. Taken(c)'
      BY <1>1, <1>2 DEF Taken
    <3> QED
      BY <2>2, <3>1, <3>2, <3>3
  <2> QED
    BY <2>1, <2>2
<1> QED
  BY <1>4, <1>5 DEF EditsInv

\* What has no edit is a record of one.
LEMMA IdleRecord ==
  MediaEdits!Idle \in EditRecord /\ MediaEdits!Predicting \in EditRecord
<1>1. MaxMadeTags \in Nat /\ 0 \in 0..MaxMadeTags
  BY EditsAssumption
<1>2. MediaEdits!Idle \in EditRecord
  BY <1>1 DEF MediaEdits!Idle, EditRecord, EditStages, MediaEdits!Sure
<1>3. MediaEdits!Predicting \in EditRecord
  BY <1>1 DEF MediaEdits!Predicting, MediaEdits!Idle, EditRecord, EditStages, MediaEdits!Sure
<1> QED
  BY <1>2, <1>3

\* A media with its tags and people, and nobody at work on it.
LEMMA EditsFirst == MCInit => (subject = "edits" => EditsInv)
<1> SUFFICES ASSUME MCInit, subject = "edits" PROVE EditsInv
  OBVIOUS
<1>1. MediaEdits!Init
  BY DEF MCInit
<1>2. edit \in [Callers -> EditRecord]
  BY <1>1, IdleRecord DEF MediaEdits!Init
<1>3. mediaTagsUsed \in 0..MaxMadeTags /\ \A t \in MediaEdits!Tags : mediaTag[t] # None =>
         t \in 1..mediaTagsUsed
  <2>1. mediaTagsUsed \in 0..1
    BY <1>1 DEF MediaEdits!Init
  <2>2. \A t \in MediaEdits!Tags : mediaTag[t] = None <=> t > mediaTagsUsed
    BY <1>1 DEF MediaEdits!Init
  <2>3. MaxMadeTags \in Nat \ {0}
    BY EditsAssumption
  <2>4. mediaTagsUsed \in 0..MaxMadeTags
    BY <2>1, <2>3
  <2>5. ASSUME NEW t \in MediaEdits!Tags, mediaTag[t] # None PROVE t \in 1..mediaTagsUsed
    BY <2>1, <2>2, <2>3, <2>5 DEF MediaEdits!Tags
  <2> QED
    BY <2>4, <2>5
<1>4. EditsTyped
  BY <1>1, <1>2, <1>3 DEF MediaEdits!Init, EditsTyped
<1>5. ASSUME NEW c \in Callers PROVE EditForm(edit[c]) /\ StillThere(c) /\ Taken(c)
  <2>1. edit[c] = MediaEdits!Idle
    BY <1>1 DEF MediaEdits!Init
  <2> QED
    BY <2>1 DEF MediaEdits!Idle, EditForm, StillThere, Taken
<1> QED
  BY <1>4, <1>5 DEF EditsInv

\* Every step of an edit or a processing, and of the others, keeps the invariant.
LEMMA EditsStep == EditsInv /\ subject = "edits" /\ [MCNext]_CatalogueVars => EditsInv'
<1> SUFFICES ASSUME EditsInv, subject = "edits", [MCNext]_CatalogueVars PROVE EditsInv'
  OBVIOUS
<1>0. /\ EditsTyped /\ \A d \in Callers : EditForm(edit[d]) /\ StillThere(d) /\ Taken(d)
      /\ MaxMadeTags \in Nat \ {0} /\ None \notin Callers
      /\ None \notin {"faces", "infos", "predict"}
  BY EditsAssumption DEF EditsInv
\* Steps that leave the media alone.
<1>1. ASSUME NEW c \in Callers, NEW to \in EditRecord,
             edit' = [edit EXCEPT ![c] = to], UNCHANGED <<tagged, inMedia, undone>>,
             UNCHANGED <<mediaTag, mediaTagsUsed, mediaPeople>>,
             to.pc = "idle" => to.exact = {} /\ to.here = {},
             to.pc = "predict" => to.step = "predict",
             to.step = None => to.conf = MediaEdits!Sure,
             to.exact \subseteq edit[c].exact, to.here \subseteq edit[c].here,
             to.pc \in {"reread", "ok"} /\ to.step = None =>
               /\ edit[c].pc = "reread" /\ edit[c].step = None
               /\ to.add = edit[c].add /\ to.who = edit[c].who /\ to.off = edit[c].off
      PROVE  EditsInv'
  BY <1>0, <1>1, OwnEditKept DEF EditsTyped
\* Going on, at another place.
<1>2. ASSUME NEW c \in Callers, NEW pc \in EditStages \ {"idle", "reread", "predict"},
             pc = "ok" => edit[c].pc = "reread" \/ edit[c].step # None,
             MediaEdits!Goes(c, pc), UNCHANGED <<tagged, inMedia, undone>>,
             UNCHANGED <<mediaTag, mediaTagsUsed, mediaPeople>>
      PROVE  EditsInv'
  <2> DEFINE to == [edit[c] EXCEPT !.pc = pc]
  <2>1. edit[c] \in EditRecord /\ EditForm(edit[c])
    BY <1>0 DEF EditsTyped
  <2>2. edit' = [edit EXCEPT ![c] = to]
    BY <1>0, <1>2 DEF EditsTyped, MediaEdits!Goes
  <2>3. to \in EditRecord /\ to.pc = pc
    BY <2>1 DEF EditRecord
  <2>4. /\ to.step = edit[c].step /\ to.conf = edit[c].conf /\ to.exact = edit[c].exact
        /\ to.here = edit[c].here
        /\ to.add = edit[c].add /\ to.who = edit[c].who /\ to.off = edit[c].off
    BY <2>1 DEF EditRecord
  <2> HIDE DEF to
  <2>5. to.step = None => to.conf = MediaEdits!Sure
    BY <2>1, <2>4 DEF EditForm
  <2> QED
    BY <1>1, <1>2, <2>2, <2>3, <2>4, <2>5
\* An update that fails, and the prediction that follows.
<1>3. ASSUME NEW c \in Callers, NEW to,
             to \in {[MediaEdits!Idle EXCEPT !.pc = "failed", !.step = edit[c].step],
                MediaEdits!Predicting},
             edit' = [edit EXCEPT ![c] = to], UNCHANGED <<tagged, inMedia, undone>>,
             UNCHANGED <<mediaTag, mediaTagsUsed, mediaPeople>>
      PROVE  EditsInv'
  <2>1. edit[c] \in EditRecord
    BY <1>0 DEF EditsTyped
  <2>2. to \in EditRecord /\ to.pc \in {"failed", "predict"}
    <3>1. CASE to = MediaEdits!Predicting
      <4>1. to \in EditRecord
        BY <3>1, IdleRecord
      <4>2. to.pc = "predict"
        BY <3>1 DEF MediaEdits!Predicting, MediaEdits!Idle
      <4> QED
        BY <4>1, <4>2
    <3>2. CASE to = [MediaEdits!Idle EXCEPT !.pc = "failed", !.step = edit[c].step]
      <4>1. edit[c].step \in {None, "faces", "infos", "predict"}
        BY <2>1 DEF EditRecord
      <4>2. to \in EditRecord
        <5>1. MediaEdits!Idle \in EditRecord /\ "failed" \in EditStages
          BY IdleRecord DEF EditStages
        <5> QED
          BY <3>2, <4>1, <5>1 DEF EditRecord
      <4>3. to.pc = "failed"
        BY <3>2 DEF MediaEdits!Idle
      <4> QED
        BY <4>2, <4>3
    <3> QED
      BY <1>3, <3>1, <3>2
  <2>3. to.conf = MediaEdits!Sure /\ to.exact = {} /\ to.here = {}
    BY <1>3 DEF MediaEdits!Idle, MediaEdits!Predicting
  <2>4. to.pc = "predict" => to.step = "predict"
    BY <1>3 DEF MediaEdits!Idle, MediaEdits!Predicting
  <2> QED
    BY <1>1, <1>3, <2>2, <2>3, <2>4
<1>4. ASSUME NEW c \in Callers, MediaEdits!Fails(c), UNCHANGED <<tagged, inMedia, undone>>,
             UNCHANGED <<mediaTag, mediaTagsUsed, mediaPeople>>
      PROVE  EditsInv'
  BY <1>3, <1>4 DEF MediaEdits!Fails, MediaEdits!Becomes
<1>5. ASSUME NEW c \in Callers, MediaEdits!Edit(c) PROVE EditsInv'
  <2>1. PICK add, off \in MediaEdits!AtMostOne(1..mediaTagsUsed),
           todo \in MediaEdits!AtMostOne(Mains),
             who, seek \in MediaEdits!AtMostOne(Medias) :
          MediaEdits!Becomes(c, [MediaEdits!Idle EXCEPT !.pc = "read", !.todo = todo, !.add = add,
                                                        !.off = off, !.who = who, !.seek = seek])
    BY <1>5 DEF MediaEdits!Edit
  <2> DEFINE to == [MediaEdits!Idle EXCEPT !.pc = "read", !.todo = todo, !.add = add,
                                           !.off = off, !.who = who, !.seek = seek]
  <2>2. edit' = [edit EXCEPT ![c] = to]
    BY <2>1 DEF MediaEdits!Becomes
  <2>3. add \subseteq MediaEdits!Tags /\ off \subseteq MediaEdits!Tags
    BY <1>0 DEF MediaEdits!AtMostOne, MediaEdits!Tags, EditsTyped
  <2>4. todo \subseteq Mains /\ who \subseteq Medias /\ seek \subseteq Medias
    BY DEF MediaEdits!AtMostOne
  <2>5. to \in EditRecord
    BY <2>3, <2>4, IdleRecord DEF MediaEdits!Idle, EditRecord, EditStages
  <2>6. to.pc = "read" /\ to.conf = MediaEdits!Sure /\ to.exact = {} /\ to.here = {}
    BY DEF MediaEdits!Idle
  <2> HIDE DEF to
  <2>7. UNCHANGED <<tagged, inMedia, undone>> /\ UNCHANGED <<mediaTag, mediaTagsUsed, mediaPeople>>
    BY <1>5 DEF MediaEdits!Edit
  <2> QED
    BY <1>1, <2>2, <2>5, <2>6, <2>7
<1>6. ASSUME NEW c \in Callers, MediaEdits!Read(c) PROVE EditsInv'
  <2>1. UNCHANGED <<media, mediaTag, mediaTagsUsed, tagged, mediaPeople, inMedia, removals>>
    BY <1>6 DEF MediaEdits!Read
  <2>2. CASE MediaEdits!Fails(c) /\ UNCHANGED undone
    BY <1>4, <2>1, <2>2
  <2> DEFINE Ex == {t \in MediaEdits!Tags : tagged[t] = MediaEdits!Exact}
             to == [edit[c] EXCEPT !.pc = IF edit[c].step = None THEN "find" ELSE "write",
                                   !.exact = Ex, !.here = inMedia]
  <2>3. CASE edit' = [edit EXCEPT ![c] = to] /\ undone' = [undone EXCEPT ![c] = {}]
    <3>1. edit[c] \in EditRecord /\ EditForm(edit[c])
      BY <1>0 DEF EditsTyped
    <3>2. to \in EditRecord
      BY <3>1, <1>0 DEF EditRecord, EditStages, EditsTyped
    <3>3. to.exact = Ex /\ to.here = inMedia /\ to.pc \in {"find", "write"}
          /\ to.step = edit[c].step /\ to.conf = edit[c].conf
      BY <3>1 DEF EditRecord
    <3> HIDE DEF to
    <3>4. edit'[c] = to /\ \A d \in Callers : d # c => edit'[d] = edit[d] /\ undone'[d] = undone[d]
      BY <1>0, <2>3 DEF EditsTyped
    <3>5. EditsTyped'
      BY <1>0, <2>1, <2>3, <3>2 DEF EditsTyped
    <3>6. EditForm(edit[c])'
      BY <3>1, <3>3, <3>4 DEF EditForm
    <3>7. StillThere(c)'
      BY <2>1, <3>3, <3>4 DEF StillThere
    <3>8. Taken(c)'
      BY <3>3, <3>4 DEF Taken
    <3>9. ASSUME NEW d \in Callers, d # c PROVE (EditForm(edit[d]) /\ StillThere(d) /\ Taken(d))'
      BY <2>1, <3>4, <3>9, OtherEditKept
    <3> QED
      BY <3>5, <3>6, <3>7, <3>8, <3>9 DEF EditsInv
  <2> QED
    BY <1>6, <2>2, <2>3 DEF MediaEdits!Read, MediaEdits!Reads, MediaEdits!Becomes
<1>7. ASSUME NEW c \in Callers, MediaEdits!FindTag(c) PROVE EditsInv'
  <2>1. PICK n \in edit[c].todo :
          IF MediaEdits!Named(n) = {} THEN MediaEdits!Goes(c, IF MediaEdits!At(c,
             "find") THEN "path" ELSE "make")
          ELSE \E t \in MediaEdits!Named(n) :
                 MediaEdits!Becomes(c, [edit[c] EXCEPT !.pc = "find", !.todo = @ \ {n},
                    !.add = @ \cup {t}])
    BY <1>7 DEF MediaEdits!FindTag
  <2>2. UNCHANGED <<tagged, inMedia, undone>> /\ UNCHANGED <<mediaTag, mediaTagsUsed, mediaPeople>>
    BY <1>7 DEF MediaEdits!FindTag
  <2>3. CASE MediaEdits!Named(n) = {}
    <3>1. (IF MediaEdits!At(c, "find") THEN "path" ELSE "make") \in EditStages \ {"idle", "reread",
             "predict", "ok"}
      BY DEF EditStages
    <3>2. MediaEdits!Goes(c, IF MediaEdits!At(c, "find") THEN "path" ELSE "make")
      BY <2>1, <2>3
    <3> QED
      BY <1>2, <2>2, <3>1, <3>2
  <2>4. CASE MediaEdits!Named(n) # {}
    <3>1. PICK t \in MediaEdits!Named(n) :
            MediaEdits!Becomes(c, [edit[c] EXCEPT !.pc = "find", !.todo = @ \ {n},
               !.add = @ \cup {t}])
      BY <2>1, <2>4
    <3> DEFINE to == [edit[c] EXCEPT !.pc = "find", !.todo = edit[c].todo \ {n},
           !.add = edit[c].add \cup {t}]
    <3>2. edit[c] \in EditRecord /\ EditForm(edit[c]) /\ t \in MediaEdits!Tags
      BY <1>0 DEF EditsTyped, MediaEdits!Named, MediaEdits!Live
    <3>3. edit' = [edit EXCEPT ![c] = to]
      BY <1>0, <3>1, <3>2 DEF MediaEdits!Becomes, EditRecord, EditsTyped
    <3>4. to \in EditRecord
      BY <3>2 DEF EditRecord, EditStages
    <3>5. /\ to.pc = "find" /\ to.step = edit[c].step /\ to.conf = edit[c].conf
          /\ to.exact = edit[c].exact /\ to.here = edit[c].here
      BY <3>2 DEF EditRecord
    <3> HIDE DEF to
    <3>6. to.step = None => to.conf = MediaEdits!Sure
      BY <3>2, <3>5 DEF EditForm
    <3> QED
      BY <1>1, <2>2, <3>3, <3>4, <3>5, <3>6
  <2> QED
    BY <2>3, <2>4
<1>8. ASSUME NEW c \in Callers, MediaEdits!MakeTag(c) PROVE EditsInv'
  <2>1. PICK n \in edit[c].todo :
          /\ mediaTag' = [mediaTag EXCEPT ![mediaTagsUsed + 1] = n]
          /\ MediaEdits!Becomes(c, [edit[c] EXCEPT !.pc = "made", !.todo = @ \ {n},
                !.made = mediaTagsUsed + 1])
    BY <1>8 DEF MediaEdits!MakeTag
  <2>2. /\ mediaTagsUsed' = mediaTagsUsed + 1 /\ mediaTagsUsed < MaxMadeTags
        /\ UNCHANGED <<tagged, inMedia, undone>> /\ mediaPeople' = mediaPeople
    BY <1>8 DEF MediaEdits!MakeTag
  <2> DEFINE new == mediaTagsUsed + 1
             to == [edit[c] EXCEPT !.pc = "made", !.todo = edit[c].todo \ {n}, !.made = new]
  <2>3. edit[c] \in EditRecord /\ EditForm(edit[c]) /\ n \in Mains
    BY <1>0 DEF EditsTyped, EditRecord
  <2>4. new \in 1..MaxMadeTags /\ new \in 0..MaxMadeTags /\ new \in MediaEdits!Tags
    BY <1>0, <2>2 DEF EditsTyped, MediaEdits!Tags
  <2>5. edit' = [edit EXCEPT ![c] = to]
    BY <1>0, <2>1, <2>3 DEF MediaEdits!Becomes, EditRecord, EditsTyped
  <2>6. to \in EditRecord
    BY <2>3, <2>4 DEF EditRecord, EditStages
  <2>7. /\ to.pc = "made" /\ to.step = edit[c].step /\ to.conf = edit[c].conf
        /\ to.exact = edit[c].exact /\ to.here = edit[c].here
    BY <2>3 DEF EditRecord
  <2> HIDE DEF to
  <2>8. to.step = None => to.conf = MediaEdits!Sure
    BY <2>3, <2>7 DEF EditForm
  <2>9. mediaTagsUsed' \in 0..MaxMadeTags
    BY <2>2, <2>4
  <2>10. mediaTag' \in [MediaEdits!Tags -> Mains \cup {None}]
    BY <1>0, <2>1, <2>3 DEF EditsTyped
  <2>11. \A t \in MediaEdits!Tags : mediaTag'[t] # None => t \in 1..mediaTagsUsed'
    <3> SUFFICES ASSUME NEW t \in MediaEdits!Tags, mediaTag'[t] # None PROVE t \in 1..mediaTagsUsed'
      OBVIOUS
    <3>1. t = new \/ t \in 1..mediaTagsUsed
      BY <1>0, <2>1 DEF EditsTyped
    <3> QED
      BY <1>0, <2>2, <3>1 DEF EditsTyped, MediaEdits!Tags
  <2> QED
    BY <2>2, <2>5, <2>6, <2>7, <2>8, <2>9, <2>10, <2>11, OwnEditKept
<1>9. ASSUME NEW c \in Callers, MediaEdits!Recall(c) PROVE EditsInv'
  <2>1. UNCHANGED <<tagged, inMedia, undone>> /\ UNCHANGED <<mediaTag, mediaTagsUsed, mediaPeople>>
    BY <1>9 DEF MediaEdits!Recall
  <2>2. CASE edit[c].made \in MediaEdits!Live
    <3> DEFINE to == [edit[c] EXCEPT !.pc = "find", !.add = edit[c].add \cup {edit[c].made},
           !.made = 0]
    <3>1. edit[c] \in EditRecord /\ EditForm(edit[c]) /\ edit[c].made \in MediaEdits!Tags
      BY <1>0, <2>2 DEF EditsTyped, MediaEdits!Live
    <3>2. MediaEdits!Becomes(c, [edit[c] EXCEPT !.pc = "find", !.add = @ \cup {edit[c].made},
             !.made = 0])
      BY <1>9, <2>2 DEF MediaEdits!Recall
    <3>3. edit' = [edit EXCEPT ![c] = to]
      BY <1>0, <3>1, <3>2 DEF MediaEdits!Becomes, EditRecord, EditsTyped
    <3>10. 0 \in 0..MaxMadeTags
      BY <1>0
    <3>4. to \in EditRecord
      BY <3>1, <3>10 DEF EditRecord, EditStages
    <3>5. /\ to.pc = "find" /\ to.step = edit[c].step /\ to.conf = edit[c].conf
          /\ to.exact = edit[c].exact /\ to.here = edit[c].here
      BY <3>1 DEF EditRecord
    <3> HIDE DEF to
    <3>6. to.step = None => to.conf = MediaEdits!Sure
      BY <3>1, <3>5 DEF EditForm
    <3> QED
      BY <1>1, <2>1, <3>3, <3>4, <3>5, <3>6
  <2>3. CASE edit[c].made \notin MediaEdits!Live
    BY <1>4, <1>9, <2>1, <2>3 DEF MediaEdits!Recall
  <2> QED
    BY <2>2, <2>3
<1>10. ASSUME NEW c \in Callers, MediaEdits!FindPeople(c) PROVE EditsInv'
  <2>1. UNCHANGED <<tagged, inMedia, undone>> /\ UNCHANGED <<mediaTag, mediaTagsUsed, mediaPeople>>
    BY <1>10 DEF MediaEdits!FindPeople
  <2>2. CASE edit[c].step = "predict"
    <3>1. MediaEdits!Goes(c, "read")
      BY <1>10, <2>2 DEF MediaEdits!FindPeople
    <3> QED
      BY <1>2, <2>1, <3>1 DEF EditStages
  <2>3. CASE edit[c].step # "predict"
    <3> DEFINE to == [edit[c] EXCEPT !.pc = "write",
           !.who = edit[c].who \cup (edit[c].seek \cap mediaPeople)]
    <3>1. edit[c] \in EditRecord /\ EditForm(edit[c])
      BY <1>0 DEF EditsTyped
    <3>2. MediaEdits!Becomes(c, [edit[c] EXCEPT !.pc = "write",
             !.who = @ \cup (edit[c].seek \cap mediaPeople)])
      BY <1>10, <2>3 DEF MediaEdits!FindPeople
    <3>3. edit' = [edit EXCEPT ![c] = to]
      BY <1>0, <3>1, <3>2 DEF MediaEdits!Becomes, EditRecord, EditsTyped
    <3>4. to \in EditRecord
      BY <3>1 DEF EditRecord, EditStages
    <3>5. /\ to.pc = "write" /\ to.step = edit[c].step /\ to.conf = edit[c].conf
          /\ to.exact = edit[c].exact /\ to.here = edit[c].here
      BY <3>1 DEF EditRecord
    <3> HIDE DEF to
    <3>6. to.step = None => to.conf = MediaEdits!Sure
      BY <3>1, <3>5 DEF EditForm
    <3> QED
      BY <1>1, <2>1, <3>3, <3>4, <3>5, <3>6
  <2> QED
    BY <2>2, <2>3
<1>11. ASSUME NEW c \in Callers, MediaEdits!Write(c) PROVE EditsInv'
  <2> DEFINE w == edit[c]
             to == [w EXCEPT !.pc = "reread", !.exact = {}, !.here = {}]
  <2>1. /\ tagged' = [t \in MediaEdits!Tags |-> IF t \in w.off THEN 0
                                   ELSE IF t \in w.add \ w.exact THEN w.conf ELSE tagged[t]]
        /\ inMedia' = inMedia \cup (w.who \ w.here)
        /\ UNCHANGED <<mediaTag, mediaTagsUsed, mediaPeople>>
        /\ w.pc = "write"
    BY <1>11 DEF MediaEdits!Write, MediaEdits!At
  <2>2. edit' = [edit EXCEPT ![c] = to]
    BY <1>11 DEF MediaEdits!Write, MediaEdits!Becomes
  <2>3. undone' = [MediaEdits!Others(c, {t \in MediaEdits!Tags : tagged'[t] # tagged[t]})
                      EXCEPT ![c] = @ \cap (w.exact \cup w.here)]
    BY <1>11 DEF MediaEdits!Write
  <2>4. DOMAIN undone' = Callers /\ undone'[c] = undone[c] \cap (w.exact \cup w.here)
    BY <2>3 DEF MediaEdits!Others
  <2>5. \A d \in Callers : d # c /\ edit[d].pc # "idle" =>
          undone'[d] = undone[d] \cup {t \in MediaEdits!Tags : tagged'[t] # tagged[t]}
    BY <2>3 DEF MediaEdits!Others, MediaEdits!At
  <2>6. \A d \in Callers : d # c /\ edit[d].pc = "idle" => undone'[d] = undone[d]
    BY <2>3 DEF MediaEdits!Others, MediaEdits!At
  <2>7. w \in EditRecord /\ EditForm(w) /\ StillThere(c)
    BY <1>0 DEF EditsTyped
  <2>8. to \in EditRecord
    BY <2>7 DEF EditRecord, EditStages
  <2>9. /\ to.pc = "reread" /\ to.step = w.step /\ to.conf = w.conf /\ to.exact = {} /\ to.here = {}
        /\ to.add = w.add /\ to.who = w.who /\ to.off = w.off
    BY <2>7 DEF EditRecord
  <2>10. w.conf \in {MediaEdits!Sure, MediaEdits!Predicted} /\ w.who \subseteq Medias
            /\ w.add \subseteq MediaEdits!Tags
         /\ w.off \subseteq MediaEdits!Tags
    BY <2>7 DEF EditRecord
  <2> HIDE DEF to
  <2>11. edit'[c] = to /\ \A d \in Callers : d # c => edit'[d] = edit[d]
    BY <1>0, <2>2 DEF EditsTyped
  <2>12. EditsTyped'
    <3>1. edit' \in [Callers -> EditRecord] /\ inMedia' \subseteq Medias
      BY <1>0, <2>1, <2>2, <2>8, <2>10 DEF EditsTyped
    <3>2. tagged' \in [MediaEdits!Tags -> {0, MediaEdits!Exact, MediaEdits!Predicted,
             MediaEdits!Sure}]
      BY <1>0, <2>1, <2>10 DEF EditsTyped
    <3> QED
      BY <1>0, <2>1, <2>4, <3>1, <3>2 DEF EditsTyped
  <2>13. EditForm(edit[c])' /\ StillThere(c)'
    BY <2>7, <2>9, <2>11 DEF EditForm, StillThere
  <2>14. Taken(c)'
    <3> SUFFICES ASSUME w.step = None
                 PROVE  /\ \A t \in w.add \ undone'[c] : t \notin w.off =>
                           tagged'[t] \in {MediaEdits!Sure, MediaEdits!Exact}
                        /\ \A p \in w.who \ undone'[c] : p \in inMedia'
                        /\ \A t \in w.off \ undone'[c] : tagged'[t] = 0
      BY <2>9, <2>11 DEF Taken
    <3>1. w.conf = MediaEdits!Sure
      BY <2>7 DEF EditForm
    <3>2. ASSUME NEW t \in w.add \ undone'[c], t \notin w.off
          PROVE  tagged'[t] \in {MediaEdits!Sure, MediaEdits!Exact}
      <4>1. t \in MediaEdits!Tags
        BY <2>10
      <4>2. CASE t \in w.exact
        BY <2>1, <2>4, <2>7, <3>2, <4>1, <4>2 DEF StillThere
      <4>3. CASE t \notin w.exact
        BY <2>1, <3>1, <3>2, <4>1, <4>3
      <4> QED
        BY <4>2, <4>3
    <3>3. ASSUME NEW p \in w.who \ undone'[c] PROVE p \in inMedia'
      <4>1. CASE p \in w.here
        BY <2>1, <2>4, <2>7, <3>3, <4>1 DEF StillThere
      <4>2. CASE p \notin w.here
        BY <2>1, <3>3, <4>2
      <4> QED
        BY <4>1, <4>2
    <3>4. \A t \in w.off : tagged'[t] = 0
      BY <2>1, <2>10
    <3> QED
      BY <3>2, <3>3, <3>4
  <2>15. ASSUME NEW d \in Callers, d # c PROVE (EditForm(edit[d]) /\ StillThere(d) /\ Taken(d))'
    <3>1. undone[d] \subseteq undone'[d]
      BY <2>5, <2>6, <2>15
    <3>2. edit[d].pc # "idle" =>
             \A t \in MediaEdits!Tags : tagged'[t] = tagged[t] \/ t \in undone'[d]
      BY <2>5, <2>15
    <3>3. inMedia \subseteq inMedia'
      BY <2>1
    <3> QED
      BY <2>11, <2>15, <3>1, <3>2, <3>3, OtherEditKept
  <2> QED
    BY <2>12, <2>13, <2>14, <2>15 DEF EditsInv
<1>12. ASSUME NEW c \in Callers, MediaEdits!Reread(c) PROVE EditsInv'
  <2>1. UNCHANGED <<tagged, inMedia, undone>> /\ UNCHANGED <<mediaTag, mediaTagsUsed, mediaPeople>>
    BY <1>12 DEF MediaEdits!Reread
  <2>2. CASE MediaEdits!Fails(c)
    BY <1>4, <2>1, <2>2
  <2>3. CASE MediaEdits!Goes(c, "ok")
    BY <1>2, <1>12, <2>1, <2>3 DEF MediaEdits!Reread, MediaEdits!At, EditStages
  <2>4. CASE MediaEdits!Becomes(c, MediaEdits!Predicting)
    BY <1>3, <2>1, <2>4 DEF MediaEdits!Becomes
  <2> QED
    BY <1>12, <2>2, <2>3, <2>4 DEF MediaEdits!Reread
<1>13. ASSUME NEW c \in Callers, MediaEdits!Process(c) PROVE EditsInv'
  <2>1. PICK pc \in {"existing", "failed"} :
          MediaEdits!Becomes(c, [MediaEdits!Idle EXCEPT !.pc = pc, !.step = "faces"])
    BY <1>13 DEF MediaEdits!Process
  <2> DEFINE to == [MediaEdits!Idle EXCEPT !.pc = pc, !.step = "faces"]
  <2>2. to \in EditRecord
    BY IdleRecord DEF EditRecord, MediaEdits!Idle, EditStages
  <2>3. to.pc = pc /\ to.exact = {} /\ to.here = {} /\ to.conf = MediaEdits!Sure
    BY DEF MediaEdits!Idle
  <2>4. edit' = [edit EXCEPT ![c] = to]
    BY <2>1 DEF MediaEdits!Becomes
  <2>5. UNCHANGED <<tagged, inMedia, undone>> /\ UNCHANGED <<mediaTag, mediaTagsUsed, mediaPeople>>
    BY <1>13 DEF MediaEdits!Process
  <2> HIDE DEF to
  <2> QED
    BY <1>1, <2>2, <2>3, <2>4, <2>5
<1>14. ASSUME NEW c \in Callers, MediaEdits!Existing(c) PROVE EditsInv'
  <2>1. UNCHANGED <<tagged, inMedia, undone>> /\ UNCHANGED <<mediaTag, mediaTagsUsed, mediaPeople>>
    BY <1>14 DEF MediaEdits!Existing
  <2>2. MediaEdits!Goes(c, "faces") \/ MediaEdits!Fails(c)
    BY <1>14 DEF MediaEdits!Existing
  <2>3. CASE MediaEdits!Goes(c, "faces")
    BY <1>2, <2>1, <2>3 DEF EditStages
  <2> QED
    BY <1>4, <2>1, <2>2, <2>3
<1>15. ASSUME NEW c \in Callers, MediaEdits!Recognise(c) PROVE EditsInv'
  <2>1. UNCHANGED <<tagged, mediaTag, mediaTagsUsed, mediaPeople>>
    BY <1>15 DEF MediaEdits!Recognise
  <2>2. CASE MediaEdits!Goes(c, "infos") /\ UNCHANGED <<inMedia, undone>>
    BY <1>2, <2>1, <2>2 DEF EditStages
  <2>3. CASE (\E p \in mediaPeople : inMedia' = inMedia \cup {p}) /\ UNCHANGED <<edit, undone>>
    <3>1. EditsTyped' /\ inMedia \subseteq inMedia'
      BY <1>0, <2>1, <2>3 DEF EditsTyped
    <3>2. ASSUME NEW d \in Callers PROVE (EditForm(edit[d]) /\ StillThere(d) /\ Taken(d))'
      BY <2>1, <2>3, <3>1, OtherEditKept
    <3> QED
      BY <3>1, <3>2 DEF EditsInv
  <2> QED
    BY <1>15, <2>2, <2>3 DEF MediaEdits!Recognise
<1>16. ASSUME NEW c \in Callers, MediaEdits!Infos(c) PROVE EditsInv'
  <2>1. UNCHANGED <<tagged, inMedia, undone>> /\ UNCHANGED <<mediaTag, mediaTagsUsed, mediaPeople>>
    BY <1>16 DEF MediaEdits!Infos
  <2>2. CASE MediaEdits!Becomes(c, MediaEdits!Predicting)
    BY <1>3, <2>1, <2>2 DEF MediaEdits!Becomes
  <2> DEFINE to == [MediaEdits!Idle EXCEPT !.pc = "read", !.step = "infos"]
  <2>3. CASE MediaEdits!Becomes(c, to)
    <3>1. to \in EditRecord
      BY IdleRecord DEF EditRecord, MediaEdits!Idle, EditStages
    <3>2. to.pc = "read" /\ to.exact = {} /\ to.here = {} /\ to.conf = MediaEdits!Sure
      BY DEF MediaEdits!Idle
    <3>3. edit' = [edit EXCEPT ![c] = to]
      BY <2>3 DEF MediaEdits!Becomes
    <3> HIDE DEF to
    <3> QED
      BY <1>1, <2>1, <3>1, <3>2, <3>3
  <2> QED
    BY <1>16, <2>2, <2>3 DEF MediaEdits!Infos
<1>17. ASSUME NEW c \in Callers, MediaEdits!Predict(c) PROVE EditsInv'
  <2>1. UNCHANGED <<tagged, inMedia, undone>> /\ UNCHANGED <<mediaTag, mediaTagsUsed, mediaPeople>>
    BY <1>17 DEF MediaEdits!Predict
  <2>2. CASE MediaEdits!Fails(c)
    BY <1>4, <2>1, <2>2
  <2>3. CASE MediaEdits!Goes(c, IF media THEN "ok" ELSE "failed")
    <3>1. edit[c].step # None
      BY <1>0, <1>17 DEF MediaEdits!Predict, MediaEdits!At, EditForm
    <3> QED
      BY <1>2, <2>1, <2>3, <3>1 DEF EditStages
  <2>4. ASSUME NEW n \in Mains,
               MediaEdits!Becomes(c, [MediaEdits!Predicting EXCEPT !.pc = "find", !.todo = {n},
                                                                  !.conf = MediaEdits!Predicted])
        PROVE  EditsInv'
    <3> DEFINE to == [MediaEdits!Predicting EXCEPT !.pc = "find", !.todo = {n},
                                                   !.conf = MediaEdits!Predicted]
    <3>1. to \in EditRecord
      BY IdleRecord DEF EditRecord, MediaEdits!Predicting, MediaEdits!Idle, EditStages
    <3>2. to.pc = "find" /\ to.exact = {} /\ to.here = {} /\ to.step = "predict"
      BY DEF MediaEdits!Predicting, MediaEdits!Idle
    <3>3. edit' = [edit EXCEPT ![c] = to]
      BY <2>4 DEF MediaEdits!Becomes
    <3> HIDE DEF to
    <3> QED
      BY <1>0, <1>1, <2>1, <3>1, <3>2, <3>3
  <2> QED
    BY <1>17, <2>2, <2>3, <2>4 DEF MediaEdits!Predict
\* What others do.
<1>18. ASSUME edit' = edit, NEW refs, undone' = MediaEdits!Others(None, refs),
              \A t \in MediaEdits!Tags : tagged'[t] = tagged[t] \/ t \in refs,
              \A p \in inMedia : p \in inMedia' \/ p \in refs,
              EditsTyped'
       PROVE  EditsInv'
  <2>1. ASSUME NEW d \in Callers PROVE (EditForm(edit[d]) /\ StillThere(d) /\ Taken(d))'
    <3>1. undone'[d] = IF edit[d].pc = "idle" THEN undone[d] ELSE undone[d] \cup refs
      BY <1>0, <1>18 DEF MediaEdits!Others, MediaEdits!At
    <3>2. undone[d] \subseteq undone'[d]
      BY <3>1
    <3>3. edit[d].pc # "idle" =>
            /\ \A t \in MediaEdits!Tags : tagged'[t] = tagged[t] \/ t \in undone'[d]
            /\ \A p \in inMedia : p \in inMedia' \/ p \in undone'[d]
      BY <1>18, <3>1
    <3> QED
      BY <1>18, <3>2, <3>3, OtherEditKept
  <2> QED
    BY <1>18, <2>1 DEF EditsInv
<1>19. CASE MediaEdits!RemoveTag
  <2>1. PICK t \in MediaEdits!Live : /\ mediaTag' = [mediaTag EXCEPT ![t] = None]
                                     /\ tagged' = [tagged EXCEPT ![t] = 0]
                                     /\ undone' = MediaEdits!Others(None, {t})
    BY <1>19 DEF MediaEdits!RemoveTag
  <2>2. UNCHANGED <<media, mediaTagsUsed, mediaPeople, inMedia, edit>>
    BY <1>19 DEF MediaEdits!RemoveTag
  <2>3. DOMAIN undone' = Callers
    BY <2>1 DEF MediaEdits!Others
  <2>4. EditsTyped'
    BY <1>0, <2>1, <2>2, <2>3 DEF EditsTyped
  <2> QED
    BY <1>0, <1>18, <2>1, <2>2, <2>4 DEF EditsTyped
<1>20. CASE MediaEdits!RemovePerson
  <2>1. PICK p \in mediaPeople : /\ mediaPeople' \in {mediaPeople, mediaPeople \ {p}}
                                 /\ inMedia' = inMedia \ {p}
                                 /\ undone' = MediaEdits!Others(None, {p})
    BY <1>20 DEF MediaEdits!RemovePerson
  <2>2. UNCHANGED <<media, mediaTag, mediaTagsUsed, tagged, edit>>
    BY <1>20 DEF MediaEdits!RemovePerson
  <2>3. DOMAIN undone' = Callers
    BY <2>1 DEF MediaEdits!Others
  <2>4. EditsTyped'
    BY <1>0, <2>1, <2>2, <2>3 DEF EditsTyped
  <2> QED
    BY <1>18, <2>1, <2>2, <2>4
<1>21. CASE MediaEdits!RemoveMedia
  <2>1. /\ tagged' = [t \in MediaEdits!Tags |-> 0] /\ inMedia' = {}
        /\ undone' = MediaEdits!Others(None, MediaEdits!Tags \cup Medias)
        /\ UNCHANGED <<mediaTag, mediaTagsUsed, mediaPeople, edit>>
    BY <1>21 DEF MediaEdits!RemoveMedia
  <2>2. DOMAIN undone' = Callers
    BY <2>1 DEF MediaEdits!Others
  <2>3. EditsTyped'
    BY <1>0, <2>1, <2>2 DEF EditsTyped
  <2>4. inMedia \subseteq MediaEdits!Tags \cup Medias
    BY <1>0 DEF EditsTyped
  <2> QED
    BY <1>18, <2>1, <2>3, <2>4
<1>22. CASE UNCHANGED editVars
  <2>1. UNCHANGED <<mediaTag, mediaTagsUsed, tagged, mediaPeople, inMedia, edit, undone>>
    BY <1>22 DEF editVars
  <2> QED
    BY <1>0, <2>1 DEF EditsInv, EditsTyped, StillThere, Taken, EditForm
<1>23. MediaEdits!Next \/ UNCHANGED editVars
  BY DEF MCNext, CatalogueVars
<1> QED
  BY <1>5, <1>6, <1>7, <1>8, <1>9, <1>10, <1>11, <1>12, <1>13, <1>14, <1>15, <1>16, <1>17,
     <1>19, <1>20, <1>21, <1>22, <1>23 DEF MediaEdits!Next

\* The invariant holds in every state.
LEMMA EditsInvariance == MCSpec => [](subject = "edits" => EditsInv)
<1>1. (subject = "edits" => EditsInv) /\ [MCNext]_CatalogueVars => (subject = "edits" => EditsInv)'
  <2>1. [MCNext]_CatalogueVars => subject' = subject
    BY DEF MCNext, CatalogueVars
  <2> QED
    BY <2>1, EditsStep
<1> QED
  BY EditsFirst, <1>1, PTL DEF MCSpec, CatalogueVars

\* An edit that was answered is there, whatever was predicted, recognised and
\* removed meanwhile, but for what others changed after the edit had read it.
THEOREM EditsHold == MCSpec => []EditsTaken
<1>1. (subject = "edits" => EditsInv) => EditsTaken
  BY DEF EditsInv, Taken, EditsTaken, MediaEdits!EditsTaken, MediaEdits!At
<1> QED
  BY EditsInvariance, <1>1, PTL

-----------------------------------------------------------------------------
(***************************************************************************)
(* FACES                                                                   *)
(* FacesMapped is inductive with the types and the forms of the work at    *)
(* hand; what is to be shown of each step is which faces change their      *)
(* media or person, and which rows go with them.                           *)
(***************************************************************************)

\* The parts of what a worker has at hand.
WorkFields == {"pc", "media", "todo", "look", "person", "all", "final"}

\* What a worker at work has at hand.
WorkForm(w) ==
  /\ DOMAIN w = WorkFields
  /\ w.pc \in {"faces", "place"} => w.media \in Pictures /\ w.todo \subseteq Looks
  /\ w.pc = "place" => w.look \in Looks
  /\ w.pc \in {"cluster", "person", "promote"} => \A g \in w.todo : g.label \in FaceLabels

\* The types of the rows, of which those used so far can be there.
FacesTyped ==
  /\ face \in [Faces!Faces -> FaceRow \cup {None}]
  /\ faceMapping \in [Pictures \X Faces!People -> 0..MaxFaces \cup {None}]
  /\ facesUsed \in [faces : 0..MaxFaces, people : 0..MaxPeople]
  /\ Faces!Rows \subseteq 1..facesUsed.faces
  /\ people \subseteq Faces!People
  /\ DOMAIN work = Faces!Workers

\* The property is inductive with the types and the forms of work.
FacesInv == FacesTyped /\ (\A w \in Faces!Workers : WorkForm(work[w])) /\ Faces!FacesMapped

\* Whose a face is, and in which media.
Of(f) == <<face[f].media, face[f].person>>

\* A row of a face is one, and None is not.
LEMMA RowOfFace ==
  ASSUME FacesTyped, NEW f \in Faces!Rows
  PROVE  /\ f \in Faces!Faces /\ face[f] \in FaceRow /\ face[f] # None
         /\ f \notin Faces!Unassigned => Of(f) \in Pictures \X Faces!People
<1>1. f \in Faces!Faces /\ face[f] # None
  BY DEF Faces!Rows
<1>2. face[f] \in FaceRow
  BY <1>1 DEF FacesTyped
<1>3. f \notin Faces!Unassigned => face[f].person # None
  BY DEF Faces!Unassigned
<1> QED
  BY <1>1, <1>2, <1>3 DEF FaceRow, Of

\* Faces that keep their media and their person, with what refers to them.
LEMMA FacesKept ==
  ASSUME FacesTyped, Faces!FacesMapped,
         \A f \in Faces!Faces :
           /\ face'[f] = None <=> face[f] = None
           /\ face[f] # None => face'[f].media = face[f].media /\ face'[f].person = face[f].person,
         faceMapping' = faceMapping, unmapped \subseteq unmapped'
  PROVE  Faces!FacesMapped'
<1>1. Faces!Rows' = Faces!Rows /\ Faces!Unassigned' = Faces!Unassigned
  BY DEF Faces!Rows, Faces!Unassigned
<1>2. \A f \in Faces!Rows : face'[f].media = face[f].media /\ face'[f].person = face[f].person
  BY DEF Faces!Rows
<1>3. ASSUME NEW f \in Faces!Rows' \ Faces!Unassigned',
             <<face'[f].media, face'[f].person>> \notin unmapped'
      PROVE  faceMapping'[<<face'[f].media, face'[f].person>>] # None
  BY <1>1, <1>2, <1>3 DEF Faces!FacesMapped
<1>4. ASSUME NEW mp \in Pictures \X Faces!People, faceMapping'[mp] \in Faces!Faces
      PROVE  /\ faceMapping'[mp] \in Faces!Rows'
             /\ <<face'[faceMapping'[mp]].media, face'[faceMapping'[mp]].person>> = mp
  BY <1>1, <1>2, <1>4 DEF Faces!FacesMapped
<1> QED
  BY <1>3, <1>4 DEF Faces!FacesMapped

\* Faces that go, with the rows that refer to them or to all of their person.
LEMMA FacesTaken ==
  ASSUME FacesTyped, Faces!FacesMapped,
         \A f \in Faces!Faces : face'[f] = None \/ face'[f] = face[f],
         \A mp \in Pictures \X Faces!People :
           \/ /\ faceMapping'[mp] = faceMapping[mp]
              /\ faceMapping[mp] \in Faces!Faces => face'[faceMapping[mp]] = face[faceMapping[mp]]
           \/ faceMapping'[mp] = 0
           \/ /\ faceMapping'[mp] = None
              /\ \A f \in Faces!Rows \ Faces!Unassigned :
                   Of(f) = mp => face'[f] = None \/ mp \in unmapped',
         unmapped \subseteq unmapped'
  PROVE  Faces!FacesMapped'
<1>0. 0 # None /\ None \notin Faces!Faces /\ 0 \notin Faces!Faces
  BY FacesAssumption DEF Faces!Faces
<1>1. ASSUME NEW f \in Faces!Rows' \ Faces!Unassigned'
      PROVE  f \in Faces!Rows \ Faces!Unassigned /\ face'[f] = face[f] /\ face'[f] # None
  BY DEF Faces!Rows, Faces!Unassigned
<1>2. ASSUME NEW f \in Faces!Rows' \ Faces!Unassigned',
             <<face'[f].media, face'[f].person>> \notin unmapped'
      PROVE  faceMapping'[<<face'[f].media, face'[f].person>>] # None
  <2>1. Of(f) = <<face'[f].media, face'[f].person>> /\ Of(f) \in Pictures \X Faces!People
    BY <1>1, RowOfFace DEF Of
  <2>2. faceMapping[Of(f)] # None
    BY <1>1, <1>2, <2>1 DEF Faces!FacesMapped, Of
  <2>3. faceMapping'[Of(f)] # None
    BY <1>0, <1>1, <1>2, <2>1, <2>2
  <2> QED
    BY <2>1, <2>3
<1>3. ASSUME NEW mp \in Pictures \X Faces!People, faceMapping'[mp] \in Faces!Faces
      PROVE  /\ faceMapping'[mp] \in Faces!Rows'
             /\ <<face'[faceMapping'[mp]].media, face'[faceMapping'[mp]].person>> = mp
  <2>1. /\ faceMapping'[mp] = faceMapping[mp]
        /\ face'[faceMapping[mp]] = face[faceMapping[mp]]
    BY <1>0, <1>3
  <2>2. faceMapping[mp] \in Faces!Rows /\ Of(faceMapping[mp]) = mp
    BY <1>3, <2>1 DEF Faces!FacesMapped, Of
  <2> QED
    BY <2>1, <2>2 DEF Faces!Rows, Of
<1> QED
  BY <1>2, <1>3 DEF Faces!FacesMapped

\* Faces nobody had that a person is given: the row of each media refers to one.
LEMMA FacesGiven ==
  ASSUME FacesTyped, Faces!FacesMapped, NEW fs \in SUBSET Faces!Unassigned, NEW p \in Faces!People,
         face' = Faces!Give(fs, p), faceMapping' \in Faces!MappedTo(fs, p), unmapped' = unmapped
  PROVE  /\ Faces!FacesMapped'
         /\ face' \in [Faces!Faces -> FaceRow \cup {None}]
         /\ faceMapping' \in [Pictures \X Faces!People -> 0..MaxFaces \cup {None}]
         /\ Faces!Rows' = Faces!Rows
<1>0. None \notin Faces!Faces /\ 0 \notin Faces!Faces /\ p # None
         /\ Faces!Faces \subseteq 0..MaxFaces
  BY FacesAssumption DEF Faces!Faces
<1>1. fs \subseteq Faces!Rows /\ fs \subseteq Faces!Faces
  BY DEF Faces!Unassigned, Faces!Rows
<1>2. \A f \in fs : /\ face'[f] \in FaceRow /\ face'[f].media = face[f].media
                    /\ face'[f].person = p /\ face'[f] # None
  <2> SUFFICES ASSUME NEW f \in fs
               PROVE  /\ face'[f] \in FaceRow /\ face'[f].media = face[f].media
                      /\ face'[f].person = p /\ face'[f] # None
    OBVIOUS
  <2>1. face[f] \in FaceRow
    BY <1>1, RowOfFace
  <2>2. face'[f] = [face[f] EXCEPT !.person = p, !.cluster = None, !.done = FALSE]
    BY <1>1 DEF Faces!Give
  <2>3. face'[f] \in FaceRow /\ face'[f].media = face[f].media /\ face'[f].person = p
    BY <2>1, <2>2 DEF FaceRow
  <2> QED
    BY <2>3, FacesAssumption
<1>3. \A f \in Faces!Faces \ fs : face'[f] = face[f]
  BY DEF Faces!Give
<1>4. DOMAIN face' = Faces!Faces /\ face' \in [Faces!Faces -> FaceRow \cup {None}]
  BY <1>1, <1>2, <1>3 DEF Faces!Give, FacesTyped
<1>5. Faces!Rows' = Faces!Rows
  <2>1. \A f \in Faces!Faces : face'[f] = None <=> face[f] = None
    BY <1>1, <1>2, <1>3 DEF Faces!Rows
  <2> QED
    BY <2>1 DEF Faces!Rows
<1>6. PICK pick \in {q \in [Pictures -> fs \cup {0}] :
                \A m \in Pictures : q[m] \in IF Faces!In(fs, m) = {} THEN {0} ELSE Faces!In(fs,
                   m)} :
        faceMapping' = [mp \in Pictures \X Faces!People |->
          IF mp[2] = p /\ Faces!In(fs, mp[1]) # {} THEN pick[mp[1]] ELSE faceMapping[mp]]
  BY DEF Faces!MappedTo
<1>7. ASSUME NEW mp \in Pictures \X Faces!People
      PROVE  \/ /\ mp[2] = p /\ faceMapping'[mp] \in fs /\ face[faceMapping'[mp]].media = mp[1]
             \/ /\ faceMapping'[mp] = faceMapping[mp]
                /\ mp[2] # p \/ Faces!In(fs, mp[1]) = {}
  <2>1. mp[1] \in Pictures
    OBVIOUS
  <2>2. CASE mp[2] = p /\ Faces!In(fs, mp[1]) # {}
    <3>1. pick[mp[1]] \in Faces!In(fs, mp[1]) /\ faceMapping'[mp] = pick[mp[1]]
      BY <1>6, <2>1, <2>2
    <3> QED
      BY <2>2, <3>1 DEF Faces!In
  <2>3. CASE ~(mp[2] = p /\ Faces!In(fs, mp[1]) # {})
    BY <1>6, <2>3
  <2> QED
    BY <2>2, <2>3
<1>8. faceMapping' \in [Pictures \X Faces!People -> 0..MaxFaces \cup {None}]
  <2>1. \A mp \in Pictures \X Faces!People : faceMapping'[mp] \in 0..MaxFaces \cup {None}
    BY <1>0, <1>1, <1>7 DEF FacesTyped
  <2> QED
    BY <1>6, <2>1
<1>9. ASSUME NEW f \in Faces!Rows' \ Faces!Unassigned',
             <<face'[f].media, face'[f].person>> \notin unmapped'
      PROVE  faceMapping'[<<face'[f].media, face'[f].person>>] # None
  <2>1. f \in Faces!Faces /\ f \in Faces!Rows
    BY <1>5 DEF Faces!Rows
  <2>2. CASE f \in fs
    <3>1. face[f].media \in Pictures
      BY <2>1, RowOfFace DEF FaceRow
    <3> DEFINE mp == <<face[f].media, p>>
    <3>2. mp \in Pictures \X Faces!People /\ mp[1] = face[f].media /\ mp[2] = p
      BY <3>1
    <3>3. Faces!In(fs, mp[1]) # {}
      BY <2>2, <3>2 DEF Faces!In
    <3> HIDE DEF mp
    <3>4. faceMapping'[mp] \in fs
      BY <1>7, <3>2, <3>3
    <3>5. mp = <<face'[f].media, face'[f].person>>
      BY <1>2, <2>2 DEF mp
    <3> QED
      BY <1>0, <1>1, <3>4, <3>5
  <2>3. CASE f \notin fs
    <3>1. face'[f] = face[f] /\ f \notin Faces!Unassigned
      BY <1>3, <2>1, <2>3 DEF Faces!Unassigned
    <3>2. Of(f) \in Pictures \X Faces!People /\ Of(f) = <<face'[f].media, face'[f].person>>
      BY <2>1, <3>1, RowOfFace DEF Of
    <3>3. faceMapping[Of(f)] # None
      BY <1>9, <2>1, <3>1, <3>2 DEF Faces!FacesMapped, Of
    <3>4. faceMapping'[Of(f)] # None
      BY <1>0, <1>1, <1>7, <3>2, <3>3
    <3> QED
      BY <3>2, <3>4
  <2> QED
    BY <2>2, <2>3
<1>10. ASSUME NEW mp \in Pictures \X Faces!People, faceMapping'[mp] \in Faces!Faces
       PROVE  /\ faceMapping'[mp] \in Faces!Rows'
              /\ <<face'[faceMapping'[mp]].media, face'[faceMapping'[mp]].person>> = mp
  <2>1. CASE mp[2] = p /\ faceMapping'[mp] \in fs /\ face[faceMapping'[mp]].media = mp[1]
    <3>1. mp = <<mp[1], mp[2]>>
      OBVIOUS
    <3> QED
      BY <1>1, <1>2, <1>5, <2>1, <3>1
  <2>2. CASE faceMapping'[mp] = faceMapping[mp]
    <3>1. faceMapping[mp] \in Faces!Rows /\ Of(faceMapping[mp]) = mp
      BY <1>10, <2>2 DEF Faces!FacesMapped, Of
    <3>2. face[faceMapping[mp]].person # None
      <4>1. mp[2] \in Faces!People
        OBVIOUS
      <4>2. face[faceMapping[mp]].person = mp[2]
        BY <3>1 DEF Of
      <4> QED
        BY <4>1, <4>2, FacesAssumption
    <3>3. faceMapping[mp] \notin fs
      BY <3>2 DEF Faces!Unassigned
    <3>4. face'[faceMapping[mp]] = face[faceMapping[mp]]
      BY <1>3, <1>10, <2>2, <3>3
    <3> QED
      BY <1>5, <2>2, <3>1, <3>4 DEF Of
  <2> QED
    BY <1>7, <2>1, <2>2
<1>11. Faces!FacesMapped'
  BY <1>9, <1>10 DEF Faces!FacesMapped
<1> QED
  BY <1>4, <1>5, <1>8, <1>11

\* Faces that are taken from whom they had: their medias' rows are noted.
LEMMA FacesLost ==
  ASSUME FacesTyped, Faces!FacesMapped, NEW fs, Faces!UnassignFaces(fs), fs \subseteq Faces!Rows
  PROVE  /\ Faces!FacesMapped'
         /\ face' \in [Faces!Faces -> FaceRow \cup {None}]
         /\ faceMapping' \in [Pictures \X Faces!People -> 0..MaxFaces \cup {None}]
         /\ Faces!Rows' = Faces!Rows
<1> DEFINE gone == fs \ Faces!Unassigned
           off  == {mp \in Pictures \X Faces!People : faceMapping[mp] \in gone}
<1>0. None \notin Faces!Faces
  BY FacesAssumption DEF Faces!Faces
<1>1. /\ face' = Faces!Give(gone, None)
      /\ faceMapping' = [mp \in Pictures \X Faces!People |-> IF mp \in off THEN None ELSE faceMapping[mp]]
      /\ unmapped' = unmapped \cup off
  BY DEF Faces!UnassignFaces
<1>2. \A f \in gone : face'[f] \in FaceRow /\ face'[f].person = None /\ face'[f] # None
  <2> SUFFICES ASSUME NEW f \in gone
               PROVE  face'[f] \in FaceRow /\ face'[f].person = None /\ face'[f] # None
    OBVIOUS
  <2>1. face[f] \in FaceRow /\ f \in Faces!Faces
    BY RowOfFace
  <2>2. face'[f] = [face[f] EXCEPT !.person = None, !.cluster = None, !.done = FALSE]
    BY <1>1, <2>1 DEF Faces!Give
  <2>3. face'[f] \in FaceRow /\ face'[f].person = None
    BY <2>1, <2>2 DEF FaceRow
  <2> QED
    BY <2>3, FacesAssumption
<1>3. \A f \in Faces!Faces \ gone : face'[f] = face[f]
  BY <1>1 DEF Faces!Give
<1>4. gone \subseteq Faces!Rows /\ gone \subseteq Faces!Faces
  BY DEF Faces!Rows
<1>5. face' \in [Faces!Faces -> FaceRow \cup {None}]
  BY <1>1, <1>2, <1>3 DEF Faces!Give, FacesTyped
<1>6. Faces!Rows' = Faces!Rows
  <2>1. \A f \in Faces!Faces : face'[f] = None <=> face[f] = None
    BY <1>2, <1>3, <1>4 DEF Faces!Rows
  <2> QED
    BY <2>1 DEF Faces!Rows
<1>7. faceMapping' \in [Pictures \X Faces!People -> 0..MaxFaces \cup {None}]
  BY <1>1 DEF FacesTyped
<1>8. ASSUME NEW f \in Faces!Rows' \ Faces!Unassigned',
             <<face'[f].media, face'[f].person>> \notin unmapped'
      PROVE  faceMapping'[<<face'[f].media, face'[f].person>>] # None
  <2>1. f \in Faces!Rows /\ f \in Faces!Faces /\ face'[f].person # None
    BY <1>6 DEF Faces!Unassigned, Faces!Rows
  <2>2. f \notin gone
    BY <1>2, <2>1
  <2>3. face'[f] = face[f] /\ f \notin Faces!Unassigned
    BY <1>3, <2>1, <2>2 DEF Faces!Unassigned
  <2>4. Of(f) \in Pictures \X Faces!People /\ Of(f) = <<face'[f].media, face'[f].person>>
    BY <2>1, <2>3, RowOfFace DEF Of
  <2>5. Of(f) \notin unmapped /\ Of(f) \notin off
    BY <1>1, <1>8, <2>4
  <2>6. faceMapping[Of(f)] # None
    BY <2>1, <2>3, <2>5 DEF Faces!FacesMapped, Of
  <2> QED
    BY <1>1, <2>4, <2>5, <2>6
<1>9. ASSUME NEW mp \in Pictures \X Faces!People, faceMapping'[mp] \in Faces!Faces
      PROVE  /\ faceMapping'[mp] \in Faces!Rows'
             /\ <<face'[faceMapping'[mp]].media, face'[faceMapping'[mp]].person>> = mp
  <2>1. faceMapping'[mp] = faceMapping[mp] /\ faceMapping[mp] \notin gone
    BY <1>0, <1>1, <1>9
  <2>2. faceMapping[mp] \in Faces!Rows /\ Of(faceMapping[mp]) = mp
    BY <1>9, <2>1 DEF Faces!FacesMapped, Of
  <2>3. face'[faceMapping[mp]] = face[faceMapping[mp]]
    BY <1>3, <1>9, <2>1
  <2> QED
    BY <1>6, <2>1, <2>2, <2>3 DEF Of
<1>10. Faces!FacesMapped'
  BY <1>8, <1>9 DEF Faces!FacesMapped
<1> QED
  BY <1>5, <1>6, <1>7, <1>10

\* A merge gives the source's faces to the target, and the rows with them.
LEMMA FacesTransferred ==
  ASSUME FacesTyped, Faces!FacesMapped, NEW s \in Faces!People, NEW t \in Faces!People,
         Faces!TransferFaces(s, t)
  PROVE  /\ Faces!FacesMapped'
         /\ face' \in [Faces!Faces -> FaceRow \cup {None}]
         /\ faceMapping' \in [Pictures \X Faces!People -> 0..MaxFaces \cup {None}]
         /\ Faces!Rows' = Faces!Rows
<1> DEFINE both == {m \in Pictures : faceMapping[<<m, s>>] # None /\ faceMapping[<<m, t>>] # None}
<1>0. None \notin Faces!Faces /\ None \notin Faces!People
  BY FacesAssumption DEF Faces!Faces
<1>1. /\ face' = [f \in Faces!Faces |-> IF f \in Faces!FacesOf(s) THEN [face[f] EXCEPT !.person = t]
                                        ELSE face[f]]
      /\ faceMapping' = [mp \in Pictures \X Faces!People |->
           IF mp[2] = s THEN None
           ELSE IF mp[2] = t /\ mp[1] \notin both /\ faceMapping[mp] = None
                THEN faceMapping[<<mp[1], s>>] ELSE faceMapping[mp]]
      /\ unmapped' = unmapped \cup {mp \in Pictures \X Faces!People :
           IF s = t THEN mp[2] = s ELSE mp[2] = t /\ <<mp[1], s>> \in unmapped}
  BY DEF Faces!TransferFaces
<1>2. ASSUME NEW f \in Faces!Rows
      PROVE  /\ face'[f] \in FaceRow /\ face'[f] # None /\ face'[f].media = face[f].media
             /\ face'[f].person = IF face[f].person = s THEN t ELSE face[f].person
  <2>1. face[f] \in FaceRow /\ f \in Faces!Faces
    BY RowOfFace
  <2>2. face'[f] = IF face[f].person = s THEN [face[f] EXCEPT !.person = t] ELSE face[f]
    BY <1>1, <2>1 DEF Faces!FacesOf
  <2>3. face'[f] \in FaceRow
    BY <2>1, <2>2 DEF FaceRow
  <2> QED
    BY <2>1, <2>2, <2>3, FacesAssumption DEF FaceRow
<1>3. \A f \in Faces!Faces \ Faces!Rows : face'[f] = face[f] /\ face[f] = None
  BY <1>1 DEF Faces!FacesOf, Faces!Rows
<1>4. face' \in [Faces!Faces -> FaceRow \cup {None}]
  BY <1>1, <1>2, <1>3
<1>5. Faces!Rows' = Faces!Rows
  <2>1. \A f \in Faces!Faces : face'[f] = None <=> face[f] = None
    BY <1>2, <1>3 DEF Faces!Rows
  <2> QED
    BY <2>1 DEF Faces!Rows
<1>6. ASSUME NEW m \in Pictures, NEW p \in Faces!People
      PROVE  /\ <<m, p>> \in Pictures \X Faces!People
             /\ faceMapping'[<<m, p>>] =
                  IF p = s THEN None
                  ELSE IF p = t /\ m \notin both /\ faceMapping[<<m, p>>] = None
                       THEN faceMapping[<<m, s>>] ELSE faceMapping[<<m, p>>]
  BY <1>1
<1>7. faceMapping' \in [Pictures \X Faces!People -> 0..MaxFaces \cup {None}]
  <2>1. ASSUME NEW m \in Pictures, NEW p \in Faces!People
        PROVE  faceMapping'[<<m, p>>] \in 0..MaxFaces \cup {None}
    <3>1. /\ faceMapping[<<m, p>>] \in 0..MaxFaces \cup {None}
          /\ faceMapping[<<m, s>>] \in 0..MaxFaces \cup {None}
      BY DEF FacesTyped
    <3> QED
      BY <1>6, <3>1
  <2>2. \A mp \in Pictures \X Faces!People : faceMapping'[mp] \in 0..MaxFaces \cup {None}
    BY <2>1
  <2> QED
    BY <1>1, <2>2
<1>8. ASSUME NEW f \in Faces!Rows' \ Faces!Unassigned',
             <<face'[f].media, face'[f].person>> \notin unmapped'
      PROVE  faceMapping'[<<face'[f].media, face'[f].person>>] # None
  <2> DEFINE m == face[f].media
             p == face[f].person
  <2>1. f \in Faces!Rows /\ m \in Pictures /\ face'[f].media = m
    BY <1>2, <1>5, RowOfFace DEF FaceRow
  <2>2. face'[f].person = IF p = s THEN t ELSE p
    BY <1>2, <2>1
  <2>3. face'[f].person # None
    BY DEF Faces!Unassigned
  <2>4. p # None /\ p \in Faces!People /\ f \notin Faces!Unassigned
    BY <1>0, <2>1, <2>2, <2>3, RowOfFace DEF FaceRow, Faces!Unassigned
  <2>5. <<m, p>> \notin unmapped => faceMapping[<<m, p>>] # None
    BY <2>1, <2>4 DEF Faces!FacesMapped
  <2> HIDE DEF m, p
  <2>6. CASE p = s
    <3>1. <<m, t>> \notin unmapped' /\ face'[f].person = t
      BY <1>8, <2>1, <2>2, <2>6
    <3>5. <<m, t>> \in Pictures \X Faces!People /\ <<m, t>>[1] = m /\ <<m, t>>[2] = t
      BY <2>1
    <3>2. s # t /\ <<m, s>> \notin unmapped
      BY <1>1, <3>1, <3>5
    <3>3. faceMapping[<<m, s>>] # None
      BY <2>5, <2>6, <3>2
    <3>4. faceMapping'[<<m, t>>] # None
      BY <1>6, <2>1, <3>2, <3>3
    <3> QED
      BY <2>1, <3>1, <3>4
  <2>7. CASE p # s
    <3>4. unmapped \subseteq unmapped'
      BY <1>1
    <3>1. <<m, p>> \notin unmapped /\ face'[f].person = p
      BY <1>8, <2>1, <2>2, <2>7, <3>4
    <3>2. faceMapping[<<m, p>>] # None
      BY <2>5, <3>1
    <3>3. faceMapping'[<<m, p>>] # None
      BY <1>6, <2>1, <2>4, <2>7, <3>2
    <3> QED
      BY <2>1, <3>1, <3>3
  <2> QED
    BY <2>6, <2>7
<1>9. ASSUME NEW mp \in Pictures \X Faces!People, faceMapping'[mp] \in Faces!Faces
      PROVE  /\ faceMapping'[mp] \in Faces!Rows'
             /\ <<face'[faceMapping'[mp]].media, face'[faceMapping'[mp]].person>> = mp
  <2>1. PICK m \in Pictures, p \in Faces!People : mp = <<m, p>>
    OBVIOUS
  <2>2. p # s /\ (faceMapping'[mp] = faceMapping[<<m, p>>]
                    \/ (p = t /\ faceMapping'[mp] = faceMapping[<<m, s>>]))
    BY <1>0, <1>6, <1>9, <2>1
  <2>3. CASE faceMapping'[mp] = faceMapping[<<m, p>>]
    <3>1. faceMapping'[mp] \in Faces!Rows /\ face[faceMapping'[mp]].media = m
          /\ face[faceMapping'[mp]].person = p
      BY <1>9, <2>1, <2>3 DEF Faces!FacesMapped
    <3> QED
      BY <1>2, <1>5, <2>1, <2>2, <3>1
  <2>4. CASE p = t /\ faceMapping'[mp] = faceMapping[<<m, s>>]
    <3>1. faceMapping'[mp] \in Faces!Rows /\ face[faceMapping'[mp]].media = m
          /\ face[faceMapping'[mp]].person = s
      BY <1>9, <2>1, <2>4 DEF Faces!FacesMapped
    <3> QED
      BY <1>2, <1>5, <2>1, <2>4, <3>1
  <2> QED
    BY <2>2, <2>3, <2>4
<1>10. Faces!FacesMapped'
  BY <1>8, <1>9 DEF Faces!FacesMapped
<1> QED
  BY <1>4, <1>5, <1>7, <1>10

\* A new face, of a person or of nobody.
LEMMA FacePlaced ==
  ASSUME FacesTyped, Faces!FacesMapped, NEW row \in FaceRow, NEW new,
         facesUsed.faces < MaxFaces, new = facesUsed.faces + 1, face' = [face EXCEPT ![new] = row],
         \/ row.person = None /\ faceMapping' = faceMapping
         \/ /\ row.person # None
            /\ faceMapping' = [faceMapping EXCEPT ![<<row.media, row.person>>] = new],
         unmapped' = unmapped
  PROVE  /\ Faces!FacesMapped'
         /\ face' \in [Faces!Faces -> FaceRow \cup {None}]
         /\ faceMapping' \in [Pictures \X Faces!People -> 0..MaxFaces \cup {None}]
         /\ Faces!Rows' \subseteq 1..new
<1>0. None \notin Faces!Faces /\ row # None /\ None \notin Faces!People
  BY FacesAssumption DEF Faces!Faces
<1>1. new \in Faces!Faces /\ new \in 0..MaxFaces /\ new \notin Faces!Rows
         /\ Faces!Rows \subseteq 1..new
  BY FacesAssumption DEF FacesTyped, Faces!Faces
<1>2. face' \in [Faces!Faces -> FaceRow \cup {None}]
  BY <1>1 DEF FacesTyped
<1>3. face'[new] = row /\ \A f \in Faces!Faces : f # new => face'[f] = face[f]
  BY <1>1 DEF FacesTyped
<1>4. Faces!Rows' = Faces!Rows \cup {new}
  BY <1>0, <1>1, <1>3 DEF Faces!Rows
<1>5. Faces!Rows' \subseteq 1..new
  <2>1. new \in 1..new
    BY <1>1 DEF Faces!Faces
  <2> QED
    BY <1>1, <1>4, <2>1
<1>6. row.media \in Pictures /\ (row.person # None => row.person \in Faces!People)
  BY DEF FaceRow
<1>7. faceMapping' \in [Pictures \X Faces!People -> 0..MaxFaces \cup {None}]
  BY <1>1, <1>6 DEF FacesTyped
<1>8. ASSUME NEW mp \in Pictures \X Faces!People
      PROVE  \/ /\ faceMapping'[mp] = new /\ row.person # None
                /\ mp = <<row.media, row.person>>
             \/ /\ faceMapping'[mp] = faceMapping[mp]
                /\ row.person # None => mp # <<row.media, row.person>>
  BY <1>6 DEF FacesTyped
<1>9. ASSUME NEW f \in Faces!Rows' \ Faces!Unassigned',
             <<face'[f].media, face'[f].person>> \notin unmapped'
      PROVE  faceMapping'[<<face'[f].media, face'[f].person>>] # None
  <2>1. CASE f = new
    <3>1. row.person # None
      BY <1>3, <2>1 DEF Faces!Unassigned
    <3>2. <<row.media, row.person>> \in Pictures \X Faces!People
      BY <1>6, <3>1
    <3>3. faceMapping'[<<row.media, row.person>>] = new
      BY <1>8, <3>1, <3>2
    <3> QED
      BY <1>0, <1>1, <1>3, <2>1, <3>3
  <2>2. CASE f # new
    <3>1. f \in Faces!Rows /\ face'[f] = face[f] /\ f \notin Faces!Unassigned
      BY <1>3, <1>4, <2>2 DEF Faces!Unassigned, Faces!Rows
    <3>2. Of(f) \in Pictures \X Faces!People /\ Of(f) = <<face'[f].media, face'[f].person>>
      BY <3>1, RowOfFace DEF Of
    <3>3. faceMapping[Of(f)] # None
      BY <1>9, <3>1, <3>2 DEF Faces!FacesMapped, Of
    <3>4. faceMapping'[Of(f)] # None
      BY <1>0, <1>1, <1>8, <3>2, <3>3
    <3> QED
      BY <3>2, <3>4
  <2> QED
    BY <2>1, <2>2
<1>10. ASSUME NEW mp \in Pictures \X Faces!People, faceMapping'[mp] \in Faces!Faces
       PROVE  /\ faceMapping'[mp] \in Faces!Rows'
              /\ <<face'[faceMapping'[mp]].media, face'[faceMapping'[mp]].person>> = mp
  <2>1. CASE faceMapping'[mp] = new /\ mp = <<row.media, row.person>>
    BY <1>3, <1>4, <2>1
  <2>2. CASE faceMapping'[mp] = faceMapping[mp]
    <3>1. faceMapping[mp] \in Faces!Rows /\ Of(faceMapping[mp]) = mp
      BY <1>10, <2>2 DEF Faces!FacesMapped, Of
    <3>2. face'[faceMapping[mp]] = face[faceMapping[mp]]
      BY <1>1, <1>3, <3>1 DEF Faces!Rows
    <3> QED
      BY <1>4, <2>2, <3>1, <3>2 DEF Of
  <2> QED
    BY <1>8, <2>1, <2>2
<1>11. Faces!FacesMapped'
  BY <1>9, <1>10 DEF Faces!FacesMapped
<1> QED
  BY <1>2, <1>5, <1>7, <1>11

\* A worker goes on to something that has the form of it.
LEMMA WorkGoesOn ==
  ASSUME FacesInv, NEW w \in Faces!Workers, NEW to, WorkForm(to), work' = [work EXCEPT ![w] = to]
  PROVE  DOMAIN work' = Faces!Workers /\ \A v \in Faces!Workers : WorkForm(work'[v])
<1>1. DOMAIN work = Faces!Workers /\ \A v \in Faces!Workers : WorkForm(work[v])
  BY DEF FacesInv, FacesTyped
<1>2. DOMAIN work' = Faces!Workers
  BY <1>1
<1>3. ASSUME NEW v \in Faces!Workers PROVE WorkForm(work'[v])
  <2>1. CASE v = w
    <3>1. work'[v] = to
      BY <1>1, <2>1
    <3> QED
      BY <3>1
  <2>2. CASE v # w
    <3>1. work'[v] = work[v]
      BY <1>1, <2>2
    <3> QED
      BY <1>1, <3>1
  <2> QED
    BY <2>1, <2>2
<1> QED
  BY <1>2, <1>3

\* Going on to another place that asks for nothing at hand, or for the same.
LEMMA FaceWorkGoes ==
  ASSUME FacesInv, NEW w \in Faces!Workers, NEW pc, Faces!Goes(w, pc),
         \/ pc \in {"error", "chunk"}
         \/ pc = "faces" /\ work[w].pc = "place"
  PROVE  DOMAIN work' = Faces!Workers /\ \A v \in Faces!Workers : WorkForm(work'[v])
<1> DEFINE to == [work[w] EXCEPT !.pc = pc]
<1>1. WorkForm(work[w]) /\ DOMAIN work = Faces!Workers
  BY DEF FacesInv, FacesTyped
<1>2. work' = [work EXCEPT ![w] = to]
  BY <1>1 DEF Faces!Goes
<1>3. WorkForm(to)
  BY <1>1 DEF WorkForm, WorkFields
<1> HIDE DEF to
<1> QED
  BY <1>2, <1>3, WorkGoesOn

\* What asks for nothing: Idle, at any place but those of a detection or a clustering.
LEMMA RestForm ==
  ASSUME NEW pc \in {"idle", "chunk", "clustered", "final", "matching", "assign", "merge"},
         NEW todo, NEW all, NEW person, NEW final
  PROVE  WorkForm([pc |-> pc, media |-> None, todo |-> todo, look |-> None, person |-> person,
                   all |-> all, final |-> final])
BY DEF WorkForm, WorkFields

\* The label of a cluster is the index of one of its faces.
LEMMA ClustersLabelled ==
  ASSUME NEW clusters \in Faces!ChineseWhispers(Faces!Unassigned), NEW g \in clusters
  PROVE  g.label \in FaceLabels
<1> DEFINE fs     == Faces!Unassigned
           groups == {Faces!Alike(look, fs) : look \in Looks} \ {{}}
<1>1. fs \in SUBSET Faces!Faces
  BY DEF Faces!Unassigned, Faces!Rows
<1>2. \E many \in SUBSET groups : \E pick \in [many -> fs] :
        clusters = {[label |-> Faces!Index(pick[h], fs), faces |-> h,
                     medias |-> {face[f].media : f \in h}] : h \in many}
  BY ZenonT(60) DEF Faces!ChineseWhispers
<1>3. PICK f \in fs : g.label = Faces!Index(f, fs)
  BY <1>2
<1>4. f \in Faces!Faces
  BY <1>1
<1> HIDE DEF fs
<1> QED
  BY <1>1, <1>3, <1>4 DEF FaceLabels

\* A detection starts with some of the looks.
LEMMA MediaStarted ==
  ASSUME FacesInv, NEW w \in Faces!Workers, NEW m \in Pictures, Faces!StartMedia(w, m)
  PROVE  DOMAIN work' = Faces!Workers /\ \A v \in Faces!Workers : WorkForm(work'[v])
<1>1. PICK looks \in SUBSET Looks :
        work' = [work EXCEPT ![w] = [work[w] EXCEPT !.pc = "faces", !.media = m, !.todo = looks]]
  BY DEF Faces!StartMedia, Faces!DeduplicateFaces, Faces!Becomes
<1> DEFINE to == [work[w] EXCEPT !.pc = "faces", !.media = m, !.todo = looks]
<1>2. WorkForm(work[w])
  BY DEF FacesInv
<1>3. WorkForm(to)
  BY <1>2 DEF WorkForm, WorkFields
<1> HIDE DEF to
<1>4. work' = [work EXCEPT ![w] = to]
  BY <1>1 DEF to
<1> QED
  BY <1>3, <1>4, WorkGoesOn

\* A clustering starts with labelled clusters, or ends for want of faces.
LEMMA ClusterStarted ==
  ASSUME FacesInv, NEW w \in Faces!Workers, Faces!StartCluster(w)
  PROVE  DOMAIN work' = Faces!Workers /\ \A v \in Faces!Workers : WorkForm(work'[v])
<1>1. WorkForm(work[w])
  BY DEF FacesInv
<1> DEFINE clustered == [work[w] EXCEPT !.pc = "clustered"]
           cluster(clusters) == [work[w] EXCEPT !.pc = "cluster", !.todo = clusters,
              !.all = Faces!Unassigned]
<1>2. \/ work' = [work EXCEPT ![w] = clustered]
      \/ \E clusters \in Faces!ChineseWhispers(Faces!Unassigned) :
           work' = [work EXCEPT ![w] = cluster(clusters)]
  BY DEF Faces!StartCluster, Faces!Becomes
<1>3. WorkForm(clustered)
  BY <1>1 DEF WorkForm, WorkFields
<1>4. ASSUME NEW clusters \in Faces!ChineseWhispers(Faces!Unassigned)
      PROVE WorkForm(cluster(clusters))
  <2>1. \A g \in clusters : g.label \in FaceLabels
    BY ClustersLabelled
  <2> QED
    BY <1>1, <2>1 DEF WorkForm, WorkFields
<1> HIDE DEF clustered, cluster
<1>5. CASE work' = [work EXCEPT ![w] = clustered]
  BY <1>3, <1>5, WorkGoesOn
<1>6. ASSUME NEW clusters \in Faces!ChineseWhispers(Faces!Unassigned),
             work' = [work EXCEPT ![w] = cluster(clusters)]
      PROVE  DOMAIN work' = Faces!Workers /\ \A v \in Faces!Workers : WorkForm(work'[v])
  BY <1>4, <1>6, WorkGoesOn
<1> QED
  BY <1>2, <1>5, <1>6

\* Every step of detection, clustering and requests keeps the rows of faces mapped.
LEMMA FacesStep == FacesInv /\ [MCNext]_CatalogueVars => FacesInv'
<1> SUFFICES ASSUME FacesInv, [MCNext]_CatalogueVars PROVE FacesInv'
  OBVIOUS
<1> DEFINE WorkFormed == DOMAIN work' = Faces!Workers /\ \A v \in Faces!Workers : WorkForm(work'[v])
           RowsTyped == /\ face' \in [Faces!Faces -> FaceRow \cup {None}]
                     /\ faceMapping' \in [Pictures \X Faces!People -> 0..MaxFaces \cup {None}]
<1>0. /\ FacesTyped /\ (\A w \in Faces!Workers : WorkForm(work[w])) /\ Faces!FacesMapped
      /\ DOMAIN work = Faces!Workers
  BY DEF FacesInv, FacesTyped
\* The work at hand alone.
<1>1. ASSUME UNCHANGED <<face, faceMapping, people, facesUsed, unmapped>>, WorkFormed
      PROVE FacesInv'
  <2>1. FacesTyped'
    BY <1>0, <1>1 DEF FacesTyped, Faces!Rows
  <2>2. Faces!FacesMapped'
    BY <1>0, <1>1 DEF Faces!FacesMapped, Faces!Rows, Faces!Unassigned
  <2> QED
    BY <1>1, <2>1, <2>2 DEF FacesInv
\* The rows of faces and of medias.
<1>2. ASSUME UNCHANGED facesUsed, people' \subseteq people, WorkFormed, RowsTyped,
             Faces!Rows' \subseteq Faces!Rows,
             Faces!FacesMapped'
      PROVE  FacesInv'
  <2>1. FacesTyped'
    BY <1>0, <1>2 DEF FacesTyped
  <2> QED
    BY <1>2, <2>1 DEF FacesInv
<1>3. ASSUME UNCHANGED work PROVE WorkFormed
  BY <1>0, <1>3
<1>4. ASSUME NEW w \in Faces!Workers, NEW to, WorkForm(to), Faces!Becomes(w, to) PROVE WorkFormed
  BY <1>4, WorkGoesOn DEF Faces!Becomes
<1>5. WorkForm(Faces!Idle)
  BY RestForm DEF Faces!Idle
<1> HIDE DEF WorkFormed
<1>6. ASSUME NEW w \in Faces!Workers, Faces!Becomes(w, Faces!Idle) PROVE WorkFormed
  BY <1>4, <1>5, <1>6
<1>10. ASSUME NEW w \in Faces!Workers, Faces!MatchFace(w) PROVE FacesInv'
  <2>1. PICK look \in work[w].todo :
          \E p \in IF Faces!MatchFaceToPerson(look) = {} THEN {None} ELSE Faces!MatchFaceToPerson(look) :
            Faces!Becomes(w, [work[w] EXCEPT !.pc = "place", !.look = look, !.person = p,
               !.todo = @ \ {look}])
    BY <1>10 DEF Faces!MatchFace
  <2>2. PICK p : Faces!Becomes(w, [work[w] EXCEPT !.pc = "place", !.look = look, !.person = p,
           !.todo = @ \ {look}])
    BY <2>1
  <2> DEFINE to == [work[w] EXCEPT !.pc = "place", !.look = look, !.person = p, !.todo = @ \ {look}]
  <2>3. work[w].pc = "faces" /\ WorkForm(work[w])
    BY <1>0, <1>10 DEF Faces!MatchFace, Faces!At
  <2>4. WorkForm(to)
    BY <2>3 DEF WorkForm, WorkFields
  <2> HIDE DEF to
  <2>5. Faces!Becomes(w, to)
    BY <2>2 DEF to
  <2>6. WorkFormed
    BY <1>4, <2>4, <2>5
  <2> QED
    BY <1>1, <1>10, <2>6 DEF Faces!MatchFace
<1>11. ASSUME NEW w \in Faces!Workers, Faces!PlaceFace(w) PROVE FacesInv'
  <2> DEFINE m == work[w].media
             p == work[w].person
             row == [media |-> m, look |-> work[w].look, person |-> p, cluster |-> None,
                done |-> FALSE]
             new == facesUsed.faces + 1
  <2>1. work[w].pc = "place" /\ m \in Pictures /\ work[w].look \in Looks
    BY <1>0, <1>11 DEF Faces!PlaceFace, Faces!At, WorkForm
  <2>2. CASE picture[m] = "gone" \/ p \notin people \cup {None}
    <3>1. Faces!Goes(w, "error") /\ UNCHANGED <<face, faceMapping, facesUsed, people, unmapped>>
      BY <1>11, <2>2 DEF Faces!PlaceFace
    <3>2. WorkFormed
      BY <3>1, FaceWorkGoes DEF WorkFormed
    <3> QED
      BY <1>1, <3>1, <3>2
  <2>3. CASE ~(picture[m] = "gone" \/ p \notin people \cup {None})
    <3>1. /\ facesUsed.faces < MaxFaces
          /\ facesUsed' = [facesUsed EXCEPT !.faces = @ + 1]
          /\ IF p = None THEN Faces!AddUnassignedFace(m, work[w].look) /\ UNCHANGED faceMapping
             ELSE Faces!AddFaceEmbedding(m, work[w].look, p)
          /\ Faces!Goes(w, "faces")
          /\ UNCHANGED <<people, unmapped>>
      BY <1>11, <2>3 DEF Faces!PlaceFace
    <3>2. WorkFormed
      BY <2>1, <3>1, FaceWorkGoes DEF WorkFormed
    <3>3. row \in FaceRow
      BY <1>0, <2>1, <2>3 DEF FaceRow, FacesTyped
    <3>4. row.media = m /\ row.person = p
      OBVIOUS
    <3>5. face' = [face EXCEPT ![new] = row]
      BY <3>1 DEF Faces!AddUnassignedFace, Faces!AddFaceEmbedding
    <3>6. \/ p = None /\ faceMapping' = faceMapping
          \/ p # None /\ faceMapping' = [faceMapping EXCEPT ![<<m, p>>] = new]
      BY <3>1 DEF Faces!AddFaceEmbedding
    <3> HIDE DEF row
    <3>7. Faces!FacesMapped' /\ RowsTyped /\ Faces!Rows' \subseteq 1..new
      BY <1>0, <3>1, <3>3, <3>4, <3>5, <3>6, FacePlaced
    <3>8. facesUsed' \in [faces : 0..MaxFaces, people : 0..MaxPeople] /\ facesUsed'.faces = new
      BY <1>0, <3>1, FacesAssumption DEF FacesTyped
    <3>9. FacesTyped'
      BY <1>0, <3>1, <3>2, <3>7, <3>8 DEF FacesTyped, WorkFormed
    <3> QED
      BY <3>2, <3>7, <3>9 DEF FacesInv, WorkFormed
  <2> QED
    BY <2>2, <2>3
<1>12. ASSUME NEW w \in Faces!Workers, Faces!MarkProcessed(w) \/ Faces!MarkError(w) PROVE FacesInv'
  <2>1. Faces!Ends(w) /\ UNCHANGED <<face, faceMapping, people, facesUsed, unmapped>>
    BY <1>12 DEF Faces!MarkProcessed, Faces!MarkError
  <2> DEFINE to == [Faces!Idle EXCEPT !.pc = IF w = Task THEN "chunk" ELSE "idle"]
  <2>2. WorkForm(to)
    BY DEF WorkForm, WorkFields, Faces!Idle
  <2> HIDE DEF to
  <2>3. WorkFormed
    BY <1>4, <2>1, <2>2 DEF Faces!Ends, to
  <2> QED
    BY <1>1, <2>1, <2>3
<1>13. ASSUME NEW w \in Faces!Workers, Faces!LabelCluster(w) PROVE FacesInv'
  <2>1. PICK g \in work[w].todo :
          /\ Faces!AssignClusterToFaces(g.faces, g.label)
          /\ \/ Faces!Becomes(w, [work[w] EXCEPT !.pc = "person", !.look = g])
             \/ Faces!Becomes(w, [work[w] EXCEPT !.todo = @ \ {g}, !.all = @ \ g.faces])
    BY <1>13 DEF Faces!LabelCluster
  <2>2. work[w].pc = "cluster" /\ WorkForm(work[w]) /\ g.label \in FaceLabels
    BY <1>0, <1>13 DEF Faces!LabelCluster, Faces!At, WorkForm
  <2>3. WorkForm([work[w] EXCEPT !.pc = "person", !.look = g])
    BY <2>2 DEF WorkForm, WorkFields
  <2>4. WorkForm([work[w] EXCEPT !.todo = @ \ {g}, !.all = @ \ g.faces])
    BY <2>2 DEF WorkForm, WorkFields
  <2>5. WorkFormed
    BY <1>4, <2>1, <2>3, <2>4
  <2>6. ASSUME NEW f \in Faces!Faces
        PROVE  /\ face'[f] \in FaceRow \cup {None}
               /\ face'[f] = None <=> face[f] = None
               /\ face[f] # None => face'[f].media = face[f].media
                     /\ face'[f].person = face[f].person
    <3>1. \/ face'[f] = face[f]
          \/ face[f] # None /\ face'[f] = [face[f] EXCEPT !.cluster = g.label, !.done = TRUE]
      BY <2>1 DEF Faces!AssignClusterToFaces, Faces!Unassigned, Faces!Rows
    <3>2. CASE face'[f] = face[f]
      BY <1>0, <3>2 DEF FacesTyped
    <3>3. CASE face[f] # None /\ face'[f] = [face[f] EXCEPT !.cluster = g.label, !.done = TRUE]
      <4>1. face[f] \in FaceRow
        BY <1>0, <3>3 DEF FacesTyped
      <4>2. face'[f] \in FaceRow /\ face'[f].media = face[f].media
               /\ face'[f].person = face[f].person
        BY <2>2, <3>3, <4>1 DEF FaceRow
      <4> QED
        BY <3>3, <4>2, FacesAssumption
    <3> QED
      BY <3>1, <3>2, <3>3
  <2>7. UNCHANGED <<faceMapping, people, facesUsed, unmapped>>
    BY <1>13 DEF Faces!LabelCluster
  <2>8. RowsTyped
    <3>1. face' = [f \in Faces!Faces |-> face'[f]]
      BY <2>1 DEF Faces!AssignClusterToFaces
    <3> QED
      BY <1>0, <2>6, <2>7, <3>1 DEF FacesTyped
  <2>9. Faces!FacesMapped'
    BY <1>0, <2>6, <2>7, FacesKept
  <2>10. Faces!Rows' \subseteq Faces!Rows
    BY <2>6 DEF Faces!Rows
  <2> QED
    BY <1>2, <2>5, <2>7, <2>8, <2>9, <2>10
<1>14. ASSUME NEW w \in Faces!Workers, Faces!AddPerson(w) PROVE FacesInv'
  <2> DEFINE new == facesUsed.people + 1
             to  == [work[w] EXCEPT !.pc = "promote", !.person = new]
  <2>1. /\ work[w].pc = "person" /\ facesUsed.people < MaxPeople
        /\ facesUsed' = [facesUsed EXCEPT !.people = new]
        /\ people' = people \cup {new}
        /\ Faces!Becomes(w, to)
        /\ UNCHANGED <<face, faceMapping, unmapped>>
    BY <1>0, <1>14 DEF Faces!AddPerson, Faces!At, FacesTyped
  <2>2. WorkForm(to)
    BY <1>0, <2>1 DEF WorkForm, WorkFields
  <2> HIDE DEF to
  <2>3. WorkFormed
    BY <1>4, <2>1, <2>2
  <2>4. /\ new \in Faces!People /\ facesUsed' \in [faces : 0..MaxFaces, people : 0..MaxPeople]
        /\ facesUsed'.faces = facesUsed.faces
    BY <1>0, <2>1, FacesAssumption DEF FacesTyped, Faces!People
  <2>5. FacesTyped'
    BY <1>0, <2>1, <2>3, <2>4 DEF FacesTyped, Faces!Rows, WorkFormed
  <2>6. Faces!FacesMapped'
    BY <1>0, <2>1, FacesKept
  <2> QED
    BY <2>3, <2>5, <2>6 DEF FacesInv, WorkFormed
<1>15. ASSUME NEW w \in Faces!Workers, Faces!Promote(w) PROVE FacesInv'
  <2> DEFINE g == work[w].look
             p == work[w].person
  <2>1. work[w].pc = "promote" /\ WorkForm(work[w]) /\ UNCHANGED <<people, facesUsed, unmapped>>
    BY <1>0, <1>15 DEF Faces!Promote, Faces!At
  <2>2. CASE p \in people
    <3> DEFINE to == [work[w] EXCEPT !.pc = "cluster", !.todo = @ \ {g}, !.all = @ \ g.faces,
                                     !.look = None, !.person = None]
    <3>1. Faces!PromoteClusterToPerson(g.label, p) /\ Faces!Becomes(w, to)
      BY <1>15, <2>2 DEF Faces!Promote
    <3>2. WorkForm(to)
      BY <2>1 DEF WorkForm, WorkFields
    <3> HIDE DEF to
    <3>3. WorkFormed
      BY <1>4, <3>1, <3>2
    <3>4. p \in Faces!People /\ Faces!Labelled(g.label) \subseteq Faces!Unassigned
      BY <1>0, <2>2 DEF FacesTyped, Faces!Labelled
    <3>5. /\ face' = Faces!Give(Faces!Labelled(g.label), p)
          /\ faceMapping' \in Faces!MappedTo(Faces!Labelled(g.label), p)
      BY <3>1 DEF Faces!PromoteClusterToPerson
    <3>6. Faces!FacesMapped' /\ RowsTyped /\ Faces!Rows' = Faces!Rows
      BY <1>0, <2>1, <3>4, <3>5, FacesGiven
    <3> QED
      BY <1>2, <2>1, <3>3, <3>6
  <2>3. CASE p \notin people
    <3> DEFINE ended == [Faces!Idle EXCEPT !.pc = "clustered", !.final = work[w].final]
               on    == [work[w] EXCEPT !.pc = "cluster", !.todo = @ \ {g}, !.look = None,
                  !.person = None]
    <3>1. UNCHANGED <<face, faceMapping>> /\ (Faces!Becomes(w, ended) \/ Faces!Becomes(w, on))
      BY <1>15, <2>3 DEF Faces!Promote
    <3>2. WorkForm(on)
      BY <2>1 DEF WorkForm, WorkFields
    <3>3. WorkForm(ended)
      BY DEF WorkForm, WorkFields, Faces!Idle
    <3> HIDE DEF ended, on
    <3>4. WorkFormed
      BY <1>4, <3>1, <3>2, <3>3
    <3> QED
      BY <1>1, <2>1, <3>1, <3>4
  <2> QED
    BY <2>2, <2>3
<1>16. ASSUME NEW w \in Faces!Workers, Faces!MarkSingletons(w) PROVE FacesInv'
  <2> DEFINE to == [Faces!Idle EXCEPT !.pc = "clustered", !.final = work[w].final]
  <2>1. /\ Faces!MarkFacesAsProcessed(work[w].all) /\ Faces!Becomes(w, to)
        /\ UNCHANGED <<faceMapping, people, facesUsed, unmapped>>
    BY <1>16 DEF Faces!MarkSingletons
  <2>2. WorkForm(to)
    BY DEF WorkForm, WorkFields, Faces!Idle
  <2> HIDE DEF to
  <2>3. WorkFormed
    BY <1>4, <2>1, <2>2
  <2>4. ASSUME NEW f \in Faces!Faces
        PROVE  /\ face'[f] \in FaceRow \cup {None}
               /\ face'[f] = None <=> face[f] = None
               /\ face[f] # None => face'[f].media = face[f].media
                     /\ face'[f].person = face[f].person
    <3>1. \/ face'[f] = face[f]
          \/ face[f] # None /\ face'[f] = [face[f] EXCEPT !.done = TRUE]
      BY <2>1 DEF Faces!MarkFacesAsProcessed, Faces!Unassigned, Faces!Rows
    <3>2. CASE face'[f] = face[f]
      BY <1>0, <3>2 DEF FacesTyped
    <3>3. CASE face[f] # None /\ face'[f] = [face[f] EXCEPT !.done = TRUE]
      <4>1. face[f] \in FaceRow
        BY <1>0, <3>3 DEF FacesTyped
      <4>2. face'[f] \in FaceRow /\ face'[f].media = face[f].media
               /\ face'[f].person = face[f].person
        BY <3>3, <4>1 DEF FaceRow
      <4> QED
        BY <3>3, <4>2, FacesAssumption
    <3> QED
      BY <3>1, <3>2, <3>3
  <2>5. RowsTyped
    <3>1. face' = [f \in Faces!Faces |-> face'[f]]
      BY <2>1 DEF Faces!MarkFacesAsProcessed
    <3> QED
      BY <1>0, <2>1, <2>4, <3>1 DEF FacesTyped
  <2>6. Faces!FacesMapped'
    BY <1>0, <2>1, <2>4, FacesKept
  <2>7. Faces!Rows' \subseteq Faces!Rows
    BY <2>4 DEF Faces!Rows
  <2> QED
    BY <1>2, <2>1, <2>3, <2>5, <2>6, <2>7
<1>17. CASE Faces!StartTask
  <2> DEFINE to == [Faces!Idle EXCEPT !.pc = "matching", !.todo = Faces!Unassigned]
  <2>1. Task \in Faces!Workers /\ Faces!Becomes(Task, to)
        /\ UNCHANGED <<face, faceMapping, people, facesUsed, unmapped>>
    BY <1>17 DEF Faces!StartTask, Faces!Workers
  <2>2. WorkForm(to)
    BY DEF WorkForm, WorkFields, Faces!Idle
  <2> HIDE DEF to
  <2>3. WorkFormed
    BY <1>4, <2>1, <2>2
  <2> QED
    BY <1>1, <2>1, <2>3
<1>18. CASE Faces!MatchUnassigned
  <2>1. Task \in Faces!Workers /\ work[Task].pc = "matching"
        /\ UNCHANGED <<people, facesUsed, unmapped>>
    BY <1>18 DEF Faces!MatchUnassigned, Faces!Workers, Faces!At
  <2>2. CASE Faces!Goes(Task, "chunk") /\ UNCHANGED <<face, faceMapping>>
    <3>1. WorkFormed
      BY <2>1, <2>2, FaceWorkGoes DEF WorkFormed
    <3> QED
      BY <1>1, <2>1, <2>2, <3>1
  <2>3. ASSUME NEW f \in work[Task].todo,
               Faces!Becomes(Task, [work[Task] EXCEPT !.todo = @ \ {f}]),
               LET found == IF f \in Faces!Unassigned THEN Faces!MatchFaceToPerson(face[f].look) ELSE {}
               IN  IF found = {} THEN UNCHANGED <<face, faceMapping>>
                   ELSE \E p \in found : Faces!AssignUnassignedFaces({f}, p)
        PROVE  FacesInv'
    <3>1. WorkForm([work[Task] EXCEPT !.todo = @ \ {f}])
      BY <1>0, <2>1 DEF WorkForm, WorkFields
    <3>2. WorkFormed
      BY <1>4, <2>1, <2>3, <3>1
    <3>3. CASE UNCHANGED <<face, faceMapping>>
      BY <1>1, <2>1, <3>2, <3>3
    <3>4. ASSUME NEW p \in Faces!MatchFaceToPerson(face[f].look),
                 Faces!AssignUnassignedFaces({f}, p)
          PROVE  FacesInv'
      <4>1. PICK h \in Faces!Rows \ Faces!Unassigned : p = face[h].person
        BY <3>4 DEF Faces!MatchFaceToPerson
      <4>2. p \in Faces!People
        BY <1>0, <4>1, RowOfFace DEF FaceRow, Faces!Unassigned
      <4>3. /\ face' = Faces!Give({f} \cap Faces!Unassigned, p)
            /\ faceMapping' \in Faces!MappedTo({f} \cap Faces!Unassigned, p)
        BY <3>4 DEF Faces!AssignUnassignedFaces
      <4>4. Faces!FacesMapped' /\ RowsTyped /\ Faces!Rows' = Faces!Rows
        BY <1>0, <2>1, <4>2, <4>3, FacesGiven
      <4> QED
        BY <1>2, <2>1, <3>2, <4>4
    <3> QED
      BY <2>3, <3>3, <3>4
  <2> QED
    BY <1>18, <2>2, <2>3 DEF Faces!MatchUnassigned
<1>19. CASE Faces!TaskStep
  <2>1. Task \in Faces!Workers /\ UNCHANGED <<face, faceMapping, people, facesUsed, unmapped>>
    BY <1>19 DEF Faces!TaskStep, Faces!Workers
  <2>2. ASSUME NEW m \in Pictures, Faces!StartMedia(Task, m) PROVE WorkFormed
    BY <2>1, <2>2, MediaStarted DEF WorkFormed
  <2>3. ASSUME Faces!StartCluster(Task) PROVE WorkFormed
    BY <2>1, <2>3, ClusterStarted DEF WorkFormed
  <2>4. ASSUME Faces!Becomes(Task, Faces!Idle) PROVE WorkFormed
    BY <1>6, <2>1, <2>4
  <2>5. ASSUME Faces!Becomes(Task, [Faces!Idle EXCEPT !.pc = "final"]) PROVE WorkFormed
    <3>1. WorkForm([Faces!Idle EXCEPT !.pc = "final"])
      BY DEF WorkForm, WorkFields, Faces!Idle
    <3> QED
      BY <1>4, <2>1, <2>5, <3>1
  <2>6. ASSUME NEW clusters \in Faces!ChineseWhispers(Faces!Unassigned),
               Faces!Becomes(Task, [Faces!Idle EXCEPT !.pc = "cluster", !.todo = clusters,
                                                      !.all = Faces!Unassigned, !.final = TRUE])
        PROVE  WorkFormed
    <3> DEFINE to == [Faces!Idle EXCEPT !.pc = "cluster", !.todo = clusters,
                                        !.all = Faces!Unassigned, !.final = TRUE]
    <3>1. \A g \in clusters : g.label \in FaceLabels
      BY ClustersLabelled
    <3>2. WorkForm(to)
      BY <3>1 DEF WorkForm, WorkFields, Faces!Idle
    <3> HIDE DEF to
    <3>3. Faces!Becomes(Task, to)
      BY <2>6 DEF to
    <3> QED
      BY <1>4, <2>1, <3>2, <3>3
  <2>7. WorkFormed
    BY <1>19, <2>2, <2>3, <2>4, <2>5, <2>6 DEF Faces!TaskStep, Faces!MediasForProcessing
  <2> QED
    BY <1>1, <2>1, <2>7
<1>20. CASE Faces!DetectFaces \/ Faces!ClusterFaces \/ Faces!ApiClustered
  <2>1. Api \in Faces!Workers /\ UNCHANGED <<face, faceMapping, people, facesUsed, unmapped>>
    BY <1>20 DEF Faces!DetectFaces, Faces!ClusterFaces, Faces!ApiClustered, Faces!Workers
  <2>2. CASE Faces!DetectFaces
    <3>1. PICK m \in Pictures : Faces!StartMedia(Api, m)
      BY <2>2 DEF Faces!DetectFaces
    <3> QED
      BY <2>1, <3>1, <1>1, MediaStarted DEF WorkFormed
  <2>3. CASE Faces!ClusterFaces
    BY <1>1, <2>1, <2>3, ClusterStarted DEF Faces!ClusterFaces, WorkFormed
  <2>4. CASE Faces!ApiClustered
    BY <1>1, <1>6, <2>1, <2>4 DEF Faces!ApiClustered
  <2> QED
    BY <1>20, <2>2, <2>3, <2>4
<1>21. CASE Faces!DeleteFace
  <2>1. PICK f \in Faces!Rows : face' = [face EXCEPT ![f] = None]
           /\ faceMapping' = Faces!Without({f})
    BY <1>21 DEF Faces!DeleteFace, Faces!DeleteFaceRow
  <2>2. UNCHANGED <<people, facesUsed, work, unmapped>>
    BY <1>21 DEF Faces!DeleteFace
  <2>9. DOMAIN face = Faces!Faces /\ f \in Faces!Faces /\ 0 \in 0..MaxFaces
    BY <1>0, FacesAssumption DEF FacesTyped, Faces!Rows
  <2>4. face'[f] = None /\ \A h \in Faces!Faces : h # f => face'[h] = face[h]
    BY <2>1, <2>9
  <2>3. \A h \in Faces!Faces : face'[h] = None \/ face'[h] = face[h]
    BY <2>4
  <2>5. \A mp \in Pictures \X Faces!People :
          faceMapping'[mp] = IF faceMapping[mp] \in {f} THEN 0 ELSE faceMapping[mp]
    BY <2>1 DEF Faces!Without
  <2>10. face' \in [Faces!Faces -> FaceRow \cup {None}]
    BY <1>0, <2>1 DEF FacesTyped
  <2>11. faceMapping' \in [Pictures \X Faces!People -> 0..MaxFaces \cup {None}]
    BY <1>0, <2>1, <2>9 DEF FacesTyped, Faces!Without
  <2>6. RowsTyped
    BY <2>10, <2>11
  <2>7. Faces!FacesMapped'
    BY <1>0, <2>2, <2>3, <2>4, <2>5, FacesTaken, FacesAssumption
  <2>8. Faces!Rows' \subseteq Faces!Rows
    BY <2>3 DEF Faces!Rows
  <2> QED
    BY <1>2, <1>3, <2>2, <2>6, <2>7, <2>8
<1>22. CASE Faces!Unassign
  <2>1. PICK f \in Faces!Rows \ Faces!Unassigned : Faces!UnassignFaces({f})
    BY <1>22 DEF Faces!Unassign
  <2>2. UNCHANGED <<people, facesUsed, work>>
    BY <1>22 DEF Faces!Unassign
  <2>3. {f} \subseteq Faces!Rows
    BY <2>1
  <2>4. Faces!FacesMapped' /\ RowsTyped /\ Faces!Rows' = Faces!Rows
    BY <1>0, <2>1, <2>3, FacesLost
  <2> QED
    BY <1>2, <1>3, <2>2, <2>4
<1>23. CASE Faces!Reassign
  <2>1. PICK f \in Faces!Rows, p \in people :
          /\ Faces!UnassignFaces({f})
          /\ Faces!Becomes(Api, [Faces!Idle EXCEPT !.pc = "assign", !.all = {f}, !.person = p])
    BY <1>23 DEF Faces!Reassign
  <2>2. UNCHANGED <<people, facesUsed>> /\ Api \in Faces!Workers
    BY <1>23 DEF Faces!Reassign, Faces!Workers
  <2>3. WorkForm([Faces!Idle EXCEPT !.pc = "assign", !.all = {f}, !.person = p])
    BY DEF WorkForm, WorkFields, Faces!Idle
  <2>4. WorkFormed
    BY <1>4, <2>1, <2>2, <2>3
  <2>5. {f} \subseteq Faces!Rows
    OBVIOUS
  <2>6. Faces!FacesMapped' /\ RowsTyped /\ Faces!Rows' = Faces!Rows
    BY <1>0, <2>1, <2>5, FacesLost
  <2> QED
    BY <1>2, <2>2, <2>4, <2>6
<1>24. CASE Faces!Assign
  <2>1. /\ Faces!Becomes(Api, Faces!Idle) /\ UNCHANGED <<people, facesUsed, unmapped>>
        /\ Api \in Faces!Workers
    BY <1>24 DEF Faces!Assign, Faces!Workers
  <2>2. WorkFormed
    BY <1>6, <2>1
  <2> DEFINE p  == work[Api].person
             fs == work[Api].all \cap Faces!Unassigned
  <2>3. CASE p \in people
    <3>1. face' = Faces!Give(fs, p) /\ faceMapping' \in Faces!MappedTo(fs, p)
      BY <1>24, <2>3 DEF Faces!Assign, Faces!AssignUnassignedFaces
    <3>2. p \in Faces!People /\ fs \in SUBSET Faces!Unassigned
      BY <1>0, <2>3 DEF FacesTyped
    <3> HIDE DEF p, fs
    <3>3. Faces!FacesMapped' /\ RowsTyped /\ Faces!Rows' = Faces!Rows
      BY <1>0, <2>1, <3>1, <3>2, FacesGiven
    <3> QED
      BY <1>2, <2>1, <2>2, <3>3
  <2>4. CASE p \notin people
    BY <1>1, <1>24, <2>1, <2>2, <2>4 DEF Faces!Assign
  <2> QED
    BY <2>3, <2>4
\* A person's rows go, with their faces.
<1>25. ASSUME NEW p, Faces!RemovePersonRows(p), UNCHANGED <<facesUsed, unmapped>>, WorkFormed
       PROVE  FacesInv'
  <2>1. /\ face' = [f \in Faces!Faces |-> IF f \in Faces!FacesOf(p) THEN None ELSE face[f]]
        /\ faceMapping' = [mp \in Pictures \X Faces!People |-> IF mp[2] = p THEN None ELSE faceMapping[mp]]
        /\ people' = people \ {p}
    BY <1>25 DEF Faces!RemovePersonRows
  <2>2. \A f \in Faces!Faces : face'[f] = None \/ face'[f] = face[f]
    BY <2>1
  <2>3. ASSUME NEW mp \in Pictures \X Faces!People
        PROVE  \/ /\ faceMapping'[mp] = faceMapping[mp]
                  /\ faceMapping[mp] \in Faces!Faces =>
                        face'[faceMapping[mp]] = face[faceMapping[mp]]
               \/ /\ faceMapping'[mp] = None
                  /\ \A f \in Faces!Rows \ Faces!Unassigned : Of(f) = mp => face'[f] = None
    <3>1. CASE mp[2] = p
      <4>1. ASSUME NEW f \in Faces!Rows, Of(f) = mp PROVE face'[f] = None
        BY <2>1, <3>1, <4>1 DEF Of, Faces!FacesOf, Faces!Rows
      <4> QED
        BY <2>1, <3>1, <4>1
    <3>2. CASE mp[2] # p
      <4>1. faceMapping'[mp] = faceMapping[mp]
        BY <2>1, <3>2
      <4>2. ASSUME faceMapping[mp] \in Faces!Faces
            PROVE face'[faceMapping[mp]] = face[faceMapping[mp]]
        <5>1. face[faceMapping[mp]].person = mp[2]
          BY <1>0, <4>2 DEF Faces!FacesMapped
        <5> QED
          BY <2>1, <3>2, <4>2, <5>1 DEF Faces!FacesOf
      <4> QED
        BY <4>1, <4>2
    <3> QED
      BY <3>1, <3>2
  <2>4. Faces!FacesMapped'
    BY <1>0, <1>25, <2>2, <2>3, FacesTaken
  <2>5. RowsTyped
    BY <1>0, <2>1 DEF FacesTyped
  <2>6. Faces!Rows' \subseteq Faces!Rows
    BY <2>2 DEF Faces!Rows
  <2> QED
    BY <1>2, <1>25, <2>1, <2>4, <2>5, <2>6
<1>26. CASE Faces!MergePeople
  <2>1. ASSUME NEW s \in people, NEW t \in people, Faces!TransferFaces(s, t),
               Faces!Becomes(Api, [Faces!Idle EXCEPT !.pc = "merge", !.person = s]),
               UNCHANGED <<people, facesUsed>>
        PROVE  FacesInv'
    <3>1. WorkForm([Faces!Idle EXCEPT !.pc = "merge", !.person = s])
      BY DEF WorkForm, WorkFields, Faces!Idle
    <3>2. WorkFormed
      BY <1>4, <2>1, <3>1 DEF Faces!Workers
    <3>3. s \in Faces!People /\ t \in Faces!People
      BY <1>0 DEF FacesTyped
    <3>4. Faces!FacesMapped' /\ RowsTyped /\ Faces!Rows' = Faces!Rows
      BY <1>0, <2>1, <3>3, FacesTransferred
    <3> QED
      BY <1>2, <2>1, <3>2, <3>4
  <2>2. ASSUME Faces!Becomes(Api, Faces!Idle), Faces!RemovePersonRows(work[Api].person),
               UNCHANGED <<facesUsed, unmapped>>
        PROVE  FacesInv'
    <3>1. WorkFormed
      BY <1>6, <2>2 DEF Faces!Workers
    <3> QED
      BY <1>25, <2>2, <3>1
  <2> QED
    BY <1>26, <2>1, <2>2 DEF Faces!MergePeople
<1>27. CASE Faces!RemovePerson
  <2>1. PICK p \in people : Faces!RemovePersonRows(p)
    BY <1>27 DEF Faces!RemovePerson
  <2>2. UNCHANGED <<facesUsed, work, unmapped>>
    BY <1>27 DEF Faces!RemovePerson
  <2> QED
    BY <1>3, <1>25, <2>1, <2>2
<1>28. CASE Faces!RemoveMedia
  <2>1. PICK m \in Pictures :
          /\ face' = [f \in Faces!Faces |-> IF f \in Faces!Rows
                /\ face[f].media = m THEN None ELSE face[f]]
          /\ faceMapping' = [mp \in Pictures \X Faces!People |-> IF mp[1] = m THEN None ELSE faceMapping[mp]]
    BY <1>28 DEF Faces!RemoveMedia
  <2>2. UNCHANGED <<people, facesUsed, work, unmapped>>
    BY <1>28 DEF Faces!RemoveMedia
  <2>3. \A f \in Faces!Faces : face'[f] = None \/ face'[f] = face[f]
    BY <2>1
  <2>4. ASSUME NEW mp \in Pictures \X Faces!People
        PROVE  \/ /\ faceMapping'[mp] = faceMapping[mp]
                  /\ faceMapping[mp] \in Faces!Faces =>
                        face'[faceMapping[mp]] = face[faceMapping[mp]]
               \/ /\ faceMapping'[mp] = None
                  /\ \A f \in Faces!Rows \ Faces!Unassigned : Of(f) = mp => face'[f] = None
    <3>1. CASE mp[1] = m
      <4>1. ASSUME NEW f \in Faces!Rows, Of(f) = mp PROVE face'[f] = None
        BY <2>1, <3>1, <4>1 DEF Of, Faces!Rows
      <4> QED
        BY <2>1, <3>1, <4>1
    <3>2. CASE mp[1] # m
      <4>1. faceMapping'[mp] = faceMapping[mp]
        BY <2>1, <3>2
      <4>2. ASSUME faceMapping[mp] \in Faces!Faces
            PROVE face'[faceMapping[mp]] = face[faceMapping[mp]]
        <5>1. face[faceMapping[mp]].media = mp[1]
          BY <1>0, <4>2 DEF Faces!FacesMapped
        <5> QED
          BY <2>1, <3>2, <4>2, <5>1
      <4> QED
        BY <4>1, <4>2
    <3> QED
      BY <3>1, <3>2
  <2>5. Faces!FacesMapped'
    BY <1>0, <2>2, <2>3, <2>4, FacesTaken
  <2>6. RowsTyped
    BY <1>0, <2>1 DEF FacesTyped
  <2>7. Faces!Rows' \subseteq Faces!Rows
    BY <2>3 DEF Faces!Rows
  <2> QED
    BY <1>2, <1>3, <2>2, <2>5, <2>6, <2>7
<1>29. CASE UNCHANGED faceVars
  <2>1. UNCHANGED <<face, faceMapping, people, facesUsed, work, unmapped>>
    BY <1>29 DEF faceVars
  <2> QED
    BY <1>1, <1>3, <2>1
<1>30. Faces!Next \/ UNCHANGED faceVars
  BY DEF MCNext, CatalogueVars
<1> QED
  BY <1>10, <1>11, <1>12, <1>13, <1>14, <1>15, <1>16, <1>17, <1>18, <1>19, <1>20, <1>21, <1>22,
     <1>23, <1>24, <1>26, <1>27, <1>28, <1>29, <1>30 DEF Faces!Next

\* No face and no person.
LEMMA FacesFirst == MCInit => FacesInv
<1> SUFFICES ASSUME MCInit PROVE FacesInv
  OBVIOUS
<1>1. Faces!Init
  BY DEF MCInit
<1>2. None \notin Faces!Faces /\ 0 \in 0..MaxFaces /\ 0 \in 0..MaxPeople
  BY FacesAssumption DEF Faces!Faces
<1>3. Faces!Rows = {}
  BY <1>1 DEF Faces!Init, Faces!Rows
<1>4. \A w \in Faces!Workers : WorkForm(work[w])
  <2>1. WorkForm(Faces!Idle)
    BY RestForm DEF Faces!Idle
  <2> QED
    BY <1>1, <2>1 DEF Faces!Init
<1>5. FacesTyped
  BY <1>1, <1>2, <1>3 DEF Faces!Init, FacesTyped
<1>6. Faces!FacesMapped
  BY <1>1, <1>2, <1>3 DEF Faces!Init, Faces!FacesMapped
<1> QED
  BY <1>4, <1>5, <1>6 DEF FacesInv

\* The row that says a person is in a media is there for each of their faces in
\* it, and refers to none but such a face, however detection, clustering, merges
\* and removals interleave.
THEOREM FacesStayMapped == MCSpec => []FacesMapped
<1>1. FacesInv /\ [MCNext]_<<subject, vars, tagVars, workVars, faceVars, editVars, pageVars>> =>
         FacesInv'
  BY FacesStep DEF CatalogueVars
<1>2. FacesInv => FacesMapped
  BY DEF FacesInv, FacesMapped
<1> QED
  BY FacesFirst, <1>1, <1>2, PTL DEF MCSpec

-----------------------------------------------------------------------------
(***************************************************************************)
(* PAGES                                                                   *)
(* What a client was given lies at or behind its key, what it was not      *)
(* lies ahead, or has the value of a key whose other part was not          *)
(* compared. An edit leaves the place of what has not moved.               *)
(***************************************************************************)

\* The value m is sorted by.
Col(m) == MediaPages!Column(query.sort, m)

\* m comes after key k in the order.
PastKey(k, m) == IF query.style = "pair" THEN MediaPages!PastPair(query, k, m)
                 ELSE MediaPages!Beyond(query.order, Col(m), k.value)

\* m is in the bounds of the query.
InBounds(m) == query.since # None =>
   MediaPages!Beyond("ASC", MediaPages!Bounded(query, m), query.since)

\* The types, and a client without a key has been given nothing.
PagesTyped ==
  /\ rows \in [MediaPages!Ids -> [value : Nat \cup {None}, modified : Nat] \cup {None}]
  /\ clock \in Nat \ {0}
  /\ query \in [sort : MediaPages!Sorts, order : {"ASC", "DESC"}, limit : 1..MaxLimit,
                style : {"pair", "single"}, since : {None, 0}]
  /\ key \in [value : Nat \cup {None}, id : Nat]
  /\ key.id = 0 => key.value = None /\ given = {}
  /\ start \subseteq MediaPages!Ids /\ given \subseteq MediaPages!Ids

\* What answered when the client began answers still.
StartKept == \A m \in start \ moved : m \in MediaPages!Live /\ InBounds(m)

\* What was given lies behind the key.
GivenBehind ==
  \A m \in given \ moved : m \in MediaPages!Live /\ (key.value # None => ~PastKey(key, m))

\* What was not given lies ahead of it, or has the value of a key.
RestAhead ==
  ~done /\ key.value # None =>
    \A m \in start \ moved :
      \/ m \in given
      \/ Col(m) = None
      \/ query.style = "single" /\ Col(m) \in marks
      \/ PastKey(key, m)

\* The queries whose keys are followed, but for a key whose empty value was ignored.
Followed == ~ignored /\ (query.style = "single" => query.sort \in MediaPages!Dates)

\* What PagesFollowed rests on, with it.
PagesInv ==
  /\ PagesTyped /\ StartKept
  /\ Followed => GivenBehind /\ RestAhead
  /\ MediaPages!PagesFollowed

\* The value sorted by, of a media that is there.
LEMMA ColumnTyped ==
  ASSUME PagesTyped, NEW m \in MediaPages!Live
  PROVE  Col(m) \in Nat \cup {None} /\ m \in Nat \ {0}
<1>1. m \in MediaPages!Ids /\ rows[m] \in [value : Nat \cup {None}, modified : Nat]
  BY DEF MediaPages!Live, PagesTyped
<1>2. m \in Nat \ {0}
  BY <1>1, PagesAssumption DEF MediaPages!Ids
<1>3. rows[m].value \in Nat \cup {None} /\ rows[m].modified \in Nat
  BY <1>1
<1> QED
  BY <1>2, <1>3 DEF Col, MediaPages!Column

\* What comes no later than a media is not past its key; what comes later is,
\* unless one part of a key cannot tell them apart.
LEMMA OrderOfKey ==
  ASSUME PagesTyped, NEW m \in MediaPages!Live, NEW l \in MediaPages!Live, NEW k,
         k = MediaPages!KeyOf(query, l), k.value # None
  PROVE  /\ m = l \/ MediaPages!Precedes(query, m, l) => ~PastKey(k, m)
         /\ MediaPages!Precedes(query, l, m) /\ Col(m) # None =>
              PastKey(k, m) \/ (query.style = "single" /\ Col(m) = k.value)
<1>1. /\ Col(m) \in Nat \cup {None} /\ Col(l) \in Nat \cup {None} /\ m \in Nat /\ l \in Nat /\ m # 0
            /\ l # 0
      /\ query.order \in {"ASC", "DESC"} /\ query.style \in {"pair", "single"}
      /\ m # None /\ l # None
  BY ColumnTyped, PagesAssumption DEF PagesTyped
<1>2. k.value = Col(l) /\ k.id = l /\ Col(l) # None
  BY DEF MediaPages!KeyOf, Col
<1>3. ASSUME NEW x \in {m, l}, NEW y \in {m, l}
      PROVE  MediaPages!Precedes(query, x, y) <=>
               LET rx == IF Col(x) = None THEN -1 ELSE Col(x)
                   ry == IF Col(y) = None THEN -1 ELSE Col(y)
               IN  IF query.order = "DESC" THEN ry < rx \/ (ry = rx /\ y < x)
                   ELSE rx < ry \/ (rx = ry /\ x < y)
  BY DEF MediaPages!Precedes, Col
<1>4. MediaPages!PastPair(query, k, m) <=>
        \/ MediaPages!Beyond(query.order, Col(m), Col(l))
        \/ Col(m) = Col(l) /\ MediaPages!Beyond(query.order, m, l)
  BY <1>2 DEF MediaPages!PastPair, Col
<1>5. PastKey(k, m) <=>
        \/ MediaPages!Beyond(query.order, Col(m), Col(l))
        \/ query.style = "pair" /\ Col(m) = Col(l) /\ MediaPages!Beyond(query.order, m, l)
  BY <1>1, <1>2, <1>4 DEF PastKey
<1>6. m = l \/ MediaPages!Precedes(query, m, l) => ~PastKey(k, m)
  BY <1>1, <1>2, <1>3, <1>5 DEF MediaPages!Beyond
<1>7. MediaPages!Precedes(query, l, m) /\ Col(m) # None =>
        PastKey(k, m) \/ (query.style = "single" /\ Col(m) = k.value)
  BY <1>1, <1>2, <1>3, <1>5 DEF MediaPages!Beyond
<1> QED
  BY <1>6, <1>7

\* What is not past a key is not past one that is past it.
LEMMA KeysInOrder ==
  ASSUME PagesTyped, NEW m \in MediaPages!Live, NEW l \in MediaPages!Live, NEW k,
         k = MediaPages!KeyOf(query, l), k.value # None,
         key.value # None, PastKey(key, l), ~PastKey(key, m)
  PROVE  ~PastKey(k, m)
<1>1. /\ Col(m) \in Nat \cup {None} /\ Col(l) \in Nat \cup {None} /\ m \in Nat /\ l \in Nat /\ m # 0
            /\ l # 0
      /\ query.order \in {"ASC", "DESC"} /\ query.style \in {"pair", "single"}
      /\ key.value \in Nat /\ key.id \in Nat
  BY ColumnTyped DEF PagesTyped
<1>2. k.value = Col(l) /\ k.id = l /\ Col(l) # None
  BY DEF MediaPages!KeyOf, Col
<1>3. ASSUME NEW q, NEW x
      PROVE  PastKey(q, x) <=>
        \/ MediaPages!Beyond(query.order, Col(x), q.value)
        \/ query.style = "pair" /\ Col(x) = q.value /\ MediaPages!Beyond(query.order, x, q.id)
  BY <1>1 DEF PastKey, MediaPages!PastPair, Col
<1>4. PastKey(key, l) /\ ~PastKey(key, m)
  OBVIOUS
<1> QED
  BY <1>1, <1>2, <1>3, <1>4, PagesAssumption DEF MediaPages!Beyond

\* What a page is selected from: nothing but what is past a key of use.
LEMMA SelectedPast ==
  ASSUME PagesTyped, query.style = "single" => query.sort \in MediaPages!Dates,
         ~MediaPages!Useless(query, key), NEW m \in MediaPages!Selected(query, key)
  PROVE  m \in MediaPages!Live /\ (key.value # None => PastKey(key, m))
<1>1. m \in MediaPages!Live
  BY DEF MediaPages!Selected
<1>2. ASSUME key.value # None, query.style = "pair" PROVE PastKey(key, m)
  BY <1>2 DEF MediaPages!Selected, PastKey
<1>3. ASSUME key.value # None, query.style = "single" PROVE PastKey(key, m)
  <2>1. MediaPages!Bounded(query, m) = Col(m)
    BY <1>3 DEF MediaPages!Bounded, Col
  <2>2. query.order \in {"ASC", "DESC"} /\ (query.order = "DESC" => query.since = None)
    BY <1>3 DEF MediaPages!Useless, PagesTyped
  <2>3. CASE query.order = "ASC"
    BY <1>3, <2>1, <2>3 DEF MediaPages!Selected, MediaPages!Bounds, PastKey, MediaPages!Beyond
  <2>4. CASE query.order = "DESC"
    BY <1>3, <2>1, <2>2, <2>4 DEF MediaPages!Selected, MediaPages!Bounds, PastKey, MediaPages!Beyond
  <2> QED
    BY <2>2, <2>3, <2>4
<1> QED
  BY <1>1, <1>2, <1>3 DEF PagesTyped

\* And all of that.
LEMMA PastSelected ==
  ASSUME PagesTyped, query.style = "single" => query.sort \in MediaPages!Dates,
         ~MediaPages!Useless(query, key), NEW m \in MediaPages!Live, InBounds(m),
         key.value # None => PastKey(key, m)
  PROVE  m \in MediaPages!Selected(query, key)
<1> DEFINE bound == MediaPages!Bounds(query, key)
<1>0. query.style \in {"pair", "single"} /\ query.order \in {"ASC", "DESC"}
  BY DEF PagesTyped
<1>1. query.style = "pair" /\ key.value # None => MediaPages!PastPair(query, key, m)
  BY DEF PastKey
<1>2. IF bound.after # None THEN MediaPages!Beyond("ASC", MediaPages!Bounded(query, m), bound.after)
      ELSE bound.before # None =>
         MediaPages!Beyond("DESC", MediaPages!Bounded(query, m), bound.before)
  <2>1. CASE query.style = "pair" \/ key.value = None
    <3>1. bound.after = query.since /\ bound.before = None
      BY <1>0, <2>1 DEF MediaPages!Bounds
    <3> QED
      BY <3>1 DEF InBounds
  <2>2. CASE query.style = "single" /\ key.value # None
    <3>1. MediaPages!Bounded(query, m) = Col(m) /\ MediaPages!Beyond(query.order, Col(m), key.value)
      BY <2>2 DEF MediaPages!Bounded, Col, PastKey
    <3>2. CASE query.order = "ASC"
      BY <2>2, <3>1, <3>2 DEF MediaPages!Bounds
    <3>3. CASE query.order = "DESC"
      <4>1. query.since = None
        BY <2>2, <3>3 DEF MediaPages!Useless, PagesTyped
      <4> QED
        BY <2>2, <3>1, <3>3, <4>1 DEF MediaPages!Bounds
    <3> QED
      BY <1>0, <3>2, <3>3
  <2> QED
    BY <1>0, <2>1, <2>2
<1> QED
  BY <1>1, <1>2 DEF MediaPages!Selected

\* A library with some medias, and a client about to ask for the first page.
LEMMA PagesFirst == MCInit => (subject = "pages" => PagesInv)
<1> SUFFICES ASSUME MCInit, subject = "pages" PROVE PagesInv
  OBVIOUS
<1>1. MediaPages!Init
  BY DEF MCInit
<1>2. /\ clock = 1 /\ key = [value |-> None, id |-> 0]
      /\ query \in [sort : MediaPages!Sorts, order : {"ASC", "DESC"}, limit : 1..MaxLimit,
                    style : {"pair", "single"}, since : {None, 0}]
      /\ start = MediaPages!Selected(query, key)
      /\ given = {} /\ pagedTwice = {} /\ moved = {} /\ done = FALSE
  BY <1>1 DEF MediaPages!Init, MediaPages!First
<1>3. rows \in [MediaPages!Ids -> [value : Nat \cup {None}, modified : Nat] \cup {None}]
  <2>1. {None} \cup [value : IF query.sort = "size" THEN {None, 0, 1} ELSE {0, 1}, modified :
           {0, 1}]
          \subseteq [value : Nat \cup {None}, modified : Nat] \cup {None}
    OBVIOUS
  <2>2. rows \in [MediaPages!Ids -> {None} \cup [value :
           IF query.sort = "size" THEN {None, 0, 1} ELSE {0, 1},
                                                 modified : {0, 1}]]
    BY <1>1 DEF MediaPages!Init
  <2> QED
    BY <2>1, <2>2
<1>4. start \subseteq MediaPages!Live /\ MediaPages!Live \subseteq MediaPages!Ids
  BY <1>2 DEF MediaPages!Selected, MediaPages!Live
<1>5. PagesTyped
  BY <1>2, <1>3, <1>4 DEF PagesTyped
<1>6. ASSUME NEW m \in start PROVE InBounds(m)
  BY <1>2 DEF MediaPages!Selected, MediaPages!Bounds, InBounds
<1>7. StartKept
  BY <1>4, <1>6 DEF StartKept
<1>8. GivenBehind /\ RestAhead /\ MediaPages!PagesFollowed
  BY <1>2 DEF GivenBehind, RestAhead, MediaPages!PagesFollowed
<1> QED
  BY <1>5, <1>7, <1>8 DEF PagesInv

\* Edits leave the place of what has not moved.
LEMMA EditKeepsPages ==
  ASSUME PagesInv, UNCHANGED <<query, key, given, start, done, pagedTwice, marks, ignored>>,
         moved \subseteq moved', clock' \in Nat \ {0},
         rows' \in [MediaPages!Ids -> [value : Nat \cup {None}, modified : Nat] \cup {None}],
         \A m \in MediaPages!Live \ moved' :
           /\ m \in MediaPages!Live' /\ Col(m)' = Col(m)
           /\ InBounds(m) => InBounds(m)'
  PROVE  PagesInv'
<1>1. /\ PagesTyped /\ StartKept /\ (Followed => GivenBehind /\ RestAhead)
      /\ MediaPages!PagesFollowed
  BY DEF PagesInv
<1>2. PagesTyped'
  BY <1>1 DEF PagesTyped
<1>3. \A m \in start \ moved' : m \in start \ moved /\ m \in MediaPages!Live \ moved'
  BY <1>1 DEF StartKept
<1>4. StartKept'
  BY <1>1, <1>3 DEF StartKept
<1>5. \A m \in MediaPages!Live \ moved' : PastKey(key, m)' <=> PastKey(key, m)
  BY DEF PastKey, MediaPages!PastPair, Col
<1>6. Followed' <=> Followed
  BY DEF Followed, MediaPages!Dates
<1>7. Followed => GivenBehind'
  BY <1>1, <1>5 DEF GivenBehind
<1>8. Followed => RestAhead'
  BY <1>1, <1>3, <1>5 DEF RestAhead
<1>9. MediaPages!PagesFollowed'
  <2>1. Followed => pagedTwice \subseteq moved'
    BY <1>1 DEF MediaPages!PagesFollowed, Followed
  <2>2. Followed /\ done => \A m \in start \ moved' :
          m \in given \/ Col(m)' = None \/ (query.style = "single" /\ Col(m)' \in marks)
    <3> SUFFICES ASSUME Followed, done, NEW m \in start \ moved'
                 PROVE  m \in given \/ Col(m)' = None
                    \/ (query.style = "single" /\ Col(m)' \in marks)
      OBVIOUS
    <3>1. m \in start \ moved /\ Col(m)' = Col(m)
      BY <1>3
    <3>2. m \in given \/ Col(m) = None \/ (query.style = "single" /\ Col(m) \in marks)
      BY <1>1, <3>1 DEF MediaPages!PagesFollowed, Followed, Col
    <3> QED
      BY <3>1, <3>2
  <2> QED
    BY <1>6, <2>1, <2>2 DEF MediaPages!PagesFollowed, Followed, Col, MediaPages!Dates
<1> QED
  BY <1>2, <1>4, <1>6, <1>7, <1>8, <1>9 DEF PagesInv

\* A page takes the key to its last media.
LEMMA PageKeepsPages == PagesInv /\ MediaPages!NextPage => PagesInv'
<1> SUFFICES ASSUME PagesInv, MediaPages!NextPage PROVE PagesInv'
  OBVIOUS
<1>1. /\ PagesTyped /\ StartKept /\ (Followed => GivenBehind /\ RestAhead)
      /\ MediaPages!PagesFollowed
  BY DEF PagesInv
<1>2. PICK page \in MediaPages!Pages(query, key) :
        /\ given' = given \cup page
        /\ pagedTwice' = pagedTwice \cup (given \cap page)
        /\ IF page = {} THEN key' = key
           ELSE \E last \in page : /\ \A m \in page \ {last} : MediaPages!Precedes(query, m, last)
                                   /\ key' = MediaPages!KeyOf(query, last)
  BY DEF MediaPages!NextPage
<1>3. /\ ~done /\ done' = ~MediaPages!Full(query, key)
      /\ marks' = IF query.style = "single" THEN marks \cup {key'.value} ELSE marks
      /\ ignored' = (ignored \/ MediaPages!Useless(query, key))
      /\ UNCHANGED <<rows, clock, query, start, moved>>
  BY DEF MediaPages!NextPage
<1> DEFINE all == MediaPages!Selected(query, key)
<1>4. /\ page \subseteq all /\ all \subseteq MediaPages!Live
      /\ done' => page = all
      /\ \A m \in page, n \in all \ page : MediaPages!Precedes(query, m, n)
  <2>1. all \subseteq MediaPages!Live
    BY DEF MediaPages!Selected
  <2> HIDE DEF all
  <2>2. page \in IF ~MediaPages!Full(query, key) THEN {all}
                 ELSE {p \in SUBSET all : \A m \in p, n \in all \ p :
                    MediaPages!Precedes(query, m, n)}
    BY DEF MediaPages!Pages, all
  <2> QED
    BY <1>3, <2>1, <2>2
<1> HIDE DEF all
<1>5. ASSUME page # {}
      PROVE  \E last \in page : /\ \A m \in page \ {last} : MediaPages!Precedes(query, m, last)
                                /\ key' = MediaPages!KeyOf(query, last)
  BY <1>2, <1>5
<1>6. PagesTyped'
  <2>1. given' \subseteq MediaPages!Ids
    BY <1>1, <1>2, <1>4 DEF PagesTyped, MediaPages!Live
  <2>2. CASE page = {}
    BY <1>1, <1>2, <1>3, <2>1, <2>2 DEF PagesTyped
  <2>3. CASE page # {}
    <3>1. PICK last \in page : key' = MediaPages!KeyOf(query, last)
      BY <1>5, <2>3
    <3>2. last \in MediaPages!Live
      BY <1>4
    <3>3. Col(last) \in Nat \cup {None} /\ last \in Nat \ {0}
      BY <1>1, <3>2, ColumnTyped
    <3>4. key' \in [value : Nat \cup {None}, id : Nat] /\ key'.id # 0
      BY <3>1, <3>3 DEF MediaPages!KeyOf, Col
    <3> QED
      BY <1>1, <1>3, <2>1, <3>4 DEF PagesTyped
  <2> QED
    BY <2>2, <2>3
<1>7. /\ \A m : Col(m)' = Col(m)
      /\ \A m : InBounds(m)' <=> InBounds(m)
      /\ MediaPages!Live' = MediaPages!Live
      /\ \A k, m : PastKey(k, m)' <=> PastKey(k, m)
  <2>1. \A m : Col(m)' = Col(m)
    BY <1>3 DEF Col, MediaPages!Column
  <2>2. \A m : InBounds(m)' <=> InBounds(m)
    BY <1>3, <2>1 DEF InBounds, MediaPages!Bounded, MediaPages!Column, MediaPages!Dates
  <2>3. MediaPages!Live' = MediaPages!Live
    BY <1>3 DEF MediaPages!Live
  <2>4. ASSUME NEW k, NEW m PROVE PastKey(k, m)' <=> PastKey(k, m)
    BY <1>3 DEF PastKey, MediaPages!PastPair, Col, MediaPages!Column
  <2> QED
    BY <2>1, <2>2, <2>3, <2>4
<1>8. StartKept'
  BY <1>1, <1>3, <1>7 DEF StartKept
<1>9. CASE ~Followed'
  BY <1>6, <1>8, <1>9 DEF PagesInv, MediaPages!PagesFollowed, Followed, MediaPages!Dates
<1>10. CASE Followed'
  <2>1. Followed /\ ~MediaPages!Useless(query, key)
    BY <1>3, <1>10 DEF Followed, MediaPages!Dates
  <2>2. query.style = "single" => query.sort \in MediaPages!Dates
    BY <2>1 DEF Followed
  <2>3. GivenBehind /\ RestAhead
    BY <1>1, <2>1
  <2>4. \A m \in all : m \in MediaPages!Live /\ (key.value # None => PastKey(key, m))
    BY <1>1, <2>1, <2>2, SelectedPast DEF all
  <2>5. \A m \in start \ moved : (key.value # None => PastKey(key, m)) => m \in all
    BY <1>1, <2>1, <2>2, PastSelected DEF all, StartKept
  <2>6. key.value = None => given = {}
    <3>1. key.value = None => key.id = 0
      BY <2>1 DEF MediaPages!Useless
    <3> QED
      BY <1>1, <3>1 DEF PagesTyped
  <2>7. given \cap page \subseteq moved
    <3> SUFFICES ASSUME NEW m \in given \cap page, m \notin moved PROVE FALSE
      OBVIOUS
    <3>1. key.value # None
      BY <2>6
    <3>2. PastKey(key, m)
      BY <1>4, <2>4, <3>1
    <3>3. ~PastKey(key, m)
      BY <2>3, <3>1 DEF GivenBehind
    <3> QED
      BY <3>2, <3>3
  <2>8. pagedTwice' \subseteq moved'
    BY <1>1, <1>2, <1>3, <2>1, <2>7 DEF MediaPages!PagesFollowed, Followed
  <2>9. GivenBehind'
    <3> SUFFICES ASSUME NEW m \in given' \ moved
                 PROVE  m \in MediaPages!Live /\ (key'.value # None => ~PastKey(key', m))
      BY <1>3, <1>7 DEF GivenBehind
    <3>1. m \in MediaPages!Live
      BY <1>2, <1>4, <2>3 DEF GivenBehind
    <3>2. CASE page = {}
      <4>1. key' = key /\ m \in given
        BY <1>2, <3>2
      <4> QED
        BY <2>3, <3>1, <4>1 DEF GivenBehind
    <3>3. CASE page # {}
      <4>1. PICK last \in page : /\ \A n \in page \ {last} : MediaPages!Precedes(query, n, last)
                                 /\ key' = MediaPages!KeyOf(query, last)
        BY <1>5, <3>3
      <4>2. last \in MediaPages!Live
        BY <1>4
      <4> SUFFICES ASSUME key'.value # None PROVE ~PastKey(key', m)
        BY <3>1
      <4>3. CASE m \in page
        BY <1>1, <3>1, <4>1, <4>2, <4>3, OrderOfKey
      <4>4. CASE m \notin page
        <5>1. m \in given \ moved
          BY <1>2, <4>4
        <5>2. key.value # None
          BY <2>6, <5>1
        <5>3. ~PastKey(key, m) /\ PastKey(key, last)
          BY <1>4, <2>3, <2>4, <5>1, <5>2 DEF GivenBehind
        <5> QED
          BY <1>1, <3>1, <4>1, <4>2, <5>2, <5>3, KeysInOrder
      <4> QED
        BY <4>3, <4>4
    <3> QED
      BY <3>2, <3>3
  \* What was not given before is on the page, or ahead of it.
  <2>10. ASSUME NEW m \in start \ moved, m \notin given', Col(m) # None,
                ~(query.style = "single" /\ Col(m) \in marks')
         PROVE  m \in all \ page
    <3>1. m \notin given /\ m \notin page
      BY <1>2, <2>10
    <3>2. ~(query.style = "single" /\ Col(m) \in marks)
      BY <1>3, <2>10
    <3>3. key.value # None => PastKey(key, m)
      BY <1>3, <2>3, <2>10, <3>1, <3>2 DEF RestAhead
    <3> QED
      BY <2>5, <3>1, <3>3
  <2>11. RestAhead'
    <3> SUFFICES ASSUME key'.value # None, NEW m \in start \ moved, m \notin given', Col(m) # None,
                        ~(query.style = "single" /\ Col(m) \in marks')
                 PROVE  PastKey(key', m)
      BY <1>3, <1>7 DEF RestAhead
    <3>1. m \in all \ page /\ m \in MediaPages!Live
      BY <1>4, <2>10
    <3>2. CASE page = {}
      <4>1. key' = key
        BY <1>2, <3>2
      <4> QED
        BY <2>4, <3>1, <4>1
    <3>3. CASE page # {}
      <4>1. PICK last \in page : key' = MediaPages!KeyOf(query, last)
        BY <1>5, <3>3
      <4>2. last \in MediaPages!Live /\ MediaPages!Precedes(query, last, m)
        BY <1>4, <3>1
      <4>3. PastKey(key', m) \/ (query.style = "single" /\ Col(m) = key'.value)
        BY <1>1, <3>1, <4>1, <4>2, OrderOfKey
      <4>4. query.style = "single" => Col(m) # key'.value
        BY <1>3
      <4> QED
        BY <4>3, <4>4
    <3> QED
      BY <3>2, <3>3
  <2>12. ASSUME done', NEW m \in start \ moved
         PROVE  m \in given' \/ Col(m) = None \/ (query.style = "single" /\ Col(m) \in marks')
    <3>1. page = all
      BY <1>4, <2>12
    <3>2. m \notin all \ page
      BY <3>1
    <3> QED
      BY <2>10, <3>2
  <2>13. MediaPages!PagesFollowed'
    <3>1. done' => \A m \in start' \ moved' :
            m \in given' \/ Col(m)' = None \/ (query'.style = "single" /\ Col(m)' \in marks')
      BY <1>3, <1>7, <2>12
    <3> QED
      BY <2>8, <3>1 DEF MediaPages!PagesFollowed, Col
  <2> QED
    BY <1>6, <1>8, <2>9, <2>11, <2>13 DEF PagesInv
<1> QED
  BY <1>9, <1>10

\* Every page and every edit keeps the invariant.
LEMMA PagesStep == PagesInv /\ subject = "pages" /\ [MCNext]_CatalogueVars => PagesInv'
<1> SUFFICES ASSUME PagesInv, subject = "pages", [MCNext]_CatalogueVars PROVE PagesInv'
  OBVIOUS
<1>1. /\ rows \in [MediaPages!Ids -> [value : Nat \cup {None}, modified : Nat] \cup {None}]
      /\ clock \in Nat \ {0} /\ DOMAIN rows = MediaPages!Ids
      /\ query.since \in {None, 0} /\ None \notin Nat
      /\ \A m \in MediaPages!Live : m \in MediaPages!Ids
            /\ rows[m] \in [value : Nat \cup {None}, modified : Nat]
  BY PagesAssumption DEF PagesInv, PagesTyped, MediaPages!Live
<1>2. \A row \in [value : Nat \cup {None}, modified : Nat] : row # None
  BY PagesAssumption
\* A row that is not the one written.
<1>3. ASSUME NEW m \in MediaPages!Live, rows'[m] = rows[m], query' = query
      PROVE  m \in MediaPages!Live' /\ Col(m)' = Col(m) /\ (InBounds(m) => InBounds(m)')
  <2>1. m \in MediaPages!Live'
    BY <1>3 DEF MediaPages!Live
  <2>2. Col(m)' = Col(m)
    BY <1>3 DEF Col, MediaPages!Column
  <2>3. InBounds(m) => InBounds(m)'
    BY <1>3, <2>2 DEF InBounds, MediaPages!Bounded, MediaPages!Column, MediaPages!Dates
  <2> QED
    BY <2>1, <2>2, <2>3
\* One row is written, of a media that moves.
<1>4. ASSUME NEW m, NEW row \in [value : Nat \cup {None}, modified : Nat] \cup {None},
             rows' = [rows EXCEPT ![m] = row], moved' = moved \cup {m}, clock' \in Nat \ {0},
             UNCHANGED <<query, key, given, start, done, pagedTwice, marks, ignored>>
      PROVE  PagesInv'
  <2>1. rows' \in [MediaPages!Ids -> [value : Nat \cup {None}, modified : Nat] \cup {None}]
    BY <1>1, <1>4
  <2>2. \A n \in MediaPages!Live \ moved' : rows'[n] = rows[n]
    BY <1>1, <1>4
  <2>3. \A n \in MediaPages!Live \ moved' :
          /\ n \in MediaPages!Live' /\ Col(n)' = Col(n)
          /\ InBounds(n) => InBounds(n)'
    BY <1>3, <1>4, <2>2
  <2> QED
    BY <1>4, <2>1, <2>3, EditKeepsPages
<1>5. ASSUME MediaPages!Edits PROVE clock' \in Nat \ {0}
  BY <1>1, <1>5 DEF MediaPages!Edits
<1>6. CASE MediaPages!Edit
  <2>1. PICK m \in MediaPages!Live :
          /\ rows' = [rows EXCEPT ![m].modified = clock']
          /\ moved' = IF query.sort = "modified" THEN moved \cup {m} ELSE moved
    BY <1>6 DEF MediaPages!Edit
  <2>2. /\ clock' \in Nat \ {0}
        /\ UNCHANGED <<query, key, given, start, done, pagedTwice, marks, ignored>>
    BY <1>5, <1>6 DEF MediaPages!Edit
  <2> DEFINE row == [rows[m] EXCEPT !.modified = clock']
  <2>3. rows' = [rows EXCEPT ![m] = row] /\ row \in [value : Nat \cup {None}, modified : Nat]
    BY <1>1, <2>1, <2>2
  <2>4. row.value = rows[m].value /\ row.modified = clock' /\ row # None
    BY <1>1, <1>2, <2>3
  <2> HIDE DEF row
  <2>5. CASE query.sort = "modified"
    BY <1>4, <2>1, <2>2, <2>3, <2>5
  <2>6. CASE query.sort # "modified"
    <3>1. rows'[m] = row /\ moved' = moved
      BY <1>1, <2>1, <2>3, <2>6
    <3>2. m \in MediaPages!Live' /\ Col(m)' = Col(m)
      BY <1>1, <2>2, <2>4, <2>6, <3>1 DEF MediaPages!Live, Col, MediaPages!Column
    <3>3. InBounds(m) => InBounds(m)'
      <4>1. CASE query.sort \in MediaPages!Dates
        BY <2>2, <3>2, <4>1 DEF InBounds, MediaPages!Bounded, Col, MediaPages!Dates
      <4>2. CASE query.sort \notin MediaPages!Dates
        <5>1. MediaPages!Bounded(query, m)' = clock'
          BY <2>2, <2>4, <3>1, <4>2 DEF MediaPages!Bounded, MediaPages!Dates
        <5> QED
          BY <1>1, <2>2, <5>1 DEF InBounds, MediaPages!Beyond
      <4> QED
        BY <4>1, <4>2
    <3>4. \A n \in MediaPages!Live : n # m => rows'[n] = rows[n]
      BY <1>1, <2>3
    <3>5. \A n \in MediaPages!Live \ moved' :
            /\ n \in MediaPages!Live' /\ Col(n)' = Col(n)
            /\ InBounds(n) => InBounds(n)'
      BY <1>3, <2>2, <3>2, <3>3, <3>4
    <3>6. rows' \in [MediaPages!Ids -> [value : Nat \cup {None}, modified : Nat] \cup {None}]
      BY <1>1, <2>3
    <3> QED
      BY <2>2, <3>1, <3>5, <3>6, EditKeepsPages
  <2> QED
    BY <2>5, <2>6
<1>7. CASE MediaPages!SetValue
  <2>1. PICK m \in MediaPages!Live, v \in 0..1 :
          /\ rows' = [rows EXCEPT ![m] = [value |-> v,
                        modified |-> IF query.sort = "size" THEN clock' ELSE rows[m].modified]]
          /\ moved' = moved \cup {m}
    BY <1>7 DEF MediaPages!SetValue
  <2>2. /\ clock' \in Nat \ {0}
        /\ UNCHANGED <<query, key, given, start, done, pagedTwice, marks, ignored>>
    BY <1>5, <1>7 DEF MediaPages!SetValue
  <2>3. [value |-> v, modified |-> IF query.sort = "size" THEN clock' ELSE rows[m].modified]
          \in [value : Nat \cup {None}, modified : Nat] \cup {None}
    BY <1>1, <2>2
  <2> QED
    BY <1>4, <2>1, <2>2, <2>3
<1>8. CASE MediaPages!AddMedia
  <2>1. PICK m \in MediaPages!Ids \ MediaPages!Live, v \in 0..1 :
          /\ rows' = [rows EXCEPT ![m] = [value |-> v, modified |-> clock']]
          /\ moved' = moved \cup {m}
    BY <1>8 DEF MediaPages!AddMedia
  <2>2. /\ clock' \in Nat \ {0}
        /\ UNCHANGED <<query, key, given, start, done, pagedTwice, marks, ignored>>
    BY <1>5, <1>8 DEF MediaPages!AddMedia
  <2>3. [value |-> v, modified |-> clock'] \in [value : Nat \cup {None}, modified : Nat] \cup {None}
    BY <2>2
  <2> QED
    BY <1>4, <2>1, <2>2, <2>3
<1>9. CASE MediaPages!RemoveMedia
  <2>1. PICK m \in MediaPages!Live : rows' = [rows EXCEPT ![m] = None] /\ moved' = moved \cup {m}
    BY <1>9 DEF MediaPages!RemoveMedia
  <2>2. /\ clock' \in Nat \ {0}
        /\ UNCHANGED <<query, key, given, start, done, pagedTwice, marks, ignored>>
    BY <1>5, <1>9 DEF MediaPages!RemoveMedia
  <2> QED
    BY <1>4, <2>1, <2>2
<1>10. CASE UNCHANGED pageVars
  <2>1. UNCHANGED <<rows, clock, query, key, given, start, done, pagedTwice, moved, marks, ignored>>
    BY <1>10 DEF pageVars
  <2>2. \A n \in MediaPages!Live \ moved' :
          /\ n \in MediaPages!Live' /\ Col(n)' = Col(n)
          /\ InBounds(n) => InBounds(n)'
    BY <1>3, <2>1
  <2> QED
    BY <1>1, <2>1, <2>2, EditKeepsPages
<1>11. MediaPages!Next \/ UNCHANGED pageVars
  BY DEF MCNext, CatalogueVars
<1> QED
  BY <1>6, <1>7, <1>8, <1>9, <1>10, <1>11, PageKeepsPages DEF MediaPages!Next

\* A client that follows the keys to the end is given what answered when it
\* began and kept its place, and none of it twice.
THEOREM PagesAreFollowed == MCSpec => []PagesFollowed
<1>1. (subject = "pages" => PagesInv) /\ [MCNext]_CatalogueVars => (subject = "pages" => PagesInv)'
  <2>1. [MCNext]_CatalogueVars => subject' = subject
    BY DEF MCNext, CatalogueVars
  <2> QED
    BY <2>1, PagesStep
<1>2. (subject = "pages" => PagesInv) => PagesFollowed
  BY DEF PagesInv, PagesFollowed
<1> QED
  BY PagesFirst, <1>1, <1>2, PTL DEF MCSpec, CatalogueVars

=============================================================================
