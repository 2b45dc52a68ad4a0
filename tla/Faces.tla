--------------------------------- MODULE Faces ---------------------------------
(***************************************************************************)
(* Faces: detection in medias, clustering of the faces nobody was found    *)
(* for, and what administrators do with faces and people                   *)
(* (src/src/model/people.rs, its store, tools/scheduler/face_recognition.rs *)
(* and routes/people.rs).                                                  *)
(*                                                                         *)
(* A face is the number of its creation, so that "newest first" is the     *)
(* order of the numbers.  Two faces are similar, above the threshold, when *)
(* they have the same look.                                                *)
(***************************************************************************)
EXTENDS Naturals, FiniteSets

CONSTANTS
  MaxFaces, MaxPeople,
  Medias, Looks,
  PersonMedias,   \* medias a cluster must span to become a person: 10 in the code
  Task, Api,      \* who works: the scheduled task, and a request
  MaxCalls,       \* bound on requests
  None

Faces   == 1..MaxFaces
People  == 1..MaxPeople
Workers == {Task, Api}

VARIABLES
  face,      \* the rows: [media, look, person, cluster, done], None without one;
             \* in people_faces with a person, in unassigned_faces with None
  mapping,   \* media_people_mapping: the face a row refers to, 0 without a face
  people,    \* rows of people
  media,     \* of each media: "new", "done", "error", "gone"
  used,      \* faces and people made so far
  work,      \* what each worker is doing
  calls,     \* requests so far
  unmapped   \* pairs whose row went with the face it referred to, or by a merge with itself,
             \* and those a merge gives the faces of such a pair to

vars == <<face, mapping, people, media, used, work, calls, unmapped>>

Idle == [pc |-> "idle", media |-> None, todo |-> {}, look |-> None, person |-> None,
         all |-> {}, final |-> FALSE]
At(w, pc)      == work[w].pc = pc
Becomes(w, to) == work' = [work EXCEPT ![w] = to]
Goes(w, pc)    == work' = [work EXCEPT ![w].pc = pc]
Rows           == {f \in Faces : face[f] # None}
Unassigned     == {f \in Rows : face[f].person = None}
FacesOf(p)     == {f \in Rows : face[f].person = p}

TypeOK ==
  /\ \A f \in Rows : /\ face[f].media \in Medias /\ face[f].look \in Looks
                     /\ face[f].person \in People \cup {None}
                     /\ face[f].cluster \in 0..MaxFaces \cup {None} /\ face[f].done \in BOOLEAN
  /\ mapping \in [Medias \X People -> 0..MaxFaces \cup {None}]
  /\ people \subseteq 1..used.people
  /\ media \in [Medias -> {"new", "done", "error", "gone"}]
  /\ used.faces \in 0..MaxFaces /\ used.people \in 0..MaxPeople
  /\ \A w \in Workers : DOMAIN work[w] = DOMAIN Idle
  /\ calls \in 0..MaxCalls

Init ==
  /\ face = [f \in Faces |-> None]
  /\ mapping = [mp \in Medias \X People |-> None]
  /\ people = {} /\ used = [faces |-> 0, people |-> 0]
  /\ media = [m \in Medias |-> "new"]
  /\ work = [w \in Workers |-> Idle]
  /\ calls = 0 /\ unmapped = {}

-----------------------------------------------------------------------------
(* The store.                                                              *)

\* Rows deleted from people_faces leave null references (trigger 9).
Without(gone) == [mp \in Medias \X People |-> IF mapping[mp] \in gone THEN 0 ELSE mapping[mp]]

AddUnassignedFace(m, look) ==
  face' = [face EXCEPT ![used.faces + 1] =
             [media |-> m, look |-> look, person |-> None, cluster |-> None, done |-> FALSE]]

AddFaceEmbedding(m, look, p) ==
  /\ face' = [face EXCEPT ![used.faces + 1] =
                [media |-> m, look |-> look, person |-> p, cluster |-> None, done |-> FALSE]]
  /\ mapping' = [mapping EXCEPT ![<<m, p>>] = used.faces + 1]

AssignClusterToFaces(fs, label) ==
  face' = [f \in Faces |-> IF f \in fs \cap Unassigned
                           THEN [face[f] EXCEPT !.cluster = label, !.done = TRUE] ELSE face[f]]

MarkFacesAsProcessed(fs) ==
  face' = [f \in Faces |-> IF f \in fs \cap Unassigned
                           THEN [face[f] EXCEPT !.done = TRUE] ELSE face[f]]

Give(fs, p) ==
  [f \in Faces |-> IF f \in fs THEN [face[f] EXCEPT !.person = p, !.cluster = None, !.done = FALSE]
                   ELSE face[f]]

In(fs, m) == {f \in fs : face[f].media = m}

\* Mutant: the row of one media only is written.
MappedToOne(fs, p) == {[mapping EXCEPT ![<<face[f].media, p>>] = f] : f \in fs}

\* Each media's row refers to one of the faces given.
MappedTo(fs, p) ==
  {[mp \in Medias \X People |-> IF mp[2] = p /\ In(fs, mp[1]) # {} THEN pick[mp[1]] ELSE mapping[mp]] :
     pick \in {q \in [Medias -> fs \cup {0}] :
                \A m \in Medias : q[m] \in IF In(fs, m) = {} THEN {0} ELSE In(fs, m)}}

Labelled(label) == {f \in Unassigned : face[f].cluster = label}

PromoteClusterToPerson(label, p) ==
  /\ face' = Give(Labelled(label), p)
  /\ mapping' \in MappedTo(Labelled(label), p)

AssignUnassignedFaces(fs, p) ==
  /\ face' = Give(fs \cap Unassigned, p)
  /\ mapping' \in MappedTo(fs \cap Unassigned, p)

\* The media's row goes with the face it refers to.
UnassignFaces(fs) ==
  LET moved == fs \ Unassigned
      off   == {mp \in Medias \X People : mapping[mp] \in moved}
  IN  /\ face' = Give(moved, None)
      /\ mapping' = [mp \in Medias \X People |-> IF mp \in off THEN None ELSE mapping[mp]]
      /\ unmapped' = unmapped \cup off

DeleteFaceRow(f) ==
  /\ face' = [face EXCEPT ![f] = None]
  /\ mapping' = Without({f})

RemovePersonRows(p) ==
  /\ face' = [f \in Faces |-> IF f \in FacesOf(p) THEN None ELSE face[f]]
  /\ mapping' = [mp \in Medias \X People |-> IF mp[2] = p THEN None ELSE mapping[mp]]
  /\ people' = people \ {p}

\* A media that has both keeps the target's row.
TransferFaces(source, target) ==
  LET both == {m \in Medias : mapping[<<m, source>>] # None /\ mapping[<<m, target>>] # None}
  IN  /\ face' = [f \in Faces |-> IF f \in FacesOf(source) THEN [face[f] EXCEPT !.person = target]
                                  ELSE face[f]]
      /\ mapping' = [mp \in Medias \X People |->
           IF mp[2] = source THEN None
           ELSE IF mp[2] = target /\ mp[1] \notin both /\ mapping[mp] = None
                THEN mapping[<<mp[1], source>>] ELSE mapping[mp]]
      /\ unmapped' = unmapped \cup {mp \in Medias \X People :
           IF source = target THEN mp[2] = source
           ELSE mp[2] = target /\ <<mp[1], source>> \in unmapped}

-----------------------------------------------------------------------------
(* Detection: process_media_faces, of a media at a time.                   *)

\* One face of each look found is left (deduplicate_faces).
DeduplicateFaces == SUBSET Looks

StartMedia(w, m) ==
  \E looks \in DeduplicateFaces :
    /\ Cardinality(looks) + used.faces <= MaxFaces
    /\ Becomes(w, [work[w] EXCEPT !.pc = "faces", !.media = m, !.todo = looks])

\* People who have a face of that look.
MatchFaceToPerson(look) == {face[f].person : f \in {g \in Rows \ Unassigned : face[g].look = look}}

MatchFace(w) ==
  /\ At(w, "faces")
  /\ \E look \in work[w].todo :
       \E p \in IF MatchFaceToPerson(look) = {} THEN {None} ELSE MatchFaceToPerson(look) :
         Becomes(w, [work[w] EXCEPT !.pc = "place", !.look = look, !.person = p,
                                    !.todo = @ \ {look}])
  /\ UNCHANGED <<face, mapping, people, media, used, calls, unmapped>>

\* A media or a person that is gone refuses the row (foreign keys): an error.
PlaceFace(w) ==
  LET m == work[w].media p == work[w].person
  IN  /\ At(w, "place")
      /\ IF media[m] = "gone" \/ p \notin people \cup {None}
         THEN Goes(w, "error") /\ UNCHANGED <<face, mapping, used>>
         ELSE /\ used.faces < MaxFaces
              /\ used' = [used EXCEPT !.faces = @ + 1]
              /\ IF p = None THEN AddUnassignedFace(m, work[w].look) /\ UNCHANGED mapping
                 ELSE AddFaceEmbedding(m, work[w].look, p)
              /\ Goes(w, "faces")
      /\ UNCHANGED <<people, media, calls, unmapped>>

Ends(w) == Becomes(w, [Idle EXCEPT !.pc = IF w = Task THEN "chunk" ELSE "idle"])

MarkProcessed(w) ==
  /\ At(w, "faces") /\ work[w].todo = {}
  /\ media' = [media EXCEPT ![work[w].media] = IF @ = "gone" THEN @ ELSE "done"]
  /\ Ends(w)
  /\ UNCHANGED <<face, mapping, people, used, calls, unmapped>>

\* Reading the media, its frames or the model may fail as well.
MarkError(w) ==
  /\ work[w].pc \in {"faces", "error"}
  /\ media' = [media EXCEPT ![work[w].media] = IF @ = "new" THEN "error" ELSE @]
  /\ Ends(w)
  /\ UNCHANGED <<face, mapping, people, used, calls, unmapped>>

-----------------------------------------------------------------------------
(* Clustering: cluster_unassigned_faces.                                   *)

\* The position of a face in the snapshot, newest first.
Index(f, fs) == Cardinality({g \in fs : g > f})

Alike(look, fs) == {f \in fs : face[f].look = look}

\* Each group of similar faces ends with the label of one of them, its index.
ChineseWhispers(fs) ==
  LET groups == {Alike(look, fs) : look \in Looks} \ {{}}
      many   == {g \in groups : Cardinality(g) > 1}
  IN  {{[label |-> Index(pick[g], fs), faces |-> g, medias |-> {face[f].media : f \in g}] :
           g \in many} :
         pick \in {p \in [many -> fs] : \A g \in many : p[g] \in g}}

StartCluster(w) ==
  IF Cardinality(Unassigned) < 3
  THEN Becomes(w, [work[w] EXCEPT !.pc = "clustered"])
  ELSE \E clusters \in ChineseWhispers(Unassigned) :
         Becomes(w, [work[w] EXCEPT !.pc = "cluster", !.todo = clusters, !.all = Unassigned])

\* A cluster gets its label; one that spans enough medias becomes a person.
LabelCluster(w) ==
  /\ At(w, "cluster")
  /\ \E g \in work[w].todo :
       /\ AssignClusterToFaces(g.faces, g.label)
       /\ IF Cardinality(g.medias) >= PersonMedias
          THEN Becomes(w, [work[w] EXCEPT !.pc = "person", !.look = g])
          ELSE Becomes(w, [work[w] EXCEPT !.todo = @ \ {g}, !.all = @ \ g.faces])
  /\ UNCHANGED <<mapping, people, media, used, calls, unmapped>>

AddPerson(w) ==
  /\ At(w, "person") /\ used.people < MaxPeople
  /\ used' = [used EXCEPT !.people = @ + 1]
  /\ people' = people \cup {used.people + 1}
  /\ Becomes(w, [work[w] EXCEPT !.pc = "promote", !.person = used.people + 1])
  /\ UNCHANGED <<face, mapping, media, calls, unmapped>>

\* Every unassigned face with that label, of this clustering or an earlier one.
Promote(w) ==
  LET g == work[w].look p == work[w].person
  IN  /\ At(w, "promote")
      /\ IF p \in people
         THEN /\ PromoteClusterToPerson(g.label, p)
              /\ Becomes(w, [work[w] EXCEPT !.pc = "cluster", !.todo = @ \ {g},
                                            !.all = @ \ g.faces, !.look = None, !.person = None])
         ELSE /\ Labelled(g.label) # {} => Becomes(w, [Idle EXCEPT !.pc = "clustered",
                                                                 !.final = work[w].final])
              /\ Labelled(g.label) = {} => Becomes(w, [work[w] EXCEPT !.pc = "cluster",
                                             !.todo = @ \ {g}, !.look = None, !.person = None])
              /\ UNCHANGED <<face, mapping>>
      /\ UNCHANGED <<people, media, used, calls, unmapped>>

\* What is left of the snapshot was alone: considered, without a label.
MarkSingletons(w) ==
  /\ At(w, "cluster") /\ work[w].todo = {}
  /\ MarkFacesAsProcessed(work[w].all)
  /\ Becomes(w, [Idle EXCEPT !.pc = "clustered", !.final = work[w].final])
  /\ UNCHANGED <<mapping, people, media, used, calls, unmapped>>

-----------------------------------------------------------------------------
(* The scheduled task: it matches the faces left over, processes each media *)
(* that is new, clusters, and clusters again.                               *)

MediasForProcessing == {m \in Medias : media[m] = "new"}

StartTask ==
  /\ At(Task, "idle") /\ calls < MaxCalls /\ calls' = calls + 1
  /\ Becomes(Task, [Idle EXCEPT !.pc = "matching", !.todo = Unassigned])
  /\ UNCHANGED <<face, mapping, people, media, used, unmapped>>

\* match_unassigned_faces_to_people: a face gone meanwhile is an error, logged.
MatchUnassigned ==
  /\ At(Task, "matching")
  /\ \/ /\ work[Task].todo = {} /\ Goes(Task, "chunk") /\ UNCHANGED <<face, mapping>>
     \/ \E f \in work[Task].todo :
          LET found == IF f \in Unassigned THEN MatchFaceToPerson(face[f].look) ELSE {}
          IN  /\ Becomes(Task, [work[Task] EXCEPT !.todo = @ \ {f}])
              /\ IF found = {} THEN UNCHANGED <<face, mapping>>
                 ELSE \E p \in found : AssignUnassignedFaces({f}, p)
  /\ UNCHANGED <<people, media, used, calls, unmapped>>

TaskStep ==
  /\ \/ /\ At(Task, "chunk")
        /\ \/ \E m \in MediasForProcessing : StartMedia(Task, m)
           \/ MediasForProcessing = {} /\ StartCluster(Task)
     \/ /\ At(Task, "clustered")
        /\ \/ work[Task].final /\ Becomes(Task, Idle)
           \/ ~work[Task].final /\ Becomes(Task, [Idle EXCEPT !.pc = "final"])
     \/ /\ At(Task, "final")
        /\ IF Cardinality(Unassigned) < 3 THEN Becomes(Task, Idle)
           ELSE \E clusters \in ChineseWhispers(Unassigned) :
                  Becomes(Task, [Idle EXCEPT !.pc = "cluster", !.todo = clusters,
                                             !.all = Unassigned, !.final = TRUE])
  /\ UNCHANGED <<face, mapping, people, media, used, calls, unmapped>>

-----------------------------------------------------------------------------
(* Requests.                                                               *)

Asks == At(Api, "idle") /\ calls < MaxCalls /\ calls' = calls + 1

\* A media may be asked for again: its faces are found again.
DetectFaces ==
  /\ Asks
  /\ \E m \in Medias : media[m] # "gone" /\ StartMedia(Api, m)
  /\ UNCHANGED <<face, mapping, people, media, used, unmapped>>

ClusterFaces ==
  /\ Asks /\ StartCluster(Api)
  /\ UNCHANGED <<face, mapping, people, media, used, unmapped>>

DeleteFace ==
  /\ Asks
  /\ \E f \in Rows : DeleteFaceRow(f)
  /\ UNCHANGED <<people, media, used, work, unmapped>>

Unassign ==
  /\ Asks
  /\ \E f \in Rows \ Unassigned : UnassignFaces({f})
  /\ UNCHANGED <<people, media, used, work>>

\* Assigning takes the faces from whom they had, then gives them.
Reassign ==
  /\ Asks
  /\ \E f \in Rows, p \in people :
       /\ UnassignFaces({f})
       /\ Becomes(Api, [Idle EXCEPT !.pc = "assign", !.all = {f}, !.person = p])
  /\ UNCHANGED <<people, media, used>>

Assign ==
  /\ At(Api, "assign") /\ Becomes(Api, Idle)
  /\ IF work[Api].person \in people
     THEN AssignUnassignedFaces(work[Api].all, work[Api].person)
     ELSE UNCHANGED <<face, mapping>>
  /\ UNCHANGED <<people, media, used, calls, unmapped>>

\* merge_people: both exist; the faces are transferred, then the source removed.
MergePeople ==
  \/ /\ Asks
     /\ \E s, t \in people : /\ TransferFaces(s, t)
                             /\ Becomes(Api, [Idle EXCEPT !.pc = "merge", !.person = s])
     /\ UNCHANGED <<people, media, used>>
  \/ /\ At(Api, "merge") /\ Becomes(Api, Idle)
     /\ RemovePersonRows(work[Api].person)
     /\ UNCHANGED <<media, used, calls, unmapped>>

RemovePerson ==
  /\ Asks
  /\ \E p \in people : RemovePersonRows(p)
  /\ UNCHANGED <<media, used, work, unmapped>>

\* Trigger 1: the faces and the rows of a media go with it.
RemoveMedia ==
  /\ calls < MaxCalls /\ calls' = calls + 1
  /\ \E m \in Medias :
       /\ media[m] # "gone"
       /\ media' = [media EXCEPT ![m] = "gone"]
       /\ face' = [f \in Faces |-> IF f \in Rows /\ face[f].media = m THEN None ELSE face[f]]
       /\ mapping' = [mp \in Medias \X People |-> IF mp[1] = m THEN None ELSE mapping[mp]]
  /\ UNCHANGED <<people, used, work, unmapped>>

ApiClustered ==
  /\ At(Api, "clustered") /\ Becomes(Api, Idle)
  /\ UNCHANGED <<face, mapping, people, media, used, calls, unmapped>>

Next ==
  \/ \E w \in Workers : \/ MatchFace(w) \/ PlaceFace(w) \/ MarkProcessed(w) \/ MarkError(w)
                        \/ LabelCluster(w) \/ AddPerson(w) \/ Promote(w) \/ MarkSingletons(w)
  \/ StartTask \/ MatchUnassigned \/ TaskStep
  \/ DetectFaces \/ ClusterFaces \/ ApiClustered \/ DeleteFace \/ Unassign \/ Reassign \/ Assign
  \/ MergePeople \/ RemovePerson \/ RemoveMedia

Spec == Init /\ [][Next]_vars

-----------------------------------------------------------------------------
\* The row that says a person is in a media is there for every face of the
\* person in it, and refers to such a face or to none, unless a face it referred
\* to was taken away, from this person or from one who was merged into them.
FacesMapped ==
  /\ \A f \in Rows \ Unassigned :
       <<face[f].media, face[f].person>> \notin unmapped
         => mapping[<<face[f].media, face[f].person>>] # None
  /\ \A mp \in Medias \X People :
       mapping[mp] \in Faces => /\ mapping[mp] \in Rows
                                /\ <<face[mapping[mp]].media, face[mapping[mp]].person>> = mp

\* A cluster that becomes a person takes the faces it was found to consist of:
\* "First assign cluster_id to faces (required for promote_cluster_to_person to
\* find them)".
PromotedTogether ==
  [][\A w \in Workers : At(w, "promote") /\ ~At(w, "promote")' =>
       \A f \in Unassigned : face'[f] # face[f] /\ f \in Rows' /\ face'[f].person = work[w].person
         => f \in work[w].look.faces]_vars

=============================================================================
