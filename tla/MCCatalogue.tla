----------------------------- MODULE MCCatalogue -----------------------------
(* The catalogue of a library for TLC: the episodes of a serie, the tags,    *)
(* the works, the faces, the edits of a media and the paging through them.   *)
(* The six share no row but those of the medias, which each of them models   *)
(* as far as it writes them, so that a behaviour is one of one of them:      *)
(* `subject` says which, and the others are at rest.                         *)
EXTENDS Episodes, TLC

CONSTANTS
  a, b, c1, c2, m1, m2, r1, r2, r3, Subjects, None,
  Callers, Pictures, Looks,
  MaxTags, MaxTagCalls,
  MaxWorks, Mains, MaxWorkCalls, Deleted,
  MaxFaces, MaxPeople, PersonMedias, Task, Api, MaxFaceCalls,
  MaxMadeTags, MaxRemovals,
  MaxMedias, MaxLimit, MaxEdits, MaxClock

VARIABLES
  subject,
  tags, tagsUsed, tagMapping, tagCall, tagCalls, tagLate, crossed,
  works, worksUsed, ofWork, recorded, workCall, task, workCalls, twice, raced, workLate, dropped,
  face, faceMapping, people, picture, facesUsed, work, faceCalls, unmapped,
  media, mediaTag, mediaTagsUsed, tagged, mediaPeople, inMedia, edit, removals, undone,
  rows, clock, edits, query, key, given, start, done, pagedTwice, moved, marks, ignored

Tags == INSTANCE Tags WITH
  used <- tagsUsed, mapping <- tagMapping, call <- tagCall, calls <- tagCalls, late <- tagLate,
  Names <- Looks, MaxCalls <- MaxTagCalls

Works == INSTANCE Works WITH
  used <- worksUsed, media <- ofWork, call <- workCall, calls <- workCalls, late <- workLate,
  Extras <- Looks, MaxCalls <- MaxWorkCalls

Faces == INSTANCE Faces WITH
  mapping <- faceMapping, media <- picture, used <- facesUsed, calls <- faceCalls,
  Medias <- Pictures, MaxCalls <- MaxFaceCalls

\* A merge or a removal is told from no request.
ASSUME TagsAssumption == MaxTags \in Nat /\ None \notin {"merge", "remove"}

\* What is no row is told from the rows.
ASSUME WorksAssumption ==
  /\ MaxWorks \in Nat
  /\ None \notin [kind : Works!Types, main : Mains, extra : Looks \cup {None},
                  serie : Works!Ids \cup {None}, chapter : BOOLEAN]

\* There is room for the tag a media may have.  A request is told from the steps of
\* a processing, and a caller from none.
ASSUME EditsAssumption ==
  /\ MaxMadeTags \in Nat \ {0}
  /\ None \notin Callers \cup {"faces", "infos", "predict"}

\* What is no row is told from the rows and from the faces a row refers to.
FaceLabels == {Faces!Index(f, fs) : f \in Faces!Faces, fs \in SUBSET Faces!Faces}
FaceRow    == [media : Pictures, look : Looks, person : Faces!People \cup {None},
               cluster : FaceLabels \cup {None}, done : BOOLEAN]
ASSUME FacesAssumption ==
  /\ MaxFaces \in Nat /\ MaxPeople \in Nat
  /\ None \notin FaceRow \cup Faces!People \cup 0..MaxFaces

\* One name of a tag, that of the works, and one person.
MediaEdits == INSTANCE MediaEdits WITH
  tag <- mediaTag, used <- mediaTagsUsed, people <- mediaPeople, present <- inMedia,
  work <- edit,
  Names <- Mains, People <- Medias, MaxTags <- MaxMadeTags

MediaPages == INSTANCE MediaPages WITH twice <- pagedTwice

\* What is no row, or no value, is told from the rows and from the values.
ASSUME PagesAssumption ==
  MaxMedias \in Nat /\ None \notin Nat \cup [value : Nat \cup {None}, modified : Nat]

tagVars  == <<tags, tagsUsed, tagMapping, tagCall, tagCalls, tagLate, crossed>>
workVars == <<works, worksUsed, ofWork, recorded, workCall, task, workCalls, twice, raced,
              workLate, dropped>>
faceVars == <<face, faceMapping, people, picture, facesUsed, work, faceCalls, unmapped>>
editVars == <<media, mediaTag, mediaTagsUsed, tagged, mediaPeople, inMedia, edit, removals, undone>>
pageVars == <<rows, clock, edits, query, key, given, start, done, pagedTwice, moved, marks, ignored>>

\* What has no part in a behaviour has no state.
NoEdit ==
  /\ media = None /\ mediaTag = None /\ mediaTagsUsed = None /\ tagged = None
  /\ mediaPeople = None /\ inMedia = None /\ edit = None /\ removals = None /\ undone = None

NoPage ==
  /\ rows = None /\ clock = None /\ edits = None /\ query = None /\ key = None
  /\ given = None /\ start = None /\ done = None /\ pagedTwice = None
  /\ moved = None /\ marks = None /\ ignored = None

MCInit ==
  /\ subject \in Subjects
  /\ Init       /\ (subject # "episodes" => table = {})
  /\ Tags!Init  /\ (subject # "tags" => tagsUsed = 0)
  /\ Works!Init
  /\ Faces!Init
  /\ IF subject = "edits" THEN MediaEdits!Init ELSE NoEdit
  /\ IF subject = "pages" THEN MediaPages!Init ELSE NoPage

MCNext ==
  /\ UNCHANGED subject
  /\ \/ /\ subject = "episodes" /\ Next
        /\ UNCHANGED <<tagVars, workVars, faceVars, editVars, pageVars>>
     \/ /\ subject = "tags" /\ Tags!Next
        /\ UNCHANGED <<vars, workVars, faceVars, editVars, pageVars>>
     \/ /\ subject = "works" /\ Works!Next
        /\ UNCHANGED <<vars, tagVars, faceVars, editVars, pageVars>>
     \/ /\ subject = "faces" /\ Faces!Next
        /\ UNCHANGED <<vars, tagVars, workVars, editVars, pageVars>>
     \/ /\ subject = "edits" /\ MediaEdits!Next
        /\ UNCHANGED <<vars, tagVars, workVars, faceVars, pageVars>>
     \/ /\ subject = "pages" /\ MediaPages!Next
        /\ UNCHANGED <<vars, tagVars, workVars, faceVars, editVars>>

MCSpec == MCInit /\ [][MCNext]_<<subject, vars, tagVars, workVars, faceVars, editVars, pageVars>>

\* A behaviour is one of one component, so that what is interchangeable in one
\* can be exchanged together with what is in another.
MCSymmetry ==
  {p \in Permutations({a, b, c1, c2, m1, m2, r1, r2}) :
     /\ <<p[a], p[b], p[r1], p[r2]>>   \in {<<a, b, r1, r2>>, <<b, a, r2, r1>>}
     /\ <<p[c1], p[c2], p[m1], p[m2]>> \in {<<c1, c2, m1, m2>>, <<c2, c1, m2, m1>>}}

MergeKeepsItems   == Tags!MergeKeepsItems
UniqueIdentifiers == Works!UniqueIdentifiers
RemovalsRecorded  == Works!RemovalsRecorded
EnrichKeepsEdits  == Works!EnrichKeepsEdits
FacesMapped       == Faces!FacesMapped
EditsTaken        == subject = "edits" => MediaEdits!EditsTaken
PagesFollowed     == subject = "pages" => MediaPages!PagesFollowed

=============================================================================
