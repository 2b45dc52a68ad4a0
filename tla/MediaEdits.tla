------------------------------ MODULE MediaEdits ------------------------------
(***************************************************************************)
(* Edits of a media: update_media, by requests and by the processing that  *)
(* follows an upload (process_media: faces, the file's own information,    *)
(* predicted tags), while tags and people are removed                      *)
(* (src/src/model/medias.rs, store/sql/library/medias.rs, model/tags.rs).  *)
(*                                                                         *)
(* The media is read, then what the update looks up by name is found, one  *)
(* call each, then everything is written in one call, from what was read   *)
(* first.  Nothing in the tables of tags and people of medias refers to    *)
(* the rows by a foreign key.                                              *)
(***************************************************************************)
EXTENDS Naturals

CONSTANTS
  Callers,     \* each makes one request, or processes the media once
  Names,       \* names of tags
  MaxTags,     \* tags ever made: a tag is the number of its creation
  People,
  MaxRemovals, \* bound on what others remove
  None

Tags == 1..MaxTags

\* Confidences: what a user says or a name found has, what a prediction of more
\* than thirty percent has, and the one that is treated apart.
Sure      == 100
Predicted == 60
Exact     == 1

VARIABLES
  media,     \* it has its row
  tag,       \* the name of each tag, None without a row
  used,      \* tags made so far
  tagged,    \* the confidence of each tag of the media, 0 without a row
  people,    \* rows of people
  present,   \* people the media has a row for
  work,      \* what each caller is doing
  removals,  \* removals so far
  undone     \* what others changed under a caller: tags and people of the media that
             \* it read as there and did not write, or that changed after it wrote

vars == <<media, tag, used, tagged, people, present, work, removals, undone>>

\* step: the step of a processing, None for a request.  todo: names of tags to
\* find; made: the tag just made; add, conf, who, off: tags to add and their
\* confidence, people to add, tags to take off; seek: people to find by name;
\* exact, here: tags and people read, that will not be written.
Idle == [pc |-> "idle", step |-> None, todo |-> {}, made |-> 0, add |-> {}, conf |-> Sure,
         who |-> {}, seek |-> {}, off |-> {}, exact |-> {}, here |-> {}]

Predicting == [Idle EXCEPT !.pc = "predict", !.step = "predict"]

Live            == {t \in Tags : tag[t] # None}
At(c, pc)       == work[c].pc = pc
Becomes(c, to)  == work' = [work EXCEPT ![c] = to]
Goes(c, pc)     == work' = [work EXCEPT ![c].pc = pc]
\* An update that fails: the information of the file is done without.
Fails(c)        == Becomes(c, IF work[c].step = "infos" THEN Predicting
                              ELSE [Idle EXCEPT !.pc = "failed", !.step = work[c].step])
Others(c, refs) == [d \in Callers |-> IF d = c \/ At(d, "idle") THEN undone[d]
                                      ELSE undone[d] \cup refs]

TypeOK ==
  /\ media \in BOOLEAN
  /\ tag \in [Tags -> Names \cup {None}] /\ used \in 0..MaxTags /\ Live \subseteq 1..used
  /\ tagged \in [Tags -> {0, Exact, Predicted, Sure}]
  /\ people \subseteq People /\ present \subseteq People
  /\ \A c \in Callers : /\ DOMAIN work[c] = DOMAIN Idle
                        /\ undone[c] \subseteq Tags \cup People
  /\ removals \in 0..MaxRemovals

\* A media with its rows, a tag and the people there are.
Init ==
  /\ media = TRUE
  /\ used \in 0..1
  /\ tag \in {f \in [Tags -> Names \cup {None}] : \A t \in Tags : f[t] = None <=> t > used}
  /\ tagged \in {f \in [Tags -> {0, Exact, Predicted, Sure}] : \A t \in Tags : t > used => f[t] = 0}
  /\ people = People
  /\ present \in SUBSET People
  /\ work = [c \in Callers |-> Idle]
  /\ removals = 0
  /\ undone = [c \in Callers |-> {}]

-----------------------------------------------------------------------------
(* update_media: of a request, or in a step of a processing.               *)

AtMostOne(S) == {{}} \cup {{x} : x \in S}

\* What a request names: a tag by identifier or by name, one to take off, people
\* by identifier or by name.
Edit(c) ==
  /\ At(c, "idle")
  /\ \E add, off \in AtMostOne(1..used), todo \in AtMostOne(Names),
        who, seek \in AtMostOne(People) :
       /\ add = {} \/ todo = {}
       /\ add \cap off = {}
       /\ who = {} \/ seek = {}
       /\ Becomes(c, [Idle EXCEPT !.pc = "read", !.todo = todo, !.add = add, !.off = off,
                                  !.who = who, !.seek = seek])
  /\ UNCHANGED <<media, tag, used, tagged, people, present, removals, undone>>

Reads(c, exact) ==
  IF ~media THEN Fails(c) /\ UNCHANGED undone
  ELSE /\ Becomes(c, [work[c] EXCEPT !.pc = IF work[c].step = None THEN "find" ELSE "write",
                                     !.exact = exact, !.here = present])
       /\ undone' = [undone EXCEPT ![c] = {}]

\* Mutant: the tags of the media are passed over whatever their confidence.
ReadWhateverConfidence(c) ==
  /\ At(c, "read")
  /\ Reads(c, {t \in Tags : tagged[t] # 0})
  /\ UNCHANGED <<media, tag, used, tagged, people, present, removals>>

\* The media as it is: a tag that is on it with a confidence of 1, and a person
\* that is on it, will not be written.
Read(c) ==
  /\ At(c, "read")
  /\ Reads(c, {t \in Tags : tagged[t] = Exact})
  /\ UNCHANGED <<media, tag, used, tagged, people, present, removals>>

Named(n) == {t \in Live : tag[t] = n}

\* A tag of that name; or else get_or_create_path, which looks under its path.
FindTag(c) ==
  /\ work[c].pc \in {"find", "path"}
  /\ \E n \in work[c].todo :
       IF Named(n) = {} THEN Goes(c, IF At(c, "find") THEN "path" ELSE "make")
       ELSE \E t \in Named(n) :
              Becomes(c, [work[c] EXCEPT !.pc = "find", !.todo = @ \ {n}, !.add = @ \cup {t}])
  /\ UNCHANGED <<media, tag, used, tagged, people, present, removals, undone>>

MakeTag(c) ==
  /\ At(c, "make") /\ used < MaxTags
  /\ \E n \in work[c].todo :
       /\ tag' = [tag EXCEPT ![used + 1] = n]
       /\ Becomes(c, [work[c] EXCEPT !.pc = "made", !.todo = @ \ {n}, !.made = used + 1])
  /\ used' = used + 1
  /\ UNCHANGED <<media, tagged, people, present, removals, undone>>

\* The tag that was made is read again.
Recall(c) ==
  /\ At(c, "made")
  /\ IF work[c].made \in Live
     THEN Becomes(c, [work[c] EXCEPT !.pc = "find", !.add = @ \cup {work[c].made}, !.made = 0])
     ELSE Fails(c)
  /\ UNCHANGED <<media, tag, used, tagged, people, present, removals, undone>>

\* A predicted tag is found before the update of it reads the media.  A person
\* who is not found by name is left out.
FindPeople(c) ==
  /\ At(c, "find") /\ work[c].todo = {}
  /\ IF work[c].step = "predict" THEN Goes(c, "read")
     ELSE Becomes(c, [work[c] EXCEPT !.pc = "write", !.who = @ \cup (work[c].seek \cap people)])
  /\ UNCHANGED <<media, tag, used, tagged, people, present, removals, undone>>

\* One call; the rows are written whether the media is there or not.
Write(c) ==
  LET w == work[c]
  IN  /\ At(c, "write")
      /\ tagged' = [t \in Tags |-> IF t \in w.off THEN 0
                                   ELSE IF t \in w.add \ w.exact THEN w.conf ELSE tagged[t]]
      /\ present' = present \cup (w.who \ w.here)
      /\ undone' = [Others(c, {t \in Tags : tagged'[t] # tagged[t]})
                      EXCEPT ![c] = @ \cap (w.exact \cup w.here)]
      /\ Becomes(c, [w EXCEPT !.pc = "reread", !.exact = {}, !.here = {}])
      /\ UNCHANGED <<media, tag, used, people, removals>>

\* The media is read again for the answer, and for the event of a request.
Reread(c) ==
  /\ At(c, "reread")
  /\ IF ~media THEN Fails(c)
     ELSE IF work[c].step = None THEN Goes(c, "ok")
     ELSE Becomes(c, Predicting)
  /\ UNCHANGED <<media, tag, used, tagged, people, present, removals, undone>>

-----------------------------------------------------------------------------
(* process_media.                                                          *)

\* The thumbnail, with or without success; then the library may refuse.
Process(c) ==
  /\ At(c, "idle")
  /\ \E pc \in {"existing", "failed"} : Becomes(c, [Idle EXCEPT !.pc = pc, !.step = "faces"])
  /\ UNCHANGED <<media, tag, used, tagged, people, present, removals, undone>>

Existing(c) ==
  /\ At(c, "existing")
  /\ IF media THEN Goes(c, "faces") ELSE Fails(c)
  /\ UNCHANGED <<media, tag, used, tagged, people, present, removals, undone>>

\* process_media_faces puts people on the media, one at a time, until it finds
\* no more or fails.
Recognise(c) ==
  /\ At(c, "faces")
  /\ \/ Goes(c, "infos") /\ UNCHANGED <<present, undone>>
     \/ /\ media
        /\ \E p \in people : present' = present \cup {p}
        /\ UNCHANGED <<work, undone>>
  /\ UNCHANGED <<media, tag, used, tagged, people, removals>>

\* update_video_infos and its like: columns alone; they may fail before.
Infos(c) ==
  /\ At(c, "infos")
  /\ \/ Becomes(c, [Idle EXCEPT !.pc = "read", !.step = "infos"])
     \/ Becomes(c, Predicting)
  /\ UNCHANGED <<media, tag, used, tagged, people, present, removals, undone>>

\* An update for each predicted tag; without a model, or after the last, the
\* media is read once more for the event.  The image may not be readable.
Predict(c) ==
  /\ At(c, "predict")
  /\ \/ \E n \in Names :
          Becomes(c, [Predicting EXCEPT !.pc = "find", !.todo = {n}, !.conf = Predicted])
     \/ Goes(c, IF media THEN "ok" ELSE "failed")
     \/ Fails(c)
  /\ UNCHANGED <<media, tag, used, tagged, people, present, removals, undone>>

-----------------------------------------------------------------------------
(* What others do.                                                         *)

Acts == removals < MaxRemovals /\ removals' = removals + 1

\* remove_tag: its mappings go with it.
RemoveTag ==
  /\ Acts
  /\ \E t \in Live : /\ tag' = [tag EXCEPT ![t] = None]
                     /\ tagged' = [tagged EXCEPT ![t] = 0]
                     /\ undone' = Others(None, {t})
  /\ UNCHANGED <<media, used, people, present, work>>

\* remove_person; or only a face of theirs is unassigned, and their row with it.
RemovePerson ==
  /\ Acts
  /\ \E p \in people : /\ people' \in {people, people \ {p}}
                       /\ present' = present \ {p}
                       /\ undone' = Others(None, {p})
  /\ UNCHANGED <<media, tag, used, tagged, work>>

RemoveMedia ==
  /\ Acts /\ media
  /\ media' = FALSE
  /\ tagged' = [t \in Tags |-> 0] /\ present' = {}
  /\ undone' = Others(None, Tags \cup People)
  /\ UNCHANGED <<tag, used, people, work>>

Next ==
  \/ \E c \in Callers :
       \/ Edit(c) \/ Read(c) \/ FindTag(c) \/ MakeTag(c) \/ Recall(c) \/ FindPeople(c)
       \/ Write(c) \/ Reread(c)
       \/ Process(c) \/ Existing(c) \/ Recognise(c) \/ Infos(c) \/ Predict(c)
  \/ RemoveTag \/ RemovePerson \/ RemoveMedia

Spec == Init /\ [][Next]_vars

-----------------------------------------------------------------------------
\* An edit that was answered is there: the tags it named or looked up are on the
\* media, no longer with the confidence of a prediction, the people too, and what
\* it took off is off, whatever was predicted, recognised and removed meanwhile;
\* unless it was changed after the edit was written, or was on the media when the
\* edit read it and taken away before it was written.
EditsTaken ==
  \A c \in Callers : At(c, "ok") /\ work[c].step = None =>
    /\ \A t \in work[c].add \ undone[c] : t \notin work[c].off => tagged[t] \in {Sure, Exact}
    /\ \A p \in work[c].who \ undone[c] : p \in present
    /\ \A t \in work[c].off \ undone[c] : tagged[t] = 0

=============================================================================
