------------------------------- MODULE Downloads -------------------------------
(* Downloads into a library (src/src/model/medias.rs): a list of requests, each  *)
(* a media of its own or all of them the pages of one, and only their addresses  *)
(* in a virtual library.  What a request answers is read through into_reader,    *)
(* which resolves it first and tries an answer 429 again, five times.  Downloads *)
(* overlap, and share nothing but the library.                                   *)
EXTENDS Naturals, Sequences, FiniteSets

CONSTANTS
  Tasks,
  Lists,      \* the lists of requests that clients send
  Named,      \* the requests that tell the name of their file
  Post,       \* the page that the requests of a list may all come from
  None

Kinds == {"plain", "password", "virtual"}

VARIABLES
  kind,      \* of the library
  job,       \* what each download does
  medias,    \* the rows: what they were made of and what the update recorded
  raced      \* the requests that two downloads had between their check and their update

vars == <<kind, job, medias, raced>>

Idle == [pc |-> "idle", list |-> <<>>, at |-> 1, grouped |-> FALSE, post |-> FALSE,
         ignore |-> FALSE, pages |-> <<>>, hash |-> None]

At(t, pc)   == job[t].pc = pc
Goes(t, pc) == job' = [job EXCEPT ![t].pc = pc]
Request(t)  == job[t].list[job[t].at]
Last(t)     == job[t].at = Len(job[t].list)
Next_(t)    == job' = [job EXCEPT ![t].pc = IF Last(t) THEN "answered" ELSE "start",
                                  ![t].at = IF Last(t) THEN @ ELSE @ + 1]

NoOrigin == [id |-> None, file |-> None]

\* Where a media comes from: a page or its own address, and the name of its file.
\* A group without a page comes from nowhere.
Origin(t) ==
  IF job[t].grouped
  THEN IF job[t].post THEN [id |-> Post, file |-> Post] ELSE NoOrigin
  ELSE [id |-> IF job[t].post THEN Post ELSE Request(t),
        file |-> IF Request(t) \in Named THEN Request(t) ELSE None]

\* Mutant: a request without a name is like no other.
get_media_by_name(origin) ==
  {m \in medias : m.origin.id = origin.id /\ origin.file # None /\ m.origin.file = origin.file}

\* Without a name, any file of the page is the same.
get_media_by_origin(origin) ==
  {m \in medias : /\ m.origin.id = origin.id
                  /\ origin.file = None \/ m.origin.file = origin.file}

\* An encrypted file has no hash in common with another.
get_media_by_hash(hash) == {m \in medias : kind = "plain" /\ m.hash = hash}

Init ==
  /\ kind \in Kinds
  /\ job = [t \in Tasks |-> Idle]
  /\ medias = {}
  /\ raced = {}

\* What a download is about between its check and its update.
InFlight(t) ==
  IF ~job[t].pc \in {"idle", "start", "answered", "failed"}
  THEN IF job[t].grouped THEN {job[t].list[i] : i \in DOMAIN job[t].list} ELSE {Request(t)}
  ELSE {}

Fails(t) == Goes(t, "failed")

-----------------------------------------------------------------------------
\* A virtual library is filled without a check; one that clients encrypt is not
\* filled by the server.
download_library_url(t) ==
  /\ At(t, "idle")
  /\ \E list \in Lists, grouped, post, ignore \in BOOLEAN :
       /\ job' = [job EXCEPT ![t] = [Idle EXCEPT !.list = list, !.pc = "start", !.post = post,
                                                 !.grouped = grouped /\ kind # "virtual",
                                                 !.ignore = ignore]]
  /\ UNCHANGED <<kind, medias, raced>>

check_origin_duplicate(t) ==
  /\ At(t, "start") /\ kind # "virtual"
  /\ IF ~job[t].ignore /\ Origin(t) # NoOrigin /\ get_media_by_origin(Origin(t)) # {}
     THEN Fails(t) /\ UNCHANGED raced
     ELSE /\ Goes(t, "read")
          /\ LET mine == IF job[t].grouped THEN {job[t].list[i] : i \in DOMAIN job[t].list}
                         ELSE {Request(t)}
             IN  raced' = raced \cup (mine \cap UNION {InFlight(u) : u \in Tasks \ {t}})
  /\ UNCHANGED <<kind, medias>>

\* A request that cannot be read stops the others.
into_reader(t) ==
  /\ At(t, "read") /\ ~job[t].grouped
  /\ \/ Goes(t, "write")
     \/ Fails(t)
  /\ UNCHANGED <<kind, medias, raced>>

\* The file is written, with the encryption of the library; without its hash the
\* download goes on.
Write(t) ==
  /\ At(t, "write")
  /\ \/ \E hash \in {None, Request(t)} :
          job' = [job EXCEPT ![t].pc = "hash", ![t].hash = hash]
     \/ Fails(t)
  /\ UNCHANGED <<kind, medias, raced>>

\* The pages of a group: one that cannot be read is left out, one that breaks off
\* stops the download.
ReadPages(t) ==
  /\ At(t, "read") /\ job[t].grouped
  /\ \/ \E read \in BOOLEAN :
          job' = [job EXCEPT ![t].pc = IF Last(t) THEN "close" ELSE "read",
                             ![t].at = IF Last(t) THEN @ ELSE @ + 1,
                             ![t].pages = IF read THEN Append(@, Request(t)) ELSE @]
     \/ Fails(t)
  /\ UNCHANGED <<kind, medias, raced>>

Close(t) ==
  /\ At(t, "close")
  /\ \/ job' = [job EXCEPT ![t].pc = "hash", ![t].hash = job[t].pages]
     \/ Fails(t)
  /\ UNCHANGED <<kind, medias, raced>>

\* The file of a duplicate is removed.
check_hash_duplicate(t) ==
  /\ At(t, "hash")
  /\ IF job[t].hash # None /\ get_media_by_hash(job[t].hash) # {}
     THEN Fails(t) ELSE Goes(t, "add")
  /\ UNCHANGED <<kind, medias, raced>>

exec_request(t) ==
  /\ At(t, "start") /\ kind = "virtual"
  /\ Goes(t, "add") \/ Fails(t)
  /\ UNCHANGED <<kind, medias, raced>>

add_media(t) ==
  /\ At(t, "add")
  /\ medias' = medias \cup
       {[task |-> t, at |-> job[t].at, request |-> Request(t), grouped |-> job[t].grouped,
         pages |-> job[t].pages, ignored |-> job[t].ignore, origin |-> NoOrigin, hash |-> None]}
  /\ Goes(t, "update")
  /\ UNCHANGED <<kind, raced>>

Mine(t, m) == m.task = t /\ m.at = job[t].at

\* The origin and the hash of the row come with an update of its own.
update_media(t) ==
  /\ At(t, "update")
  /\ \/ /\ medias' = {IF Mine(t, m)
                      THEN [m EXCEPT !.hash = job[t].hash,
                                     !.origin = IF kind = "virtual" THEN @ ELSE Origin(t)]
                      ELSE m : m \in medias}
        /\ Goes(t, "thumb")
     \/ Fails(t) /\ UNCHANGED medias
  /\ UNCHANGED <<kind, raced>>

\* The thumb, from its address or made of the file, may fail; the row may be gone.
Finish(t) ==
  /\ At(t, "thumb")
  /\ (IF job[t].grouped THEN Goes(t, "answered") ELSE Next_(t)) \/ Fails(t)
  /\ UNCHANGED <<kind, medias, raced>>

\* The client hangs up, and its download stops where it waits.
HangUp(t) ==
  /\ ~job[t].pc \in {"idle", "answered", "failed"}
  /\ Fails(t)
  /\ UNCHANGED <<kind, medias, raced>>

Next ==
  \E t \in Tasks :
    \/ download_library_url(t) \/ check_origin_duplicate(t) \/ into_reader(t) \/ Write(t)
    \/ ReadPages(t) \/ Close(t) \/ check_hash_duplicate(t) \/ exec_request(t)
    \/ add_media(t) \/ update_media(t) \/ Finish(t) \/ HangUp(t)

Spec == Init /\ [][Next]_vars

-----------------------------------------------------------------------------
\* What a download stored is the beginning of its list, in order and once each,
\* and the whole of it when it is answered: so a client that sends the rest again
\* after a failure loses nothing.  A group is one media, of the pages that could
\* be read.
StoredInOrder ==
  \A t \in Tasks :
    LET mine == {m \in medias : m.task = t}
    IN  /\ ~job[t].grouped =>
             /\ {m.at : m \in mine} = 1..Cardinality(mine)
             /\ \A m \in mine : m.request = job[t].list[m.at]
             /\ At(t, "answered") => Cardinality(mine) = Len(job[t].list)
        /\ job[t].grouped /\ At(t, "answered") => Cardinality(mine) = 1

\* The library has a request once, unless two downloads of it overlapped, the
\* second one was told to ignore the first or came by another address and had no
\* hash to compare, or a row never got its update.
HeldOnce ==
  \A m, n \in medias :
    /\ kind # "virtual" /\ m # n /\ m.request = n.request
    /\ ~m.grouped /\ ~n.grouped /\ m.request \notin raced
    /\ m.origin # NoOrigin /\ n.origin # NoOrigin
    => /\ m.origin # n.origin \/ m.ignored \/ n.ignored
       /\ kind = "password" \/ m.hash = None \/ n.hash = None

\* A list is stored as it was sent: all of it, and nothing the library had.
ListsStored == StoredInOrder /\ HeldOnce

=============================================================================
