--------------------------------- MODULE Works ---------------------------------
(***************************************************************************)
(* Movies, series and books: adding, importing, enriching, refreshing,     *)
(* updating and removing them (src/src/model/{movies,series,books}.rs, the *)
(* stores of the same names and the triggers of 051 - CASCADE DELETE.sql). *)
(*                                                                         *)
(* Every request reads rows in one call of the database and writes in a    *)
(* later one; what it asks of Trakt and of the plugins lies between.  A    *)
(* work is known outside by two identifiers: `main`, which it comes with,  *)
(* and `extra`, which the enrichment of a new work looks up.               *)
(***************************************************************************)
EXTENDS Naturals, FiniteSets

CONSTANTS
  MaxWorks,    \* works ever made: a work is the number of its creation
  Mains, Extras,
  Medias,
  Callers,
  MaxCalls,    \* bound on the requests
  None,
  Deleted      \* of a media whose row is gone

Ids   == 1..MaxWorks
Types == {"movie", "serie", "book"}

VARIABLES
  works,     \* the rows: [kind, main, extra, serie, chapter], None without one
  used,      \* works made so far
  media,     \* the work a media's row names
  recorded,  \* the works and medias in the table `deleted`
  call,      \* what each request is doing
  task,      \* the task spawned for each new work
  calls,     \* requests so far
  twice,     \* kinds and identifiers two adds were past the check for at once, or
             \* that an update set
  raced,     \* works a removal, or an update, got in the middle of a request on
  late,      \* medias put in a work that was gone
  dropped    \* removals whose request was dropped before it recorded them

vars == <<works, used, media, recorded, call, task, calls, twice, raced, late, dropped>>

Idle  == [pc |-> "idle", kind |-> None, id |-> None, main |-> None, seen |-> None,
          serie |-> None, with |-> None, admin |-> FALSE]
Spent == [pc |-> "none", seen |-> None, admin |-> FALSE]
Live  == {w \in Ids : works[w] # None}
Of(kind)       == {w \in Live : works[w].kind = kind}
At(c, pc)      == call[c].pc = pc
Becomes(c, to) == call' = [call EXCEPT ![c] = to]
Goes(c, pc)    == call' = [call EXCEPT ![c].pc = pc]
Starts(c)      == At(c, "idle") /\ calls < MaxCalls /\ calls' = calls + 1

TypeOK ==
  /\ \A w \in Live : /\ DOMAIN works[w] = {"kind", "main", "extra", "serie", "chapter"}
                     /\ works[w].kind \in Types /\ works[w].main \in Mains
                     /\ works[w].extra \in Extras \cup {None}
                     /\ works[w].serie \in Ids \cup {None} /\ works[w].chapter \in BOOLEAN
  /\ used \in 0..MaxWorks /\ Live \subseteq 1..used
  /\ media \in [Medias -> Ids \cup {None, Deleted}]
  /\ \A c \in Callers : DOMAIN call[c] = DOMAIN Idle
  /\ \A w \in Ids : task[w].pc \in {"none", "refresh", "refreshed", "queued", "read"}
  /\ recorded \subseteq Ids \cup Medias /\ raced \subseteq Ids /\ late \subseteq Medias
  /\ calls \in 0..MaxCalls

Init ==
  /\ works = [w \in Ids |-> None]
  /\ used = 0 /\ calls = 0
  /\ media = [m \in Medias |-> None]
  /\ recorded = {} /\ twice = {} /\ raced = {} /\ late = {} /\ dropped = {}
  /\ call = [c \in Callers |-> Idle]
  /\ task = [w \in Ids |-> Spent]

\* Requests and tasks that have read work w and have not yet written.
InHand(w) == {c \in Callers : call[c].id = w \/ call[c].serie = w} # {} \/ task[w].seen # None
Edited(w) == IF InHand(w) THEN raced \cup {w} ELSE raced

-----------------------------------------------------------------------------
(* The rows of the three tables.                                           *)

MovieByExternalId(main) == {w \in Of("movie") : works[w].main = main}
SerieByExternalId(main) == {w \in Of("serie") : works[w].main = main}
BookByExternalId(main)  == {w \in Of("book") : works[w].main = main}

\* The second search for a book: one of the serie that has the identifier, if
\* volume and chapter agree.
BookOfSerie(main) == {w \in Of("book") : works[w].serie \in SerieByExternalId(main)}

\* By identifier; failing that any serie may answer to the name.
SerieByAnyId(main) ==
  IF SerieByExternalId(main) # {} THEN SerieByExternalId(main) ELSE Of("serie")

InsertRow(kind, main, serie) ==
  /\ used < MaxWorks
  /\ used' = used + 1
  /\ works' = [works EXCEPT ![used + 1] = [kind |-> kind, main |-> main, extra |-> None,
                                           serie |-> serie, chapter |-> serie # None]]

InsertMovieRow(main)       == InsertRow("movie", main, None)
InsertSerieRow(main)       == InsertRow("serie", main, None)
InsertBookRow(main, serie) == InsertRow("book", main, serie)

\* An UPDATE touches the row if it is there; the read after it finds out.
SetColumn(w, column, value) ==
  works' = IF w \in Live THEN [works EXCEPT ![w][column] = value] ELSE works

UpdateMovieRow(w, column, value) == SetColumn(w, column, value)
UpdateSerieRow(w, column, value) == SetColumn(w, column, value)
UpdateBookRow(w, column, value)  == SetColumn(w, column, value)

\* Triggers 2 and 3: the rows of the medias go with their movie or book.
DeleteOwner(w) ==
  /\ works' = [works EXCEPT ![w] = None]
  /\ media' = [m \in Medias |-> IF media[m] = w THEN Deleted ELSE media[m]]

\* Trigger 4: the books of a serie are detached from it.
DetachBooks(w) ==
  [v \in Ids |->
     IF v = w THEN None
     ELSE IF works[v] # None /\ works[v].serie = w
          THEN [works[v] EXCEPT !.serie = None, !.chapter = FALSE] ELSE works[v]]

DeleteSerie(w) ==
  /\ works' = DetachBooks(w)
  /\ media' = [m \in Medias |-> IF media[m] = w THEN None ELSE media[m]]

-----------------------------------------------------------------------------
(* Adding: nobody has the identifier, a row is inserted in a later call,   *)
(* and the answer spawns a task.                                           *)

Overlaps(c, kind, main) ==
  \E d \in Callers \ {c} :
    \/ call[d].kind = kind /\ call[d].main = main /\ At(d, "insert")
    \/ kind = "serie" /\ call[d].with = main /\ At(d, "insertserie")

\* The check of an add; `to` is the request if nobody has the identifier.
Checked(c, existing, to) ==
  /\ IF existing THEN Goes(c, "failed") /\ UNCHANGED twice
     ELSE /\ Becomes(c, to)
          /\ twice' = IF Overlaps(c, to.kind, to.main)
                      THEN twice \cup {<<to.kind, to.main>>} ELSE twice
  /\ UNCHANGED <<works, used, media, recorded, task, raced, late, dropped>>

Adding(kind, main, admin) ==
  [Idle EXCEPT !.pc = "insert", !.kind = kind, !.main = main, !.admin = admin]

\* An add asked for, or the one an import ends in.
AddMovie(c) ==
  \/ Starts(c) /\ \E main \in Mains : Checked(c, MovieByExternalId(main) # {},
                                              Adding("movie", main, FALSE))
  \/ /\ At(c, "fetched") /\ call[c].kind = "movie" /\ UNCHANGED calls
     /\ Checked(c, MovieByExternalId(call[c].main) # {}, [call[c] EXCEPT !.pc = "insert"])

AddSerie(c) ==
  \/ Starts(c) /\ \E main \in Mains, admin \in BOOLEAN :
                     Checked(c, SerieByExternalId(main) # {}, Adding("serie", main, admin))
  \/ /\ At(c, "fetched") /\ call[c].kind = "serie" /\ UNCHANGED calls
     /\ Checked(c, SerieByExternalId(call[c].main) # {}, [call[c] EXCEPT !.pc = "insert"])

\* import_movie and import_serie look, ask Trakt, and add.
Import(c, to, existing) ==
  /\ Becomes(c, IF existing THEN [to EXCEPT !.pc = "failed"] ELSE [to EXCEPT !.pc = "fetched"])
  /\ UNCHANGED <<works, used, media, recorded, task, twice, raced, late, dropped>>

ImportMovie(c) ==
  Starts(c) /\ \E main \in Mains :
    Import(c, Adding("movie", main, FALSE), MovieByExternalId(main) # {})

ImportSerie(c) ==
  Starts(c) /\ \E main \in Mains, admin \in BOOLEAN :
    Import(c, Adding("serie", main, admin), SerieByExternalId(main) # {})

InsertMovie(c) ==
  /\ At(c, "insert") /\ call[c].kind = "movie"
  /\ InsertMovieRow(call[c].main)
  /\ Becomes(c, [call[c] EXCEPT !.pc = "added", !.id = used + 1])
  /\ UNCHANGED <<media, recorded, task, calls, twice, raced, late, dropped>>

InsertSerie(c) ==
  /\ At(c, "insert") /\ call[c].kind = "serie"
  /\ InsertSerieRow(call[c].main)
  /\ Becomes(c, [call[c] EXCEPT !.pc = "added", !.id = used + 1])
  /\ UNCHANGED <<media, recorded, task, calls, twice, raced, late, dropped>>

\* A book comes with a serie or without; the serie is found, left out, or
\* added first (upsert_serie).  Its own check comes after.
AddBook(c) ==
  /\ Starts(c)
  /\ \E main \in Mains, with \in Mains \cup {None} :
       Becomes(c, [Adding("book", main, FALSE) EXCEPT
                     !.with = with, !.pc = IF with = None THEN "checkbook" ELSE "resolve"])
  /\ UNCHANGED <<works, used, media, recorded, task, twice, raced, late, dropped>>

ResolveSerie(c) ==
  /\ At(c, "resolve")
  /\ \/ \E s \in SerieByAnyId(call[c].with) :
          Becomes(c, [call[c] EXCEPT !.pc = "checkbook", !.serie = s])
     \/ /\ SerieByExternalId(call[c].with) = {}
        /\ Goes(c, "checkbook") \/ Goes(c, "upsert")
  /\ UNCHANGED <<works, used, media, recorded, task, calls, twice, raced, late, dropped>>

\* add_serie, its check and its insertion.
UpsertSerie(c) ==
  LET main == call[c].with
  IN  /\ \/ At(c, "upsert") /\ UNCHANGED <<works, used, task>>
           /\ IF SerieByExternalId(main) # {} THEN Goes(c, "failed") /\ UNCHANGED twice
              ELSE /\ Goes(c, "insertserie")
                   /\ twice' = IF Overlaps(c, "serie", main)
                               THEN twice \cup {<<"serie", main>>} ELSE twice
         \/ /\ At(c, "insertserie") /\ InsertSerieRow(main) /\ UNCHANGED twice
            /\ task' = [task EXCEPT ![used + 1] = [Spent EXCEPT !.pc = "refresh"]]
            /\ Becomes(c, [call[c] EXCEPT !.pc = "checkbook", !.serie = used + 1])
      /\ UNCHANGED <<media, recorded, calls, raced, late, dropped>>

\* Mutant: the movies' columns are searched.
CheckMovies(c) ==
  /\ At(c, "checkbook")
  /\ Checked(c, MovieByExternalId(call[c].main) # {}, [call[c] EXCEPT !.pc = "insert"])
  /\ UNCHANGED calls

CheckBook(c) ==
  /\ At(c, "checkbook")
  /\ \/ Checked(c, BookByExternalId(call[c].main) # {}, [call[c] EXCEPT !.pc = "insert"])
     \/ BookOfSerie(call[c].main) # {} /\ Checked(c, TRUE, call[c])
  /\ UNCHANGED calls

\* The serie is not looked at again: removed meanwhile, the row still names it.
InsertBook(c) ==
  /\ At(c, "insert") /\ call[c].kind = "book"
  /\ InsertBookRow(call[c].main, call[c].serie)
  /\ raced' = IF call[c].serie \in Live \cup {None} THEN raced ELSE raced \cup {used + 1}
  /\ Becomes(c, [call[c] EXCEPT !.pc = "added", !.id = used + 1])
  /\ UNCHANGED <<media, recorded, task, calls, twice, late, dropped>>

\* The row is read back and its task spawned; one of a book's tags or people
\* may fail before that, and a removal may have come first.
Added(c) ==
  LET w == call[c].id
  IN  /\ At(c, "added")
      /\ \/ /\ w \in Live
            /\ task' = [task EXCEPT ![w] = [Spent EXCEPT !.admin = call[c].admin,
                                !.pc = IF call[c].kind = "serie" THEN "refresh" ELSE "queued"]]
            /\ Goes(c, "done")
         \/ /\ w \notin Live \/ call[c].kind = "book"
            /\ Goes(c, "failed") /\ UNCHANGED task
      /\ UNCHANGED <<works, used, media, recorded, calls, twice, raced, late, dropped>>

-----------------------------------------------------------------------------
(* The tasks of the new works.                                             *)

\* A serie is refreshed first, with the role of who added it: setting a value
\* takes an administrator, and a task that fails here ends.
RefreshNewSerie(w) ==
  /\ task[w].pc \in {"refresh", "refreshed"}
  /\ \/ /\ task[w].pc = "refresh" /\ w \in Live
        /\ task' = [task EXCEPT ![w].pc = "refreshed", ![w].seen = works[w]]
        /\ UNCHANGED <<works, raced>>
     \/ /\ task[w].pc = "refreshed" /\ task[w].admin /\ w \in Live
        /\ \E extra \in Extras : \/ UpdateSerieRow(w, "extra", extra)
                                 \/ UNCHANGED works
        /\ task' = [task EXCEPT ![w] = [Spent EXCEPT !.pc = "queued"]]
        /\ raced' = IF {c \in Callers : call[c].id = w} # {} THEN raced \cup {w} ELSE raced
     \/ task' = [task EXCEPT ![w] = Spent] /\ UNCHANGED <<works, raced>>
  /\ UNCHANGED <<used, media, recorded, call, calls, twice, late, dropped>>

\* Mutant: a movie is enriched as soon as it is added, whatever an editor set.
EnrichAtOnce(w) ==
  /\ task[w].pc = "queued" /\ w \in Of("movie")
  /\ \E extra \in Extras : UpdateMovieRow(w, "extra", extra)
  /\ task' = [task EXCEPT ![w] = Spent]
  /\ UNCHANGED <<used, media, recorded, call, calls, twice, raced, late, dropped>>

EnrichRead(w) ==
  /\ task[w].pc = "queued"
  /\ task' = [task EXCEPT ![w] = IF w \notin Live \/ works[w].extra # None THEN Spent
                                 ELSE [Spent EXCEPT !.pc = "read", !.seen = works[w]]]
  /\ UNCHANGED <<works, used, media, recorded, call, calls, twice, raced, late, dropped>>

\* What the lookup finds is written where the row, as it was read, had nothing.
Enrich(w, kind) ==
  /\ task[w].pc = "read" /\ task[w].seen.kind = kind
  /\ task' = [task EXCEPT ![w] = Spent]
  /\ UNCHANGED <<used, media, recorded, call, calls, twice, raced, late, dropped>>

EnrichMovieIds(w) ==
  Enrich(w, "movie") /\ (UNCHANGED works \/ \E e \in Extras : UpdateMovieRow(w, "extra", e))
EnrichSerieIds(w) ==
  Enrich(w, "serie") /\ (UNCHANGED works \/ \E e \in Extras : UpdateSerieRow(w, "extra", e))
EnrichBookIds(w)  ==
  Enrich(w, "book") /\ (UNCHANGED works \/ \E e \in Extras : UpdateBookRow(w, "extra", e))

-----------------------------------------------------------------------------
(* Updating and refreshing.                                                *)

\* An editor's values are not compared with the other works'.
UpdateMovie(c) ==
  /\ Starts(c)
  /\ \E w \in Of("movie") :
       /\ \/ \E e \in Extras : UpdateMovieRow(w, "extra", e) /\ UNCHANGED twice
          \/ \E main \in Mains : /\ UpdateMovieRow(w, "main", main)
                                 /\ twice' = twice \cup {<<"movie", main>>}
       /\ raced' = Edited(w)
  /\ UNCHANGED <<used, media, recorded, call, task, late, dropped>>

UpdateSerie(c) ==
  /\ Starts(c)
  /\ \E w \in Of("serie") :
       /\ \/ \E e \in Extras : UpdateSerieRow(w, "extra", e) /\ UNCHANGED twice
          \/ \E main \in Mains : /\ UpdateSerieRow(w, "main", main)
                                 /\ twice' = twice \cup {<<"serie", main>>}
       /\ raced' = Edited(w)
  /\ UNCHANGED <<used, media, recorded, call, task, late, dropped>>

\* update_book reads the book: a chapter needs a serie.  A serie named by the
\* update is not looked up.
UpdateBook(c) ==
  /\ Starts(c)
  /\ \E w \in Of("book") :
       \/ Becomes(c, [Idle EXCEPT !.pc = IF works[w].serie = None THEN "failed" ELSE "chapter",
                                  !.id = w, !.serie = works[w].serie])
       \/ \E s \in Of("serie") : Becomes(c, [Idle EXCEPT !.pc = "serie", !.id = w, !.serie = s])
  /\ UNCHANGED <<works, used, media, recorded, task, twice, raced, late, dropped>>

UpdateBookWrite(c) ==
  LET w == call[c].id
  IN  /\ \/ At(c, "chapter") /\ UpdateBookRow(w, "chapter", TRUE) /\ UNCHANGED raced
         \/ /\ At(c, "serie") /\ UpdateBookRow(w, "serie", call[c].serie)
            /\ raced' = IF call[c].serie \in Live THEN raced ELSE raced \cup {w}
      /\ Goes(c, IF w \in Live THEN "done" ELSE "failed")
      /\ UNCHANGED <<used, media, recorded, task, calls, twice, late, dropped>>

\* refresh_movie and refresh_serie read the row and ask Trakt; each value that
\* differs from what was read is written, by an administrator.
StartRefresh(c) ==
  /\ Starts(c)
  /\ \E w \in Of("movie") \cup Of("serie"), admin \in BOOLEAN :
       Becomes(c, [Idle EXCEPT !.pc = "refresh", !.kind = works[w].kind, !.id = w,
                               !.seen = works[w], !.admin = admin])
  /\ UNCHANGED <<works, used, media, recorded, task, twice, raced, late, dropped>>

Refreshed(c, kind) ==
  /\ At(c, "refresh") /\ call[c].kind = kind
  /\ UNCHANGED <<used, media, recorded, task, calls, twice, late, dropped>>

RefreshMovie(c) ==
  LET w == call[c].id
  IN  /\ Refreshed(c, "movie")
      /\ \/ Goes(c, "failed") /\ UNCHANGED <<works, raced>>
         \/ \E e \in Extras : /\ call[c].admin
                              /\ e # call[c].seen.extra => UpdateMovieRow(w, "extra", e)
                              /\ e = call[c].seen.extra => UNCHANGED works
                              /\ Goes(c, "done")
                              /\ raced' = IF task[w].seen # None THEN raced \cup {w} ELSE raced

RefreshSerie(c) ==
  LET w == call[c].id
  IN  /\ Refreshed(c, "serie")
      /\ \/ Goes(c, "failed") /\ UNCHANGED <<works, raced>>
         \/ \E e \in Extras : /\ call[c].admin
                              /\ e # call[c].seen.extra => UpdateSerieRow(w, "extra", e)
                              /\ e = call[c].seen.extra => UNCHANGED works
                              /\ Goes(c, "done")
                              /\ raced' = IF task[w].seen # None THEN raced \cup {w} ELSE raced

\* A media's row names a work: it is not looked up.
AttachMedia(m) ==
  /\ media[m] # Deleted /\ calls < MaxCalls /\ calls' = calls + 1
  /\ \E w \in 1..used : /\ media' = [media EXCEPT ![m] = w]
                        /\ late' = IF w \in Live THEN late \ {m} ELSE late \cup {m}
  /\ UNCHANGED <<works, used, recorded, call, task, twice, raced, dropped>>

-----------------------------------------------------------------------------
(* Removing.                                                               *)

StartRemove(c) ==
  /\ Starts(c)
  /\ \E w \in Live, medias \in BOOLEAN :
       Becomes(c, [Idle EXCEPT !.id = w, !.kind = works[w].kind,
                     !.pc = IF medias /\ works[w].kind = "serie" THEN "medias" ELSE "remove"])
  /\ UNCHANGED <<works, used, media, recorded, task, twice, raced, late, dropped>>

\* remove_serie with delete_medias: remove_media of each, row and record.
RemoveSerieMedia(c) ==
  /\ At(c, "medias")
  /\ LET left == {m \in Medias : media[m] = call[c].id}
     IN  \/ left = {} /\ Goes(c, "remove") /\ UNCHANGED <<media, recorded>>
         \/ \E m \in left : /\ media' = [media EXCEPT ![m] = Deleted]
                            /\ recorded' = recorded \cup {m}
                            /\ UNCHANGED call
  /\ UNCHANGED <<works, used, task, calls, twice, raced, late, dropped>>

RemoveOwner(c) ==
  /\ At(c, "remove") /\ Goes(c, "record")
  /\ DeleteOwner(call[c].id)
  /\ raced' = raced \cup {call[c].id}
  /\ UNCHANGED <<used, recorded, task, calls, twice, late, dropped>>

RemoveMovie(c) == call[c].kind = "movie" /\ RemoveOwner(c)
RemoveBook(c)  == call[c].kind = "book" /\ RemoveOwner(c)

\* The store records a serie in the same call, and fails if it is recorded.
RemoveSerie(c) ==
  LET w == call[c].id
  IN  /\ At(c, "remove") /\ call[c].kind = "serie"
      /\ DeleteSerie(w)
      /\ recorded' = recorded \cup {w}
      /\ Goes(c, IF w \in recorded THEN "failed" ELSE "record")
      /\ raced' = raced \cup {w} \cup {v \in Live : works[v].serie = w /\ InHand(v)}
      /\ UNCHANGED <<used, task, calls, twice, late, dropped>>

\* Mutant: nothing is recorded.
RecordNothing(c) ==
  /\ At(c, "record") /\ Goes(c, "done")
  /\ UNCHANGED <<works, used, media, recorded, task, calls, twice, raced, late, dropped>>

\* add_deleted, for those who follow the library by date.
Record(c) ==
  /\ At(c, "record") /\ Goes(c, "done")
  /\ recorded' = recorded \cup {call[c].id}
  /\ UNCHANGED <<works, used, media, task, calls, twice, raced, late, dropped>>

\* The client has its answer, or hung up before.
Return(c) ==
  /\ ~At(c, "idle")
  /\ Becomes(c, Idle)
  /\ dropped' = IF At(c, "record") THEN dropped \cup {call[c].id} ELSE dropped
  /\ UNCHANGED <<works, used, media, recorded, task, calls, twice, raced, late>>

Next ==
  \/ \E c \in Callers :
       \/ AddMovie(c) \/ InsertMovie(c) \/ ImportMovie(c)
       \/ AddSerie(c) \/ InsertSerie(c) \/ ImportSerie(c)
       \/ AddBook(c) \/ ResolveSerie(c) \/ UpsertSerie(c) \/ CheckBook(c) \/ InsertBook(c) \/ Added(c)
       \/ UpdateMovie(c) \/ UpdateSerie(c) \/ UpdateBook(c) \/ UpdateBookWrite(c)
       \/ StartRefresh(c) \/ RefreshMovie(c) \/ RefreshSerie(c)
       \/ StartRemove(c) \/ RemoveSerieMedia(c)
       \/ RemoveMovie(c) \/ RemoveBook(c) \/ RemoveSerie(c) \/ Record(c) \/ Return(c)
  \/ \E w \in Ids : \/ RefreshNewSerie(w) \/ EnrichRead(w)
                    \/ EnrichMovieIds(w) \/ EnrichSerieIds(w) \/ EnrichBookIds(w)
  \/ \E m \in Medias : AttachMedia(m)

Spec == Init /\ [][Next]_vars

-----------------------------------------------------------------------------
\* Two works of one kind share an identifier only if their adds overlapped,
\* or an editor said so.
UniqueIdentifiers ==
  \A v, w \in Live :
    v # w /\ works[v].kind = works[w].kind /\ works[v].main = works[w].main
      => <<works[v].kind, works[v].main>> \in twice

\* A task spawned for a new work replaces no identifier it did not see was
\* missing: one that an editor set before the task read the row.
EnrichKeepsEdits ==
  [][\A w \in Live \ raced :
       /\ works[w].extra # None /\ task[w].pc \in {"queued", "read"} /\ task'[w] # task[w]
       => works'[w] = works[w]]_vars

\* Every work removed can be found by those who follow deletions, unless the
\* request was dropped between the two calls, and no media names one but those
\* that were given one that was gone.
RemovalsRecorded ==
  /\ \A w \in 1..used \ (Live \cup dropped \cup recorded) :
       \E c \in Callers : At(c, "record") /\ call[c].id = w
  /\ \A m \in Medias \ late : media[m] \in Live \cup {None, Deleted}

=============================================================================
