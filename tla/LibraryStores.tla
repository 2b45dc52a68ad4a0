---------------------------- MODULE LibraryStores ----------------------------
(* The databases of the server and of its libraries: how they are opened and    *)
(* migrated when the server starts, and when a library is added or imported     *)
(* (src/src/model/store.rs, store/sql/mod.rs and store/sql/library/mod.rs).     *)
(*                                                                              *)
(* A migration is a list of scripts, each of which is run statement by          *)
(* statement and followed by the version it brings.  Nothing makes the two one, *)
(* and most statements cannot be run twice.                                     *)
EXTENDS Naturals

CONSTANTS
  Server,      \* the server's own database
  Libraries,
  Scripts,     \* versions; the ones after 30 stand for all the later ones
  Rerunnable,  \* scripts that can be run again (IF NOT EXISTS, DELETE)
  Garbage,     \* a file that is not a database
  None

Databases  == {Server} \cup Libraries
Statements == 1..2      \* of a script: the first one, and the others

VARIABLES
  server,      \* "down", "migrating" its own database, "loading" the libraries', "up"
  libraries,   \* the table Libraries
  file,        \* of each database: [version, ran, paths], paths: those of its tags are right
  job,         \* the opening of each
  left,        \* libraries that the start has still to open
  stores,      \* libraries_stores
  came,        \* the version each library came with: 0 for a new one, None before it is there
  refused,     \* the database over which the last start failed
  cut,         \* those stopped between two statements of a script that cannot be run again
  unfilled     \* those that left version 30 and were stopped before their paths were filled

vars == <<server, libraries, file, job, left, stores, came, refused, cut, unfilled>>
history == <<came, refused, cut, unfilled>>

Rest  == [pc |-> "rest", initial |-> 0, version |-> 0, step |-> 1, alone |-> FALSE]
Fresh == [version |-> 0, ran |-> {}, paths |-> TRUE]
Until(v) == [version |-> v, ran |-> {w \in Scripts : w <= v} \X Statements, paths |-> v > 30]
Latest   == CHOOSE v \in Scripts : \A w \in Scripts : w <= v

\* What earlier releases left.
Init ==
  /\ server = "down"
  /\ libraries \in SUBSET Libraries
  /\ \E v \in Scripts, w \in {0, Latest} :
       /\ w = 0 => libraries = {}
       /\ file = [d \in Databases |->
                   IF d = Server THEN IF w = 0 THEN None ELSE Until(w)
                   ELSE IF d \in libraries THEN Until(v) ELSE None]
       /\ came = [l \in Libraries |-> IF l \in libraries THEN v ELSE None]
  /\ job = [d \in Databases |-> Rest]
  /\ left = {} /\ stores = {}
  /\ refused = None /\ cut = {} /\ unfilled = {}

At(d, pc)     == job[d].pc = pc
Becomes(d, r) == job' = [job EXCEPT ![d] = r]
AllRest       == \A d \in Databases : At(d, "rest")
Opening       == [Rest EXCEPT !.pc = "open"]

Behind(d)     == \E v \in Scripts : v > job[d].version
NextScript(d) == CHOOSE v \in Scripts : /\ v > job[d].version
                                        /\ \A w \in Scripts : w > job[d].version => v <= w

\* What a stop does to the migrations it meets.
Torn(D)  == cut' = cut \cup {d \in D : /\ At(d, "run") /\ job[d].step > 1
                                       /\ NextScript(d) \notin Rerunnable}
Short(D) == unfilled' = unfilled \cup {d \in D \ {Server} :
                                         /\ job[d].pc \in {"run", "fill"} /\ job[d].initial = 30
                                         /\ job[d].version # 30}

Down == server' = "down" /\ job' = [d \in Databases |-> Rest] /\ left' = {} /\ stores' = {}

-----------------------------------------------------------------------------
(* The migration of a database.                                                *)

\* An error ends the start, for all the libraries, or the request.
Refuse(d) ==
  /\ IF server = "up" THEN Becomes(d, Rest) /\ UNCHANGED <<server, left, stores, refused>>
     ELSE Down /\ refused' = d
  /\ UNCHANGED <<libraries, came, cut, unfilled>>

\* A file that is not there is made.
Open(d) ==
  /\ At(d, "open")
  /\ IF file[d] = Garbage THEN Refuse(d) /\ UNCHANGED file
     ELSE LET f == IF file[d] = None THEN Fresh ELSE file[d]
          IN  /\ file' = [file EXCEPT ![d] = f]
              /\ Becomes(d, [job[d] EXCEPT !.pc = "run", !.initial = f.version, !.version = f.version])
              /\ UNCHANGED <<server, libraries, left, stores, history>>

RunStatement(d) ==
  /\ At(d, "run") /\ Behind(d) /\ job[d].step \in Statements
  /\ LET v == NextScript(d) s == job[d].step
     IN  IF v \notin Rerunnable /\ <<v, s>> \in file[d].ran
         THEN Refuse(d) /\ UNCHANGED file
         ELSE /\ file' = [file EXCEPT ![d].ran = @ \cup {<<v, s>>}]
              /\ Becomes(d, [job[d] EXCEPT !.step = s + 1])
              /\ UNCHANGED <<server, libraries, left, stores, history>>

\* Mutant: only the version in hand goes on.
NextVersion(d) ==
  /\ At(d, "run") /\ Behind(d) /\ job[d].step \notin Statements
  /\ Becomes(d, [job[d] EXCEPT !.version = NextScript(d), !.step = 1])
  /\ UNCHANGED <<server, libraries, file, left, stores, history>>

SetVersion(d) ==
  /\ At(d, "run") /\ Behind(d) /\ job[d].step \notin Statements
  /\ file' = [file EXCEPT ![d].version = NextScript(d)]
  /\ Becomes(d, [job[d] EXCEPT !.version = NextScript(d), !.step = 1])
  /\ UNCHANGED <<server, libraries, left, stores, history>>

\* The database is open: the libraries follow the server's, and each has its store.
Opened(d) ==
  /\ Becomes(d, Rest)
  /\ IF d = Server THEN server' = "loading" /\ left' = libraries /\ UNCHANGED stores
     ELSE stores' = stores \cup {d} /\ UNCHANGED <<server, left>>
  /\ UNCHANGED <<libraries, came, refused, cut>>

\* Mutant: the version that was reached is looked at.
ReachedThirty(d) == job[d].version = 30

\* The paths of the tags are for the databases that come from version 30, and for
\* those alone: of what earlier versions left, none is filled.
FromThirty(d) == job[d].initial = 30

\* A request that was given up leaves the scripts to end by themselves.
EndScripts(d) ==
  /\ At(d, "run") /\ ~Behind(d)
  /\ IF job[d].alone
     THEN /\ Becomes(d, Rest) /\ Short({d})
          /\ UNCHANGED <<server, libraries, left, stores, came, refused, cut>>
     ELSE IF d # Server /\ FromThirty(d)
     THEN /\ Becomes(d, [job[d] EXCEPT !.pc = "fill"])
          /\ UNCHANGED <<server, libraries, left, stores, history>>
     ELSE Opened(d) /\ UNCHANGED unfilled
  /\ UNCHANGED file

FillPaths(d) ==
  /\ At(d, "fill") /\ Opened(d)
  /\ file' = [file EXCEPT ![d].paths = TRUE]
  /\ UNCHANGED unfilled

\* The disk is full, or the database locked.
MigrationFails(d) ==
  /\ job[d].pc \in {"open", "run", "fill"}
  /\ Torn({d}) /\ Short({d})
  /\ IF server = "up" THEN Becomes(d, Rest) /\ UNCHANGED <<server, left, stores>> ELSE Down
  /\ UNCHANGED <<libraries, file, came, refused>>

-----------------------------------------------------------------------------
(* The start of the server.                                                    *)

Boot ==
  /\ server = "down"
  /\ server' = "migrating" /\ Becomes(Server, Opening)
  /\ refused' = None
  /\ UNCHANGED <<libraries, file, left, stores, came, cut, unfilled>>

\* One library after the other; then the server is up.
LoadNext ==
  /\ server = "loading" /\ AllRest
  /\ IF left = {} THEN server' = "up" /\ UNCHANGED <<job, left>>
     ELSE \E l \in left : left' = left \ {l} /\ Becomes(l, Opening) /\ UNCHANGED server
  /\ UNCHANGED <<libraries, file, stores, history>>

Crash ==
  /\ server # "down" /\ Down
  /\ Torn(Databases) /\ Short(Databases)
  /\ UNCHANGED <<libraries, file, came, refused>>

-----------------------------------------------------------------------------
(* The addition of a library, whose row comes first.                           *)

AddRow(l) ==
  /\ server = "up" /\ came[l] = None
  /\ came' = [came EXCEPT ![l] = 0] /\ libraries' = libraries \cup {l}
  /\ \E then \in {"create", "open"} : Becomes(l, [Rest EXCEPT !.pc = then])
  /\ UNCHANGED <<server, file, left, stores, refused, cut, unfilled>>

\* The import of a database: the file is made, then written.
CreateFile(l) ==
  /\ At(l, "create") /\ Becomes(l, [job[l] EXCEPT !.pc = "write"])
  /\ file' = [file EXCEPT ![l] = Fresh]
  /\ UNCHANGED <<server, libraries, left, stores, history>>

\* A part of one is not one.
WriteFile(l) ==
  /\ At(l, "write")
  /\ \/ file[l] # Garbage /\ UNCHANGED <<job, came>> /\ file' = [file EXCEPT ![l] = Garbage]
     \/ /\ Becomes(l, [job[l] EXCEPT !.pc = "open"])
        /\ \/ \E v \in {30, Latest} : /\ file' = [file EXCEPT ![l] = Until(v)]
                                     /\ came' = [came EXCEPT ![l] = v]
           \/ file' = [file EXCEPT ![l] = Garbage] /\ UNCHANGED came
  /\ UNCHANGED <<server, libraries, left, stores, refused, cut, unfilled>>

\* The source cannot be made ready, or the client hangs up; the row stays.
GiveUp(l) ==
  /\ server = "up" /\ ~At(l, "rest") /\ ~job[l].alone
  /\ IF At(l, "run") THEN Becomes(l, [job[l] EXCEPT !.alone = TRUE]) /\ UNCHANGED unfilled
     ELSE Becomes(l, Rest) /\ Short({l})
  /\ UNCHANGED <<server, libraries, file, left, stores, came, refused, cut>>

Next ==
  \/ Boot \/ LoadNext \/ Crash
  \/ \E d \in Databases :
       Open(d) \/ RunStatement(d) \/ SetVersion(d) \/ EndScripts(d) \/ FillPaths(d) \/ MigrationFails(d)
  \/ \E l \in Libraries : AddRow(l) \/ CreateFile(l) \/ WriteFile(l) \/ GiveUp(l)

Spec == Init /\ [][Next]_vars

-----------------------------------------------------------------------------
\* A library is served with the whole of its schema, whatever stopped its migrations;
\* and with the paths of its tags, if it came from version 30 and none of its
\* migrations was stopped between that version and them.  What the server cannot start
\* over is a database that a stop left in the middle of a script, or the import of
\* something else.
ServedWhole ==
  /\ \A l \in stores :
       /\ file[l].ran = Scripts \X Statements /\ file[l].version = Latest
       /\ came[l] = 30 /\ l \notin unfilled => file[l].paths
  /\ refused = None \/ refused \in cut \/ file[refused] = Garbage

=============================================================================
