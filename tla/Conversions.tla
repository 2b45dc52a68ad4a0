------------------------------ MODULE Conversions ------------------------------
(* Medias made out of others (src/src/model/medias.rs): a conversion that a      *)
(* plugin runs and a task of the server polls and imports, a merge of videos     *)
(* that FFmpeg encodes one by one into files of the cache, and a part of an      *)
(* album.  Each is one task; what they share are the files of the cache, whose   *)
(* names have in them the id the client gave its request, and the library.       *)
EXTENDS Naturals, FiniteSets

CONSTANTS
  Jobs,          \* conversions by a plugin
  Merges,        \* each of two videos
  Splits,        \* all of the same pages of the same album
  RequestIds,    \* ids that clients give to their merges
  None

MaxAttempts == 3
Items       == 1..2

VARIABLES
  password,    \* whether the library has one
  job,         \* what each task does: of a job, how many imports it has tried
  plugin,      \* what the plugin has of each job
  late,        \* the imports of each job that failed with their row in the library
  segments,    \* the files .cache/merge_{id}_{i}
  final,       \* the files .cache/merge_{id}_final, each a sequence of segments
  shared,      \* the ids that two merges had at the same time
  medias       \* what was added to the library, and how its file is stored

vars == <<password, job, plugin, late, segments, final, shared, medias>>

Calls       == Jobs \cup Merges \cup Splits
NoFile      == [by |-> None, item |-> 0, whole |-> FALSE]
Idle        == [pc |-> "idle", id |-> None, item |-> 1, tries |-> 0, data |-> <<>>]
At(t, pc)   == job[t].pc = pc
Goes(t, pc) == job' = [job EXCEPT ![t].pc = pc]

\* Mutant: the name of a segment has no index.
segment_dest_one(id, i) == <<id, 1>>

segment_dest(id, i) == <<id, i>>

Init ==
  /\ password \in BOOLEAN
  /\ job = [t \in Calls |-> Idle]
  /\ plugin = [j \in Jobs |-> "none"]
  /\ late = [j \in Jobs |-> 0]
  /\ segments = [f \in RequestIds \X Items |-> NoFile]
  /\ final = [id \in RequestIds |-> <<>>]
  /\ shared = {}
  /\ medias = {}

-----------------------------------------------------------------------------
(* The import of a new file, shared by the jobs and the merges.               *)

\* The hash of an encrypted file is that of no other file.
Duplicate(data) == \E m \in medias : m.hashed /\ m.data = data /\ ~m.encrypted

Media(t, data, encrypted, hashed) ==
  [of |-> t, try |-> job[t].tries, data |-> data, encrypted |-> encrypted, hashed |-> hashed]

Adds(t, data, encrypted, hashed) ==
  /\ ~Duplicate(data) \/ encrypted
  /\ medias' = medias \cup {Media(t, data, encrypted, hashed)}

\* The row goes in, and the hash with the update after it; what comes next may
\* fail too.
add_library_file(t, data, result) ==
  CASE result = "failed" -> UNCHANGED medias
    [] result = "late"   -> \E hashed \in BOOLEAN : Adds(t, data, password, hashed)
    [] result = "added"  -> Adds(t, data, password, TRUE)

Results == {"failed", "late", "added"}

-----------------------------------------------------------------------------
(* A conversion by a plugin.                                                   *)

\* The media is looked up, and the plugin given an address to read it from.
convert_submit_media(j) ==
  /\ At(j, "idle")
  /\ \/ Goes(j, "polling") /\ plugin' = [plugin EXCEPT ![j] = "processing"]
     \/ Goes(j, "ended") /\ UNCHANGED plugin
  /\ UNCHANGED <<password, late, segments, final, shared, medias>>

\* The plugin's own doing.
Transcoded(j) ==
  /\ plugin[j] = "processing"
  /\ plugin' = [plugin EXCEPT ![j] = "completed"]
  /\ UNCHANGED <<password, job, late, segments, final, shared, medias>>

NotTranscoded(j) ==
  /\ plugin[j] = "processing"
  /\ plugin' = [plugin EXCEPT ![j] = "failed"]
  /\ UNCHANGED <<password, job, late, segments, final, shared, medias>>

\* One error of a poll ends the task, whatever the plugin does of the job.
Poll(j) ==
  /\ At(j, "polling")
  /\ \/ plugin[j] = "completed" /\ Goes(j, "linking")
     \/ plugin[j] = "processing" /\ UNCHANGED job
     \/ Goes(j, "ended")
  /\ UNCHANGED <<password, plugin, late, segments, final, shared, medias>>

Link(j) ==
  /\ At(j, "linking")
  /\ Goes(j, "reading") \/ Goes(j, "ended")
  /\ UNCHANGED <<password, plugin, late, segments, final, shared, medias>>

\* A reader that cannot be created is no attempt: it is asked for again, at once.
Read(j) ==
  /\ At(j, "reading")
  /\ \/ UNCHANGED job
     \/ job' = [job EXCEPT ![j].pc = "importing", ![j].tries = @ + 1]
  /\ UNCHANGED <<password, plugin, late, segments, final, shared, medias>>

Import(j) ==
  /\ At(j, "importing")
  /\ \E result \in Results :
       /\ add_library_file(j, <<j>>, result)
       /\ late' = [late EXCEPT ![j] = IF result = "late" THEN @ + 1 ELSE @]
       /\ CASE result = "added" -> Goes(j, "cleaning")
            [] result # "added" /\ job[j].tries < MaxAttempts -> Goes(j, "reading")
            [] OTHER -> Goes(j, "ended")
  /\ UNCHANGED <<password, plugin, segments, final, shared>>

\* The relations and the thumb are copied first; a failure of theirs is logged.
Clean(j) ==
  /\ At(j, "cleaning")
  /\ Goes(j, "ended")
  /\ plugin' \in {plugin, [plugin EXCEPT ![j] = "cleaned"]}
  /\ UNCHANGED <<password, late, segments, final, shared, medias>>

-----------------------------------------------------------------------------
(* A merge.                                                                    *)

Merging(g) == job[g].pc \notin {"idle", "ended"}

\* All its medias must be there, and local.
merge_videos(g) ==
  /\ At(g, "idle")
  /\ \/ \E id \in RequestIds :
          /\ job' = [job EXCEPT ![g].pc = "encode", ![g].id = id]
          /\ shared' = IF \E h \in Merges : Merging(h) /\ job[h].id = id
                       THEN shared \cup {id} ELSE shared
     \/ Goes(g, "ended") /\ UNCHANGED shared
  /\ UNCHANGED <<password, plugin, late, segments, final, medias>>

\* FFmpeg truncates the file, whoever writes it.
Encode(g) ==
  /\ At(g, "encode")
  /\ Goes(g, "encoding")
  /\ segments' = [segments EXCEPT ![segment_dest(job[g].id, job[g].item)] =
                    [by |-> g, item |-> job[g].item, whole |-> FALSE]]
  /\ UNCHANGED <<password, plugin, late, final, shared, medias>>

\* It reads the file of the media itself, which makes no video in a library that
\* has a password.  The first segment is probed for the size of the others; after
\* a failure the files stay.
run_file(g) ==
  LET i == job[g].item
      f == segment_dest(job[g].id, i)
  IN  /\ At(g, "encoding")
      /\ \/ /\ ~password
            /\ segments' = [segments EXCEPT ![f].whole = @ \/ segments[f].by = g]
            /\ job' = [job EXCEPT ![g].pc = IF i + 1 \in Items THEN "encode" ELSE "concat",
                                  ![g].item = IF i + 1 \in Items THEN i + 1 ELSE i]
         \/ Goes(g, "ended") /\ UNCHANGED segments
      /\ UNCHANGED <<password, plugin, late, final, shared, medias>>

concat_videos(g) ==
  LET id == job[g].id
      s  == [i \in Items |-> segments[segment_dest(id, i)]]
  IN  /\ At(g, "concat")
      /\ \/ /\ \A i \in Items : s[i] # NoFile
            /\ final' = [final EXCEPT ![id] = s]
            /\ Goes(g, "clean")
         \/ Goes(g, "ended") /\ UNCHANGED final
      /\ UNCHANGED <<password, plugin, late, segments, shared, medias>>

CleanSegments(g) ==
  /\ At(g, "clean")
  /\ segments' = [f \in DOMAIN segments |->
                    IF \E i \in Items : f = segment_dest(job[g].id, i) THEN NoFile ELSE segments[f]]
  /\ Goes(g, "open")
  /\ UNCHANGED <<password, plugin, late, final, shared, medias>>

Open(g) ==
  /\ At(g, "open")
  /\ IF final[job[g].id] = <<>>
     THEN Goes(g, "ended")
     ELSE job' = [job EXCEPT ![g].pc = "import", ![g].data = final[job[g].id]]
  /\ UNCHANGED <<password, plugin, late, segments, final, shared, medias>>

\* It reads what it opened, unless another merge wrote over it; the name goes
\* whether the import worked or not.
ImportMerged(g) ==
  /\ At(g, "import")
  /\ \E result \in Results, data \in {job[g].data, final[job[g].id]} \ {<<>>} :
       add_library_file(g, data, result)
  /\ final' = [final EXCEPT ![job[g].id] = <<>>]
  /\ Goes(g, "ended")
  /\ UNCHANGED <<password, plugin, late, segments, shared>>

-----------------------------------------------------------------------------
(* A part of an album.                                                         *)

\* Its pages are read and written into an archive, as they are, whether the
\* library has a password or not.  A failure leaves the file.
split_media(s) ==
  /\ At(s, "idle")
  /\ Goes(s, "hash") \/ Goes(s, "ended")
  /\ UNCHANGED <<password, plugin, late, segments, final, shared, medias>>

\* The file of a duplicate is removed.
RemoveDuplicate(s) ==
  /\ At(s, "hash") /\ Duplicate(<<None>>)
  /\ Goes(s, "ended")
  /\ UNCHANGED <<password, plugin, late, segments, final, shared, medias>>

AddSplit(s) ==
  /\ \/ At(s, "hash") /\ ~Duplicate(<<None>>) /\ Goes(s, "add") /\ UNCHANGED medias
     \/ /\ At(s, "add")
        /\ medias' = medias \cup {Media(s, <<None>>, FALSE, FALSE)}
        /\ Goes(s, "update")
     \/ job[s].pc \in {"hash", "add"} /\ Goes(s, "ended") /\ UNCHANGED medias
  /\ UNCHANGED <<password, plugin, late, segments, final, shared>>

UpdateSplit(s) ==
  /\ At(s, "update")
  /\ Goes(s, "ended")
  /\ medias' \in {medias, {IF m.of = s THEN [m EXCEPT !.hashed = TRUE] ELSE m : m \in medias}}
  /\ UNCHANGED <<password, plugin, late, segments, final, shared>>

-----------------------------------------------------------------------------
\* The server stops: its tasks are gone, and nothing takes them up again.
Stop ==
  /\ \E t \in Calls : job[t].pc \notin {"idle", "ended"}
  /\ job' = [t \in Calls |-> [job[t] EXCEPT !.pc = IF At(t, "idle") THEN "idle" ELSE "ended"]]
  /\ UNCHANGED <<password, plugin, late, segments, final, shared, medias>>

Next ==
  \/ \E j \in Jobs :
       \/ convert_submit_media(j) \/ Transcoded(j) \/ NotTranscoded(j) \/ Poll(j) \/ Link(j)
       \/ Read(j) \/ Import(j) \/ Clean(j)
  \/ \E g \in Merges :
       \/ merge_videos(g) \/ Encode(g) \/ run_file(g) \/ concat_videos(g) \/ CleanSegments(g)
       \/ Open(g) \/ ImportMerged(g)
  \/ \E s \in Splits : split_media(s) \/ RemoveDuplicate(s) \/ AddSplit(s) \/ UpdateSplit(s)
  \/ Stop

Spec == Init /\ [][Next]_vars

-----------------------------------------------------------------------------
\* A merged video is made of its own parts, all of them, unless another merge had
\* the same id while it ran: what a failed one left in the cache does no harm.  The
\* plugin's result is only thrown away when the library has it, and the library
\* gets it once, and once more for each import that failed too late.
ResultsWhole ==
  /\ \A m \in medias :
       m.of \in Merges /\ job[m.of].id \notin shared =>
         m.data = [i \in Items |-> [by |-> m.of, item |-> i, whole |-> TRUE]]
  /\ \A j \in Jobs :
       LET made == {m \in medias : m.of = j}
       IN  /\ plugin[j] = "cleaned" => made # {}
           /\ Cardinality(made) <= late[j] + 1

=============================================================================
