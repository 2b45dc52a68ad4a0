-------------------------------- MODULE Plugins --------------------------------
(* The plugin manager (src/src/plugins): the WebAssembly plugins loaded in      *)
(* memory, behind one read-write lock, the files they come from, and the        *)
(* installed plugins of the database.  The lock is tokio's: fair, first come    *)
(* first served, so that a reader waits behind a writer that came before it.    *)
(*                                                                              *)
(* A task is one call of the model controller.  Each step that waits for the    *)
(* lock puts itself in the queue, and is one action when it reaches the head:   *)
(* what runs under the lock without an await is atomic.                         *)
EXTENDS Naturals, Sequences

CONSTANTS
  Tasks,
  Startup,     \* the task spawned when the server starts
  Files,
  MaxFiles,    \* how many files there can be
  MaxVersion

All == Tasks \cup {Startup}

VARIABLES
  disk,      \* the version of each plugin's file, 0 without one
  rows,      \* the files of the installed plugins (table plugins)
  loaded,    \* PluginManager.plugins
  readers,   \* the tasks that hold a read guard across a call or an await
  queue,     \* the tasks that wait for the lock
  job,       \* what each task does
  known,     \* the files that a reload or a load has seen
  spoiled    \* whether two changes of the plugins overlapped, or one stopped midway

vars == <<disk, rows, loaded, readers, queue, job, known, spoiled>>

NoCall == [upto |-> "none", guarded |-> FALSE, rereads |-> FALSE]
Start  == [kind |-> NoCall, pc |-> "idle", file |-> CHOOSE f \in Files : TRUE,
           at |-> 0, todo |-> <<>>, got |-> <<>>]

Changing == {"list", "clear", "append", "enrich", "position", "swap", "build", "push"}
Quiet    == \A t \in All : job[t].pc \notin Changing

\* A change of the plugins that starts during another one.
Overlaps(pc) == spoiled \/ (pc \in Changing /\ ~Quiet)

Wait(q, t, mode) == Append(q, [task |-> t, mode |-> mode])
Turn(t, mode)    == /\ queue # <<>> /\ Head(queue) = [task |-> t, mode |-> mode]
                    /\ mode = "write" => readers = {}
At(t, pc)        == job[t].pc = pc
Set(t, pc)       == job' = [job EXCEPT ![t].pc = pc]
Ends(t)          == job' = [job EXCEPT ![t] = [Start EXCEPT !.pc = "ended"]]

\* 0 if it is not loaded.
FirstAt(f) ==
  LET at == {i \in DOMAIN loaded : loaded[i].file = f}
  IN  IF at = {} THEN 0 ELSE CHOOSE i \in at : \A j \in at : i <= j

\* The files of S, once each, in the order a directory or a query lists them.
Orders(S) ==
  {s \in UNION {[1..n -> S] : n \in 0..MaxFiles} :
     \A f \in S : \E i \in DOMAIN s : \A j \in DOMAIN s : s[j] = f <=> j = i}

Init ==
  /\ disk \in [Files -> {0, 1}]
  /\ rows = {f \in Files : disk[f] = 1}
  /\ loaded = <<>> /\ known = {}
  /\ readers = {} /\ queue = <<>>
  /\ job = [t \in All |-> IF t = Startup THEN [Start EXCEPT !.pc = "list"] ELSE Start]
  /\ spoiled = FALSE

-----------------------------------------------------------------------------
(* Requests that change the plugins.                                           *)

Begin(t, pc, f) ==
  /\ At(t, "idle")
  /\ job' = [job EXCEPT ![t].pc = pc, ![t].file = f]
  /\ spoiled' = Overlaps(pc)

ReloadPlugins(t) ==
  /\ Begin(t, "list", Start.file)
  /\ UNCHANGED <<disk, rows, loaded, readers, queue, known>>

\* upload_repo_plugin: under a name of its own.
UploadRepo(t, f) ==
  /\ disk[f] = 0
  /\ disk' = [disk EXCEPT ![f] = 1]
  /\ Begin(t, "list", f)
  /\ UNCHANGED <<rows, loaded, readers, queue, known>>

\* upload_plugin: nothing is loaded.
Upload(t, f) ==
  /\ disk[f] = 0
  /\ disk' = [disk EXCEPT ![f] = 1]
  /\ Begin(t, "ended", f)
  /\ UNCHANGED <<rows, loaded, readers, queue, known>>

RemovePlugin(t, f) ==
  /\ f \in rows
  /\ rows' = rows \ {f}
  /\ Begin(t, "list", f)
  /\ UNCHANGED <<disk, loaded, readers, queue, known>>

\* remove_plugin_wasm of a plugin that is not installed, whose identifier is
\* its file name; that of an installed one is not, and no file is removed.
RemoveWasm(t, f) ==
  /\ f \notin rows /\ disk[f] > 0
  /\ disk' = [disk EXCEPT ![f] = 0]
  /\ Begin(t, "list", f)
  /\ UNCHANGED <<rows, loaded, readers, queue, known>>

AddPlugin(t, f) ==
  /\ rows' = rows \cup {f}
  /\ Begin(t, "ended", f)
  /\ UNCHANGED <<disk, loaded, readers, queue, known>>

\* get_plugin reads the manager to complete the row.
ReloadPlugin(t, f) ==
  /\ f \in rows
  /\ Begin(t, "enrich", f)
  /\ queue' = Wait(queue, t, "read")
  /\ UNCHANGED <<disk, rows, loaded, readers, known>>

RefreshRepo(t, f) ==
  /\ f \in rows /\ disk[f] < MaxVersion
  /\ disk' = [disk EXCEPT ![f] = @ + 1]
  /\ Begin(t, "enrich", f)
  /\ queue' = Wait(queue, t, "read")
  /\ UNCHANGED <<rows, loaded, readers, known>>

-----------------------------------------------------------------------------
(* PluginManager::reload and load_wasm_plugin.                                 *)

\* The files of the directory that load; the others are left out.
List(t) ==
  /\ At(t, "list")
  /\ \E good \in SUBSET {f \in Files : disk[f] > 0} : \E s \in Orders(good) :
       /\ job' = [job EXCEPT ![t].pc = "clear",
                             ![t].got = [i \in DOMAIN s |-> [file |-> s[i], version |-> disk[s[i]]]]]
       /\ known' = good
  /\ queue' = Wait(queue, t, "write")
  /\ UNCHANGED <<disk, rows, loaded, readers, spoiled>>

\* Mutant: what is loaded stays.
ClearNothing(t) ==
  /\ At(t, "clear") /\ Turn(t, "write")
  /\ Set(t, "append")
  /\ queue' = Wait(Tail(queue), t, "write")
  /\ UNCHANGED <<disk, rows, loaded, readers, known, spoiled>>

Clear(t) ==
  /\ At(t, "clear") /\ Turn(t, "write")
  /\ loaded' = <<>>
  /\ Set(t, "append")
  /\ queue' = Wait(Tail(queue), t, "write")
  /\ UNCHANGED <<disk, rows, readers, known, spoiled>>

AppendAll(t) ==
  /\ At(t, "append") /\ Turn(t, "write")
  /\ loaded' = loaded \o job[t].got
  /\ Ends(t)
  /\ queue' = Tail(queue)
  /\ UNCHANGED <<disk, rows, readers, known, spoiled>>

Enrich(t) ==
  /\ At(t, "enrich") /\ Turn(t, "read")
  /\ Set(t, "position")
  /\ queue' = Wait(Tail(queue), t, "read")
  /\ UNCHANGED <<disk, rows, loaded, readers, known, spoiled>>

\* Mutant: the read guard lives as long as the `if let`.
PositionHeld(t) ==
  /\ At(t, "position") /\ Turn(t, "read")
  /\ LET at == FirstAt(job[t].file)
     IN  IF at = 0
         THEN Set(t, "build") /\ queue' = Tail(queue) /\ UNCHANGED readers
         ELSE /\ job' = [job EXCEPT ![t].pc = "swap", ![t].at = at]
              /\ queue' = Wait(Tail(queue), t, "write")
              /\ readers' = readers \cup {t}
  /\ UNCHANGED <<disk, rows, loaded, known, spoiled>>

\* The position is read under one guard and used under another.
Position(t) ==
  /\ At(t, "position") /\ Turn(t, "read")
  /\ LET at == FirstAt(job[t].file)
     IN  IF at = 0
         THEN Set(t, "build") /\ queue' = Tail(queue)
         ELSE /\ job' = [job EXCEPT ![t].pc = "swap", ![t].at = at]
              /\ queue' = Wait(Tail(queue), t, "write")
  /\ UNCHANGED <<disk, rows, loaded, readers, known, spoiled>>

\* Vec::swap_remove: the last takes its place; it panics past the end.
SwapRemove(t) ==
  /\ At(t, "swap") /\ Turn(t, "write")
  /\ LET n == Len(loaded)  at == job[t].at
     IN  IF at > n
         THEN Ends(t) /\ UNCHANGED loaded
         ELSE /\ Set(t, "build")
              /\ loaded' = SubSeq([loaded EXCEPT ![at] = loaded[n]], 1, n - 1)
  /\ queue' = Tail(queue)
  /\ UNCHANGED <<disk, rows, readers, known, spoiled>>

\* The plugin is built, or it is not and is in memory no more.
Build(t) ==
  /\ At(t, "build")
  /\ \/ /\ disk[job[t].file] > 0
        /\ job' = [job EXCEPT ![t].pc = "push",
                              ![t].got = <<[file |-> job[t].file, version |-> disk[job[t].file]]>>]
        /\ queue' = Wait(queue, t, "write")
        /\ UNCHANGED <<known, spoiled>>
     \/ /\ Ends(t)
        /\ known' = known \ {job[t].file}
        /\ UNCHANGED <<queue, spoiled>>
  /\ UNCHANGED <<disk, rows, loaded, readers>>

Push(t) ==
  /\ At(t, "push") /\ Turn(t, "write")
  /\ loaded' = loaded \o job[t].got
  /\ known' = known \cup {job[t].file}
  /\ Set(t, "last")
  /\ queue' = Wait(Tail(queue), t, "read")
  /\ UNCHANGED <<disk, rows, readers, spoiled>>

\* update_plugin completes the row it returns.
EnrichUpdated(t) ==
  /\ At(t, "last") /\ Turn(t, "read")
  /\ Ends(t)
  /\ queue' = Tail(queue)
  /\ UNCHANGED <<disk, rows, loaded, readers, known, spoiled>>

-----------------------------------------------------------------------------
(* install_plugin keeps its read guard until it returns, and completes the row *)
(* under a second one.  A provider's call does when its plugin is not loaded:  *)
(* the error lists what is, under a guard taken in the else of the if let.     *)

Install(t) ==
  /\ Begin(t, "find", Start.file)
  /\ queue' = Wait(queue, t, "read")
  /\ UNCHANGED <<disk, rows, loaded, readers, known>>

Find(t) ==
  /\ At(t, "find") /\ Turn(t, "read")
  /\ \/ /\ \E i \in DOMAIN loaded :
            job' = [job EXCEPT ![t].pc = "insert", ![t].file = loaded[i].file]
        /\ readers' = readers \cup {t}
     \/ Ends(t) /\ UNCHANGED readers
  /\ queue' = Tail(queue)
  /\ UNCHANGED <<disk, rows, loaded, known, spoiled>>

Insert(t) ==
  /\ At(t, "insert")
  /\ rows' = rows \cup {job[t].file}
  /\ Set(t, "reread")
  /\ queue' = Wait(queue, t, "read")
  /\ UNCHANGED <<disk, loaded, readers, known, spoiled>>

Reread(t) ==
  /\ At(t, "reread") /\ Turn(t, "read")
  /\ Ends(t)
  /\ queue' = Tail(queue)
  /\ readers' = readers \ {t}
  /\ UNCHANGED <<disk, rows, loaded, known, spoiled>>

-----------------------------------------------------------------------------
(* Calls of the plugins.  A call runs a plugin under the read guard, one after *)
(* another until one answers or all did, or copies their handles under it and  *)
(* runs them all after it.                                                     *)

UnderGuard(upto) == [guarded |-> TRUE, upto |-> upto, rereads |-> FALSE]
OnCopies         == [guarded |-> FALSE, upto |-> "all", rereads |-> FALSE]
OfProvider(r)    == [guarded |-> TRUE, upto |-> "one", rereads |-> r]

parse                   == UnderGuard("answer")
expand                  == UnderGuard("answer")
renew_crendentials      == UnderGuard("one")
request                 == UnderGuard("final")
request_permanent       == UnderGuard("answer")
check_instant           == UnderGuard("answer")
request_add             == UnderGuard("answer")
get_processing_progress == UnderGuard("one")
pause_processing        == UnderGuard("one")
remove_processing       == UnderGuard("one")
exchange_token          == UnderGuard("one")
get_all_convert_capabilities == UnderGuard("all")
get_convert_capabilities     == UnderGuard("one")
convert_submit          == UnderGuard("one")
convert_status          == UnderGuard("one")
convert_cancel          == UnderGuard("one")
convert_link            == UnderGuard("one")
convert_clean           == UnderGuard("one")
lookup                  == OnCopies
lookup_stream_grouped   == OnCopies
lookup_metadata         == OnCopies
lookup_metadata_grouped == OnCopies
lookup_metadata_stream  == OnCopies
lookup_metadata_stream_grouped == OnCopies
lookup_images           == OnCopies
lookup_images_grouped   == OnCopies
lookup_images_stream    == OnCopies
lookup_images_stream_grouped   == OnCopies
provider_get_file               == OfProvider(TRUE)
provider_upload_file_request    == OfProvider(FALSE)
provider_upload_parse_response  == OfProvider(FALSE)
provider_remove_file            == OfProvider(FALSE)
provider_info_file              == OfProvider(FALSE)

Calls ==
  {parse, expand, renew_crendentials, request, request_permanent, check_instant, request_add,
   get_processing_progress, pause_processing, remove_processing, exchange_token,
   get_all_convert_capabilities, get_convert_capabilities, convert_submit, convert_status,
   convert_cancel, convert_link, convert_clean, lookup, lookup_stream_grouped,
   lookup_metadata, lookup_metadata_grouped, lookup_metadata_stream,
   lookup_metadata_stream_grouped, lookup_images, lookup_images_grouped,
   lookup_images_stream, lookup_images_stream_grouped, provider_get_file,
   provider_upload_file_request, provider_upload_parse_response, provider_remove_file,
   provider_info_file}

\* The rows are read first: those of the query, or the one of the caller.
Call(t, kind) ==
  /\ At(t, "idle")
  /\ \E s \in Orders(rows) :
       /\ s # <<>>
       /\ job' = [job EXCEPT ![t].kind = kind, ![t].pc = "take",
                             ![t].todo = IF kind.upto = "one" THEN <<Head(s)>> ELSE s]
  /\ queue' = Wait(queue, t, "read")
  /\ UNCHANGED <<disk, rows, loaded, readers, known, spoiled>>

\* After a plugin: the next one, under a guard of its own, or the end.
Continue(t, todo, q) ==
  IF todo = <<>>
  THEN Ends(t) /\ queue' = q
  ELSE /\ job' = [job EXCEPT ![t].pc = "take", ![t].todo = todo]
       /\ queue' = Wait(q, t, "read")

Take(t) ==
  LET kind == job[t].kind
      at   == FirstAt(Head(job[t].todo))
  IN  /\ At(t, "take") /\ Turn(t, "read")
      /\ IF ~kind.guarded
         THEN Set(t, "running") /\ queue' = Tail(queue) /\ UNCHANGED readers
         ELSE IF at # 0
         THEN Set(t, "calling") /\ queue' = Tail(queue) /\ readers' = readers \cup {t}
         ELSE IF kind.rereads
         THEN Set(t, "reread") /\ queue' = Wait(Tail(queue), t, "read") /\ readers' = readers \cup {t}
         ELSE Continue(t, Tail(job[t].todo), Tail(queue)) /\ UNCHANGED readers
      /\ UNCHANGED <<disk, rows, loaded, known, spoiled>>

\* The plugin has run; its answer may be the last one wanted.
Return(t) ==
  /\ At(t, "calling")
  /\ readers' = readers \ {t}
  /\ \/ Continue(t, Tail(job[t].todo), queue)
     \/ /\ job[t].kind.upto \in {"answer", "final"}
        /\ Ends(t) /\ UNCHANGED queue
  /\ UNCHANGED <<disk, rows, loaded, known, spoiled>>

\* All have run: the answers are gathered, or sent as they come.
Gather(t) ==
  /\ At(t, "running")
  /\ Ends(t)
  /\ UNCHANGED <<disk, rows, loaded, readers, queue, known, spoiled>>

\* The client hangs up: its call is dropped where it waits.
HangUp(t) ==
  /\ t \in Tasks
  /\ \E i \in DOMAIN queue :
       /\ queue[i].task = t
       /\ queue' = SubSeq(queue, 1, i - 1) \o SubSeq(queue, i + 1, Len(queue))
  /\ Ends(t)
  /\ readers' = readers \ {t}
  /\ spoiled' = (spoiled \/ job[t].pc \in Changing)
  /\ UNCHANGED <<disk, rows, loaded, known>>

Next ==
  \E t \in All :
    \/ ReloadPlugins(t) \/ Install(t)
    \/ \E f \in Files : \/ UploadRepo(t, f) \/ Upload(t, f) \/ RemovePlugin(t, f) \/ RemoveWasm(t, f)
                        \/ AddPlugin(t, f) \/ ReloadPlugin(t, f) \/ RefreshRepo(t, f)
    \/ List(t) \/ Clear(t) \/ AppendAll(t)
    \/ Enrich(t) \/ Position(t) \/ SwapRemove(t) \/ Build(t) \/ Push(t) \/ EnrichUpdated(t)
    \/ Find(t) \/ Insert(t) \/ Reread(t)
    \/ \E kind \in Calls : Call(t, kind)
    \/ Take(t) \/ Return(t) \/ Gather(t) \/ HangUp(t)

Spec == Init /\ [][Next]_vars

-----------------------------------------------------------------------------
\* The plugins in memory are those of the directory, once each and at the version
\* of their file, but for the files nothing has loaded, unless two changes
\* overlapped (an index read under one guard is used under another, a list is
\* cleared under one and filled under another) or one was dropped midway.
LoadedAsOnDisk ==
  Quiet /\ ~spoiled =>
    \A f \in known :
      disk[f] > 0 =>
        \E i \in DOMAIN loaded : /\ loaded[i] = [file |-> f, version |-> disk[f]]
                                /\ \A j \in DOMAIN loaded : loaded[j].file = f => j = i

\* The only ones that wait for the lock while they hold it, and so stop everyone
\* when a writer waits before them, are an installation and a provider's
\* call whose plugin is not loaded.
HoldersWaitOnlyToReread ==
  \A t \in readers, i \in DOMAIN queue : queue[i].task = t => job[t].pc = "reread"

=============================================================================
