---------------------------- MODULE ConvertQueue ----------------------------
(***************************************************************************)
(* The local video conversion queue of ModelController (src/src/model/     *)
(* medias.rs, convert and convert_element; its state is declared in        *)
(* src/src/model/mod.rs).                                                  *)
(*                                                                         *)
(* Every POST /convert pushes an element on convert_queue and, when        *)
(* convert_current reads FALSE, spawns a worker.  The worker takes the     *)
(* WRITE lock of convert_current, keeps it while it drains the queue, and  *)
(* only then resets the flag.  A caller needs the READ lock of the same    *)
(* RwLock before it may push, so callers block while a worker drains.      *)
(*                                                                         *)
(* A request is one POST; the worker it may spawn bears its name.          *)
(***************************************************************************)
EXTENDS Naturals, Sequences, FiniteSets

CONSTANTS
  Requests,      \* POST /libraries/:l/medias/:m/convert calls
  FileOverlay,   \* those whose overlay.kind is VideoOverlayType::File
  Names,         \* temporary file names .cache/<media name>.<format>
  DestOf,        \* the temporary file name a request's output goes to
  NoRequest      \* "no worker" / "nothing being converted"

ASSUME RequestsAssumption ==
  /\ NoRequest \notin Requests
  /\ FileOverlay \subseteq Requests
  /\ DestOf \in [Requests -> Names]

VARIABLES
  queue,       \* convert_queue: VecDeque of the accepted elements
  converting,  \* the BOOLEAN stored in convert_current
  holder,      \* the worker that holds convert_current's write lock
  call,        \* progress of each POST through convert()
  worker,      \* state of the task each POST spawned
  current,     \* the element each worker's convert_element works on
  phase,       \* how far that convert_element is
  outcome,     \* how convert_element ended for each request
  temp         \* temporary output files that exist on disk

vars == <<queue, converting, holder, call, worker, current, phase, outcome, temp>>

CallStates   == {"idle", "waiting", "accepted", "rejected", "dropped"}
WorkerStates == {"none", "spawned", "draining", "finished", "dead"}
Phases       == {"none", "prepare", "transcode", "import", "relations"}
Outcomes     == {"none", "converted", "failed", "panicked"}

TypeOK ==
  /\ queue \in Seq(Requests)
  /\ converting \in BOOLEAN
  /\ holder \in Requests \cup {NoRequest}
  /\ call \in [Requests -> CallStates]
  /\ worker \in [Requests -> WorkerStates]
  /\ current \in [Requests -> Requests \cup {NoRequest}]
  /\ phase \in [Requests -> Phases]
  /\ outcome \in [Requests -> Outcomes]
  /\ temp \in SUBSET Names

Init ==
  /\ queue = <<>>
  /\ converting = FALSE
  /\ holder = NoRequest
  /\ call = [r \in Requests |-> "idle"]
  /\ worker = [r \in Requests |-> "none"]
  /\ current = [r \in Requests |-> NoRequest]
  /\ phase = [r \in Requests |-> "none"]
  /\ outcome = [r \in Requests |-> "none"]
  /\ temp = {}

-----------------------------------------------------------------------------
(* convert(), run by the HTTP handler.                                     *)

\* The role and media checks passed: "Pending" progress is sent and the
\* handler awaits convert_current.read().
Submit(r) ==
  /\ call[r] = "idle"
  /\ call' = [call EXCEPT ![r] = "waiting"]
  /\ UNCHANGED <<queue, converting, holder, worker, current, phase, outcome, temp>>

\* check_file_role, get_library_store or get_media fails: an early return.
Reject(r) ==
  /\ call[r] = "idle"
  /\ call' = [call EXCEPT ![r] = "rejected"]
  /\ UNCHANGED <<queue, converting, holder, worker, current, phase, outcome, temp>>

\* The read lock is granted: push_back, then spawn a worker if the flag is
\* FALSE.  The flag is read while the read lock is held, hence one step.
Enqueue(r) ==
  /\ call[r] = "waiting"
  /\ holder = NoRequest
  /\ queue' = Append(queue, r)
  /\ call' = [call EXCEPT ![r] = "accepted"]
  /\ worker' = IF converting THEN worker ELSE [worker EXCEPT ![r] = "spawned"]
  /\ UNCHANGED <<converting, holder, current, phase, outcome, temp>>

\* The client goes away while its handler awaits the lock: the handler's
\* future is dropped at the await and the element never reaches the queue.
Disconnect(r) ==
  /\ call[r] = "waiting"
  /\ call' = [call EXCEPT ![r] = "dropped"]
  /\ UNCHANGED <<queue, converting, holder, worker, current, phase, outcome, temp>>

-----------------------------------------------------------------------------
(* The spawned worker.                                                     *)

\* Mutant: the worker does not wait for the write lock.
StartWorkerUnlocked(w) ==
  /\ worker[w] = "spawned"
  /\ holder' = w
  /\ converting' = TRUE
  /\ worker' = [worker EXCEPT ![w] = "draining"]
  /\ UNCHANGED <<queue, call, current, phase, outcome, temp>>

\* convert_current.write().await is granted and the flag set.
StartWorker(w) ==
  /\ worker[w] = "spawned"
  /\ holder = NoRequest
  /\ holder' = w
  /\ converting' = TRUE
  /\ worker' = [worker EXCEPT ![w] = "draining"]
  /\ UNCHANGED <<queue, call, current, phase, outcome, temp>>

PopElement(w) ==
  /\ worker[w] = "draining"
  /\ current[w] = NoRequest
  /\ queue # <<>>
  /\ current' = [current EXCEPT ![w] = Head(queue)]
  /\ phase' = [phase EXCEPT ![w] = "prepare"]
  /\ queue' = Tail(queue)
  /\ UNCHANGED <<converting, holder, call, worker, outcome, temp>>

\* Mutant: the flag is not reset when the queue is drained.
FinishWorkerKeepsFlag(w) ==
  /\ worker[w] = "draining"
  /\ current[w] = NoRequest
  /\ queue = <<>>
  /\ holder' = NoRequest
  /\ worker' = [worker EXCEPT ![w] = "finished"]
  /\ UNCHANGED <<queue, converting, call, current, phase, outcome, temp>>

\* Mutant: the write guard outlives the worker.
FinishWorkerKeepsLock(w) ==
  /\ worker[w] = "draining"
  /\ current[w] = NoRequest
  /\ queue = <<>>
  /\ converting' = FALSE
  /\ worker' = [worker EXCEPT ![w] = "finished"]
  /\ UNCHANGED <<queue, holder, call, current, phase, outcome, temp>>

\* pop_front returned None: reset the flag, drop the lock, end the task.
FinishWorker(w) ==
  /\ worker[w] = "draining"
  /\ current[w] = NoRequest
  /\ queue = <<>>
  /\ converting' = FALSE
  /\ holder' = NoRequest
  /\ worker' = [worker EXCEPT ![w] = "finished"]
  /\ UNCHANGED <<queue, call, current, phase, outcome, temp>>

-----------------------------------------------------------------------------
(* convert_element, awaited by worker w; its Err is discarded (let _ =).   *)

EndElement(w, result) ==
  /\ outcome' = [outcome EXCEPT ![current[w]] = result]
  /\ current' = [current EXCEPT ![w] = NoRequest]
  /\ phase' = [phase EXCEPT ![w] = "none"]
  /\ UNCHANGED <<queue, converting, call>>

Advance(w, to) ==
  /\ phase' = [phase EXCEPT ![w] = to]
  /\ UNCHANGED <<queue, converting, holder, call, worker, current, outcome>>

\* Role, media, source and path checks pass and the overlay is resolved.
Prepare(w) ==
  /\ phase[w] = "prepare"
  /\ current[w] \notin FileOverlay
  /\ Advance(w, "transcode")
  /\ UNCHANGED temp

\* The media was deleted, is not local, ...: a `?` before FFmpeg runs.
PrepareFails(w) ==
  /\ phase[w] = "prepare"
  /\ EndElement(w, "failed")
  /\ UNCHANGED <<holder, worker, temp>>

\* VideoOverlayType::File => todo!(): the task unwinds.  The guard is dropped
\* with the task, the flag it guards keeps the value TRUE.
PreparePanics(w) ==
  /\ phase[w] = "prepare"
  /\ current[w] \in FileOverlay
  /\ EndElement(w, "panicked")
  /\ worker' = [worker EXCEPT ![w] = "dead"]
  /\ holder' = NoRequest
  /\ UNCHANGED temp

\* Mutant: the output is named after the request, not after the media.
TranscodeByRequest(w) ==
  /\ phase[w] = "transcode"
  /\ temp' = temp \cup {current[w]}
  /\ Advance(w, "import")

\* FFmpeg wrote the whole output file.
Transcode(w) ==
  /\ phase[w] = "transcode"
  /\ temp' = temp \cup {DestOf[current[w]]}
  /\ Advance(w, "import")

\* set_request or FFmpeg failed, with or without a partial output file.
TranscodeFails(w) ==
  /\ phase[w] = "transcode"
  /\ temp' \in {temp, temp \cup {DestOf[current[w]]}}
  /\ EndElement(w, "failed")
  /\ UNCHANGED <<holder, worker>>

\* File::open, add_library_file and then local.remove of the temporary file:
\* whether the output was stored is only looked at once the file is removed.
Import(w, stored) ==
  /\ phase[w] = "import"
  /\ temp' = temp \ {DestOf[current[w]]}
  /\ IF stored /\ DestOf[current[w]] \in temp
     THEN Advance(w, "relations")
     ELSE EndElement(w, "failed") /\ UNCHANGED <<holder, worker>>

\* The output cannot be opened, or cannot be removed once imported: a `?`
\* that leaves the file behind.
ImportFails(w) ==
  /\ phase[w] = "import"
  /\ EndElement(w, "failed")
  /\ UNCHANGED <<holder, worker, temp>>

\* Relations and thumbnail are copied and the final progress is sent; a
\* failing thumbnail copy is an Err although the media exists.
CopyRelations(w, ok) ==
  /\ phase[w] = "relations"
  /\ EndElement(w, IF ok THEN "converted" ELSE "failed")
  /\ UNCHANGED <<holder, worker, temp>>

ConvertElement(w) ==
  \/ Prepare(w)
  \/ PrepareFails(w)
  \/ PreparePanics(w)
  \/ Transcode(w)
  \/ TranscodeFails(w)
  \/ \E stored \in BOOLEAN : Import(w, stored)
  \/ ImportFails(w)
  \/ \E ok \in BOOLEAN : CopyRelations(w, ok)

Worker(w) == StartWorker(w) \/ PopElement(w) \/ FinishWorker(w) \/ ConvertElement(w)

Next ==
  \E r \in Requests :
    Submit(r) \/ Reject(r) \/ Enqueue(r) \/ Disconnect(r) \/ Worker(r)

Spec == Init /\ [][Next]_vars

(***************************************************************************)
(* Fairness: tokio polls every runnable task and its RwLock is fair        *)
(* (first come, first served), FFmpeg ends.  Clients owe nothing.          *)
(***************************************************************************)
Fairness ==
  /\ \A r \in Requests : WF_vars(Enqueue(r))
  /\ \A w \in Requests : WF_vars(Worker(w))

FairSpec == Spec /\ Fairness

-----------------------------------------------------------------------------
(* Properties.                                                             *)

WorkerAlive == \E w \in Requests : worker[w] \in {"spawned", "draining"}

\* A worker died in convert_element and left the flag TRUE: convert() never
\* spawns another one.
StalledByPanic ==
  /\ \E r \in Requests : outcome[r] = "panicked"
  /\ converting
  /\ ~WorkerAlive

\* An element in the queue always has a worker that will take it, although
\* convert() decides whether to spawn one from a flag: no wake-up is lost
\* between the last pop_front and the reset of the flag.  The only way to
\* strand the queue is a worker that panicked.
NoLostWakeup == queue # <<>> => WorkerAlive \/ StalledByPanic

\* Two conversions of media of the same name write the same .cache file; the
\* file is never left behind by anything but a conversion that failed.
StrayTempOnlyAfterFailure ==
  \A n \in temp :
    \/ \E w \in Requests : phase[w] = "import" /\ DestOf[current[w]] = n
    \/ \E r \in Requests : DestOf[r] = n /\ outcome[r] = "failed"

\* The output FFmpeg wrote is still there when add_library_file reads it: no
\* other conversion of the same name removed it in between.
OutputStillThere ==
  \A w \in Requests : phase[w] = "import" => DestOf[current[w]] \in temp

\* The queue, as its callers see it: accepted elements are converted one at a
\* time, in the order of acceptance, each at most once.
Service == INSTANCE ConvertService
             WITH waiting <- queue,
                  serving <- IF holder = NoRequest THEN NoRequest ELSE current[holder],
                  ended <- {r \in Requests : outcome[r] # "none"}

ImplementsService == Service!Spec

\* Every accepted element ends, converted or failed, unless a panicking
\* element stalled the queue first.
AcceptedEnds ==
  \A r \in Requests :
    call[r] = "accepted" ~> outcome[r] # "none" \/ StalledByPanic

\* A caller blocked on convert_current.read() while a worker drains the queue
\* is let in (or hangs up): the worker does release the lock, panic or not.
CallerReturns ==
  \A r \in Requests : call[r] = "waiting" ~> call[r] \in {"accepted", "dropped"}

=============================================================================
