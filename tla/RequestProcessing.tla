-------------------------- MODULE RequestProcessing --------------------------
(***************************************************************************)
(* Requests handed to a plugin's download service and fetched when they    *)
(* are ready (src/src/model/plugins/mod.rs): the handlers that add, pause  *)
(* and remove one, and the poll of RequestProgressTask, every 30 seconds,  *)
(* that records the progress and downloads what is finished.               *)
(*                                                                         *)
(* One library.  The scheduler runs one poll at a time (Scheduler,         *)
(* OnePlace).  The service is the plugin's: it works, pauses and forgets   *)
(* when it is told, and may not answer.                                    *)
(***************************************************************************)
EXTENDS Naturals

CONSTANTS
  Requests,    \* what clients ask for
  None,
  MaxCrashes   \* bound: how often the process stops

ASSUME RequestAssumption ==
  /\ None \notin Requests
  /\ MaxCrashes \in Nat

VARIABLES
  service,   \* what the plugin's service makes of each request
  row,       \* status of the row of request_processing
  add,       \* progress of the handler that adds the request
  pause,     \* and of the one that pauses it
  remove,    \* and of the one that removes it
  poll,      \* the poll: the requests left, the one at hand, what it saw
  fetched,   \* how often each request was downloaded into the library
  cut,       \* requests whose download was cut off, or whose row stayed
  crashes    \* stops of the process so far

vars == <<service, row, add, pause, remove, poll, fetched, cut, crashes>>
handlers == <<add, pause, remove>>

ServiceStates == {"none", "processing", "paused", "finished", "error", "removed"}
Statuses      == {"pending", "processing", "paused", "finished", "error"}
HandlerSteps  == {"idle", "told", "ended"}
PollSteps     == {"idle", "next", "seen", "download", "remove"}

TypeOK ==
  /\ service \in [Requests -> ServiceStates]
  /\ row \in [Requests -> Statuses \cup {"none", "gone"}]
  /\ add \in [Requests -> HandlerSteps]
  /\ pause \in [Requests -> HandlerSteps]
  /\ remove \in [Requests -> HandlerSteps]
  /\ poll \in [step : PollSteps, left : SUBSET Requests, hand : Requests \cup {None},
               saw : Statuses \cup {None}]
  /\ fetched \in [Requests -> Nat]
  /\ cut \subseteq Requests
  /\ crashes \in 0..MaxCrashes

NoPoll == [step |-> "idle", left |-> {}, hand |-> None, saw |-> None]

\* The poll has dealt with the request at hand.
NextTurn == [step |-> "next", left |-> poll.left, hand |-> None, saw |-> None]

Init ==
  /\ service = [r \in Requests |-> "none"]
  /\ row = [r \in Requests |-> "none"]
  /\ add = [r \in Requests |-> "idle"]
  /\ pause = [r \in Requests |-> "idle"]
  /\ remove = [r \in Requests |-> "idle"]
  /\ poll = NoPoll
  /\ fetched = [r \in Requests |-> 0]
  /\ cut = {}
  /\ crashes = 0

\* UPDATE ... WHERE id = ?: nothing happens to a row that is gone.
WithStatus(r, status) ==
  IF row[r] \in Statuses THEN [row EXCEPT ![r] = status] ELSE row

\* get_all_active_request_processings.
ActiveRows == {r \in Requests : row[r] \in {"pending", "processing"}}

-----------------------------------------------------------------------------
(* The service.                                                            *)

ServiceEnds(r) ==
  /\ service[r] = "processing"
  /\ \E s \in {"finished", "error"} : service' = [service EXCEPT ![r] = s]
  /\ UNCHANGED <<row, handlers, poll, fetched, cut, crashes>>

-----------------------------------------------------------------------------
(* exec_request_add.                                                       *)

\* The plugin's request_add.
Ask(r) ==
  /\ add[r] = "idle"
  /\ add' = [add EXCEPT ![r] = "told"]
  /\ service' = [service EXCEPT ![r] = "processing"]
  /\ UNCHANGED <<row, pause, remove, poll, fetched, cut, crashes>>

\* add_request_processing: the column's default status.
InsertRow(r) ==
  /\ add[r] = "told"
  /\ add' = [add EXCEPT ![r] = "ended"]
  /\ row' = [row EXCEPT ![r] = "pending"]
  /\ UNCHANGED <<service, pause, remove, poll, fetched, cut, crashes>>

-----------------------------------------------------------------------------
(* pause_processing and remove_processing: the row is read, for the ids that *)
(* never change in it, the plugin called, the row written.                 *)

\* A service that ended may take the call for done.
PauseService(r) ==
  /\ pause[r] = "idle" /\ row[r] \in Statuses /\ service[r] # "removed"
  /\ pause' = [pause EXCEPT ![r] = "told"]
  /\ service' = [service EXCEPT ![r] = IF @ = "processing" THEN "paused" ELSE @]
  /\ UNCHANGED <<row, add, remove, poll, fetched, cut, crashes>>

WritePaused(r) ==
  /\ pause[r] = "told"
  /\ pause' = [pause EXCEPT ![r] = "ended"]
  /\ row' = WithStatus(r, "paused")
  /\ UNCHANGED <<service, add, remove, poll, fetched, cut, crashes>>

RemoveAtService(r) ==
  /\ remove[r] = "idle" /\ row[r] \in Statuses
  /\ remove' = [remove EXCEPT ![r] = "told"]
  /\ service' = [service EXCEPT ![r] = "removed"]
  /\ UNCHANGED <<row, add, pause, poll, fetched, cut, crashes>>

DeleteRow(r) ==
  /\ remove[r] = "told"
  /\ remove' = [remove EXCEPT ![r] = "ended"]
  /\ row' = [row EXCEPT ![r] = "gone"]
  /\ UNCHANGED <<service, add, pause, poll, fetched, cut, crashes>>

\* A handler fails, or its client hangs up, at any of its awaits.
HandlerStops(r) ==
  /\ \/ /\ add[r] = "told" /\ add' = [add EXCEPT ![r] = "ended"]
        /\ UNCHANGED <<pause, remove>>
     \/ /\ pause[r] = "told" /\ pause' = [pause EXCEPT ![r] = "ended"]
        /\ UNCHANGED <<add, remove>>
     \/ /\ remove[r] = "told" /\ remove' = [remove EXCEPT ![r] = "ended"]
        /\ UNCHANGED <<add, pause>>
  /\ UNCHANGED <<service, row, poll, fetched, cut, crashes>>

-----------------------------------------------------------------------------
(* process_active_requests.                                                *)

StartPoll ==
  /\ poll.step = "idle" /\ ActiveRows # {}
  /\ poll' = [poll EXCEPT !.step = "next", !.left = ActiveRows]
  /\ UNCHANGED <<service, row, handlers, fetched, cut, crashes>>

\* The plugin is gone: the row is marked (if that fails: as NoAnswer).
NoPlugin(r) ==
  /\ poll.step = "next" /\ r \in poll.left
  /\ row' = WithStatus(r, "error")
  /\ poll' = [poll EXCEPT !.left = @ \ {r}]
  /\ UNCHANGED <<service, handlers, fetched, cut, crashes>>

\* The service does not answer, or does not know the request any more.
NoAnswer(r) ==
  /\ poll.step = "next" /\ r \in poll.left
  /\ poll' = [poll EXCEPT !.left = @ \ {r}]
  /\ UNCHANGED <<service, row, handlers, fetched, cut, crashes>>

\* Mutant: that the service does not know a request is taken for a status.
ProgressOfUnknown(r) ==
  /\ poll.step = "next" /\ r \in poll.left
  /\ poll' = [step |-> "seen", left |-> poll.left \ {r}, hand |-> r, saw |-> service[r]]
  /\ UNCHANGED <<service, row, handlers, fetched, cut, crashes>>

Progress(r) ==
  /\ poll.step = "next" /\ r \in poll.left /\ service[r] # "removed"
  /\ poll' = [step |-> "seen", left |-> poll.left \ {r}, hand |-> r, saw |-> service[r]]
  /\ UNCHANGED <<service, row, handlers, fetched, cut, crashes>>

\* Mutant: only the end of a request is recorded.
RecordEnds ==
  /\ poll.step = "seen"
  /\ row' = IF poll.saw = "finished" THEN WithStatus(poll.hand, poll.saw) ELSE row
  /\ poll' = IF poll.saw = "finished" THEN [poll EXCEPT !.step = "download"]
             ELSE NextTurn
  /\ UNCHANGED <<service, handlers, fetched, cut, crashes>>

\* Mutant: nothing is downloaded.
RecordOnly ==
  /\ poll.step = "seen"
  /\ row' = WithStatus(poll.hand, poll.saw)
  /\ poll' = NextTurn
  /\ UNCHANGED <<service, handlers, fetched, cut, crashes>>

\* update_request_processing, then the download if it is finished.
Record ==
  /\ poll.step = "seen"
  /\ row' = WithStatus(poll.hand, poll.saw)
  /\ poll' = IF poll.saw = "finished" THEN [poll EXCEPT !.step = "download"]
             ELSE NextTurn
  /\ UNCHANGED <<service, handlers, fetched, cut, crashes>>

RecordFails ==
  /\ poll.step = "seen"
  /\ poll' = NextTurn
  /\ UNCHANGED <<service, row, handlers, fetched, cut, crashes>>

\* download_library_url.
Download ==
  /\ poll.step = "download"
  /\ fetched' = [fetched EXCEPT ![poll.hand] = @ + 1]
  /\ poll' = [poll EXCEPT !.step = "remove"]
  /\ UNCHANGED <<service, row, handlers, cut, crashes>>

\* The row is removed; if that fails it stays as it is.
RemoveRow ==
  /\ poll.step = "remove"
  /\ \/ row' = [row EXCEPT ![poll.hand] = "gone"] /\ UNCHANGED cut
     \/ cut' = cut \cup {poll.hand} /\ UNCHANGED row
  /\ poll' = NextTurn
  /\ UNCHANGED <<service, handlers, fetched, crashes>>

\* Mutant: a failed download is only logged.
DownloadFailsLogged ==
  /\ poll.step = "download"
  /\ poll' = NextTurn
  /\ UNCHANGED <<service, row, handlers, fetched, cut, crashes>>

\* The row is marked; a failure to do so is not looked at.
DownloadFails ==
  /\ poll.step = "download"
  /\ \/ row' = WithStatus(poll.hand, "error") /\ UNCHANGED cut
     \/ cut' = cut \cup {poll.hand} /\ UNCHANGED row
  /\ poll' = NextTurn
  /\ UNCHANGED <<service, handlers, fetched, crashes>>

EndPoll ==
  /\ poll.step = "next" /\ poll.left = {}
  /\ poll' = NoPoll
  /\ UNCHANGED <<service, row, handlers, fetched, cut, crashes>>

\* The process stops: handlers and the poll are lost, rows stay.
Stopped(h) == [r \in Requests |-> IF h[r] = "told" THEN "ended" ELSE h[r]]

Crash ==
  /\ crashes < MaxCrashes
  /\ crashes' = crashes + 1
  /\ add' = Stopped(add) /\ pause' = Stopped(pause) /\ remove' = Stopped(remove)
  /\ poll' = NoPoll
  /\ cut' = IF poll.step \in {"download", "remove"} THEN cut \cup {poll.hand} ELSE cut
  /\ UNCHANGED <<service, row, fetched>>

-----------------------------------------------------------------------------
Handler(r) ==
  \/ Ask(r) \/ InsertRow(r)
  \/ PauseService(r) \/ WritePaused(r)
  \/ RemoveAtService(r) \/ DeleteRow(r)
  \/ HandlerStops(r)

Poll ==
  \/ StartPoll \/ Record \/ RecordFails \/ Download \/ RemoveRow \/ DownloadFails \/ EndPoll
  \/ \E r \in Requests : NoPlugin(r) \/ NoAnswer(r) \/ Progress(r)

Next ==
  \/ \E r \in Requests : ServiceEnds(r) \/ Handler(r)
  \/ Poll
  \/ Crash

Spec == Init /\ [][Next]_vars

(***************************************************************************)
(* Fairness: the scheduler keeps polling and a poll ends.  "May be a       *)
(* temporary communication error", the code says of NoAnswer, and it is    *)
(* assumed of it and of a failed update: a service that can answer, and a  *)
(* row that can be written, do so in the end.  Handlers may stop for ever. *)
(***************************************************************************)
Fairness ==
  /\ WF_vars(Poll)
  /\ \A r \in Requests : SF_vars(Progress(r)) /\ SF_vars(Record /\ poll.hand = r)

FairSpec == Spec /\ Fairness

-----------------------------------------------------------------------------
(* Properties.                                                             *)

\* A finished request is downloaded once, through crashes between the download
\* and the removal of its row, pauses, and polls that follow.
FetchedOnce == \A r \in Requests : fetched[r] <= 1

\* No row stays finished, where no poll looks at it again, except while it is
\* being downloaded, or because that was cut off.
FinishedInHand ==
  \A r \in Requests : row[r] = "finished" =>
    \/ poll.hand = r /\ poll.step \in {"download", "remove"}
    \/ r \in cut

\* A request whose row was removed does not come back, whatever the poll or a
\* handler read before.
RemovedStaysGone ==
  [][\A r \in Requests : row[r] = "gone" => row'[r] = "gone"]_vars

\* A request that finishes while its row is active is downloaded, unless it is
\* paused, fails, is removed or the process stops at it.
FinishedIsFetched ==
  \A r \in Requests : service[r] = "finished" /\ r \in ActiveRows
    ~> \/ fetched[r] > 0 \/ r \in cut
       \/ row[r] \in {"paused", "error", "gone"} \/ service[r] = "removed"

\* The row of a request the service paused does not stay active, even if a poll
\* that saw it working writes last; unless it is removed at the service meanwhile.
PauseSettles ==
  \A r \in Requests :
    service[r] = "paused" ~> r \notin ActiveRows \/ service[r] = "removed"

=============================================================================
