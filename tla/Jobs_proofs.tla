----------------------------- MODULE Jobs_proofs -----------------------------
(***************************************************************************)
(* Proofs about what the server does by itself: the downloads that were    *)
(* requested (RequestProcessing), for any requests and any number of       *)
(* crashes, and the tasks (Scheduler), for any tasks, requests, periods    *)
(* and bound on the clock.                                                 *)
(*                                                                         *)
(* Scheduler!OnePlace is not inductive as it counts places: Single, Apart, *)
(* Found and Real say the same item by item, and Known keeps a periodic    *)
(* task that panicked from being taken for one not yet added.              *)
(* Scheduler!PeriodPasses needs the dates of the items: a waiting one was  *)
(* made after the last end, and one that is spawned was due (Dated).       *)
(***************************************************************************)
EXTENDS MCJobs, TLAPS

-----------------------------------------------------------------------------
(* RequestProcessing.                                                      *)

\* The poll has a request in hand between the answer and the end of its turn,
\* and does not come back to it in the same round.
HandInv ==
  /\ poll.step \in {"seen", "download", "remove"} => poll.hand # None /\ poll.saw \in Statuses
  /\ poll.step \in {"idle", "next"} => poll.hand = None
  /\ poll.hand \notin poll.left

\* A request has no row, and is known to no one, before its handler inserts it.
AddInv ==
  \A r \in Requests :
    /\ service[r] = "none" => add[r] = "idle"
    /\ remove[r] = "told" => add[r] = "ended"
    /\ add[r] \in {"idle", "told"} =>
         row[r] = "none" /\ r \notin poll.left /\ poll.hand # r /\ fetched[r] = 0

\* What is being downloaded, and what was, is out of reach of the next polls.
FetchInv ==
  /\ poll.step \in {"download", "remove"} => poll.hand \notin ActiveRows
  /\ \A r \in Requests : fetched[r] > 0 =>
       /\ r \notin ActiveRows
       /\ r \notin poll.left
       /\ poll.hand = r => poll.step = "remove"

\* The inductive invariant of RequestProcessing.
IInv == TypeOK /\ HandInv /\ AddInv /\ FetchInv /\ FetchedOnce /\ FinishedInHand

-----------------------------------------------------------------------------
\* What a write of one row does to the others, and to the active ones.
LEMMA RowFacts ==
  ASSUME TypeOK, NEW r \in Requests, NEW s \in Statuses
  PROVE  /\ WithStatus(r, s) \in [Requests -> Statuses \cup {"none", "gone"}]
         /\ \A x \in Requests : x # r => WithStatus(r, s)[x] = row[x]
         /\ WithStatus(r, s)[r] = IF row[r] \in Statuses THEN s ELSE row[r]
  BY DEF TypeOK, WithStatus

\* The types of what the poll holds.
LEMMA PollFacts ==
  ASSUME TypeOK
  PROVE  /\ \A S \in SUBSET Requests : [poll EXCEPT !.left = S]
              = [step |-> poll.step, left |-> S, hand |-> poll.hand, saw |-> poll.saw]
         /\ \A s \in PollSteps : [poll EXCEPT !.step = s]
              = [step |-> s, left |-> poll.left, hand |-> poll.hand, saw |-> poll.saw]
<1>1. poll \in [step : PollSteps, left : SUBSET Requests, hand : Requests \cup {None},
                saw : Statuses \cup {None}]
  BY DEF TypeOK
<1>2. ASSUME NEW S \in SUBSET Requests
      PROVE  [poll EXCEPT !.left = S]
               = [step |-> poll.step, left |-> S, hand |-> poll.hand, saw |-> poll.saw]
  BY <1>1
<1>3. ASSUME NEW s \in PollSteps
      PROVE  [poll EXCEPT !.step = s]
               = [step |-> s, left |-> poll.left, hand |-> poll.hand, saw |-> poll.saw]
  BY <1>1
<1>q. QED
  BY <1>2, <1>3

\* The requests start without a row, and no poll is running.
LEMMA InitIInv == Init => IInv
  BY RequestAssumption DEF Init, IInv, TypeOK, HandInv, AddInv, FetchInv, FetchedOnce,
     FinishedInHand, ActiveRows, NoPoll, ServiceStates, HandlerSteps, PollSteps

\* The handlers and the service.
LEMMA HandlerStep ==
  ASSUME IInv, NEW r \in Requests, ServiceEnds(r) \/ Handler(r)
  PROVE  IInv'
<1> USE RequestAssumption DEF IInv, TypeOK, HandInv, AddInv, FetchInv, FetchedOnce,
        FinishedInHand, ActiveRows, ServiceStates, HandlerSteps, PollSteps, Statuses, handlers
<1>1. CASE ServiceEnds(r)
  BY <1>1 DEF ServiceEnds
<1>2. CASE Ask(r)
  BY <1>2 DEF Ask
<1>3. CASE InsertRow(r)
  BY <1>3 DEF InsertRow
<1>4. CASE PauseService(r)
  BY <1>4 DEF PauseService
<1>5. CASE WritePaused(r)
  <2>1. row' = WithStatus(r, "paused") /\ "paused" \in Statuses
    BY <1>5 DEF WritePaused
  <2>p1. TypeOK'
    BY <1>5, <2>1, RowFacts DEF WritePaused
  <2>p2. HandInv'
    BY <1>5, <2>1, RowFacts DEF WritePaused
  <2>p3. AddInv'
    <3>1. \A x \in Requests : row[x] = "none" => row'[x] = "none"
      <4> HIDE DEF HandInv, AddInv, FetchInv, FetchedOnce, FinishedInHand
      <4>1. row[r] = "none" => row'[r] = "none"
        BY <2>1, RowFacts
      <4>2. \A x \in Requests : x # r => row'[x] = row[x]
        BY <2>1, RowFacts
      <4>q. QED
        BY <4>1, <4>2
    <3>q. QED
      BY <1>5, <3>1 DEF WritePaused
  <2>p4. FetchInv'
    BY <1>5, <2>1, RowFacts DEF WritePaused
  <2>p5. FetchedOnce' /\ FinishedInHand'
    BY <1>5, <2>1, RowFacts DEF WritePaused
  <2>q. QED
    BY <2>p1, <2>p2, <2>p3, <2>p4, <2>p5
<1>6. CASE RemoveAtService(r)
  BY <1>6 DEF RemoveAtService
<1>7. CASE DeleteRow(r)
  BY <1>7 DEF DeleteRow
<1>8. CASE HandlerStops(r)
  BY <1>8 DEF HandlerStops
<1>q. QED
  BY <1>1, <1>2, <1>3, <1>4, <1>5, <1>6, <1>7, <1>8 DEF Handler

\* The poll, and the end of the process.
LEMMA PollStep ==
  ASSUME IInv, Poll \/ Crash
  PROVE  IInv'
<1> USE RequestAssumption DEF IInv, TypeOK, HandInv, AddInv, FetchInv, FetchedOnce,
        FinishedInHand, ActiveRows, HandlerSteps, PollSteps, Statuses, handlers, NoPoll, NextTurn
<1>1. CASE StartPoll
  <2>p1. TypeOK'
    BY <1>1 DEF StartPoll
  <2>p2. HandInv'
    BY <1>1 DEF StartPoll
  <2>p3. AddInv'
    BY <1>1 DEF StartPoll
  <2>p4. FetchInv'
    BY <1>1 DEF StartPoll
  <2>p5. FetchedOnce' /\ FinishedInHand'
    BY <1>1 DEF StartPoll
  <2>q. QED
    BY <2>p1, <2>p2, <2>p3, <2>p4, <2>p5
<1>2. ASSUME NEW r \in Requests, NoPlugin(r) PROVE IInv'
  <2>1. row' = WithStatus(r, "error") /\ "error" \in Statuses
    BY <1>2 DEF NoPlugin
  <2>p1. TypeOK'
    <3>1. row' \in [Requests -> Statuses \cup {"none", "gone"}]
      BY <2>1, RowFacts
    <3>2. poll' \in [step : PollSteps, left : SUBSET Requests, hand : Requests \cup {None},
                     saw : Statuses \cup {None}]
      BY <1>2, PollFacts DEF NoPlugin
    <3>q. QED
      BY <1>2, <3>1, <3>2 DEF NoPlugin
  <2>p2. HandInv'
    BY <1>2, <2>1, RowFacts, PollFacts DEF NoPlugin
  <2>p3. AddInv'
    BY <1>2, <2>1, RowFacts, PollFacts DEF NoPlugin
  <2>p4. FetchInv'
    BY <1>2, <2>1, RowFacts, PollFacts DEF NoPlugin
  <2>p5. FetchedOnce' /\ FinishedInHand'
    BY <1>2, <2>1, RowFacts, PollFacts DEF NoPlugin
  <2>q. QED
    BY <2>p1, <2>p2, <2>p3, <2>p4, <2>p5
<1>3. ASSUME NEW r \in Requests, NoAnswer(r) PROVE IInv'
  BY <1>3 DEF NoAnswer
<1>4. ASSUME NEW r \in Requests, Progress(r) PROVE IInv'
  <2>1. service[r] \in Statuses
    BY <1>4 DEF Progress, ServiceStates
  <2>p1. TypeOK'
    BY <1>4, <2>1 DEF Progress
  <2>p2. HandInv'
    BY <1>4, <2>1 DEF Progress
  <2>p3. AddInv'
    BY <1>4, <2>1 DEF Progress
  <2>p4. FetchInv'
    BY <1>4, <2>1 DEF Progress
  <2>p5. FetchedOnce' /\ FinishedInHand'
    BY <1>4, <2>1 DEF Progress
  <2>q. QED
    BY <2>p1, <2>p2, <2>p3, <2>p4, <2>p5
<1>5. CASE Record
  <2>1. poll.hand \in Requests /\ poll.saw \in Statuses
                               /\ row' = WithStatus(poll.hand, poll.saw)
    BY <1>5 DEF Record
  <2>2. fetched[poll.hand] = 0
    BY <1>5, <2>1 DEF Record
  <2>p1. TypeOK'
    <3>1. row' \in [Requests -> Statuses \cup {"none", "gone"}]
      BY <2>1, RowFacts
    <3>2. poll' \in [step : PollSteps, left : SUBSET Requests, hand : Requests \cup {None},
                     saw : Statuses \cup {None}]
      BY <1>5, <2>1, PollFacts DEF Record
    <3>q. QED
      BY <1>5, <3>1, <3>2 DEF Record
  <2>p2. HandInv'
    BY <1>5, <2>1, <2>2, RowFacts, PollFacts DEF Record
  <2>p3. AddInv'
    BY <1>5, <2>1, <2>2, RowFacts, PollFacts DEF Record
  <2>p4. FetchInv'
    <3>1. \A x \in Requests : x # poll.hand => row'[x] = row[x]
      BY <2>1, RowFacts
    <3>2. poll.saw = "finished" => row'[poll.hand] \notin {"pending", "processing"}
      BY <2>1, RowFacts
    <3>3. /\ poll'.left = poll.left
          /\ poll'.hand = IF poll.saw = "finished" THEN poll.hand ELSE None
          /\ poll'.step = IF poll.saw = "finished" THEN "download" ELSE "next"
      BY <1>5, PollFacts DEF Record
    <3>4. fetched' = fetched
      BY <1>5 DEF Record
    <3>q. QED
      BY <2>1, <2>2, <3>1, <3>2, <3>3, <3>4
  <2>p5. FetchedOnce' /\ FinishedInHand'
    BY <1>5, <2>1, <2>2, RowFacts, PollFacts DEF Record
  <2>q. QED
    BY <2>p1, <2>p2, <2>p3, <2>p4, <2>p5
<1>6. CASE RecordFails
  BY <1>6 DEF RecordFails
<1>7. CASE Download
  <2>1. poll.hand \in Requests /\ fetched[poll.hand] = 0
    BY <1>7 DEF Download
  <2>q. QED
    BY <1>7, <2>1 DEF Download
<1>8. CASE RemoveRow
  <2>1. poll.hand \in Requests
    BY <1>8 DEF RemoveRow
  <2>p1. TypeOK'
    BY <1>8, <2>1, PollFacts DEF RemoveRow
  <2>p2. HandInv'
    BY <1>8, <2>1, PollFacts DEF RemoveRow
  <2>p3. AddInv'
    BY <1>8, <2>1, PollFacts DEF RemoveRow
  <2>p4. FetchInv'
    BY <1>8, <2>1, PollFacts DEF RemoveRow
  <2>p5. FetchedOnce' /\ FinishedInHand'
    BY <1>8, <2>1, PollFacts DEF RemoveRow
  <2>q. QED
    BY <2>p1, <2>p2, <2>p3, <2>p4, <2>p5
<1>9. CASE DownloadFails
  <2>1. poll.hand \in Requests /\ fetched[poll.hand] = 0 /\ "error" \in Statuses
    BY <1>9 DEF DownloadFails
  <2>2. CASE row' = WithStatus(poll.hand, "error") /\ UNCHANGED cut
    <3>1. TypeOK'
      BY <1>9, <2>1, <2>2, RowFacts, PollFacts DEF DownloadFails
    <3>2. HandInv'
      BY <1>9, <2>1, <2>2, RowFacts, PollFacts DEF DownloadFails
    <3>3. AddInv'
      BY <1>9, <2>1, <2>2, RowFacts, PollFacts DEF DownloadFails
    <3>4. FetchInv'
      BY <1>9, <2>1, <2>2, RowFacts, PollFacts DEF DownloadFails
    <3>5. FetchedOnce'
      BY <1>9 DEF DownloadFails
    <3>6. FinishedInHand'
      <4>1. row'[poll.hand] # "finished"
        BY <2>1, <2>2, RowFacts
      <4>2. \A r \in Requests : r # poll.hand => row'[r] = row[r]
        BY <2>1, <2>2, RowFacts
      <4>q. QED
        BY <1>9, <2>1, <2>2, <4>1, <4>2 DEF DownloadFails
    <3>q. QED
      BY <3>1, <3>2, <3>3, <3>4, <3>5, <3>6
  <2>3. CASE cut' = cut \cup {poll.hand} /\ UNCHANGED row
    BY <1>9, <2>1, <2>3, PollFacts DEF DownloadFails
  <2>q. QED
    BY <1>9, <2>2, <2>3 DEF DownloadFails
<1>10. CASE EndPoll
  BY <1>10 DEF EndPoll
<1>11. CASE Crash
  BY <1>11 DEF Crash, Stopped
<1>q. QED
  BY <1>1, <1>2, <1>3, <1>4, <1>5, <1>6, <1>7, <1>8, <1>9, <1>10, <1>11 DEF Poll

\* Every step of the handlers and of the poll preserves the invariant.
LEMMA StepIInv == IInv /\ [Next]_vars => IInv'
<1>1. CASE UNCHANGED vars
  BY <1>1
    DEF vars, IInv, TypeOK, HandInv, AddInv, FetchInv, FetchedOnce, FinishedInHand,
        ActiveRows
<1>q. QED
  BY <1>1, HandlerStep, PollStep DEF Next

\* So it always holds.
LEMMA Inductive == Spec => []IInv
  BY InitIInv, StepIInv, PTL DEF Spec

-----------------------------------------------------------------------------
\* Well-typed states: what the poll writes is always a status.
THEOREM TypeCorrect == Spec => []TypeOK
<1>1. IInv => TypeOK
  BY DEF IInv
<1>q. QED
  BY <1>1, Inductive, PTL

\* However often the process stops, a finished request is downloaded once.
THEOREM FetchedOnceCorrect == Spec => []FetchedOnce
<1>1. IInv => FetchedOnce
  BY DEF IInv
<1>q. QED
  BY <1>1, Inductive, PTL

\* A row stays finished only while it is downloaded or after that was cut off.
THEOREM FinishedCorrect == Spec => []FinishedInHand
<1>1. IInv => FinishedInHand
  BY DEF IInv
<1>q. QED
  BY <1>1, Inductive, PTL

\* No late write of the poll or of a handler brings a removed row back.
THEOREM RemovedCorrect == Spec => RemovedStaysGone
<1> DEFINE Stays == \A r \in Requests : row[r] = "gone" => row'[r] = "gone"
<1>1. IInv /\ [Next]_vars => [Stays]_vars
  <2> SUFFICES ASSUME IInv, Next, NEW x \in Requests, row[x] = "gone" PROVE row'[x] = "gone"
    BY DEF Stays
  <2> USE DEF IInv, TypeOK, handlers
  <2>1. ASSUME NEW r \in Requests, ServiceEnds(r) \/ Handler(r) PROVE row'[x] = "gone"
    <3>1. CASE InsertRow(r)
      BY <3>1 DEF InsertRow, AddInv
    <3>2. CASE WritePaused(r)
      BY <3>2 DEF WritePaused, WithStatus, Statuses
    <3>3. CASE DeleteRow(r)
      BY <3>3 DEF DeleteRow
    <3>q. QED
      BY <2>1, <3>1, <3>2, <3>3
        DEF Handler, ServiceEnds, Ask, PauseService, RemoveAtService, HandlerStops
  <2>2. CASE Poll
    BY <2>2
      DEF Poll, StartPoll, Record, RecordFails, Download, RemoveRow, DownloadFails, EndPoll,
       NoPlugin, NoAnswer, Progress, WithStatus, Statuses
  <2>3. CASE Crash
    BY <2>3 DEF Crash
  <2>q. QED
    BY <2>1, <2>2, <2>3 DEF Next
<1>q. QED
  BY <1>1, Inductive, PTL DEF Spec, RemovedStaysGone

-----------------------------------------------------------------------------
(* Scheduler.                                                              *)

\* How many tasks of this item are at this stage.
At(i, s) == tasks[<<i, s>>]

\* A spawned task is of a stage its item can be in, and the only one of a
\* periodic task.
Single ==
  \A i, j \in Scheduler!Items, r, s \in Scheduler!Stages :
    i.task \in Periodic /\ j.task = i.task /\ At(i, r) > 0 /\ At(j, s) > 0
      => i = j /\ r = s /\ At(i, r) = 1

\* A periodic task waits in one item, and does not run meanwhile.
Apart ==
  /\ \A i, j \in queue : i.task \in Periodic /\ j.task = i.task => i = j
  /\ \A i \in queue, j \in Scheduler!Items, s \in Scheduler!Stages :
       i.task \in Periodic /\ j.task = i.task => At(j, s) = 0

\* A periodic task that was added and did not panic is somewhere.
Found ==
  \A t \in Periodic : ~Scheduler!Gone(t) =>
    \/ \E i \in queue : i.task = t
    \/ \E i \in Scheduler!Items, s \in Scheduler!Stages : i.task = t /\ At(i, s) > 0

\* And only such a task is.
Real ==
  /\ \A i \in queue : i.task \in Periodic => ~Scheduler!Gone(i.task)
  /\ \A i \in Scheduler!Items, s \in Scheduler!Stages : i.task \in Periodic /\ At(i, s) > 0 => ~Scheduler!Gone(i.task)

\* Only periodic items come back, and a task that panicked had been added.
Known ==
  /\ \A i \in Scheduler!Items : At(i, "ending") > 0 => i.task \in Periodic
  /\ \A i \in panicked : i.task \in Periodic => i.task \in added

\* The dates of the items.
Dated ==
  /\ \A t \in Periodic : ended[t] # NoItem => ended[t] <= clock
  /\ \A i \in queue : i.task \in Periodic /\ ended[i.task] # NoItem
       => ended[i.task] <= i.created
  /\ \A i \in Scheduler!Items : i.task \in Periodic /\ At(i, "spawned") > 0 /\ ended[i.task] # NoItem
       => ended[i.task] + Period[i.task] < clock

\* The inductive invariant of Scheduler.
SchedulerInv == Scheduler!TypeOK /\ Single /\ Apart /\ Found /\ Real /\ Known /\ Dated

-----------------------------------------------------------------------------
(* Items and stages.                                                       *)

\* The types of the fields of an item.
LEMMA ItemFacts ==
  /\ \A i \in Scheduler!Items : i.task \in Periodic \cup OneOff /\ i.created \in Scheduler!Times
  /\ \A i, j \in Scheduler!Items : i.task = j.task /\ i.created = j.created => i = j
  BY DEF Scheduler!Items

\* A task that is added now is dated now.
LEMMA NewItem ==
  ASSUME Scheduler!TypeOK, NEW t \in Periodic \cup OneOff
  PROVE  Scheduler!Item(t) \in Scheduler!Items /\ Scheduler!Item(t).task = t
                                               /\ Scheduler!Item(t).created = clock
  BY DEF Scheduler!TypeOK, Scheduler!Item, Scheduler!Items

\* What a step does to the counts, cell by cell.
LEMMA MovedFacts ==
  ASSUME Scheduler!TypeOK, NEW i \in Scheduler!Items, NEW a \in Scheduler!Stages,
         NEW b \in Scheduler!Stages, a # b, At(i, a) > 0
  PROVE  /\ Scheduler!Moved(i, a, b) \in [Scheduler!Items \X Scheduler!Stages -> Nat]
         /\ \A j \in Scheduler!Items, s \in Scheduler!Stages :
              Scheduler!Moved(i, a, b)[<<j, s>>] = IF j = i /\ s = a THEN At(j, s) - 1
                                         ELSE IF j = i /\ s = b THEN At(j, s) + 1
                                         ELSE At(j, s)
  BY DEF Scheduler!TypeOK, Scheduler!Moved, At

\* A task that leaves a stage leaves the others as they are.
LEMMA LeftFacts ==
  ASSUME Scheduler!TypeOK, NEW i \in Scheduler!Items, NEW a \in Scheduler!Stages, At(i, a) > 0
  PROVE  /\ Scheduler!Left(i, a) \in [Scheduler!Items \X Scheduler!Stages -> Nat]
         /\ \A j \in Scheduler!Items, s \in Scheduler!Stages :
              Scheduler!Left(i, a)[<<j, s>>] = IF j = i /\ s = a THEN At(j, s) - 1 ELSE At(j, s)
  BY DEF Scheduler!TypeOK, Scheduler!Left, At

\* A tick spawns one task for every item that is due.
LEMMA TickFacts ==
  ASSUME Scheduler!TypeOK, Scheduler!Tick
  PROVE  /\ tasks' \in [Scheduler!Items \X Scheduler!Stages -> Nat]
         /\ \A j \in Scheduler!Items, s \in Scheduler!Stages :
              tasks'[<<j, s>>] = IF j \in Scheduler!Due /\ s = "spawned" THEN At(j, s) + 1 ELSE At(j, s)
  BY DEF Scheduler!TypeOK, Scheduler!Tick, At

\* What is due waits, and a periodic task only once its period has passed.
LEMMA DueFacts ==
  ASSUME Scheduler!TypeOK
  PROVE  /\ Scheduler!Due \subseteq queue
         /\ \A i \in Scheduler!Due : i.task \in Periodic => i.created + Period[i.task] < clock
  BY DEF Scheduler!TypeOK, Scheduler!Due

\* A restart leaves no task behind.
LEMMA NoTaskFacts ==
  /\ Scheduler!NoTask \in [Scheduler!Items \X Scheduler!Stages -> Nat]
  /\ \A j \in Scheduler!Items, s \in Scheduler!Stages : Scheduler!NoTask[<<j, s>>] = 0
  BY DEF Scheduler!NoTask

\* The stages that a task goes through.
LEMMA StageFacts ==
  /\ "spawned" \in Scheduler!Stages /\ "executing" \in Scheduler!Stages
  /\ "ending" \in Scheduler!Stages
  BY DEF Scheduler!Stages

\* The stages of a task that starts.
LEMMA StartCells ==
  ASSUME Scheduler!TypeOK, NEW i \in Scheduler!Items, Scheduler!Start(i)
  PROVE  /\ At(i, "spawned") > 0
         /\ \A j \in Scheduler!Items, s \in Scheduler!Stages :
              tasks'[<<j, s>>] = IF j = i /\ s = "spawned" THEN At(j, s) - 1
                                 ELSE IF j = i /\ s = "executing" THEN At(j, s) + 1
                                 ELSE At(j, s)
  <1>1. At(i, "spawned") > 0 /\ tasks' = Scheduler!Moved(i, "spawned", "executing")
    BY DEF Scheduler!Start, At
  <1> QED
    BY <1>1, MovedFacts, StageFacts

\* The stages of a task that ends.
LEMMA EndCells ==
  ASSUME Scheduler!TypeOK, NEW i \in Scheduler!Items, Scheduler!End(i)
  PROVE  /\ At(i, "executing") > 0
         /\ \A j \in Scheduler!Items, s \in Scheduler!Stages :
              tasks'[<<j, s>>] = IF j = i /\ s = "executing" THEN At(j, s) - 1
                                 ELSE IF j = i /\ s = "ending" /\ i.task \in Periodic
                                      THEN At(j, s) + 1
                                 ELSE At(j, s)
  <1>1. At(i, "executing") > 0
    BY DEF Scheduler!End, At
  <1>2. CASE i.task \in Periodic
    <2>1. tasks' = Scheduler!Moved(i, "executing", "ending")
      BY <1>2 DEF Scheduler!End
    <2> QED
      BY <1>1, <1>2, <2>1, MovedFacts, StageFacts
  <1>3. CASE i.task \notin Periodic
    <2>1. tasks' = Scheduler!Left(i, "executing")
      BY <1>3 DEF Scheduler!End
    <2> QED
      BY <1>1, <1>3, <2>1, LeftFacts, StageFacts
  <1> QED
    BY <1>2, <1>3

\* The stages of a periodic task that is queued again.
LEMMA ReaddCells ==
  ASSUME Scheduler!TypeOK, NEW i \in Scheduler!Items, Scheduler!Readd(i)
  PROVE  /\ At(i, "ending") > 0
         /\ \A j \in Scheduler!Items, s \in Scheduler!Stages :
              tasks'[<<j, s>>] = IF j = i /\ s = "ending" THEN At(j, s) - 1 ELSE At(j, s)
  <1>1. At(i, "ending") > 0 /\ tasks' = Scheduler!Left(i, "ending")
    BY DEF Scheduler!Readd, At
  <1> QED
    BY <1>1, LeftFacts, StageFacts

\* The stages of a task that panics.
LEMMA PanicCells ==
  ASSUME Scheduler!TypeOK, NEW i \in Scheduler!Items, Scheduler!Panic(i)
  PROVE  /\ At(i, "executing") > 0
         /\ \A j \in Scheduler!Items, s \in Scheduler!Stages :
              tasks'[<<j, s>>] = IF j = i /\ s = "executing" THEN At(j, s) - 1 ELSE At(j, s)
  <1>1. At(i, "executing") > 0 /\ tasks' = Scheduler!Left(i, "executing")
    BY DEF Scheduler!Panic, At
  <1> QED
    BY <1>1, LeftFacts, StageFacts

-----------------------------------------------------------------------------
(* Every number in sight is one.                                           *)
LEMMA NumberFacts ==
  ASSUME Scheduler!TypeOK
  PROVE  /\ clock \in Nat
         /\ \A i \in Scheduler!Items, s \in Scheduler!Stages : At(i, s) \in Nat
         /\ \A i \in Scheduler!Items : i.created \in Nat
         /\ \A t \in Periodic : Period[t] \in Nat
         /\ \A t \in Periodic : ended[t] # NoItem => ended[t] \in Nat
         /\ queue \subseteq Scheduler!Items
         /\ panicked \subseteq Scheduler!Items
  BY SchedulerAssumption, ItemFacts DEF Scheduler!TypeOK, At, Scheduler!Times

\* The scheduler starts with nothing queued, nothing spawned.
LEMMA SchedulerInitIInv == Scheduler!Init => SchedulerInv
  <1> SUFFICES ASSUME Scheduler!Init PROVE SchedulerInv
    OBVIOUS
  <1>1. Scheduler!TypeOK
    BY SchedulerAssumption, NoTaskFacts DEF Scheduler!Init, Scheduler!TypeOK, Scheduler!Times
  <1>2. \A i \in Scheduler!Items, s \in Scheduler!Stages : At(i, s) = 0
    BY NoTaskFacts DEF Scheduler!Init, At
  <1>3. Single /\ Apart /\ Found /\ Real /\ Known /\ Dated
    BY <1>2, StageFacts
      DEF Scheduler!Init, Single, Apart, Found, Real, Known, Dated, Scheduler!Gone
  <1> QED
    BY <1>1, <1>3 DEF SchedulerInv

-----------------------------------------------------------------------------
(* Each action keeps the invariant.                                        *)

\* Every step keeps the types.
LEMMA TypeStep == Scheduler!TypeOK /\ [Scheduler!Next]_schedulerVars => Scheduler!TypeOK'
  <1> SUFFICES ASSUME Scheduler!TypeOK, [Scheduler!Next]_schedulerVars PROVE Scheduler!TypeOK'
    OBVIOUS
  <1> USE StageFacts
  <1>1. CASE Scheduler!Second
    BY <1>1, SchedulerAssumption DEF Scheduler!Second, Scheduler!TypeOK, Scheduler!Times
  <1>2. ASSUME NEW t \in Periodic, Scheduler!AddPeriodic(t) PROVE Scheduler!TypeOK'
    BY <1>2, NewItem DEF Scheduler!AddPeriodic, Scheduler!TypeOK
  <1>3. ASSUME NEW q \in Calls, Scheduler!Add(q) PROVE Scheduler!TypeOK'
    BY <1>3, NewItem, SchedulerAssumption DEF Scheduler!Add, Scheduler!TypeOK
  <1>4. CASE Scheduler!Tick
    <2>1. tasks' \in [Scheduler!Items \X Scheduler!Stages -> Nat]
      BY <1>4, TickFacts
    <2> QED
      BY <1>4, <2>1 DEF Scheduler!Tick, Scheduler!TypeOK
  <1>5. ASSUME NEW i \in Scheduler!Items, Scheduler!Start(i) PROVE Scheduler!TypeOK'
    <2>1. tasks' \in [Scheduler!Items \X Scheduler!Stages -> Nat]
      BY <1>5, MovedFacts DEF Scheduler!Start, At
    <2> QED
      BY <1>5, <2>1 DEF Scheduler!Start, Scheduler!TypeOK
  <1>6. ASSUME NEW i \in Scheduler!Items, Scheduler!End(i) PROVE Scheduler!TypeOK'
    <2>1. tasks' \in [Scheduler!Items \X Scheduler!Stages -> Nat]
      BY <1>6, MovedFacts, LeftFacts DEF Scheduler!End, At
    <2>2. ended' \in [Periodic -> Scheduler!Times \cup {NoItem}]
      BY <1>6 DEF Scheduler!End, Scheduler!TypeOK
    <2> QED
      BY <1>6, <2>1, <2>2 DEF Scheduler!End, Scheduler!TypeOK
  <1>7. ASSUME NEW i \in Scheduler!Items, Scheduler!Readd(i) PROVE Scheduler!TypeOK'
    <2>1. tasks' \in [Scheduler!Items \X Scheduler!Stages -> Nat]
      BY <1>7, LeftFacts DEF Scheduler!Readd, At
    <2>2. Scheduler!Item(i.task) \in Scheduler!Items
      BY NewItem, ItemFacts
    <2> QED
      BY <1>7, <2>1, <2>2 DEF Scheduler!Readd, Scheduler!TypeOK
  <1>8. ASSUME NEW i \in Scheduler!Items, Scheduler!Panic(i) PROVE Scheduler!TypeOK'
    <2>1. tasks' \in [Scheduler!Items \X Scheduler!Stages -> Nat]
      BY <1>8, LeftFacts DEF Scheduler!Panic, At
    <2> QED
      BY <1>8, <2>1 DEF Scheduler!Panic, Scheduler!TypeOK
  <1>9. CASE Scheduler!Restart
    BY <1>9, NoTaskFacts DEF Scheduler!Restart, Scheduler!TypeOK
  <1>10. CASE UNCHANGED schedulerVars
    BY <1>10 DEF Scheduler!vars, schedulerVars, Scheduler!TypeOK
  <1> QED
    BY <1>1, <1>2, <1>3, <1>4, <1>5, <1>6, <1>7, <1>8, <1>9, <1>10 DEF Scheduler!Next

\* What the invariant says beyond the types.
Rest == Single /\ Apart /\ Found /\ Real /\ Known /\ Dated

\* Every step keeps the rest.
LEMMA RestStep == SchedulerInv /\ [Scheduler!Next]_schedulerVars => Rest'
  <1> SUFFICES ASSUME SchedulerInv, [Scheduler!Next]_schedulerVars PROVE Rest'
    OBVIOUS
  <1>0. Scheduler!TypeOK /\ Single /\ Apart /\ Found /\ Real /\ Known /\ Dated
                         /\ Scheduler!TypeOK'
    BY TypeStep DEF SchedulerInv
  <1> USE <1>0, StageFacts, NumberFacts
  <1>1. CASE Scheduler!Second
    <2>1. Single'
      BY <1>1 DEF Scheduler!Second, Single, Apart, At
    <2>2. Apart'
      BY <1>1 DEF Scheduler!Second, Apart, Single, At
    <2>3. Found'
      BY <1>1 DEF Scheduler!Second, Found, Single, Apart, Known, Scheduler!Gone, At
    <2>4. Real'
      BY <1>1 DEF Scheduler!Second, Real, Single, Apart, Known, Scheduler!Gone, At
    <2>5. Known'
      BY <1>1 DEF Scheduler!Second, Known, Real, Scheduler!Gone, At
    <2>6. Dated'
      BY <1>1 DEF Scheduler!Second, Dated, Single, Apart, At
    <2> QED
      BY <2>1, <2>2, <2>3, <2>4, <2>5, <2>6 DEF Rest
  <1>2. ASSUME NEW t \in Periodic, Scheduler!AddPeriodic(t) PROVE Rest'
    <2>1. /\ Scheduler!Item(t) \in Scheduler!Items /\ Scheduler!Item(t).task = t
          /\ Scheduler!Item(t).created = clock
          /\ queue' = queue \cup {Scheduler!Item(t)}
      BY <1>2, NewItem DEF Scheduler!AddPeriodic
    <2>2. /\ \A i \in queue : i.task # t
          /\ \A i \in Scheduler!Items, s \in Scheduler!Stages : i.task = t => At(i, s) = 0
          /\ ~\E i \in panicked : i.task = t
      BY <1>2 DEF Scheduler!AddPeriodic, Real, Known, Scheduler!Gone
    <2>3. Single'
      BY <1>2, <2>1, <2>2 DEF Scheduler!AddPeriodic, Single, Apart, At
    <2>4. Apart'
      BY <1>2, <2>1, <2>2 DEF Scheduler!AddPeriodic, Apart, Single, At
    <2>5. Found'
      BY <1>2, <2>1, <2>2
        DEF Scheduler!AddPeriodic, Found, Single, Apart, Known, Scheduler!Gone, At
    <2>6. Real'
      BY <1>2, <2>1, <2>2
        DEF Scheduler!AddPeriodic, Real, Single, Apart, Known, Scheduler!Gone, At
    <2>7. Known'
      BY <1>2, <2>1, <2>2 DEF Scheduler!AddPeriodic, Known, Real, Scheduler!Gone, At
    <2>8. Dated'
      BY <1>2, <2>1, <2>2 DEF Scheduler!AddPeriodic, Dated, Single, Apart, At
    <2> QED
      BY <2>3, <2>4, <2>5, <2>6, <2>7, <2>8 DEF Rest
  <1>3. ASSUME NEW q \in Calls, Scheduler!Add(q) PROVE Rest'
    <2>1. Scheduler!Item(TaskOf[q]) \in Scheduler!Items /\ Scheduler!Item(TaskOf[q]).task \notin Periodic
      BY NewItem, SchedulerAssumption
    <2>2. Single' /\ Apart' /\ Known'
      BY <1>3, <2>1 DEF Scheduler!Add, Single, Apart, Known, At
    <2>3. Found' /\ Real'
      BY <1>3, <2>1 DEF Scheduler!Add, Found, Real, Scheduler!Gone, At
    <2>4. Dated'
      BY <1>3, <2>1 DEF Scheduler!Add, Dated, At
    <2> QED
      BY <2>2, <2>3, <2>4 DEF Rest
  <1>4. CASE Scheduler!Tick
    <2>1. \A j \in Scheduler!Items, s \in Scheduler!Stages :
            tasks'[<<j, s>>] = IF j \in Scheduler!Due /\ s = "spawned" THEN At(j, s) + 1 ELSE At(j, s)
      BY <1>4, TickFacts
    <2>2. /\ Scheduler!Due \subseteq queue
          /\ \A i \in Scheduler!Due : i.task \in Periodic => i.created + Period[i.task] < clock
      BY DueFacts
    <2>3. Single'
      BY <1>4, <2>1, <2>2 DEF Scheduler!Tick, Single, Apart, At
    <2>4. Apart'
      BY <1>4, <2>1, <2>2 DEF Scheduler!Tick, Apart, Single, At
    <2>5. Found'
      <3> SUFFICES ASSUME NEW t \in Periodic, ~Scheduler!Gone(t)'
                   PROVE  \/ \E j \in queue' : j.task = t
                          \/ \E j \in Scheduler!Items, s \in Scheduler!Stages : j.task = t /\ At(j, s)' > 0
        BY DEF Found
      <3>1. ~Scheduler!Gone(t)
        BY <1>4, <2>1, <2>2 DEF Scheduler!Tick, Scheduler!Gone
      <3>2. CASE \E j \in queue : j.task = t
        <4>1. PICK j \in queue : j.task = t
          BY <3>2
        <4>2. CASE j \in Scheduler!Due
          <5>1. At(j, "spawned")' > 0
            BY <1>4, <2>1, <2>2, <4>2 DEF At
          <5> QED
            BY <4>1, <5>1
        <4>3. CASE j \notin Scheduler!Due
          BY <1>4, <2>1, <2>2, <4>1, <4>3 DEF Scheduler!Tick
        <4> QED
          BY <4>2, <4>3
      <3>3. ASSUME NEW j \in Scheduler!Items, NEW s \in Scheduler!Stages, j.task = t, At(j, s) > 0
            PROVE  \/ \E k \in queue' : k.task = t
                   \/ \E k \in Scheduler!Items, r \in Scheduler!Stages : k.task = t /\ At(k, r)' > 0
        <4>1. At(j, s)' > 0
          BY <1>4, <2>1, <2>2, <3>3 DEF At
        <4> QED
          BY <3>3, <4>1
      <3> QED
        BY <3>1, <3>2, <3>3 DEF Found
    <2>6. Real'
      BY <1>4, <2>1, <2>2 DEF Scheduler!Tick, Real, Single, Apart, Known, Scheduler!Gone, At
    <2>7. Known'
      BY <1>4, <2>1, <2>2 DEF Scheduler!Tick, Known, Real, Scheduler!Gone, At
    <2>8. Dated'
      BY <1>4, <2>1, <2>2 DEF Scheduler!Tick, Dated, Single, Apart, At
    <2> QED
      BY <2>3, <2>4, <2>5, <2>6, <2>7, <2>8 DEF Rest
  <1>5. ASSUME NEW i \in Scheduler!Items, Scheduler!Start(i) PROVE Rest'
    <2>1. Single'
      BY <1>5, StartCells DEF Scheduler!Start, Single, Apart, At
    <2>2. Apart'
      BY <1>5, StartCells DEF Scheduler!Start, Apart, Single, At
    <2>3. Found'
      <3> SUFFICES ASSUME NEW t \in Periodic, ~Scheduler!Gone(t)'
                   PROVE  \/ \E j \in queue' : j.task = t
                          \/ \E j \in Scheduler!Items, s \in Scheduler!Stages : j.task = t /\ At(j, s)' > 0
        BY DEF Found
      <3>1. ~Scheduler!Gone(t)
        BY <1>5, StartCells DEF Scheduler!Start, Scheduler!Gone
      <3>2. CASE \E j \in queue : j.task = t
        BY <1>5, StartCells, <3>2 DEF Scheduler!Start, At
      <3>3. ASSUME NEW j \in Scheduler!Items, NEW s \in Scheduler!Stages, j.task = t, At(j, s) > 0
            PROVE  \/ \E k \in queue' : k.task = t
                   \/ \E k \in Scheduler!Items, r \in Scheduler!Stages : k.task = t /\ At(k, r)' > 0
        <4>1. CASE j = i /\ s = "spawned"
          <5>1. At(i, "executing")' > 0
            BY <1>5, StartCells, <3>3, <4>1 DEF At
          <5> QED
            BY <3>3, <4>1, <5>1
        <4>2. CASE ~(j = i /\ s = "spawned")
          <5>1. tasks'[<<j, s>>] \in Nat /\ tasks'[<<j, s>>] >= At(j, s)
            BY <1>5, StartCells, <4>2
          <5>2. At(j, s)' > 0
            BY <3>3, <5>1 DEF At
          <5> QED
            BY <3>3, <5>2
        <4> QED
          BY <4>1, <4>2
      <3> QED
        BY <3>1, <3>2, <3>3 DEF Found
    <2>4. Real'
      BY <1>5, StartCells DEF Scheduler!Start, Real, Single, Apart, Known, Scheduler!Gone, At
    <2>5. Known'
      BY <1>5, StartCells DEF Scheduler!Start, Known, Real, Scheduler!Gone, At
    <2>6. Dated'
      BY <1>5, StartCells DEF Scheduler!Start, Dated, Single, Apart, At
    <2> QED
      BY <2>1, <2>2, <2>3, <2>4, <2>5, <2>6 DEF Rest
  <1>6. ASSUME NEW i \in Scheduler!Items, Scheduler!End(i) PROVE Rest'
    <2>1. Single'
      BY <1>6, EndCells DEF Scheduler!End, Single, Apart, At
    <2>2. Apart'
      BY <1>6, EndCells DEF Scheduler!End, Apart, Single, At
    <2>3. Found'
      <3> SUFFICES ASSUME NEW t \in Periodic, ~Scheduler!Gone(t)'
                   PROVE  \/ \E j \in queue' : j.task = t
                          \/ \E j \in Scheduler!Items, s \in Scheduler!Stages : j.task = t /\ At(j, s)' > 0
        BY DEF Found
      <3>1. ~Scheduler!Gone(t)
        BY <1>6, EndCells DEF Scheduler!End, Scheduler!Gone
      <3>2. CASE \E j \in queue : j.task = t
        BY <1>6, EndCells, <3>2 DEF Scheduler!End, At
      <3>3. ASSUME NEW j \in Scheduler!Items, NEW s \in Scheduler!Stages, j.task = t, At(j, s) > 0
            PROVE  \/ \E k \in queue' : k.task = t
                   \/ \E k \in Scheduler!Items, r \in Scheduler!Stages : k.task = t /\ At(k, r)' > 0
        <4>1. CASE j = i /\ s = "executing"
          <5>1. At(i, "ending")' > 0
            BY <1>6, EndCells, <3>3, <4>1 DEF At
          <5> QED
            BY <3>3, <4>1, <5>1
        <4>2. CASE ~(j = i /\ s = "executing")
          <5>1. tasks'[<<j, s>>] \in Nat /\ tasks'[<<j, s>>] >= At(j, s)
            BY <1>6, EndCells, <4>2
          <5>2. At(j, s)' > 0
            BY <3>3, <5>1 DEF At
          <5> QED
            BY <3>3, <5>2
        <4> QED
          BY <4>1, <4>2
      <3> QED
        BY <3>1, <3>2, <3>3 DEF Found
    <2>4. Real'
      BY <1>6, EndCells DEF Scheduler!End, Real, Single, Apart, Known, Scheduler!Gone, At
    <2>5. Known'
      BY <1>6, EndCells DEF Scheduler!End, Known, Real, Scheduler!Gone, At
    <2>6. Dated'
      BY <1>6, EndCells DEF Scheduler!End, Dated, Single, Apart, At
    <2> QED
      BY <2>1, <2>2, <2>3, <2>4, <2>5, <2>6 DEF Rest
  <1>7. ASSUME NEW i \in Scheduler!Items, Scheduler!Readd(i) PROVE Rest'
    <2>1. i.task \in Periodic
      BY <1>7, ReaddCells DEF Known
    <2>2. /\ Scheduler!Item(i.task) \in Scheduler!Items /\ Scheduler!Item(i.task).task = i.task
          /\ Scheduler!Item(i.task).created = clock
          /\ queue' = queue \cup {Scheduler!Item(i.task)}
      BY <1>7, <2>1, NewItem DEF Scheduler!Readd
    <2>3. Single'
      BY <1>7, <2>1, <2>2, ReaddCells DEF Scheduler!Readd, Single, Apart, At
    <2>4. Apart'
      BY <1>7, <2>1, <2>2, ReaddCells DEF Scheduler!Readd, Apart, Single, At
    <2>5. Found'
      <3> SUFFICES ASSUME NEW t \in Periodic, ~Scheduler!Gone(t)'
                   PROVE  \/ \E j \in queue' : j.task = t
                          \/ \E j \in Scheduler!Items, s \in Scheduler!Stages : j.task = t /\ At(j, s)' > 0
        BY DEF Found
      <3>1. ~Scheduler!Gone(t)
        BY <1>7, <2>1, <2>2, ReaddCells DEF Scheduler!Readd, Scheduler!Gone
      <3>2. CASE \E j \in queue : j.task = t
        BY <1>7, <2>1, <2>2, ReaddCells, <3>2 DEF Scheduler!Readd, At
      <3>3. ASSUME NEW j \in Scheduler!Items, NEW s \in Scheduler!Stages, j.task = t, At(j, s) > 0
            PROVE  \/ \E k \in queue' : k.task = t
                   \/ \E k \in Scheduler!Items, r \in Scheduler!Stages : k.task = t /\ At(k, r)' > 0
        <4>1. CASE t = i.task
          BY <1>7, <2>1, <2>2, ReaddCells, <4>1
        <4>2. CASE t # i.task
          <5>1. At(j, s)' > 0
            BY <1>7, <2>1, <2>2, ReaddCells, <3>3, <4>2 DEF At
          <5> QED
            BY <3>3, <5>1
        <4> QED
          BY <4>1, <4>2
      <3> QED
        BY <3>1, <3>2, <3>3 DEF Found
    <2>6. Real'
      BY <1>7, <2>1, <2>2, ReaddCells
        DEF Scheduler!Readd, Real, Single, Apart, Known, Scheduler!Gone, At
    <2>7. Known'
      BY <1>7, <2>1, <2>2, ReaddCells DEF Scheduler!Readd, Known, Real, Scheduler!Gone, At
    <2>8. Dated'
      BY <1>7, <2>1, <2>2, ReaddCells DEF Scheduler!Readd, Dated, Single, Apart, At
    <2> QED
      BY <2>3, <2>4, <2>5, <2>6, <2>7, <2>8 DEF Rest
  <1>8. ASSUME NEW i \in Scheduler!Items, Scheduler!Panic(i) PROVE Rest'
    <2>1. Single'
      BY <1>8, PanicCells DEF Scheduler!Panic, Single, Apart, At
    <2>2. Apart'
      BY <1>8, PanicCells DEF Scheduler!Panic, Apart, Single, At
    <2>3. Found'
      <3> SUFFICES ASSUME NEW t \in Periodic, ~Scheduler!Gone(t)'
                   PROVE  \/ \E j \in queue' : j.task = t
                          \/ \E j \in Scheduler!Items, s \in Scheduler!Stages : j.task = t /\ At(j, s)' > 0
        BY DEF Found
      <3>1. ~Scheduler!Gone(t)
        BY <1>8, PanicCells DEF Scheduler!Panic, Scheduler!Gone
      <3>2. CASE \E j \in queue : j.task = t
        BY <1>8, PanicCells, <3>2 DEF Scheduler!Panic, At
      <3>3. ASSUME NEW j \in Scheduler!Items, NEW s \in Scheduler!Stages, j.task = t, At(j, s) > 0
            PROVE  \/ \E k \in queue' : k.task = t
                   \/ \E k \in Scheduler!Items, r \in Scheduler!Stages : k.task = t /\ At(k, r)' > 0
        <4>1. i.task # t
          BY <1>8, PanicCells, <3>1 DEF Scheduler!Panic, Scheduler!Gone
        <4>2. At(j, s)' > 0
          BY <1>8, PanicCells, <3>3, <4>1 DEF At
        <4> QED
          BY <3>3, <4>2
      <3> QED
        BY <3>1, <3>2, <3>3 DEF Found
    <2>4. Real'
      BY <1>8, PanicCells DEF Scheduler!Panic, Real, Single, Apart, Known, Scheduler!Gone, At
    <2>5. Known'
      BY <1>8, PanicCells DEF Scheduler!Panic, Known, Real, Scheduler!Gone, At
    <2>6. Dated'
      BY <1>8, PanicCells DEF Scheduler!Panic, Dated, Single, Apart, At
    <2> QED
      BY <2>1, <2>2, <2>3, <2>4, <2>5, <2>6 DEF Rest
  <1>9. CASE Scheduler!Restart
    BY <1>9, NoTaskFacts
      DEF Scheduler!Restart, Rest, Single, Apart, Found, Real, Known, Dated, Scheduler!Gone,
          At
  <1>10. CASE UNCHANGED schedulerVars
    <2>1. UNCHANGED <<queue, tasks, panicked, added, ended, clock>>
      BY <1>10 DEF Scheduler!vars, schedulerVars
    <2>2. Single' /\ Apart' /\ Known'
      BY <2>1 DEF Single, Apart, Known, At
    <2>3. Found' /\ Real'
      BY <2>1 DEF Found, Real, Scheduler!Gone, At
    <2>4. Dated'
      BY <2>1 DEF Dated, At
    <2> QED
      BY <2>2, <2>3, <2>4 DEF Rest
  <1> QED
    BY <1>1, <1>2, <1>3, <1>4, <1>5, <1>6, <1>7, <1>8, <1>9, <1>10 DEF Scheduler!Next

\* So every step preserves the invariant.
LEMMA SchedulerStepIInv == SchedulerInv /\ [Scheduler!Next]_schedulerVars => SchedulerInv'
  BY TypeStep, RestStep DEF SchedulerInv, Rest

\* So it always holds.
LEMMA SchedulerInductive == Scheduler!Spec => []SchedulerInv
  BY SchedulerInitIInv, SchedulerStepIInv, PTL DEF Scheduler!Spec, Scheduler!vars, schedulerVars

-----------------------------------------------------------------------------
(* The properties.                                                         *)

\* Well-typed states: the type of every variable of the scheduler.
THEOREM SchedulerTypeCorrect == Scheduler!Spec => []Scheduler!TypeOK
  <1>1. SchedulerInv => Scheduler!TypeOK
    BY DEF SchedulerInv
  <1> QED
    BY <1>1, SchedulerInductive, PTL

\* A periodic task is in one place.
THEOREM OnePlaceCorrect == Scheduler!Spec => []Scheduler!OnePlace
  <1>1. ASSUME SchedulerInv PROVE Scheduler!OnePlace
    <2> SUFFICES ASSUME NEW t \in Periodic
                 PROVE  IF Scheduler!Gone(t) THEN Scheduler!Waiting(t) = {} /\ Scheduler!Held(t) = {}
                        ELSE \/ \E i \in Scheduler!Items : Scheduler!Waiting(t) = {i} /\ Scheduler!Held(t) = {}
                             \/ /\ Scheduler!Waiting(t) = {}
                                /\ \E x \in Scheduler!Items \X Scheduler!Stages : Scheduler!Held(t) = {x} /\ tasks[x] = 1
      BY DEF Scheduler!OnePlace
    <2>0. Scheduler!TypeOK /\ Single /\ Apart /\ Found /\ Real
      BY <1>1 DEF SchedulerInv
    <2> USE <2>0, NumberFacts
    <2>1. CASE Scheduler!Gone(t)
      <3>1. Scheduler!Waiting(t) = {}
        BY <2>1 DEF Scheduler!Waiting, Real
      <3>2. Scheduler!Held(t) = {}
        BY <2>1 DEF Scheduler!Held, Real, At
      <3> QED
        BY <2>1, <3>1, <3>2
    <2>2. ASSUME ~Scheduler!Gone(t), NEW i \in queue, i.task = t
          PROVE  i \in Scheduler!Items /\ Scheduler!Waiting(t) = {i} /\ Scheduler!Held(t) = {}
      <3>1. Scheduler!Waiting(t) = {i}
        BY <2>2 DEF Scheduler!Waiting, Apart
      <3>2. Scheduler!Held(t) = {}
        BY <2>2 DEF Scheduler!Held, Apart, At
      <3> QED
        BY <3>1, <3>2
    <2>3. ASSUME ~Scheduler!Gone(t), NEW i \in Scheduler!Items, NEW s \in Scheduler!Stages, i.task = t, At(i, s) > 0
          PROVE  Scheduler!Waiting(t) = {} /\ Scheduler!Held(t) = {<<i, s>>}
                                           /\ tasks[<<i, s>>] = 1
      <3>1. Scheduler!Waiting(t) = {}
        BY <2>3 DEF Scheduler!Waiting, Apart
      <3>2. tasks[<<i, s>>] = 1
        BY <2>3 DEF Single, At
      <3>3. ASSUME NEW x \in Scheduler!Held(t) PROVE x = <<i, s>>
        <4>1. PICK j \in Scheduler!Items, r \in Scheduler!Stages : x = <<j, r>>
          BY <3>3 DEF Scheduler!Held
        <4>2. j.task = t /\ At(j, r) > 0
          BY <3>3, <4>1 DEF Scheduler!Held, At
        <4> QED
          BY <2>3, <4>1, <4>2 DEF Single
      <3>4. <<i, s>> \in Scheduler!Held(t)
        BY <2>3 DEF Scheduler!Held, At
      <3> QED
        BY <3>1, <3>2, <3>3, <3>4
    <2> QED
      <3>1. CASE \E i \in queue : i.task = t
        BY <2>1, <2>2, <3>1
      <3>2. CASE \E i \in Scheduler!Items, s \in Scheduler!Stages : i.task = t /\ At(i, s) > 0
        BY <2>1, <2>3, <3>2
      <3> QED
        BY <2>1, <3>1, <3>2 DEF Found
  <1> QED
    BY <1>1, SchedulerInductive, PTL

\* Between the end of a periodic task and its next start its period passes.
THEOREM PeriodCorrect == Scheduler!Spec => Scheduler!PeriodPasses
  <1>1. ASSUME SchedulerInv, [Scheduler!Next]_schedulerVars, NEW i \in Scheduler!Items, i.task \in Periodic
        PROVE  Scheduler!Spaced(i)
    <2> SUFFICES ASSUME tasks'[<<i, "executing">>] > At(i, "executing"), ended[i.task] # NoItem
                 PROVE  ended[i.task] + Period[i.task] < clock
      BY DEF Scheduler!Spaced, At
    <2>0. Scheduler!TypeOK /\ Dated
      BY <1>1 DEF SchedulerInv
    <2> USE <2>0, NumberFacts, StageFacts
    <2>a. tasks'[<<i, "executing">>] > At(i, "executing")
      OBVIOUS
    <2>1. ASSUME NEW j \in Scheduler!Items, Scheduler!Start(j) PROVE j = i /\ At(i, "spawned") > 0
      BY <2>1, <2>a, StartCells
    <2>2. \E j \in Scheduler!Items : Scheduler!Start(j)
      <3>1. ASSUME NEW j \in Scheduler!Items, Scheduler!End(j) PROVE FALSE
        BY <3>1, EndCells, <2>a
      <3>2. ASSUME NEW j \in Scheduler!Items, Scheduler!Readd(j) PROVE FALSE
        BY <3>2, ReaddCells, <2>a
      <3>3. ASSUME NEW j \in Scheduler!Items, Scheduler!Panic(j) PROVE FALSE
        BY <3>3, PanicCells, <2>a
      <3>4. ~Scheduler!Tick
        BY TickFacts
      <3>5. ~Scheduler!Restart
        BY NoTaskFacts DEF Scheduler!Restart
      <3>6. tasks' # tasks
        BY DEF At
      <3> QED
        BY <1>1, <3>1, <3>2, <3>3, <3>4, <3>5, <3>6
          DEF Scheduler!Next, Scheduler!Second, Scheduler!AddPeriodic, Scheduler!Add,
              Scheduler!vars, schedulerVars
    <2> QED
      BY <1>1, <2>1, <2>2 DEF Dated
  <1>2. SchedulerInv /\ [Scheduler!Next]_schedulerVars =>
        [\A i \in Scheduler!Items : i.task \in Periodic => Scheduler!Spaced(i)]_schedulerVars
    BY <1>1
  <1> QED
    BY <1>2, SchedulerInductive, PTL
      DEF Scheduler!Spec, Scheduler!PeriodPasses, Scheduler!vars, schedulerVars


=============================================================================
