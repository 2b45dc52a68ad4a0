------------------------------ MODULE Scheduler ------------------------------
(***************************************************************************)
(* The task scheduler (src/src/tools/scheduler/mod.rs): a queue of items,  *)
(* a loop that takes the due ones every 15 seconds and spawns them, and    *)
(* the return of the periodic ones to the queue.  Periodic tasks are added *)
(* once at startup (src/src/model/mod.rs), the others by requests.         *)
(*                                                                         *)
(* An item is its kind and parameters (here a task), when it is due and    *)
(* the second it was created: like items of one second are one in the set. *)
(***************************************************************************)
EXTENDS SchedulerTasks

Stages == {"spawned", "executing", "ending"}

VARIABLES
  clock,      \* seconds
  queue,      \* the items waiting
  tasks,      \* how many spawned tasks hold an item, by stage
  running,    \* the items told to be running
  panicked,   \* the items whose task panicked
  added,      \* periodic tasks added since the start
  ended,      \* when each periodic task last ended, NoItem if it did not
  asked,      \* the item each request added, NoItem before
  served,     \* requests whose task has started since
  dropped     \* requests whose item was in memory when the process stopped

vars == <<clock, queue, tasks, running, panicked, added, ended, asked, served, dropped>>

TypeOK ==
  /\ clock \in Times
  /\ queue \subseteq Items
  /\ tasks \in [Items \X Stages -> Nat]
  /\ running \subseteq Items
  /\ panicked \subseteq Items
  /\ added \subseteq Periodic
  /\ ended \in [Periodic -> Times \cup {NoItem}]
  /\ asked \in [Calls -> Items \cup {NoItem}]
  /\ served \subseteq Calls
  /\ dropped \subseteq Calls

NoTask == [x \in Items \X Stages |-> 0]

Init ==
  /\ clock = 0
  /\ queue = {}
  /\ tasks = NoTask
  /\ running = {}
  /\ panicked = {}
  /\ added = {}
  /\ ended = [t \in Periodic |-> NoItem]
  /\ asked = [q \in Calls |-> NoItem]
  /\ served = {}
  /\ dropped = {}

Item(t) == [task |-> t, created |-> clock]

\* schedule_time() < now.
Due == {i \in queue : IF i.task \in Periodic THEN i.created + Period[i.task] < clock
                      ELSE 0 < clock}

\* One task passes from a stage to another.
Moved(i, from, to) == [tasks EXCEPT ![<<i, from>>] = @ - 1, ![<<i, to>>] = @ + 1]
Left(i, from)      == [tasks EXCEPT ![<<i, from>>] = @ - 1]

-----------------------------------------------------------------------------
Second ==
  /\ clock < MaxClock
  /\ clock' = clock + 1
  /\ UNCHANGED <<queue, tasks, running, panicked, added, ended, asked, served, dropped>>

\* ModelController::new: the loop has already started.
AddPeriodic(t) ==
  /\ t \notin added
  /\ added' = added \cup {t}
  /\ queue' = queue \cup {Item(t)}
  /\ UNCHANGED <<clock, tasks, running, panicked, ended, asked, served, dropped>>

\* A request adds its task.
Add(q) ==
  /\ asked[q] = NoItem
  /\ asked' = [asked EXCEPT ![q] = Item(TaskOf[q])]
  /\ queue' = queue \cup {Item(TaskOf[q])}
  /\ UNCHANGED <<clock, tasks, running, panicked, added, ended, served, dropped>>

\* Mutant: a due item whose like is running is taken for done.
TickOnce ==
  /\ Due # {}
  /\ queue' = queue \ Due
  /\ tasks' = [x \in Items \X Stages |->
       IF x[1] \in Due \ running /\ x[2] = "spawned" THEN tasks[x] + 1 ELSE tasks[x]]
  /\ UNCHANGED <<clock, running, panicked, added, ended, asked, served, dropped>>

\* tick, under the lock of the queue from the filter to the last take.
Tick ==
  /\ Due # {}
  /\ queue' = queue \ Due
  /\ tasks' = [x \in Items \X Stages |->
       IF x[1] \in Due /\ x[2] = "spawned" THEN tasks[x] + 1 ELSE tasks[x]]
  /\ UNCHANGED <<clock, running, panicked, added, ended, asked, served, dropped>>

\* to_task and the entry in running, under its lock; then the task executes.
Start(i) ==
  /\ tasks[<<i, "spawned">>] > 0
  /\ tasks' = Moved(i, "spawned", "executing")
  /\ running' = running \cup {i}
  /\ served' = served \cup {q \in Calls \ dropped :
                              asked[q] # NoItem /\ TaskOf[q] = i.task}
  /\ UNCHANGED <<clock, queue, panicked, added, ended, asked, dropped>>

\* Mutant: a task that returns an error is not added again.
EndForGood(i) ==
  /\ tasks[<<i, "executing">>] > 0
  /\ tasks' \in {Left(i, "executing"), Moved(i, "executing", "ending")}
  /\ running' = running \ {i}
  /\ ended' = [t \in Periodic |-> IF t = i.task THEN clock ELSE ended[t]]
  /\ UNCHANGED <<clock, queue, panicked, added, asked, served, dropped>>

\* execute returns, with an error or not: a one-off item is done with.
End(i) ==
  /\ tasks[<<i, "executing">>] > 0
  /\ tasks' = IF i.task \in Periodic THEN Moved(i, "executing", "ending")
              ELSE Left(i, "executing")
  /\ running' = running \ {i}
  /\ ended' = [t \in Periodic |-> IF t = i.task THEN clock ELSE ended[t]]
  /\ UNCHANGED <<clock, queue, panicked, added, asked, served, dropped>>

\* Mutant: the item keeps the date it was created.
ReaddAsIs(i) ==
  /\ tasks[<<i, "ending">>] > 0
  /\ tasks' = Left(i, "ending")
  /\ queue' = queue \cup {i}
  /\ UNCHANGED <<clock, running, panicked, added, ended, asked, served, dropped>>

\* Mutant: an item is added again whatever became of it.
ReaddAlways(i) ==
  /\ i.task \in Periodic /\ i \in running
  /\ tasks' = Left(i, "ending")
  /\ queue' = queue \cup {Item(i.task)}
  /\ UNCHANGED <<clock, running, panicked, added, ended, asked, served, dropped>>

\* readd.
Readd(i) ==
  /\ tasks[<<i, "ending">>] > 0
  /\ tasks' = Left(i, "ending")
  /\ queue' = queue \cup {Item(i.task)}
  /\ UNCHANGED <<clock, running, panicked, added, ended, asked, served, dropped>>

\* A panic in execute ends the spawned task: nothing after it runs.
Panic(i) ==
  /\ tasks[<<i, "executing">>] > 0
  /\ tasks' = Left(i, "executing")
  /\ panicked' = panicked \cup {i}
  /\ UNCHANGED <<clock, queue, running, added, ended, asked, served, dropped>>

\* The process restarts: everything was in memory.
Restart ==
  /\ queue' = {}
  /\ tasks' = NoTask
  /\ running' = {}
  /\ panicked' = {}
  /\ added' = {}
  /\ ended' = [t \in Periodic |-> NoItem]
  /\ dropped' = dropped \cup {q \in Calls \ served : asked[q] # NoItem}
  /\ UNCHANGED <<clock, asked, served>>

Next ==
  \/ Second
  \/ \E t \in Periodic : AddPeriodic(t)
  \/ \E q \in Calls : Add(q)
  \/ Tick
  \/ \E i \in Items : Start(i) \/ End(i) \/ Readd(i) \/ Panic(i)
  \/ Restart

Spec == Init /\ [][Next]_vars

(***************************************************************************)
(* Fairness: the loop ticks every 15 seconds, the runtime runs what was    *)
(* spawned, and a task ends.  The code gives tasks no time limit: the last *)
(* is an assumption on them, needed by PeriodicComesBack only.             *)
(***************************************************************************)
Fairness ==
  /\ WF_vars(Second)
  /\ WF_vars(Tick)
  /\ \A t \in Periodic : WF_vars(AddPeriodic(t))
  /\ \A i \in Items : WF_vars(Start(i)) /\ WF_vars(End(i) \/ Panic(i)) /\ WF_vars(Readd(i))

FairSpec == Spec /\ Fairness

-----------------------------------------------------------------------------
(* Properties.                                                             *)

\* Where a periodic task is: waiting, or held by so many spawned tasks.
Waiting(t) == {i \in queue : i.task = t}
Held(t)    == {x \in Items \X Stages : x[1].task = t /\ tasks[x] > 0}
Gone(t)    == t \notin added \/ \E i \in panicked : i.task = t

\* A periodic task is in one place: it waits in one item or one spawned task
\* holds it, so it never runs twice at a time; only a panic takes it away.
OnePlace ==
  \A t \in Periodic :
    IF Gone(t) THEN Waiting(t) = {} /\ Held(t) = {}
    ELSE \/ \E i \in Items : Waiting(t) = {i} /\ Held(t) = {}
         \/ Waiting(t) = {} /\ \E x \in Items \X Stages : Held(t) = {x} /\ tasks[x] = 1

\* Between the end of a periodic task and its next start its period passes.
Spaced(i) ==
  tasks'[<<i, "executing">>] > tasks[<<i, "executing">>] /\ ended[i.task] # NoItem
    => ended[i.task] + Period[i.task] < clock
PeriodPasses == [][\A i \in Items : i.task \in Periodic => Spaced(i)]_vars

\* A request is served by a task that starts after it, whatever it is merged
\* with and whatever already runs, unless the process stops first.
RequestServed ==
  \A q \in Calls : asked[q] # NoItem ~> q \in served \cup dropped

\* A periodic task that runs waits again later, unless it panics or the
\* process stops.
PeriodicComesBack ==
  \A t \in Periodic : Held(t) # {} ~> Waiting(t) # {} \/ Gone(t)

=============================================================================
