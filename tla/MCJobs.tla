-------------------------------- MODULE MCJobs --------------------------------
(* The jobs of the server for TLC: the poll of the requests that plugins      *)
(* process, and the scheduler.  A poll is a task like any other to the        *)
(* scheduler, so that a behaviour is one of one of them: `subject` says       *)
(* which, and the other is at rest.                                           *)
EXTENDS RequestProcessing, SchedulerTasks, TLC

CONSTANTS Subjects, refresh, face, ask1, ask2

VARIABLES
  subject,
  clock, queue, tasks, running, panicked, added, ended, asked, served, dropped

\* A periodic task, and two calls that ask for the same one-off task, in the
\* same second or not.
MCTaskOf == [q \in Calls |-> face]
MCPeriod == [t \in Periodic |-> 1]

Scheduler == INSTANCE Scheduler

schedulerVars ==
  <<clock, queue, tasks, running, panicked, added, ended, asked, served, dropped>>

MCInit == subject \in Subjects /\ Init /\ Scheduler!Init

MCNext ==
  /\ UNCHANGED subject
  /\ \/ subject = "requests"  /\ Next           /\ UNCHANGED schedulerVars
     \/ subject = "scheduler" /\ Scheduler!Next /\ UNCHANGED vars

\* The fairness of the scheduler, which at rest would have to start.
MCFairness ==
  /\ WF_schedulerVars(subject = "scheduler" /\ Scheduler!Second)
  /\ WF_schedulerVars(subject = "scheduler" /\ Scheduler!Tick)
  /\ WF_schedulerVars(subject = "scheduler" /\ Scheduler!AddPeriodic(refresh))
  /\ \A i \in Scheduler!Items :
       /\ WF_schedulerVars(subject = "scheduler" /\ Scheduler!Start(i))
       /\ WF_schedulerVars(subject = "scheduler" /\ (Scheduler!End(i) \/ Scheduler!Panic(i)))
       /\ WF_schedulerVars(subject = "scheduler" /\ Scheduler!Readd(i))

MCSpec ==
  MCInit /\ [][MCNext]_<<subject, vars, schedulerVars>> /\ Fairness /\ MCFairness

RequestServed     == Scheduler!RequestServed
PeriodicComesBack == Scheduler!PeriodicComesBack

=============================================================================
