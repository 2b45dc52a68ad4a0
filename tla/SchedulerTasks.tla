---------------------------- MODULE SchedulerTasks ----------------------------
(* The tasks of the scheduler: the periodic ones, which src/src/model/mod.rs *)
(* adds at startup, and the ones that calls of the server add.               *)
EXTENDS Naturals

CONSTANTS
  Periodic,       \* tasks added with RsSchedulerWhen::Every
  OneOff,         \* tasks added with RsSchedulerWhen::At(0)
  Calls,          \* calls that add a one-off task
  TaskOf,         \* the task each adds
  Period,         \* of each periodic task, in seconds
  MaxClock,       \* bound on the clock
  NoItem

ASSUME SchedulerAssumption ==
  /\ Periodic \cap OneOff = {}
  /\ TaskOf \in [Calls -> OneOff]
  /\ Period \in [Periodic -> Nat]
  /\ MaxClock \in Nat

Times  == 0..MaxClock
Items  == [task : Periodic \cup OneOff, created : Times]

ASSUME NoItemAssumption == NoItem \notin Items

=============================================================================
