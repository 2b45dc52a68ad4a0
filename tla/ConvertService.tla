--------------------------- MODULE ConvertService ---------------------------
(***************************************************************************)
(* What the local conversion queue promises to its callers: the accepted   *)
(* requests are served one at a time, in the order in which they were      *)
(* accepted, and none of them is served twice.                             *)
(***************************************************************************)
EXTENDS Sequences

CONSTANTS Requests, NoRequest

VARIABLES
  waiting,   \* accepted requests that are not served yet, oldest first
  serving,   \* the request being served
  ended      \* requests whose service ended, well or badly

Waiting == {waiting[i] : i \in DOMAIN waiting}

Init ==
  /\ waiting = <<>>
  /\ serving = NoRequest
  /\ ended = {}

Accept(r) ==
  /\ r \notin Waiting \cup {serving} \cup ended
  /\ waiting' = Append(waiting, r)
  /\ UNCHANGED <<serving, ended>>

Serve ==
  /\ serving = NoRequest
  /\ waiting # <<>>
  /\ serving' = Head(waiting)
  /\ waiting' = Tail(waiting)
  /\ UNCHANGED ended

End ==
  /\ serving # NoRequest
  /\ ended' = ended \cup {serving}
  /\ serving' = NoRequest
  /\ UNCHANGED waiting

Next == (\E r \in Requests : Accept(r)) \/ Serve \/ End

Spec == Init /\ [][Next]_<<waiting, serving, ended>>

=============================================================================
