----------------------------- MODULE MCProgress -----------------------------
(* What must come to an end, for TLC: the conversion queue, the live         *)
(* channels and the migration of a library's files.  They meet nowhere in    *)
(* the program, so that a behaviour is one of one of them: `subject` says    *)
(* which, and the others are at rest.                                        *)
EXTENDS ConvertQueue, TLC

CONSTANTS
  Subjects, r1, r2, r3, n1, n2,
  c1, c2, k1, k2, m1, Passwords, Garbage

\* r1 and r2 convert media of the same name to the same format, r3 has a File
\* overlay.
MCDestOf == (r1 :> n1) @@ (r2 :> n1) @@ (r3 :> n2)

VARIABLES
  subject,
  active, sessions, req, victim, sup, rapid, cancelled, stale, closer,
  stored, cached, patch, mig, up, file, rows

\* Two channels, each with its key: more than the slots allow.
Streams == INSTANCE ChannelStreams WITH
  Requests <- {r1, r2}, TsRequests <- {}, Channels <- {c1, c2}, Keys <- {k1, k2},
  ChannelOf <- (k1 :> c1 @@ k2 :> c2), KeyOf <- (r1 :> k1 @@ r2 :> k1),
  MaxStreams <- 1, MaxRestarts <- 1, None <- NoRequest

Library == INSTANCE LibraryEncryption WITH
  Patches <- {r1, r2}, Medias <- {m1}, Remote <- {}, None <- NoRequest

streamsVars == <<active, sessions, req, victim, sup, rapid, cancelled, stale, closer>>
libraryVars == <<stored, cached, patch, mig, up, file, rows>>

MCInit ==
  /\ subject \in Subjects
  /\ Init /\ Streams!Init
  /\ Library!Init /\ (subject # "library" => stored = NoRequest)

MCNext ==
  /\ UNCHANGED subject
  /\ \/ subject = "convert" /\ Next         /\ UNCHANGED <<streamsVars, libraryVars>>
     \/ subject = "streams" /\ Streams!Next /\ UNCHANGED <<vars, libraryVars>>
     \/ subject = "library" /\ Library!Next /\ UNCHANGED <<vars, streamsVars>>

\* At rest, a component has no step it would have to take.
MCSpec ==
  /\ MCInit /\ [][MCNext]_<<subject, vars, streamsVars, libraryVars>>
  /\ Fairness /\ Streams!Fairness /\ Library!Fairness

CancelledSessionEnds == Streams!CancelledSessionEnds
PasswordReachesFiles == Library!PasswordReachesFiles

=============================================================================
