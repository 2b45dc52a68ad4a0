----------------------------- MODULE ViewProgress -----------------------------
(* What users have watched, and how far (src/src/model/users.rs), and how they  *)
(* rate a media or where they stand in it (media_progresses.rs,                 *)
(* media_ratings.rs).  A library may map users: what one of them watches counts *)
(* for the others.  The first kind is written to all of them, one after the     *)
(* other, the second to the one user they share; both are read of that one.     *)
(*                                                                              *)
(* One item of one library: its tables have a row for each user, here the call  *)
(* that wrote it.                                                               *)
EXTENDS Naturals, Sequences

CONSTANTS
  Users,
  Calls,
  MaxMappings,  \* bound on the mappings of the library
  None

VARIABLES
  map_progress,  \* the mappings, in order
  progress,      \* the table progress, None without a row
  watched,       \* the table Watched, None without a row or with the date 0
  position,      \* the table media_progress
  rating,        \* the table ratings
  call,          \* what each call does
  raced,         \* calls at work that overlapped another or a change of the mappings
  last           \* the last call, None unless it ended whole and none began since

vars == <<map_progress, progress, watched, position, rating, call, raced, last>>
tables == <<progress, watched, position, rating>>

UserMapping == {m \in [from : Users, to : Users] : m.from # m.to}
Mappings    == UNION {[1..n -> UserMapping] : n \in 0..MaxMappings}
Listed      == {map_progress[i] : i \in DOMAIN map_progress}

NoCall == [pc |-> "idle", op |-> None, user |-> None, merged |-> FALSE, left |-> {}]
Active(c) == call[c].pc = "writing"

Init ==
  /\ map_progress \in Mappings
  /\ progress = [u \in Users |-> None]
  /\ watched = [u \in Users |-> None]
  /\ position = [u \in Users |-> None]
  /\ rating = [u \in Users |-> None]
  /\ call = [c \in Calls |-> NoCall]
  /\ raced = {}
  /\ last = None

Names(m, u)   == u \in {m.from, m.to}
Touch(m, n)   == m.to = n.to \/ m.from = n.from \/ m.to = n.from \/ m.from = n.to
UsersOf(maps) == UNION {{m.from, m.to} : m \in maps}

\* Mutant: only the users that a mapping of the user names.
get_library_progress_mapped_users(user) == UsersOf({m \in Listed : Names(m, user)})

\* Those a mapping of the user names, and those their mappings name.  Nobody, not
\* even the user, without a mapping.
get_library_progress_merged_users(user) ==
  UsersOf({m \in Listed : \E n \in Listed : Names(n, user) /\ Touch(m, n)})

\* The first mapping of the user, else the user.
get_library_mapped_user(user) ==
  LET from == {i \in DOMAIN map_progress : map_progress[i].from = user}
  IN  IF from = {} THEN user
      ELSE map_progress[CHOOSE i \in from : \A j \in from : i <= j].to

get_view_progress(user)  == progress[get_library_mapped_user(user)]
get_watched(user)        == watched[get_library_mapped_user(user)]
get_media_progress(user) == position[get_library_mapped_user(user)]
get_media_rating(user)   == rating[get_library_mapped_user(user)]

-----------------------------------------------------------------------------
\* A call begins: whom it will write to is read once.
Begins(c, op, user, merged, whom) ==
  /\ call[c].pc = "idle"
  /\ call' = [call EXCEPT ![c] = [pc |-> "writing", op |-> op, user |-> user,
                                  merged |-> merged, left |-> whom]]
  /\ raced' = raced \cup LET others == {d \in Calls : Active(d)}
                       IN  IF others = {} THEN {} ELSE {c} \cup others
  /\ last' = None
  /\ UNCHANGED <<map_progress, tables>>

\* Of a library, the user's and those that are merged with him.
add_view_progress(c, user) == Begins(c, "progress", user, TRUE, get_library_progress_merged_users(user))
add_watched(c, user)       == Begins(c, "watched", user, TRUE, get_library_progress_merged_users(user))
remove_watched(c, user)    == Begins(c, "unwatched", user, TRUE, get_library_progress_merged_users(user))

\* One user's: the history of a user without a library, and of a media.
add_history(c, user) ==
  \E op \in {"progress", "watched", "unwatched"} : Begins(c, op, user, FALSE, {user})

set_media_progress(c, user) ==
  Begins(c, "position", user, FALSE, {get_library_mapped_user(user)})

set_media_rating(c, user) == Begins(c, "rating", user, FALSE, {get_library_mapped_user(user)})

\* The row of the next user, in any order.
Writes(c, u, op) ==
  /\ Active(c) /\ call[c].op = op /\ u \in call[c].left
  /\ call' = [call EXCEPT ![c].left = @ \ {u}]
  /\ UNCHANGED <<map_progress, raced, last>>

write_progress(c, u) ==
  /\ Writes(c, u, "progress")
  /\ progress' = [progress EXCEPT ![u] = c]
  /\ UNCHANGED <<watched, position, rating>>

\* What has been watched is no longer in progress.
write_watched(c, u) ==
  /\ Writes(c, u, "watched")
  /\ watched' = [watched EXCEPT ![u] = c]
  /\ progress' = [progress EXCEPT ![u] = None]
  /\ UNCHANGED <<position, rating>>

delete_watched(c, u) ==
  /\ Writes(c, u, "unwatched")
  /\ watched' = [watched EXCEPT ![u] = None]
  /\ UNCHANGED <<progress, position, rating>>

write_position(c, u) ==
  /\ Writes(c, u, "position")
  /\ position' = [position EXCEPT ![u] = c]
  /\ UNCHANGED <<progress, watched, rating>>

write_rating(c, u) ==
  /\ Writes(c, u, "rating")
  /\ rating' = [rating EXCEPT ![u] = c]
  /\ UNCHANGED <<progress, watched, position>>

Finish(c) ==
  /\ Active(c) /\ call[c].left = {}
  /\ call' = [call EXCEPT ![c] = [IF c \in raced THEN NoCall ELSE @ EXCEPT !.pc = "ended"]]
  /\ last' = IF c \in raced THEN None ELSE c
  /\ raced' = raced \ {c}
  /\ UNCHANGED <<map_progress, tables>>

\* An error ends it where it stands, as does the client who hangs up.
Fail(c) ==
  /\ Active(c)
  /\ call' = [call EXCEPT ![c] = [NoCall EXCEPT !.pc = "failed"]]
  /\ raced' = raced \ {c}
  /\ UNCHANGED <<map_progress, tables, last>>

\* PATCH of the library's settings: a mapping more or less, more at a time being
\* as many steps.
update_library ==
  /\ \/ Len(map_progress) < MaxMappings /\ \E m \in UserMapping : map_progress' = Append(map_progress, m)
     \/ \E i \in DOMAIN map_progress :
          map_progress' = SubSeq(map_progress, 1, i - 1)
                            \o SubSeq(map_progress, i + 1, Len(map_progress))
  /\ raced' = raced \cup {c \in Calls : Active(c)}
  /\ last' = None
  /\ UNCHANGED <<tables, call>>

Next ==
  \/ \E c \in Calls, u \in Users :
       \/ add_view_progress(c, u) \/ add_watched(c, u) \/ remove_watched(c, u)
       \/ add_history(c, u) \/ set_media_progress(c, u) \/ set_media_rating(c, u)
       \/ write_progress(c, u) \/ write_watched(c, u) \/ delete_watched(c, u)
       \/ write_position(c, u) \/ write_rating(c, u)
  \/ \E c \in Calls : Finish(c) \/ Fail(c)
  \/ update_library

Spec == Init /\ [][Next]_vars

-----------------------------------------------------------------------------
\* Users one mapping away from each other, or whose mappings lead to the same.
Linked(u, v) ==
  \/ \E m \in Listed : Names(m, u) /\ Names(m, v)
  \/ \E m \in Listed : Names(m, u) /\ get_library_mapped_user(v) = m.to

\* What the last call of a user wrote in a library, every user linked to this one
\* reads there, whichever of them their own mapping makes them read: unless the
\* call overlapped another, or did not come to its end.  Of a media it is only for
\* those who share his row.
LinkedUsersRead ==
  last # None =>
    /\ call[last].merged =>
         \A u \in Users : Linked(call[last].user, u) =>
           CASE call[last].op = "progress"  -> get_view_progress(u) = last
             [] call[last].op = "watched"   -> get_watched(u) = last /\ get_view_progress(u) = None
             [] call[last].op = "unwatched" -> get_watched(u) = None
    /\ \A u \in Users :
         get_library_mapped_user(u) = get_library_mapped_user(call[last].user) =>
           /\ call[last].op = "position" => get_media_progress(u) = last
           /\ call[last].op = "rating"   => get_media_rating(u) = last

=============================================================================
