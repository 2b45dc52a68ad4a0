------------------------------- MODULE Accounts -------------------------------
(* Who may use a library (src/src/model/users.rs, libraries.rs and their        *)
(* stores): the users and their rights, the invitations that give them, and     *)
(* the addition and removal of libraries.                                       *)
(*                                                                              *)
(* A request is judged by the user that was read when it came in                *)
(* (src/src/routes/mw_auth.rs), whatever becomes of the tables afterwards: what *)
(* it may not do it does not ask for here.                                      *)
EXTENDS Naturals

CONSTANTS
  Users,
  Admins,       \* those with the role Admin, from the beginning and to the end
  Libraries,    \* identifiers: none is given twice
  Codes,        \* of invitations: none is given twice
  Requests,
  MaxRequests,  \* bound on the requests that are made
  None

VARIABLES
  users,        \* the table Users
  libraries,    \* the table Libraries
  rights,       \* the table Libraries_Users_Rights
  invitation,   \* the table Invitation
  copied,       \* libraries that have rows in Backups_Files
  request,      \* what each request does
  asked,        \* how many were made
  given,        \* identifiers that were given
  taken,        \* who got rights by each code
  raced,        \* libraries removed while a request was about to write their name
  shared        \* codes that two requests read, or whose redemption was cut

vars == <<users, libraries, rights, invitation, copied, request, asked, given, taken, raced, shared>>
history == <<given, taken, raced, shared>>

Idle == [pc |-> "idle", user |-> None, library |-> None, code |-> None, role |-> None]

Init ==
  /\ users = Admins
  /\ libraries = {}
  /\ rights = [x \in Users \X Libraries |-> None]
  /\ invitation = [c \in Codes |-> None]
  /\ copied = {}
  /\ request = [q \in Requests |-> Idle]
  /\ asked = 0
  /\ given = {} /\ taken = [c \in Codes |-> {}] /\ raced = {} /\ shared = {}

At(q, pc) == request[q].pc = pc
Becomes(q, r) == request' = [request EXCEPT ![q] = r]

Asks(q, r) ==
  /\ At(q, "idle") /\ asked < MaxRequests
  /\ asked' = asked + 1
  /\ Becomes(q, r)

\* The rights of a library that is gone, which has no name to read, are left out.
get_user(u) == [l \in libraries |-> rights[<<u, l>>]]
\* The list of the users reads every right, and fails if one of them has no name.
Unlisted == {x \in DOMAIN rights : rights[x] # None /\ x[2] \notin libraries}

check_library_role(u, l) == u \in Admins \/ get_user(u)[l] = "admin"

-----------------------------------------------------------------------------
(* Libraries.                                                                  *)

\* The library, then the rights of the one who added it.
add_library(q) ==
  \/ /\ \E u \in Admins, l \in Libraries \ given :
          /\ Asks(q, [Idle EXCEPT !.pc = "own", !.user = u, !.library = l])
          /\ libraries' = libraries \cup {l}
          /\ given' = given \cup {l}
     /\ UNCHANGED <<users, rights, invitation, copied, taken, raced, shared>>
  \/ /\ At(q, "own") /\ Becomes(q, Idle)
     /\ rights' = [rights EXCEPT ![<<request[q].user, request[q].library>>] = "admin"]
     /\ UNCHANGED <<users, libraries, invitation, copied, asked, history>>

\* For the server's administrators, and one removal of a library at a time.
request_remove_library(q) ==
  /\ \E u \in Admins, l \in libraries :
       /\ \A p \in Requests : At(p, "remove") => request[p].library # l
       /\ Asks(q, [Idle EXCEPT !.pc = "remove", !.user = u, !.library = l])
  /\ UNCHANGED <<users, libraries, rights, invitation, copied, history>>

AboutToWrite(l) == \E q \in Requests : request[q].pc \in {"own", "invite", "grant"}
                                        /\ request[q].library = l

RemoveRows(l) ==
  /\ libraries' = libraries \ {l}
  /\ rights' = [x \in DOMAIN rights |-> IF x[2] = l THEN None ELSE rights[x]]
  /\ raced' = IF AboutToWrite(l) THEN raced \cup {l} ELSE raced
  /\ UNCHANGED <<users, copied, asked, given, taken, shared>>

\* Mutant: the invitations to the library stay.
remove_library_only(q) ==
  LET l == request[q].library
  IN  /\ At(q, "remove") /\ Becomes(q, Idle)
      /\ IF l \in libraries \ copied THEN RemoveRows(l) /\ UNCHANGED invitation
         ELSE UNCHANGED <<users, libraries, rights, invitation, copied, asked, history>>

\* The end of the background removal.  Nothing is removed of one that has been backed up: the library is the first to be
\* deleted, and Backups_Files refers to it.
remove_library(q) ==
  LET l == request[q].library
  IN  /\ At(q, "remove") /\ Becomes(q, Idle)
      /\ IF l \in libraries \ copied
         THEN /\ RemoveRows(l)
              /\ invitation' = [c \in Codes |->
                   IF invitation[c] # None /\ invitation[c].library = l THEN None ELSE invitation[c]]
         ELSE UNCHANGED <<users, libraries, rights, invitation, copied, asked, history>>

\* What a backup adds and removes.
add_backup_file ==
  /\ \E l \in libraries \ copied : copied' = copied \cup {l}
  /\ UNCHANGED <<users, libraries, rights, invitation, request, asked, history>>

remove_backup_file ==
  /\ \E l \in copied : copied' = copied \ {l}
  /\ UNCHANGED <<users, libraries, rights, invitation, request, asked, history>>

-----------------------------------------------------------------------------
(* Invitations.                                                                *)

AskInvitation(q) ==
  /\ \E u \in users, l \in libraries, r \in {"read", "admin"} :
       /\ check_library_role(u, l)
       /\ Asks(q, [Idle EXCEPT !.pc = "invite", !.user = u, !.library = l, !.role = r])
  /\ UNCHANGED <<users, libraries, rights, invitation, copied, history>>

\* Whether the library is there is not looked at.
add_library_invitation(q) ==
  /\ At(q, "invite") /\ Becomes(q, Idle)
  /\ \E c \in Codes \ given :
       /\ invitation' = [invitation EXCEPT ![c] = [library |-> request[q].library, role |-> request[q].role]]
       /\ given' = given \cup {c}
  /\ UNCHANGED <<users, libraries, rights, copied, asked, taken, raced, shared>>

\* One who is unknown is added as a user first, and stays one whatever follows.
redeem_invitation(q) ==
  /\ \E u \in Users, c \in Codes \cap given :
       Asks(q, [Idle EXCEPT !.pc = IF u \in users THEN "code" ELSE "join", !.user = u, !.code = c])
  /\ UNCHANGED <<users, libraries, rights, invitation, copied, history>>

add_user(q) ==
  /\ At(q, "join")
  /\ Becomes(q, IF request[q].user \in users THEN Idle ELSE [request[q] EXCEPT !.pc = "code"])
  /\ users' = users \cup {request[q].user}
  /\ UNCHANGED <<libraries, rights, invitation, copied, asked, history>>

get_library_invitation(q) ==
  LET c == request[q].code
  IN  /\ At(q, "code")
      /\ Becomes(q, IF invitation[c] = None THEN Idle
                    ELSE [request[q] EXCEPT !.pc = "grant", !.library = invitation[c].library,
                                            !.role = invitation[c].role])
      /\ shared' = IF \E p \in Requests : request[p].pc \in {"grant", "consume"} /\ request[p].code = c
                   THEN shared \cup {c} ELSE shared
  /\ UNCHANGED <<users, libraries, rights, invitation, copied, asked, given, taken, raced>>

Grant(q, then) ==
  LET x == <<request[q].user, request[q].library>>
  IN  /\ At(q, "grant")
      /\ IF rights[x] # None THEN Becomes(q, Idle) /\ UNCHANGED <<rights, taken>>
         ELSE /\ rights' = [rights EXCEPT ![x] = request[q].role]
              /\ taken' = [taken EXCEPT ![request[q].code] = @ \cup {request[q].user}]
              /\ Becomes(q, then)
  /\ UNCHANGED <<users, libraries, invitation, copied, asked, given, raced, shared>>

\* An INSERT: one who has rights already keeps them, and the code stays.
add_library_rights(q) == Grant(q, [request[q] EXCEPT !.pc = "consume"])

remove_library_invitation(q) ==
  /\ At(q, "consume") /\ Becomes(q, Idle)
  /\ invitation' = [invitation EXCEPT ![request[q].code] = None]
  /\ UNCHANGED <<users, libraries, rights, copied, asked, history>>

\* A call fails, or the client hangs up.
Fail(q) ==
  /\ ~At(q, "idle") /\ Becomes(q, Idle)
  /\ shared' = IF At(q, "consume") THEN shared \cup {request[q].code} ELSE shared
  /\ UNCHANGED <<users, libraries, rights, invitation, copied, asked, given, taken, raced>>

Next ==
  \/ \E q \in Requests :
       \/ add_library(q) \/ request_remove_library(q) \/ remove_library(q)
       \/ AskInvitation(q) \/ add_library_invitation(q)
       \/ redeem_invitation(q) \/ add_user(q) \/ get_library_invitation(q)
       \/ add_library_rights(q) \/ remove_library_invitation(q) \/ Fail(q)
  \/ add_backup_file \/ remove_backup_file

Spec == Init /\ [][Next]_vars

-----------------------------------------------------------------------------
\* The list of the users can be read: what breaks it, for everyone and for good, is a
\* library removed while a request that had been let in was about to write its name.
\* And an invitation is for one: unless two read it before the first had removed it,
\* or the first stopped between its rights and the removal.
RightsInOrder ==
  /\ \A x \in Unlisted : x[2] \in raced
  /\ \A c \in Codes \ shared : \A u, v \in taken[c] : u = v

=============================================================================
