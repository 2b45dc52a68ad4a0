---------------------------- MODULE MCMediaBackup ----------------------------
(* Instances for TLC of what the administration of the server keeps: the    *)
(* copies of a library's medias, where two dates let a media come before or *)
(* with another, and one be added or removed while a run is at work; the    *)
(* accounts, where an administrator and two others meet two libraries; and  *)
(* the databases of the server and of two libraries.                        *)
(* They share no state: `subject` says which one a behaviour is of.         *)
EXTENDS MediaBackup, TLC

CONSTANTS Subjects, Users, Admins, Libraries, Codes, Requests, MaxRequests,
          Server, Scripts, Rerunnable, Garbage

VARIABLES
  subject,
  users, libraries, rights, invitation, copied, request, asked, given, taken, raced, shared,
  server, listed, file, job, left, stores, came, refused, cut, unfilled

Access == INSTANCE Accounts
Stores == INSTANCE LibraryStores WITH libraries <- listed

\* What a file of a database holds.
Contents == [version : Nat, ran : SUBSET (Scripts \X (1..2)), paths : BOOLEAN]

\* Script 30 is one of them; there is a last one.
ASSUME StoresAssumption ==
  /\ Scripts \subseteq Nat \ {0} /\ 30 \in Scripts
  /\ \E v \in Scripts : \A w \in Scripts : w <= v
  /\ Server \notin Libraries
  /\ None \notin Nat /\ None \notin Contents /\ Garbage \notin Contents /\ None # Garbage

accessVars == <<users, libraries, rights, invitation, copied, request, asked,
                given, taken, raced, shared>>

storeVars == <<server, listed, file, job, left, stores, came, refused, cut, unfilled>>

NoAccess ==
  /\ users = None /\ libraries = None /\ rights = None /\ invitation = None
  /\ copied = None /\ request = None /\ asked = None
  /\ given = None /\ taken = None /\ raced = None /\ shared = None

NoStores ==
  /\ server = None /\ listed = None /\ file = None /\ job = None /\ left = None
  /\ stores = None /\ came = None /\ refused = None /\ cut = None /\ unfilled = None

MCInit ==
  /\ subject \in Subjects
  /\ Init
  /\ IF subject = "accounts" THEN Access!Init ELSE NoAccess
  /\ IF subject = "stores" THEN Stores!Init ELSE NoStores

MCNext ==
  /\ UNCHANGED subject
  /\ \/ subject = "backup"   /\ Next        /\ UNCHANGED <<accessVars, storeVars>>
     \/ subject = "accounts" /\ Access!Next /\ UNCHANGED <<vars, storeVars>>
     \/ subject = "stores"   /\ Stores!Next /\ UNCHANGED <<vars, accessVars>>

MCSpec == MCInit /\ [][MCNext]_<<subject, vars, accessVars, storeVars>>

\* Medias and runs are interchangeable, and so are the libraries and the requests
\* that go by the same names.
MCSymmetry == Permutations(Medias) \cup Permutations(Runs)

RightsInOrder    == subject = "accounts" => Access!RightsInOrder
ServedWhole      == subject = "stores" => Stores!ServedWhole

=============================================================================
