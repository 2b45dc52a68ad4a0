------------------------ MODULE MCLibraryEncryption ------------------------
(* What a library holds for its users, for TLC: the password of its files (m1 *)
(* is a local file, m2 a remote one), the format of their backups, the bytes  *)
(* that are served of them, the images beside them, the plugins that fetch    *)
(* them, who has watched them, and the copies of its database.  These share   *)
(* no state, only model values (users and places are Tasks, calls and runs    *)
(* Callers), so that a behaviour is one of one of them: `subject` says which. *)
EXTENDS LibraryEncryption, TLC

CONSTANTS
  m1, m2, a, b, t1, t2, t3, u1, u2, Subjects,
  BodySizes, ThumbSizes, InfosSizes, Pieces,
  Sizes, Bounds, StoredPieces, Wrap, Absent,
  Tasks, MaxImages,
  Callers, Startup, PluginFiles, MaxFiles, MaxPlugin,
  MaxMappings,
  Keys, MaxSource, MaxStarts, Torn

\* What is not there is no call, and no file.
ASSUME CallersAssumption == None \notin Callers
ASSUME ImagesAssumption == Absent \notin [by : Tasks, version : Nat]

\* What is read is some bytes, of some size.
ASSUME FormatAssumption ==
  BodySizes \subseteq Nat /\ ThumbSizes \subseteq Nat /\ InfosSizes \subseteq Nat /\ Pieces \subseteq Nat

\* Files and ranges whose ends, in the stored file, are unsigned integers.
ASSUME BytesAssumption ==
  /\ Sizes \subseteq Nat /\ Bounds \subseteq Nat /\ StoredPieces \subseteq Nat
  /\ Wrap \in Nat /\ \A n \in Sizes \cup Bounds : n + 17 < Wrap
  /\ Absent \notin Nat
  /\ Absent \notin [start : Nat \cup {Absent}, end : Nat \cup {Absent}]

\* There is a first version.  No backup and no password are told from all others, and
\* what no version is from the versions.
ASSUME CopiesAssumption ==
  /\ MaxSource \in Nat \ {0} /\ MaxStarts \in Nat
  /\ Torn \notin Nat /\ None \notin Nat
  /\ None \notin Keys \cup [place : Tasks, key : Keys \cup {None}]

VARIABLES
  subject,
  clear, formatAt, given, buffer, passed, later, size, out,
  bytes, bytesAt, header, kept, cipher, sound, asked, reply, nonce, sent,
  kind, images, versions, imageJob, shown, raced,
  wasm, installed, loaded, readers, queue, job, known, spoiled,
  map_progress, progress, watched, position, rating, call, overlapped, last,
  item, backup, source, backupStatus, run, copies, place, since, events, starts

MCRemote == {m2} \cap Medias

Format == INSTANCE EncryptedFormat WITH file <- clear, pc <- formatAt

Served == INSTANCE LibraryFiles WITH
  file <- bytes, pc <- bytesAt, stored <- kept, Pieces <- StoredPieces

Images == INSTANCE Images WITH
  disk <- images, job <- imageJob, MaxVersion <- MaxImages

Plugins == INSTANCE Plugins WITH
  disk <- wasm, rows <- installed, Tasks <- Callers, Files <- PluginFiles, MaxVersion <- MaxPlugin

Viewing == INSTANCE ViewProgress WITH
  raced <- overlapped, Users <- Tasks, Calls <- Callers

Copying == INSTANCE BackupCopies WITH
  content <- source, status <- backupStatus, rows <- copies, disk <- place,
  Runs <- Callers, Places <- Tasks, MaxVersion <- MaxSource

formatVars == <<clear, formatAt, given, buffer, passed, later, size, out>>
fileVars   == <<bytes, bytesAt, header, kept, cipher, sound, asked, reply, nonce, sent>>
imageVars  == <<kind, images, versions, imageJob, shown, raced>>
pluginVars == <<wasm, installed, loaded, readers, queue, job, known, spoiled>>
viewVars   == <<map_progress, progress, watched, position, rating, call, overlapped, last>>
copyVars   == <<item, backup, source, backupStatus, run, copies, place, since, events, starts>>

\* What has no part in a behaviour has no state.
NoFormat ==
  /\ clear = None /\ formatAt = None /\ given = None /\ buffer = None
  /\ passed = None /\ later = None /\ size = None /\ out = None

NoFile ==
  /\ bytes = None /\ bytesAt = None /\ header = None /\ kept = None
  /\ cipher = None /\ sound = None /\ asked = None /\ reply = None /\ nonce = None
  /\ sent = None

NoImage ==
  /\ kind = None /\ images = None /\ versions = None /\ imageJob = None
  /\ shown = None /\ raced = None

NoPlugin ==
  /\ wasm = None /\ installed = None /\ loaded = None /\ readers = None
  /\ queue = None /\ job = None /\ known = None /\ spoiled = None

NoView ==
  /\ map_progress = None /\ progress = None /\ watched = None /\ position = None
  /\ rating = None /\ call = None /\ overlapped = None /\ last = None

NoCopy ==
  /\ item = None /\ backup = None /\ source = None /\ backupStatus = None /\ run = None
  /\ copies = None /\ place = None /\ since = None /\ events = None /\ starts = None

MCInit ==
  /\ subject \in Subjects
  /\ Init /\ (subject # "password" => stored = None)
  /\ IF subject = "format" THEN Format!Init ELSE NoFormat
  /\ IF subject = "bytes" THEN Served!Init ELSE NoFile
  /\ IF subject = "images" THEN Images!Init ELSE NoImage
  /\ IF subject = "plugins" THEN Plugins!Init ELSE NoPlugin
  /\ IF subject = "views" THEN Viewing!Init ELSE NoView
  /\ IF subject = "copies" THEN Copying!Init ELSE NoCopy

MCNext ==
  /\ UNCHANGED subject
  /\ \/ /\ subject = "password" /\ Next
        /\ UNCHANGED <<formatVars, fileVars, imageVars, pluginVars, viewVars, copyVars>>
     \/ /\ subject = "format" /\ Format!Next
        /\ UNCHANGED <<vars, fileVars, imageVars, pluginVars, viewVars, copyVars>>
     \/ /\ subject = "bytes" /\ Served!Next
        /\ UNCHANGED <<vars, formatVars, imageVars, pluginVars, viewVars, copyVars>>
     \/ /\ subject = "images" /\ Images!Next
        /\ UNCHANGED <<vars, formatVars, fileVars, pluginVars, viewVars, copyVars>>
     \/ /\ subject = "plugins" /\ Plugins!Next
        /\ UNCHANGED <<vars, formatVars, fileVars, imageVars, viewVars, copyVars>>
     \/ /\ subject = "views" /\ Viewing!Next
        /\ UNCHANGED <<vars, formatVars, fileVars, imageVars, pluginVars, copyVars>>
     \/ /\ subject = "copies" /\ Copying!Next
        /\ UNCHANGED <<vars, formatVars, fileVars, imageVars, pluginVars, viewVars>>

MCSpec == MCInit /\ [][MCNext]_<<subject, vars, formatVars, fileVars, imageVars, pluginVars, viewVars, copyVars>>

\* A behaviour is one of one component, so that what is interchangeable in one
\* can be exchanged together with what is in another: passwords and callers
\* whenever two tasks are.
MCSymmetry ==
  {p \in Permutations({a, b, t1, t2, t3, u1, u2}) :
     /\ {p[t1], p[t2], p[t3]} = Tasks
     /\ <<p[a], p[b], p[u1], p[u2]>> =
          IF \E t \in Tasks : {u \in Tasks : p[u] = u} = {t}
          THEN <<b, a, u2, u1>> ELSE <<a, b, u1, u2>>}

RestoredWhole           == subject = "format" => Format!RestoredWhole
ServedAsAnnounced       == subject = "bytes" => Served!ServedAsAnnounced
UpdateShown             == subject = "images" => Images!UpdateShown
LoadedAsOnDisk          == subject = "plugins" => Plugins!LoadedAsOnDisk
HoldersWaitOnlyToReread == subject = "plugins" => Plugins!HoldersWaitOnlyToReread
LinkedUsersRead         == subject = "views" => Viewing!LinkedUsersRead
CopyKept                == subject = "copies" => Copying!CopyKept

=============================================================================
