------------------------------ MODULE MediaHls ------------------------------
(***************************************************************************)
(* HLS playback of stored videos: sessions that run FFmpeg once and keep   *)
(* its segments until nobody watches (src/src/tools/media_hls_session.rs,  *)
(* get_or_create_media_hls_session and stop_media_hls_session in           *)
(* src/src/model/medias.rs, the cleanup loop in src/src/model/mod.rs).     *)
(*                                                                         *)
(* A request is one POST .../hls/start; the FFmpeg it spawns, the          *)
(* supervisor, the directory and the session bear its name.                *)
(***************************************************************************)
EXTENDS Naturals

CONSTANTS
  Requests,   \* POST /libraries/:l/medias/:m/hls/start calls
  Keys,       \* session keys <library>:<media>:<hash of the conversion>
  KeyOf,      \* the key a request computes
  None        \* "no session"

ASSUME HlsAssumption ==
  /\ KeyOf \in [Requests -> Keys]
  /\ None \notin Requests \cup Keys

VARIABLES
  sessions,    \* media_hls_sessions: the session registered under each key
  start,       \* progress of each POST
  ffmpeg,      \* the FFmpeg process of each request
  sup,         \* its media_supervisor_loop
  dirs,        \* output directories on disk
  cancelled,   \* sessions whose cancel_token is cancelled
  stale,       \* sessions whose last_active is older than the timeout
  cleaner      \* cleanup_stale_sessions: keys left, key and directory at hand

vars == <<sessions, start, ffmpeg, sup, dirs, cancelled, stale, cleaner>>

StartStates  == {"idle", "joined", "resolving", "spawned", "registered",
                 "duplicate", "failed", "left"}
FfmpegStates == {"none", "running", "exited", "killed"}
SupStates    == {"none", "waiting", "cleanup", "unregister", "ended"}

TypeOK ==
  /\ sessions \in [Keys -> Requests \cup {None}]
  /\ start \in [Requests -> StartStates]
  /\ ffmpeg \in [Requests -> FfmpegStates]
  /\ sup \in [Requests -> SupStates]
  /\ dirs \subseteq Requests
  /\ cancelled \subseteq Requests
  /\ stale \subseteq Requests
  /\ cleaner \in [todo : SUBSET Keys, key : Keys \cup {None}, dir : Requests \cup {None}]

Init ==
  /\ sessions = [k \in Keys |-> None]
  /\ start = [r \in Requests |-> "idle"]
  /\ ffmpeg = [r \in Requests |-> "none"]
  /\ sup = [r \in Requests |-> "none"]
  /\ dirs = {}
  /\ cancelled = {}
  /\ stale = {}
  /\ cleaner = [todo |-> {}, key |-> None, dir |-> None]

Registered == {k \in Keys : sessions[k] # None}

To(r, state) == start' = [start EXCEPT ![r] = state]

-----------------------------------------------------------------------------
(* get_or_create_media_hls_session and start_media_hls_session.            *)

\* Fast path: a registered session is touched and returned.
Join(r) ==
  /\ start[r] = "idle"
  /\ sessions[KeyOf[r]] # None
  /\ stale' = stale \ {sessions[KeyOf[r]]}
  /\ To(r, "joined")
  /\ UNCHANGED <<sessions, ffmpeg, sup, dirs, cancelled, cleaner>>

Miss(r) ==
  /\ start[r] = "idle"
  /\ sessions[KeyOf[r]] = None
  /\ To(r, "resolving")
  /\ UNCHANGED <<sessions, ffmpeg, sup, dirs, cancelled, stale, cleaner>>

\* build_and_spawn_media_hls made the directory and FFmpeg runs; the supervisor
\* is spawned before the session is registered.
SpawnFfmpeg(r) ==
  /\ start[r] = "resolving"
  /\ ffmpeg' = [ffmpeg EXCEPT ![r] = "running"]
  /\ sup' = [sup EXCEPT ![r] = "waiting"]
  /\ dirs' = dirs \cup {r}
  /\ To(r, "spawned")
  /\ UNCHANGED <<sessions, cancelled, stale, cleaner>>

\* get_media_uri fails, or FFmpeg cannot be spawned: its directory, if it was
\* made, is removed (or left behind when set_request fails).
StartFails(r) ==
  /\ start[r] = "resolving"
  /\ dirs' \in {dirs, dirs \cup {r}}
  /\ To(r, "failed")
  /\ UNCHANGED <<sessions, ffmpeg, sup, cancelled, stale, cleaner>>

Register(r) ==
  /\ start[r] = "spawned"
  /\ sessions[KeyOf[r]] = None
  /\ sessions' = [sessions EXCEPT ![KeyOf[r]] = r]
  /\ To(r, "registered")
  /\ UNCHANGED <<ffmpeg, sup, dirs, cancelled, stale, cleaner>>

\* "Double-check under write lock": the key is taken, this session is cancelled.
Duplicate(r) ==
  /\ start[r] = "spawned"
  /\ sessions[KeyOf[r]] # None
  /\ cancelled' = cancelled \cup {r}
  /\ To(r, "duplicate")
  /\ UNCHANGED <<sessions, ffmpeg, sup, dirs, stale, cleaner>>

\* The client hangs up and the handler's future is dropped at an await.
HangUp(r) ==
  /\ start[r] \in {"resolving", "spawned"}
  /\ dirs' \in IF start[r] = "resolving" THEN {dirs, dirs \cup {r}} ELSE {dirs}
  /\ To(r, "left")
  /\ UNCHANGED <<sessions, ffmpeg, sup, cancelled, stale, cleaner>>

\* GET of the playlist or of a segment (find_media_hls_session).
TouchSession(k) ==
  /\ k \in Registered
  /\ stale' = stale \ {sessions[k]}
  /\ UNCHANGED <<sessions, start, ffmpeg, sup, dirs, cancelled, cleaner>>

BecomeStale(r) ==
  /\ \E k \in Registered : sessions[k] = r
  /\ stale' = stale \cup {r}
  /\ UNCHANGED <<sessions, start, ffmpeg, sup, dirs, cancelled, cleaner>>

\* The stop route cancels the sessions of the media's keys one after the
\* other, each as it is registered at that moment.
Stop(k) ==
  /\ k \in Registered
  /\ cancelled' = cancelled \cup {sessions[k]}
  /\ UNCHANGED <<sessions, start, ffmpeg, sup, dirs, stale, cleaner>>

-----------------------------------------------------------------------------
(* media_supervisor_loop.                                                  *)

SupTo(r, state) == sup' = [sup EXCEPT ![r] = state]

\* Mutant: the directory is removed as soon as FFmpeg is done.
FfmpegExitsAndCleans(r) ==
  /\ sup[r] = "waiting"
  /\ ffmpeg' = [ffmpeg EXCEPT ![r] = "exited"]
  /\ SupTo(r, "cleanup")
  /\ UNCHANGED <<sessions, start, dirs, cancelled, stale, cleaner>>

\* All segments are written, or FFmpeg failed: the files stay for playback
\* unless the session was cancelled meanwhile.
FfmpegExits(r) ==
  /\ sup[r] = "waiting"
  /\ ffmpeg' = [ffmpeg EXCEPT ![r] = "exited"]
  /\ SupTo(r, IF r \in cancelled THEN "cleanup" ELSE "ended")
  /\ UNCHANGED <<sessions, start, dirs, cancelled, stale, cleaner>>

\* Mutant: a cancelled supervisor leaves the clean-up to the others.
KillOnly(r) ==
  /\ sup[r] = "waiting"
  /\ r \in cancelled
  /\ ffmpeg' = [ffmpeg EXCEPT ![r] = "killed"]
  /\ SupTo(r, "ended")
  /\ UNCHANGED <<sessions, start, dirs, cancelled, stale, cleaner>>

KillFfmpeg(r) ==
  /\ sup[r] = "waiting"
  /\ r \in cancelled
  /\ ffmpeg' = [ffmpeg EXCEPT ![r] = "killed"]
  /\ SupTo(r, "cleanup")
  /\ UNCHANGED <<sessions, start, dirs, cancelled, stale, cleaner>>

RemoveDir(r) ==
  /\ sup[r] = "cleanup"
  /\ dirs' = dirs \ {r}
  /\ SupTo(r, "unregister")
  /\ UNCHANGED <<sessions, start, ffmpeg, cancelled, stale, cleaner>>

\* sessions.remove(&key): whichever session has the key.
Unregister(r) ==
  /\ sup[r] = "unregister"
  /\ sessions' = [sessions EXCEPT ![KeyOf[r]] = None]
  /\ SupTo(r, "ended")
  /\ UNCHANGED <<start, ffmpeg, dirs, cancelled, stale, cleaner>>

-----------------------------------------------------------------------------
(* cleanup_stale_sessions, run by a loop every 30 seconds.                 *)

CollectStale ==
  /\ cleaner = [todo |-> {}, key |-> None, dir |-> None]
  /\ cleaner' = [cleaner EXCEPT !.todo = {k \in Registered : sessions[k] \in stale}]
  /\ cleaner'.todo # {}
  /\ UNCHANGED <<sessions, start, ffmpeg, sup, dirs, cancelled, stale>>

\* Mutant: the stale session is removed from the map but not stopped.
StopStaleNot(k) ==
  /\ cleaner.key = None /\ cleaner.dir = None
  /\ k \in cleaner.todo
  /\ cleaner' = [cleaner EXCEPT !.todo = @ \ {k}, !.key = k]
  /\ UNCHANGED <<sessions, start, ffmpeg, sup, dirs, cancelled, stale>>

StopStale(k) ==
  /\ cleaner.key = None /\ cleaner.dir = None
  /\ k \in cleaner.todo
  /\ cancelled' = IF k \in Registered THEN cancelled \cup {sessions[k]} ELSE cancelled
  /\ cleaner' = [cleaner EXCEPT !.todo = @ \ {k}, !.key = k]
  /\ UNCHANGED <<sessions, start, ffmpeg, sup, dirs, stale>>

\* Mutant: the entry is left to the supervisor, which may have exited.
RemoveStaleNot ==
  /\ cleaner.key # None
  /\ cleaner' = [cleaner EXCEPT !.key = None]
  /\ UNCHANGED <<sessions, start, ffmpeg, sup, dirs, cancelled, stale>>

\* Mutant: the directory of the removed entry is forgotten.
RemoveStaleKeepsDir ==
  /\ cleaner.key # None
  /\ sessions' = [sessions EXCEPT ![cleaner.key] = None]
  /\ cleaner' = [cleaner EXCEPT !.key = None]
  /\ UNCHANGED <<start, ffmpeg, sup, dirs, cancelled, stale>>

\* Mutant: the key is taken for the session.
RemoveStaleByKey ==
  /\ cleaner.key # None
  /\ sessions' = [sessions EXCEPT ![cleaner.key] = None]
  /\ cleaner' = [cleaner EXCEPT !.key = None, !.dir = cleaner.key]
  /\ UNCHANGED <<start, ffmpeg, sup, dirs, cancelled, stale>>

\* The supervisor may have exited long ago: the loop removes the entry too.
RemoveStale ==
  /\ cleaner.key # None
  /\ sessions' = [sessions EXCEPT ![cleaner.key] = None]
  /\ cleaner' = [cleaner EXCEPT !.key = None, !.dir = sessions[cleaner.key]]
  /\ UNCHANGED <<start, ffmpeg, sup, dirs, cancelled, stale>>

RemoveStaleDir ==
  /\ cleaner.dir # None
  /\ dirs' = dirs \ {cleaner.dir}
  /\ cleaner' = [cleaner EXCEPT !.dir = None]
  /\ UNCHANGED <<sessions, start, ffmpeg, sup, cancelled, stale>>

-----------------------------------------------------------------------------
Handler(r) ==
  \/ Join(r) \/ Miss(r) \/ SpawnFfmpeg(r) \/ StartFails(r) \/ Register(r) \/ Duplicate(r)

Supervisor(r) == FfmpegExits(r) \/ KillFfmpeg(r) \/ RemoveDir(r) \/ Unregister(r)

Cleaner == (\E k \in Keys : StopStale(k)) \/ RemoveStale \/ RemoveStaleDir

Next ==
  \/ \E r \in Requests : Handler(r) \/ HangUp(r) \/ BecomeStale(r) \/ Supervisor(r)
  \/ \E k \in Keys : TouchSession(k) \/ Stop(k)
  \/ CollectStale
  \/ Cleaner

Spec == Init /\ [][Next]_vars

(***************************************************************************)
(* Fairness: tokio runs every runnable task and a cancelled token wakes    *)
(* its select!.  FFmpeg may run for ever and clients owe nothing.          *)
(***************************************************************************)
Fairness ==
  /\ \A r \in Requests :
       /\ WF_vars(KillFfmpeg(r))
       /\ WF_vars(RemoveDir(r) \/ Unregister(r))
  /\ WF_vars(CollectStale)
  /\ WF_vars(Cleaner)

FairSpec == Spec /\ Fairness

-----------------------------------------------------------------------------
(* Properties.                                                             *)

IsRegistered(r) == sessions[KeyOf[r]] = r

\* Another request for the same key was cancelled, and with it its right to
\* remove whatever holds the key.
RivalCancelled(r) ==
  \E s \in Requests \ {r} : KeyOf[s] = KeyOf[r] /\ s \in cancelled

\* A session that viewers find and nobody stopped still has its segments:
\* neither the end of FFmpeg nor the clean-up of another session took them.
LiveEntryHasDir ==
  \A r \in Requests : IsRegistered(r) /\ r \notin cancelled => r \in dirs

\* FFmpeg runs without an entry through which it could be stopped only while
\* it is being registered, after its client hung up, or after a session of
\* the same key was cancelled.
OrphanOnlyByRace ==
  \A r \in Requests :
    ffmpeg[r] = "running" /\ r \notin cancelled /\ ~IsRegistered(r) =>
      start[r] \in {"spawned", "left"} \/ RivalCancelled(r)

\* A directory stays on disk without an entry only in those same cases, after
\* a start that failed, or when FFmpeg ended before its session turned out to
\* be a duplicate.
NoDirLeak ==
  \A r \in dirs :
    \/ IsRegistered(r)
    \/ cleaner.dir = r
    \/ sup[r] \in {"waiting", "cleanup"} /\ (r \in cancelled \/ start[r] = "spawned")
    \/ start[r] \in {"spawned", "failed", "left"}
    \/ start[r] = "duplicate" /\ ffmpeg[r] = "exited"
    \/ RivalCancelled(r)

\* A session nobody watches leaves the map, whether FFmpeg still runs or not.
StaleSessionsRemoved ==
  \A r \in Requests : IsRegistered(r) /\ r \in stale ~> ~IsRegistered(r) \/ r \notin stale

\* Stopping a session whose FFmpeg runs kills it and frees its disk space.
StoppedSessionFreesDisk ==
  \A r \in Requests : r \in cancelled /\ ffmpeg[r] = "running"
    ~> ffmpeg[r] # "running" /\ r \notin dirs

-----------------------------------------------------------------------------
(* What a comment of the code claims and the code does not keep.           *)

\* start_media_hls_session: "if another request already created a session with
\* this key while we were spawning FFmpeg, kill ours".  Only a session that was
\* cancelled itself leaves the map.
OnlyCancelledLeaveMap ==
  [][\A k \in Keys :
       sessions[k] # None /\ sessions'[k] # sessions[k] => sessions[k] \in cancelled]_vars

=============================================================================
