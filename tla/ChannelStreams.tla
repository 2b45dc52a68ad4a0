--------------------------- MODULE ChannelStreams ---------------------------
(***************************************************************************)
(* Live channels of one library: the concurrent stream slots               *)
(* (src/src/model/channels.rs), the HLS sessions with their FFmpeg         *)
(* supervisors (src/src/tools/hls_session.rs), the MPEG2-TS proxy and its  *)
(* StreamGuard (src/src/routes/channels.rs), the cleanup loop              *)
(* (src/src/model/mod.rs) and the stop route.                              *)
(*                                                                         *)
(* A request is one GET of a playlist or of a TS stream.  The HLS session  *)
(* it creates, and that session's supervisor, bear its name.               *)
(***************************************************************************)
EXTENDS Naturals, FiniteSets

CONSTANTS
  Requests,     \* GET /stream and GET /hls/playlist.m3u8 calls
  TsRequests,   \* those of the MPEG2-TS proxy
  Channels,     \* channels of the library
  Keys,         \* session keys <library>:<channel>:<quality>
  ChannelOf,    \* the channel of a key
  KeyOf,        \* the key a request asks for
  MaxStreams,   \* library.settings.max_streams
  MaxRestarts,  \* MAX_FFMPEG_RESTARTS
  None          \* "no session", "no key"

ASSUME StreamsAssumption ==
  /\ TsRequests \subseteq Requests
  /\ ChannelOf \in [Keys -> Channels]
  /\ KeyOf \in [Requests -> Keys]
  /\ MaxStreams \in Nat
  /\ MaxRestarts \in Nat \ {0}
  /\ None \notin Requests \cup Keys

Chan(r) == ChannelOf[KeyOf[r]]

VARIABLES
  active,     \* active_streams[library]: channels that own a slot
  sessions,   \* hls_sessions: the session registered under each key
  req,        \* progress of each GET
  victim,     \* the key each evicting request chose
  sup,        \* state of each session's supervisor
  rapid,      \* its restart_count
  cancelled,  \* sessions whose cancel_token is cancelled
  stale,      \* sessions whose last_active is older than the timeout
  closer      \* work lists of the cleanup loop and of the stop route

streamVars == <<active, req, victim>>
supVars    == <<sup, rapid>>
vars == <<active, sessions, req, victim, sup, rapid, cancelled, stale, closer>>

ReqStates ==
  {"idle", "joined", "acquire", "evict", "swap", "resolve", "connect", "create",
   "insert", "served", "streaming", "closing", "refused", "failed", "left",
   "abandoned"}
SupStates ==
  {"none", "spawn", "running", "delay", "cleanup", "unregister", "release", "ended"}
Closers == {"cleanup loop", "stop route"}

TypeOK ==
  /\ active \subseteq Channels
  /\ sessions \in [Keys -> Requests \cup {None}]
  /\ req \in [Requests -> ReqStates]
  /\ victim \in [Requests -> Keys \cup {None}]
  /\ sup \in [Requests -> SupStates]
  /\ rapid \in [Requests -> 0..MaxRestarts]
  /\ cancelled \subseteq Requests
  /\ stale \subseteq Requests
  /\ closer \in [Closers -> [stop : SUBSET Keys, release : SUBSET Channels]]

Init ==
  /\ active = {}
  /\ sessions = [k \in Keys |-> None]
  /\ req = [r \in Requests |-> "idle"]
  /\ victim = [r \in Requests |-> None]
  /\ sup = [r \in Requests |-> "none"]
  /\ rapid = [r \in Requests |-> 0]
  /\ cancelled = {}
  /\ stale = {}
  /\ closer = [a \in Closers |-> [stop |-> {}, release |-> {}]]

Registered == {k \in Keys : sessions[k] # None}

-----------------------------------------------------------------------------
(* acquire_stream_slot and release_stream_slot.                            *)

To(r, state) == req' = [req EXCEPT ![r] = state]

\* stop_session cancels the token of whatever session has the key now.
StopSession(k) ==
  cancelled' = IF sessions[k] = None THEN cancelled ELSE cancelled \cup {sessions[k]}

\* GET playlist: a registered session answers, whatever its state.
Lookup(r) ==
  /\ req[r] = "idle"
  /\ To(r, IF r \in TsRequests \/ sessions[KeyOf[r]] = None THEN "acquire" ELSE "joined")
  /\ UNCHANGED <<active, sessions, victim, supVars, cancelled, stale, closer>>

\* The channel has a slot already, or there is room for one more.
AcquireSlot(r) ==
  /\ req[r] = "acquire"
  /\ Chan(r) \in active \/ Cardinality(active) < MaxStreams
  /\ active' = active \cup {Chan(r)}
  /\ To(r, "resolve")
  /\ UNCHANGED <<sessions, victim, supVars, cancelled, stale, closer>>

\* No room: the least recently active HLS session is chosen (a stale one if
\* there is one) and the lock on active_streams dropped.
ChooseVictim(r) ==
  /\ req[r] = "acquire"
  /\ Chan(r) \notin active /\ Cardinality(active) >= MaxStreams
  /\ \E k \in Registered :
       /\ sessions[k] \in stale \/ \A l \in Registered : sessions[l] \notin stale
       /\ victim' = [victim EXCEPT ![r] = k]
  /\ To(r, "evict")
  /\ UNCHANGED <<active, sessions, supVars, cancelled, stale, closer>>

\* No room and no HLS session to evict.
Refuse(r) ==
  /\ req[r] = "acquire"
  /\ Chan(r) \notin active /\ Cardinality(active) >= MaxStreams
  /\ Registered = {}
  /\ To(r, "refused")
  /\ UNCHANGED <<active, sessions, victim, supVars, cancelled, stale, closer>>

StopVictim(r) ==
  /\ req[r] = "evict"
  /\ StopSession(victim[r])
  /\ To(r, "swap")
  /\ UNCHANGED <<active, sessions, victim, supVars, stale, closer>>

\* The lock is taken again: the victim's slot goes to the new channel.
SwapSlot(r) ==
  /\ req[r] = "swap"
  /\ active' = (active \ {ChannelOf[victim[r]]}) \cup {Chan(r)}
  /\ victim' = [victim EXCEPT ![r] = None]
  /\ To(r, "resolve")
  /\ UNCHANGED <<sessions, supVars, cancelled, stale, closer>>

\* Mutant: the MPEG2-TS proxy returns without releasing the slot.
ReleaseAndFailKeepsSlot(r) ==
  /\ To(r, "failed")
  /\ UNCHANGED <<active, sessions, victim, supVars, cancelled, stale, closer>>

\* An error path that calls release_stream_slot before it returns.
ReleaseAndFail(r) ==
  /\ active' = active \ {Chan(r)}
  /\ To(r, "failed")
  /\ UNCHANGED <<sessions, victim, supVars, cancelled, stale, closer>>

-----------------------------------------------------------------------------
(* The rest of the two handlers.                                           *)

ResolveUrl(r) ==
  /\ req[r] = "resolve"
  /\ To(r, IF r \in TsRequests THEN "connect" ELSE "create")
  /\ UNCHANGED <<active, sessions, victim, supVars, cancelled, stale, closer>>

\* handler_stream releases the slot, get_or_create_hls_session returns with `?`.
ResolveFails(r) ==
  /\ req[r] = "resolve"
  /\ IF r \in TsRequests
     THEN ReleaseAndFail(r)
     ELSE /\ To(r, "abandoned")
          /\ UNCHANGED <<active, sessions, victim, supVars, cancelled, stale, closer>>

\* create_session spawns the supervisor before it registers the session.
SpawnSupervisor(r) ==
  /\ req[r] = "create"
  /\ sup' = [sup EXCEPT ![r] = "spawn"]
  /\ To(r, "insert")
  /\ UNCHANGED <<active, sessions, victim, rapid, cancelled, stale, closer>>

\* create_session cannot make the directory, or the upstream refuses.
CreateOrConnectFails(r) ==
  /\ req[r] \in {"create", "connect"}
  /\ ReleaseAndFail(r)

RegisterSession(r) ==
  /\ req[r] = "insert"
  /\ sessions' = [sessions EXCEPT ![KeyOf[r]] = r]
  /\ To(r, "served")
  /\ UNCHANGED <<active, victim, supVars, cancelled, stale, closer>>

ConnectUpstream(r) ==
  /\ req[r] = "connect"
  /\ To(r, "streaming")
  /\ UNCHANGED <<active, sessions, victim, supVars, cancelled, stale, closer>>

\* The body is dropped: StreamGuard::drop spawns a task that frees the slot.
DropBody(r) ==
  /\ req[r] = "streaming"
  /\ To(r, "closing")
  /\ UNCHANGED <<active, sessions, victim, supVars, cancelled, stale, closer>>

ReleaseGuard(r) ==
  /\ req[r] = "closing"
  /\ active' = active \ {Chan(r)}
  /\ To(r, "left")
  /\ UNCHANGED <<sessions, victim, supVars, cancelled, stale, closer>>

\* The client hangs up: the handler's future is dropped at its await.  With
\* no guard yet, nobody gives the slot back.
HangUp(r) ==
  /\ req[r] \in {"acquire", "evict", "swap", "resolve", "connect", "create", "insert"}
  /\ To(r, IF req[r] \in {"acquire", "evict", "swap"} THEN "left" ELSE "abandoned")
  /\ victim' = [victim EXCEPT ![r] = None]
  /\ UNCHANGED <<active, sessions, supVars, cancelled, stale, closer>>

\* GET of a segment touches the session; time passes without one.
TouchSession(k) ==
  /\ k \in Registered
  /\ stale' = stale \ {sessions[k]}
  /\ UNCHANGED <<streamVars, sessions, supVars, cancelled, closer>>

BecomeStale(r) ==
  /\ \E k \in Registered : sessions[k] = r
  /\ stale' = stale \cup {r}
  /\ UNCHANGED <<streamVars, sessions, supVars, cancelled, closer>>

-----------------------------------------------------------------------------
(* supervisor_loop.                                                        *)

SupTo(r, state) ==
  /\ sup' = [sup EXCEPT ![r] = state]
  /\ UNCHANGED <<req, victim, cancelled, stale, closer>>

SpawnFfmpeg(r) ==
  /\ sup[r] = "spawn"
  /\ \E state \in {"running", "cleanup"} : SupTo(r, state)
  /\ UNCHANGED <<active, sessions, rapid>>

\* Mutant: one restart too many before giving up.
FfmpegExitsLate(r) ==
  /\ sup[r] = "running"
  /\ \E stable \in BOOLEAN :
       LET count == IF stable THEN 0 ELSE rapid[r] + 1 IN
       IF r \in cancelled
       THEN SupTo(r, "cleanup") /\ UNCHANGED rapid
       ELSE /\ rapid' = [rapid EXCEPT ![r] = count]
            /\ SupTo(r, IF count > MaxRestarts THEN "cleanup" ELSE "delay")
  /\ UNCHANGED <<active, sessions>>

\* FFmpeg ends by itself: a run of STABLE_RUN_SECS resets the counter.
FfmpegExits(r) ==
  /\ sup[r] = "running"
  /\ \E stable \in BOOLEAN :
       LET count == IF stable THEN 0 ELSE rapid[r] + 1 IN
       IF r \in cancelled
       THEN SupTo(r, "cleanup") /\ UNCHANGED rapid
       ELSE /\ rapid' = [rapid EXCEPT ![r] = count]
            /\ SupTo(r, IF count >= MaxRestarts THEN "cleanup" ELSE "delay")
  /\ UNCHANGED <<active, sessions>>

\* Mutant: the killed FFmpeg is restarted.
KillAndRestart(r) ==
  /\ sup[r] = "running"
  /\ r \in cancelled
  /\ SupTo(r, "delay")
  /\ UNCHANGED <<active, sessions, rapid>>

\* cancel_token.cancelled(): FFmpeg is killed.
KillFfmpeg(r) ==
  /\ sup[r] = "running"
  /\ r \in cancelled
  /\ SupTo(r, "cleanup")
  /\ UNCHANGED <<active, sessions, rapid>>

\* stall_detector: no new segment for too long, FFmpeg is killed.
KillStalled(r) ==
  /\ sup[r] = "running"
  /\ SupTo(r, "cleanup")
  /\ UNCHANGED <<active, sessions, rapid>>

Restart(r) ==
  /\ sup[r] = "delay"
  /\ SupTo(r, "spawn")
  /\ UNCHANGED <<active, sessions, rapid>>

RemoveDir(r) ==
  /\ sup[r] = "cleanup"
  /\ SupTo(r, "unregister")
  /\ UNCHANGED <<active, sessions, rapid>>

\* sessions.remove(&key): whichever session has the key.
Unregister(r) ==
  /\ sup[r] = "unregister"
  /\ sessions' = [sessions EXCEPT ![KeyOf[r]] = None]
  /\ SupTo(r, "release")
  /\ UNCHANGED <<active, rapid>>

\* Mutant: the supervisor forgets the slot.
ReleaseSlotNever(r) ==
  /\ sup[r] = "release"
  /\ SupTo(r, "ended")
  /\ UNCHANGED <<active, sessions, rapid>>

ReleaseSlot(r) ==
  /\ sup[r] = "release"
  /\ active' = active \ {Chan(r)}
  /\ SupTo(r, "ended")
  /\ UNCHANGED <<sessions, rapid>>

-----------------------------------------------------------------------------
(* cleanup_stale_sessions and stop_hls_session collect keys under the read *)
(* lock, then stop the sessions one by one, then release their slots.      *)

Idle(a) == closer[a] = [stop |-> {}, release |-> {}]

Collect(a, keys) ==
  /\ Idle(a)
  /\ keys # {}
  /\ closer' = [closer EXCEPT ![a] =
                 [stop |-> keys, release |-> {ChannelOf[k] : k \in keys}]]
  /\ UNCHANGED <<streamVars, sessions, supVars, cancelled, stale>>

CollectStale == Collect("cleanup loop", {k \in Registered : sessions[k] \in stale})

CollectChannel(c) == Collect("stop route", {k \in Registered : ChannelOf[k] = c})

\* Mutant: the session is dropped from the map, its supervisor not told.
CloseSessionByRemoval(a, k) ==
  /\ k \in closer[a].stop
  /\ sessions' = [sessions EXCEPT ![k] = None]
  /\ closer' = [closer EXCEPT ![a].stop = @ \ {k}]
  /\ UNCHANGED <<streamVars, supVars, cancelled, stale>>

\* Mutant: the slots are released and the sessions left running.
CloseSessionWithoutCancel(a, k) ==
  /\ k \in closer[a].stop
  /\ closer' = [closer EXCEPT ![a].stop = @ \ {k}]
  /\ UNCHANGED <<streamVars, sessions, supVars, cancelled, stale>>

CloseSession(a, k) ==
  /\ k \in closer[a].stop
  /\ StopSession(k)
  /\ closer' = [closer EXCEPT ![a].stop = @ \ {k}]
  /\ UNCHANGED <<streamVars, sessions, supVars, stale>>

ReleaseClosed(a, c) ==
  /\ closer[a].stop = {}
  /\ c \in closer[a].release
  /\ active' = active \ {c}
  /\ closer' = [closer EXCEPT ![a].release = @ \ {c}]
  /\ UNCHANGED <<req, victim, sessions, supVars, cancelled, stale>>

-----------------------------------------------------------------------------
Handler(r) ==
  \/ Lookup(r) \/ AcquireSlot(r) \/ ChooseVictim(r) \/ Refuse(r)
  \/ StopVictim(r) \/ SwapSlot(r)
  \/ ResolveUrl(r) \/ ResolveFails(r)
  \/ SpawnSupervisor(r) \/ CreateOrConnectFails(r) \/ RegisterSession(r)
  \/ ConnectUpstream(r) \/ DropBody(r) \/ ReleaseGuard(r)

Supervisor(r) ==
  \/ SpawnFfmpeg(r) \/ FfmpegExits(r) \/ KillFfmpeg(r) \/ KillStalled(r)
  \/ Restart(r) \/ RemoveDir(r) \/ Unregister(r) \/ ReleaseSlot(r)

Closer(a) ==
  \/ \E k \in Keys : CloseSession(a, k)
  \/ \E c \in Channels : ReleaseClosed(a, c)

Next ==
  \/ \E r \in Requests : Handler(r) \/ HangUp(r) \/ BecomeStale(r) \/ Supervisor(r)
  \/ \E k \in Keys : TouchSession(k)
  \/ CollectStale
  \/ \E c \in Channels : CollectChannel(c)
  \/ \E a \in Closers : Closer(a)

Spec == Init /\ [][Next]_vars

(***************************************************************************)
(* Fairness: tokio runs every runnable task, the sleeps of the supervisor  *)
(* and of the cleanup loop elapse, a cancelled token wakes its select!,    *)
(* and child.kill() is bounded by a timeout.  FFmpeg may run forever,      *)
(* clients owe nothing, and a request that is not dropped goes on.         *)
(***************************************************************************)
Fairness ==
  /\ \A r \in Requests :
       /\ WF_vars(RegisterSession(r))
       /\ WF_vars(SpawnFfmpeg(r))
       /\ WF_vars(KillFfmpeg(r))
       /\ WF_vars(Restart(r))
       /\ WF_vars(RemoveDir(r) \/ Unregister(r) \/ ReleaseSlot(r))
  /\ WF_vars(CollectStale)
  /\ \A a \in Closers : WF_vars(Closer(a))

FairSpec == Spec /\ Fairness

-----------------------------------------------------------------------------
(* Properties.                                                             *)

SupLive == {"spawn", "running", "delay"}

\* r owns the slot of its channel and has a release_stream_slot ahead of it.
HoldsSlot(r) ==
  \/ req[r] \in {"resolve", "connect", "create", "streaming", "closing"}
  \/ sup[r] \in SupStates \ {"none", "ended"}

\* Every slot in use belongs to a stream that will give it back, through all
\* error paths, evictions and double releases; the only slots ever lost are
\* those of handlers that stopped at an await before anything guards them.
NoSlotLeak ==
  \A c \in active :
    \E r \in Requests : Chan(r) = c /\ (HoldsSlot(r) \/ req[r] = "abandoned")

\* The limit of streams (max_streams) may be passed, although get_or_create_hls_session
\* calls it enforced (channels.rs:735): a session stays in the map after it was evicted,
\* and the next eviction takes it again.  What acquire_stream_slot does guarantee: over
\* the limit one more channel gets a slot only at the end of an eviction whose victim has
\* no slot any more.
LimitPassedOnlyByLostVictim ==
  [][ Cardinality(active') > MaxStreams /\ Cardinality(active') > Cardinality(active) =>
        \E r \in Requests : /\ req[r] = "swap" /\ req'[r] # "swap"
                            /\ ChannelOf[victim[r]] \notin active ]_active

\* A live FFmpeg supervisor that nothing can reach by its key any more (no
\* stop, no cleanup) exists only when two requests created the same session
\* or the client hung up while create_session waited for the map's lock.
OrphanOnlyByRace ==
  \A r \in Requests :
    sup[r] \in SupLive /\ r \notin cancelled /\ sessions[KeyOf[r]] # r =>
      \/ req[r] \in {"insert", "abandoned"}
      \/ \E s \in Requests \ {r} : KeyOf[s] = KeyOf[r] /\ sup[s] # "none"

\* A cancelled session ends, in whatever state (FFmpeg running, waiting to be
\* restarted, not spawned yet) the cancellation found its supervisor.
CancelledSessionEnds ==
  \A r \in Requests : r \in cancelled ~> sup[r] = "ended" \/ req[r] = "abandoned"

\* A session nobody watches any more is stopped and leaves the map.
IdleSessionEnds ==
  \A r \in Requests :
    sessions[KeyOf[r]] = r /\ r \in stale /\ sup[r] \in SupLive
      ~> r \notin stale \/ sessions[KeyOf[r]] # r

=============================================================================
