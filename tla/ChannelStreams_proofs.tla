------------------------ MODULE ChannelStreams_proofs ------------------------
(***************************************************************************)
(* Theorems about the live channels: ChannelStreams, for any number of     *)
(* requests, channels, keys and slots, and ChannelLists, for any number of *)
(* imports of playlists of any entries.                                    *)
(***************************************************************************)
EXTENDS MCChannelStreams, FiniteSetTheorems, TLAPS

-----------------------------------------------------------------------------
(* Type correctness.                                                       *)

\* A supervisor that has not given up still has a restart left, a request
\* that evicts has chosen its victim, and supervisors are spawned once.
CountInv == \A r \in Requests :
  /\ sup[r] \in {"none"} \cup SupLive => rapid[r] < MaxRestarts
  /\ req[r] \in {"evict", "swap"} => victim[r] \in Keys
  /\ req[r] \notin {"insert", "served", "abandoned"} => sup[r] = "none"

LEMMA InitType == Init => TypeOK /\ CountInv
<1>1. Init => CountInv
  BY StreamsAssumption DEF Init, CountInv
<1>2. Init => /\ sessions \in [Keys -> Requests \cup {None}]
              /\ victim \in [Requests -> Keys \cup {None}]
              /\ rapid \in [Requests -> 0..MaxRestarts]
  BY StreamsAssumption DEF Init
<1>3. Init => /\ req \in [Requests -> ReqStates]
              /\ sup \in [Requests -> SupStates]
  BY DEF Init, ReqStates, SupStates
<1>4. Init => closer \in [Closers -> [stop : SUBSET Keys, release : SUBSET Channels]]
  BY DEF Init
<1>q. QED
  BY <1>1, <1>2, <1>3, <1>4 DEF Init, TypeOK

LEMMA HandlerType ==
  ASSUME TypeOK, CountInv, NEW r \in Requests,
         Handler(r) \/ HangUp(r) \/ BecomeStale(r)
  PROVE  TypeOK' /\ CountInv'
<1> USE StreamsAssumption DEF TypeOK, CountInv, SupLive, ReqStates, SupStates, To, Chan
<1>1. CASE Lookup(r) \/ Refuse(r)
  BY <1>1 DEF Lookup, Refuse, supVars
<1>2. CASE AcquireSlot(r)
  BY <1>2 DEF AcquireSlot, supVars
<1>3. CASE SwapSlot(r)
  BY <1>3 DEF SwapSlot, supVars
<1>4. CASE ChooseVictim(r)
  <2>1. PICK k \in Keys : victim' = [victim EXCEPT ![r] = k]
    BY <1>4 DEF ChooseVictim, Registered
  <2>2. /\ req' = [req EXCEPT ![r] = "evict"]
        /\ UNCHANGED <<active, sessions, sup, rapid, cancelled, stale, closer>>
    BY <1>4 DEF ChooseVictim, supVars
  <2>3. TypeOK'
    BY <2>1, <2>2
  <2>4. req[r] = "acquire" /\ sup[r] = "none"
    BY <1>4 DEF ChooseVictim
  <2>5. CountInv'
    BY <2>1, <2>2, <2>4
  <2>q. QED
    BY <2>3, <2>5
<1>5. CASE StopVictim(r)
  <2>1. cancelled' \subseteq Requests
    BY <1>5 DEF StopVictim, StopSession
  <2>q. QED
    BY <1>5, <2>1 DEF StopVictim, supVars
<1>6. CASE ResolveUrl(r)
  <2>1. PICK state \in {"connect", "create"} : req' = [req EXCEPT ![r] = state]
    BY <1>6 DEF ResolveUrl
  <2>2. /\ req[r] = "resolve" /\ sup[r] = "none"
        /\ UNCHANGED <<active, sessions, victim, sup, rapid, cancelled, stale, closer>>
    BY <1>6 DEF ResolveUrl, supVars
  <2>3. TypeOK'
    BY <2>1, <2>2
  <2>4. CountInv'
    BY <2>1, <2>2
  <2>q. QED
    BY <2>3, <2>4
<1>7. ASSUME ReleaseAndFail(r), sup[r] = "none"
      PROVE TypeOK' /\ CountInv'
  <2>1. TypeOK'
    BY <1>7 DEF ReleaseAndFail, supVars
  <2>2. CountInv'
    BY <1>7 DEF ReleaseAndFail, supVars
  <2>q. QED
    BY <2>1, <2>2
<1>8. CASE ResolveFails(r) \/ CreateOrConnectFails(r)
  <2>1. CASE ReleaseAndFail(r)
    <3>1. sup[r] = "none"
      BY <1>8 DEF ResolveFails, CreateOrConnectFails
    <3>q. QED
      BY <1>7, <2>1, <3>1
  <2>2. CASE ~ReleaseAndFail(r)
    <3>1. /\ req' = [req EXCEPT ![r] = "abandoned"]
          /\ UNCHANGED <<active, sessions, victim, sup, rapid, cancelled, stale, closer>>
      BY <1>8, <2>2 DEF ResolveFails, CreateOrConnectFails, supVars
    <3>q. QED
      BY <3>1
  <2>q. QED
    BY <2>1, <2>2
<1>9. CASE SpawnSupervisor(r)
  <2>1. rapid[r] < MaxRestarts
    BY <1>9 DEF SpawnSupervisor
  <2>q. QED
    BY <1>9, <2>1 DEF SpawnSupervisor
<1>10. CASE RegisterSession(r)
  BY <1>10 DEF RegisterSession, supVars
<1>11. CASE ConnectUpstream(r) \/ DropBody(r) \/ ReleaseGuard(r)
  BY <1>11 DEF ConnectUpstream, DropBody, ReleaseGuard, supVars
<1>12. CASE HangUp(r)
  <2>1. req' \in [Requests -> ReqStates] /\ victim' \in [Requests -> Keys \cup {None}]
    BY <1>12 DEF HangUp
  <2>2. /\ req'[r] \in {"left", "abandoned"}
        /\ \A s \in Requests \ {r} : req'[s] = req[s] /\ victim'[s] = victim[s]
    BY <1>12 DEF HangUp
  <2>q. QED
    BY <1>12, <2>1, <2>2 DEF HangUp, supVars
<1>13. CASE BecomeStale(r)
  BY <1>13 DEF BecomeStale, supVars, streamVars
<1>q. QED
  BY <1>1, <1>2, <1>3, <1>4, <1>5, <1>6, <1>7, <1>8, <1>9, <1>10, <1>11, <1>12, <1>13
  DEF Handler

LEMMA SupervisorType ==
  ASSUME TypeOK, CountInv, NEW r \in Requests, Supervisor(r)
  PROVE  TypeOK' /\ CountInv'
<1> USE StreamsAssumption DEF TypeOK, CountInv, SupLive, SupTo, SupStates, Chan
<1>1. CASE FfmpegExits(r)
  <2>1. PICK stable \in BOOLEAN :
          LET count == IF stable THEN 0 ELSE rapid[r] + 1 IN
          IF r \in cancelled
          THEN SupTo(r, "cleanup") /\ UNCHANGED rapid
          ELSE /\ rapid' = [rapid EXCEPT ![r] = count]
               /\ SupTo(r, IF count >= MaxRestarts THEN "cleanup" ELSE "delay")
    BY <1>1 DEF FfmpegExits
  <2>q. QED
    BY <1>1, <2>1 DEF FfmpegExits
<1>2. CASE SpawnFfmpeg(r)
  BY <1>2 DEF SpawnFfmpeg
<1>3. CASE KillFfmpeg(r) \/ KillStalled(r) \/ Restart(r) \/ RemoveDir(r)
  BY <1>3 DEF KillFfmpeg, KillStalled, Restart, RemoveDir
<1>4. CASE Unregister(r) \/ ReleaseSlot(r)
  BY <1>4 DEF Unregister, ReleaseSlot
<1>q. QED
  BY <1>1, <1>2, <1>3, <1>4 DEF Supervisor

LEMMA CloserType ==
  ASSUME TypeOK, CountInv,
         \/ \E k \in Keys : TouchSession(k)
         \/ CollectStale
         \/ \E c \in Channels : CollectChannel(c)
         \/ \E a \in Closers : Closer(a)
         \/ UNCHANGED vars
  PROVE  TypeOK' /\ CountInv'
<1> USE StreamsAssumption DEF TypeOK, CountInv
<1>1. ASSUME NEW k \in Keys, TouchSession(k)
      PROVE TypeOK' /\ CountInv'
  BY <1>1 DEF TouchSession, streamVars, supVars
<1>2. ASSUME NEW a \in Closers, NEW keys \in SUBSET Keys, Collect(a, keys)
      PROVE TypeOK' /\ CountInv'
  BY <1>2 DEF Collect, streamVars, supVars
<1>3. CollectStale => TypeOK' /\ CountInv'
  BY <1>2 DEF CollectStale, Registered, Closers
<1>4. ASSUME NEW c \in Channels, CollectChannel(c)
      PROVE TypeOK' /\ CountInv'
  BY <1>2, <1>4 DEF CollectChannel, Registered, Closers
<1>5. ASSUME NEW a \in Closers, NEW k \in Keys, CloseSession(a, k)
      PROVE TypeOK' /\ CountInv'
  <2>1. cancelled' \subseteq Requests
    BY <1>5 DEF CloseSession, StopSession
  <2>q. QED
    BY <1>5, <2>1 DEF CloseSession, streamVars, supVars
<1>6. ASSUME NEW a \in Closers, NEW c \in Channels, ReleaseClosed(a, c)
      PROVE TypeOK' /\ CountInv'
  BY <1>6 DEF ReleaseClosed, supVars
<1>7. CASE UNCHANGED vars
  BY <1>7 DEF vars, supVars, streamVars
<1>q. QED
  BY <1>1, <1>3, <1>4, <1>5, <1>6, <1>7 DEF Closer

\* The state is always well typed, the restart counter of a supervisor never
\* exceeds MAX_FFMPEG_RESTARTS and a supervisor that reached it gives up.
THEOREM TypeCorrect == Spec => [](TypeOK /\ CountInv)
<1>1. TypeOK /\ CountInv /\ [Next]_vars => TypeOK' /\ CountInv'
  BY HandlerType, SupervisorType, CloserType DEF Next
<1>q. QED
  BY InitType, <1>1, PTL DEF Spec

-----------------------------------------------------------------------------
(* Slots.                                                                  *)

\* A step that keeps the slots, or gives one to or takes one from a channel,
\* keeps every slot owned.
LEMMA SlotStep ==
  ASSUME TypeOK, NoSlotLeak, [Next]_vars
  PROVE  NoSlotLeak'
<1> USE DEF TypeOK, NoSlotLeak, HoldsSlot, Chan
<1>1. ASSUME NEW r \in Requests,
             Lookup(r) \/ ChooseVictim(r) \/ Refuse(r) \/ StopVictim(r)
      PROVE NoSlotLeak'
  BY <1>1 DEF Lookup, ChooseVictim, Refuse, StopVictim, To, supVars
<1>2. ASSUME NEW r \in Requests, AcquireSlot(r) \/ SwapSlot(r)
      PROVE NoSlotLeak'
  BY <1>2 DEF AcquireSlot, SwapSlot, To, supVars
<1>3. ASSUME NEW r \in Requests, ResolveUrl(r) \/ ConnectUpstream(r) \/ DropBody(r)
      PROVE NoSlotLeak'
  BY <1>3 DEF ResolveUrl, ConnectUpstream, DropBody, To, supVars
<1>4. ASSUME NEW r \in Requests, ResolveFails(r) \/ CreateOrConnectFails(r)
      PROVE NoSlotLeak'
  BY <1>4 DEF ResolveFails, CreateOrConnectFails, ReleaseAndFail, To, supVars
<1>5. ASSUME NEW r \in Requests, SpawnSupervisor(r) \/ RegisterSession(r)
      PROVE NoSlotLeak'
  BY <1>5 DEF SpawnSupervisor, RegisterSession, To, supVars, SupStates
<1>6. ASSUME NEW r \in Requests, ReleaseGuard(r) \/ HangUp(r)
      PROVE NoSlotLeak'
  BY <1>6 DEF ReleaseGuard, HangUp, To, supVars
<1>7. ASSUME NEW r \in Requests,
             \/ SpawnFfmpeg(r) \/ KillFfmpeg(r) \/ KillStalled(r)
             \/ Restart(r) \/ RemoveDir(r) \/ Unregister(r)
      PROVE NoSlotLeak'
  BY <1>7 DEF SpawnFfmpeg, KillFfmpeg, KillStalled, Restart, RemoveDir,
              Unregister, SupTo, SupStates
<1>8. ASSUME NEW r \in Requests, FfmpegExits(r)
      PROVE NoSlotLeak'
  <2>1. SupTo(r, "cleanup") \/ SupTo(r, "delay")
    BY <1>8 DEF FfmpegExits
  <2>q. QED
    BY <1>8, <2>1 DEF FfmpegExits, SupTo, SupStates
<1>9. ASSUME NEW r \in Requests, ReleaseSlot(r)
      PROVE NoSlotLeak'
  BY <1>9 DEF ReleaseSlot, SupTo
<1>10. CASE \/ \E r \in Requests : BecomeStale(r)
            \/ \E k \in Keys : TouchSession(k)
            \/ CollectStale
            \/ \E c \in Channels : CollectChannel(c)
            \/ UNCHANGED vars
  <2>1. UNCHANGED <<active, req, sup>>
    BY <1>10 DEF BecomeStale, TouchSession, CollectStale, CollectChannel, Collect,
                 streamVars, supVars, vars
  <2>q. QED
    BY <2>1
<1>11. ASSUME NEW a \in Closers, Closer(a)
       PROVE NoSlotLeak'
  BY <1>11 DEF Closer, CloseSession, ReleaseClosed, streamVars, supVars
<1>q. QED
  BY <1>1, <1>2, <1>3, <1>4, <1>5, <1>6, <1>7, <1>8, <1>9, <1>10, <1>11
  DEF Next, Handler, Supervisor

\* Whatever the interleaving of requests, evictions, stops, cleanups and
\* supervisors, a slot in use belongs to a stream that will release it, or to
\* a handler that stopped before anything guarded its slot.
THEOREM SlotCorrect == Spec => []NoSlotLeak
<1>1. Init => NoSlotLeak
  BY DEF Init, NoSlotLeak
<1>q. QED
  BY <1>1, SlotStep, TypeCorrect, PTL DEF Spec

-----------------------------------------------------------------------------
(* The limit of streams.                                                   *)

\* Channels get slots in two places, the rest of the code only takes them away.
LEMMA SlotsGiven ==
  ASSUME Next
  PROVE  \/ active' \subseteq active
         \/ \E r \in Requests : AcquireSlot(r) \/ SwapSlot(r)
<1>1. ASSUME NEW r \in Requests, Handler(r), ~AcquireSlot(r), ~SwapSlot(r)
      PROVE  active' \subseteq active
  <2>1. CASE Lookup(r) \/ ChooseVictim(r) \/ Refuse(r) \/ StopVictim(r)
    BY <2>1 DEF Lookup, ChooseVictim, Refuse, StopVictim
  <2>2. CASE ResolveUrl(r) \/ ResolveFails(r) \/ SpawnSupervisor(r) \/ CreateOrConnectFails(r)
    BY <2>2 DEF ResolveUrl, ResolveFails, SpawnSupervisor, CreateOrConnectFails, ReleaseAndFail
  <2>3. CASE RegisterSession(r) \/ ConnectUpstream(r) \/ DropBody(r) \/ ReleaseGuard(r)
    BY <2>3 DEF RegisterSession, ConnectUpstream, DropBody, ReleaseGuard
  <2> QED
    BY <1>1, <2>1, <2>2, <2>3 DEF Handler
<1>2. ASSUME NEW r \in Requests, HangUp(r) \/ BecomeStale(r)
      PROVE  active' \subseteq active
  BY <1>2 DEF HangUp, BecomeStale, streamVars
<1>3. ASSUME NEW r \in Requests, Supervisor(r)
      PROVE  active' \subseteq active
  BY <1>3 DEF Supervisor, SpawnFfmpeg, FfmpegExits, KillFfmpeg, KillStalled, Restart, RemoveDir,
              Unregister, ReleaseSlot
<1>4. ASSUME NEW k \in Keys, TouchSession(k)
      PROVE  active' \subseteq active
  BY <1>4 DEF TouchSession, streamVars
<1>5. CASE CollectStale \/ \E c \in Channels : CollectChannel(c)
  <2>1. ASSUME NEW a, NEW keys, Collect(a, keys)
        PROVE  active' = active
    BY <2>1 DEF Collect, streamVars
  <2>2. active' = active
    BY <1>5, <2>1, Zenon DEF CollectStale, CollectChannel
  <2> QED
    BY <2>2
<1>6. ASSUME NEW a \in Closers, Closer(a)
      PROVE  active' \subseteq active
  BY <1>6 DEF Closer, CloseSession, ReleaseClosed, streamVars
<1> QED
  BY <1>1, <1>2, <1>3, <1>4, <1>5, <1>6 DEF Next

\* There is always room for what an acquisition adds, and the slot of the victim, if
\* it still has one, for what an eviction adds.
LEMMA LimitStep ==
  ASSUME IsFiniteSet(active), [Next]_vars
  PROVE  /\ IsFiniteSet(active')
         /\ Cardinality(active') > MaxStreams /\ Cardinality(active') > Cardinality(active) =>
              \E r \in Requests : SwapSlot(r) /\ ChannelOf[victim[r]] \notin active
<1>1. CASE active' \subseteq active
  <2>1. IsFiniteSet(active') /\ Cardinality(active') <= Cardinality(active)
    BY <1>1, FS_Subset
  <2>2. Cardinality(active') \in Nat /\ Cardinality(active) \in Nat
    BY <2>1, FS_CardinalityType
  <2> QED
    BY <2>1, <2>2
<1>2. ASSUME NEW r \in Requests, AcquireSlot(r)
      PROVE  /\ IsFiniteSet(active')
             /\ Cardinality(active') <= MaxStreams \/ Cardinality(active') = Cardinality(active)
  <2>1. active' = active \cup {Chan(r)}
    BY <1>2 DEF AcquireSlot
  <2>2. /\ IsFiniteSet(active')
        /\ Cardinality(active') = IF Chan(r) \in active THEN Cardinality(active)
                                  ELSE Cardinality(active) + 1
    BY <2>1, FS_AddElement
  <2>3. Chan(r) \in active \/ Cardinality(active) < MaxStreams
    BY <1>2 DEF AcquireSlot
  <2>4. Cardinality(active) \in Nat /\ MaxStreams \in Nat
    BY FS_CardinalityType, StreamsAssumption
  <2> QED
    BY <2>2, <2>3, <2>4
<1>3. ASSUME NEW r \in Requests, SwapSlot(r)
      PROVE  /\ IsFiniteSet(active')
             /\ ChannelOf[victim[r]] \in active => Cardinality(active') <= Cardinality(active)
  <2> DEFINE old  == ChannelOf[victim[r]]
             rest == active \ {old}
  <2>1. active' = rest \cup {Chan(r)}
    BY <1>3 DEF SwapSlot
  <2>2. /\ IsFiniteSet(rest)
        /\ Cardinality(rest) = IF old \in active THEN Cardinality(active) - 1
                               ELSE Cardinality(active)
    BY FS_RemoveElement
  <2> HIDE DEF rest
  <2>3. /\ IsFiniteSet(active')
        /\ Cardinality(active') = IF Chan(r) \in rest THEN Cardinality(rest)
                                  ELSE Cardinality(rest) + 1
    BY <2>1, <2>2, FS_AddElement
  <2>4. Cardinality(active) \in Nat
    BY FS_CardinalityType
  <2> QED
    BY <2>2, <2>3, <2>4
<1>4. CASE UNCHANGED vars
  BY <1>1, <1>4 DEF vars
<1>5. CASE Next
  <2>1. CASE \E r \in Requests : AcquireSlot(r)
    <3>1. PICK r \in Requests : AcquireSlot(r)
      BY <2>1
    <3>2. Cardinality(active') \in Nat /\ Cardinality(active) \in Nat /\ MaxStreams \in Nat
      BY <1>2, <3>1, FS_CardinalityType, StreamsAssumption
    <3> QED
      BY <1>2, <3>1, <3>2
  <2>2. CASE \E r \in Requests : SwapSlot(r)
    <3>1. PICK r \in Requests : SwapSlot(r)
      BY <2>2
    <3>2. Cardinality(active') \in Nat /\ Cardinality(active) \in Nat
      BY <1>3, <3>1, FS_CardinalityType
    <3>3. CASE ChannelOf[victim[r]] \in active
      BY <1>3, <3>1, <3>2, <3>3
    <3>4. CASE ChannelOf[victim[r]] \notin active
      BY <1>3, <3>1, <3>4
    <3> QED
      BY <3>3, <3>4
  <2> QED
    BY <1>1, <1>5, <2>1, <2>2, SlotsGiven
<1> QED
  BY <1>4, <1>5

\* Over max_streams (channels.rs:648) a channel gets a slot only when an eviction ends
\* whose victim has lost its own meanwhile: acquire_stream_slot drops the lock between
\* choosing the victim and taking its slot (channels.rs:675-678).
THEOREM LimitCorrect == Spec => LimitPassedOnlyByLostVictim
<1>1. Init => IsFiniteSet(active)
  BY FS_EmptySet DEF Init
<1>2. IsFiniteSet(active) /\ [Next]_vars => IsFiniteSet(active)'
  BY LimitStep
<1>3. (TypeOK /\ CountInv) /\ IsFiniteSet(active) /\ [Next]_vars =>
        [Cardinality(active') > MaxStreams /\ Cardinality(active') > Cardinality(active) =>
           \E r \in Requests : /\ req[r] = "swap" /\ req'[r] # "swap"
                               /\ ChannelOf[victim[r]] \notin active]_active
  <2> SUFFICES ASSUME TypeOK, IsFiniteSet(active), [Next]_vars,
                      Cardinality(active') > MaxStreams,
                      Cardinality(active') > Cardinality(active)
               PROVE  \E r \in Requests : /\ req[r] = "swap" /\ req'[r] # "swap"
                                          /\ ChannelOf[victim[r]] \notin active
    OBVIOUS
  <2>1. PICK r \in Requests : SwapSlot(r) /\ ChannelOf[victim[r]] \notin active
    BY LimitStep
  <2>2. req[r] = "swap" /\ req'[r] = "resolve"
    BY <2>1 DEF SwapSlot, To, TypeOK
  <2> QED
    BY <2>1, <2>2
<1>4. Spec => []IsFiniteSet(active)
  BY <1>1, <1>2, PTL DEF Spec
<1> QED
  BY <1>3, <1>4, TypeCorrect, PTL DEF Spec, LimitPassedOnlyByLostVictim

-----------------------------------------------------------------------------
(* Sessions and their supervisors.                                         *)

\* What the map and the handlers know of is a session with its own key and a
\* supervisor that was spawned.
RegisteredInv ==
  /\ \A k \in Keys : sessions[k] # None =>
       KeyOf[sessions[k]] = k /\ sup[sessions[k]] # "none"
  /\ \A r \in Requests : req[r] \in {"insert", "served"} => sup[r] # "none"

LEMMA OrphanStep ==
  ASSUME TypeOK, CountInv, RegisteredInv, OrphanOnlyByRace, [Next]_vars
  PROVE  RegisteredInv' /\ OrphanOnlyByRace'
<1> DEFINE Goal == RegisteredInv' /\ OrphanOnlyByRace'
<1> USE StreamsAssumption DEF TypeOK, RegisteredInv, OrphanOnlyByRace
\* Steps that leave the map and the supervisors alone.
<1>1. ASSUME UNCHANGED <<sessions, sup>>,
             cancelled \subseteq cancelled',
             \A r \in Requests :
               \/ req'[r] = req[r]
               \/ req[r] = "insert" /\ req'[r] = "abandoned"
               \/ req[r] \notin {"insert", "abandoned"} /\ req'[r] \notin {"insert", "served"}
      PROVE Goal
  BY <1>1
<1>2. ASSUME NEW r \in Requests,
             \/ Lookup(r) \/ AcquireSlot(r) \/ ChooseVictim(r) \/ Refuse(r)
             \/ SwapSlot(r) \/ ResolveUrl(r)
      PROVE Goal
  <2>1. /\ UNCHANGED <<sessions, sup, cancelled>>
        /\ req[r] \notin {"insert", "abandoned"}
        /\ \E state \in ReqStates \ {"insert", "served"} : req' = [req EXCEPT ![r] = state]
    BY <1>2 DEF Lookup, AcquireSlot, ChooseVictim, Refuse, SwapSlot, ResolveUrl,
                To, supVars, ReqStates
  <2>q. QED
    BY <1>1, <2>1
<1>3. ASSUME NEW r \in Requests,
             \/ StopVictim(r) \/ ConnectUpstream(r) \/ DropBody(r) \/ ReleaseGuard(r)
             \/ HangUp(r)
      PROVE Goal
  BY <1>1, <1>3 DEF StopVictim, StopSession, ConnectUpstream, DropBody, ReleaseGuard,
                    HangUp, To, supVars
<1>4. ASSUME NEW r \in Requests, ResolveFails(r) \/ CreateOrConnectFails(r)
      PROVE Goal
  <2>1. /\ UNCHANGED <<sessions, sup, cancelled>>
        /\ req[r] \notin {"insert", "abandoned"}
        /\ \E state \in {"failed", "abandoned"} : req' = [req EXCEPT ![r] = state]
    BY <1>4 DEF ResolveFails, CreateOrConnectFails, ReleaseAndFail, To, supVars
  <2>q. QED
    BY <1>1, <2>1
<1>5. ASSUME \/ \E r \in Requests : BecomeStale(r)
             \/ \E k \in Keys : TouchSession(k)
             \/ CollectStale
             \/ \E c \in Channels : CollectChannel(c)
             \/ UNCHANGED vars
      PROVE Goal
  <2>1. UNCHANGED <<sessions, sup, cancelled, req>>
    BY <1>5 DEF BecomeStale, TouchSession, CollectStale, CollectChannel, Collect,
                streamVars, supVars, vars
  <2>q. QED
    BY <1>1, <2>1
<1>6. ASSUME NEW a \in Closers, Closer(a)
      PROVE Goal
  <2>1. UNCHANGED <<sessions, sup, req>> /\ cancelled \subseteq cancelled'
    BY <1>6 DEF Closer, CloseSession, ReleaseClosed, StopSession, streamVars, supVars
  <2>q. QED
    BY <1>1, <2>1
<1>7. ASSUME NEW r \in Requests, SpawnSupervisor(r)
      PROVE Goal
  BY <1>7 DEF SpawnSupervisor, To, SupLive
<1>8. ASSUME NEW r \in Requests, RegisterSession(r)
      PROVE Goal
  <2>1. /\ req[r] = "insert" /\ sup[r] # "none"
        /\ sessions' = [sessions EXCEPT ![KeyOf[r]] = r]
        /\ req' = [req EXCEPT ![r] = "served"]
        /\ UNCHANGED <<sup, cancelled>>
    BY <1>8 DEF RegisterSession, To, supVars
  <2>2. RegisteredInv'
    BY <2>1
  <2>3. OrphanOnlyByRace'
    BY <2>1
  <2>q. QED
    BY <2>2, <2>3
\* Steps of a supervisor: a supervisor never returns to "none".
<1>9. ASSUME NEW r \in Requests, Supervisor(r)
      PROVE Goal
  <2>1. /\ sup[r] # "none" /\ UNCHANGED <<req, cancelled>>
        /\ \E state \in SupStates \ {"none"} :
             /\ sup' = [sup EXCEPT ![r] = state]
             /\ state \in SupLive => sup[r] \in SupLive
    BY <1>9 DEF Supervisor, SpawnFfmpeg, FfmpegExits, KillFfmpeg, KillStalled, Restart,
                RemoveDir, Unregister, ReleaseSlot, SupTo, SupStates, SupLive
  <2>2. CASE UNCHANGED sessions
    <3>1. RegisteredInv'
      BY <2>1, <2>2
    <3>2. OrphanOnlyByRace'
      BY <2>1, <2>2
    <3>q. QED
      BY <3>1, <3>2
  <2>3. CASE Unregister(r)
    <3>1. /\ sessions' = [sessions EXCEPT ![KeyOf[r]] = None]
          /\ sup' = [sup EXCEPT ![r] = "release"]
      BY <2>3 DEF Unregister, SupTo
    <3>2. RegisteredInv'
      BY <2>1, <3>1
    <3>3. OrphanOnlyByRace'
      BY <2>1, <3>1 DEF SupLive
    <3>q. QED
      BY <3>2, <3>3
  <2>q. QED
    BY <1>9, <2>2, <2>3 DEF Supervisor, SpawnFfmpeg, FfmpegExits, KillFfmpeg, KillStalled,
                            Restart, RemoveDir, ReleaseSlot
<1>q. QED
  BY <1>2, <1>3, <1>4, <1>5, <1>6, <1>7, <1>8, <1>9 DEF Next, Handler

\* FFmpeg runs without a way to stop it only after two requests created the
\* same session, or after a client hung up inside create_session.
THEOREM OrphanCorrect == Spec => []OrphanOnlyByRace
<1>1. Init => RegisteredInv /\ OrphanOnlyByRace
  BY DEF Init, RegisteredInv, OrphanOnlyByRace, SupLive
<1>q. QED
  BY <1>1, OrphanStep, TypeCorrect, PTL DEF Spec

-----------------------------------------------------------------------------
(* The import of channels.                                                 *)

ImportStates ==
  {"idle", "existing", "next", "add", "auto", "tags", "variants", "variant", "stale"}

Variants == [channel : Lists!Rows, name : Lists!Names, by : 1..MaxImports, version : Versions]

ImportType ==
  [pc : ImportStates, run : 0..MaxImports, playlist : Lists!Playlists \cup {None},
   existing : SUBSET Lists!Rows, seen : SUBSET Lists!Rows, todo : SUBSET Lists!TvgIds,
   channel : Lists!Rows \cup {None}, auto : SUBSET Lists!Groups,
   left : SUBSET (Entries \cup Variants), row : Variants \cup {None}, alone : BOOLEAN]

ListType ==
  /\ channels \subseteq Lists!Rows
  /\ variants \subseteq Variants
  /\ mapping \in [Lists!Rows \X Lists!Groups -> {None, "auto", "user"}]
  /\ import \in [Imports -> ImportType]
  /\ made \in Nat
  /\ assigned \subseteq Lists!Rows \X Lists!Groups
  /\ last \in Lists!Playlists \cup {None}

\* The work on one channel.
OnChannel == {"auto", "tags", "variants", "variant", "stale"}

\* What an import has at hand.
HandOf(i) ==
  /\ import[i].pc # "idle" =>
       /\ import[i].run \in 1..MaxImports
       /\ import[i].playlist \in Lists!Playlists
  /\ import[i].pc = "existing" => import[i].seen = {}
  /\ import[i].pc \in OnChannel \cup {"add"} => import[i].channel \in Lists!Rows
  /\ import[i].pc \in {"variants", "variant"} => import[i].left \subseteq Entries
  /\ import[i].pc = "variant" => import[i].row \in Variants
  /\ import[i].pc = "stale" => import[i].left \subseteq Variants

AssignedInv == \A tag \in assigned : mapping[tag] = "user"

\* One that is alone has the tables for itself.
Lone(i) == import[i].pc # "idle" /\ import[i].alone
LoneInv ==
  /\ \A i, j \in Imports : Lone(i) /\ import[j].pc # "idle" => i = j
  /\ last # None => \A i \in Imports : import[i].pc = "idle"

\* What a channel has when it is as the playlist says.
Listing(p, c) == Lists!Of(p, c.tvg_id)
NamesIn(p, c)  == {e.name : e \in Listing(p, c)}
GroupsIn(p, c) == {e.group : e \in Listing(p, c)}
OfChannel(c)   == {v \in variants : v.channel = c}

UpToDate(p, c, e) == \E v \in OfChannel(c) : v.name = e.name /\ v.version = p.version
TagsIn(p, c) == Lists!Auto(c) \subseteq GroupsIn(p, c) /\ GroupsIn(p, c) \subseteq Lists!Tagged(c)
Imported(p, c) ==
  /\ TagsIn(p, c)
  /\ \A v \in OfChannel(c) : v.name \in NamesIn(p, c)
  /\ \A e \in Listing(p, c) : UpToDate(p, c, e)

\* The channels it found or made, with the one it is about to add.
Met(i) == import[i].seen \cup (IF import[i].pc = "add" THEN {import[i].channel} ELSE {})
Ids(p) == {e.tvg_id : e \in p.entries}

\* How far it is with its playlist.
MetOf(i) ==
  import[i].pc \notin {"idle", "existing"} =>
    /\ import[i].seen \subseteq channels
    /\ channels \subseteq import[i].existing \cup import[i].seen
    /\ \A d, e \in Met(i) : d.tvg_id = e.tvg_id => d = e
    /\ {d.tvg_id : d \in Met(i)} = Ids(import[i].playlist) \ import[i].todo
    /\ import[i].todo \subseteq Ids(import[i].playlist)
    /\ import[i].pc \in OnChannel => import[i].channel \in import[i].seen
    /\ \A d \in import[i].seen :
         import[i].pc \in {"next", "add"} \/ d # import[i].channel => Imported(import[i].playlist, d)

\* How far it is with one channel.
ChannelOf_(p, c, pc, auto, left, row) ==
  /\ pc = "tags" => Lists!Auto(c) \subseteq auto /\ auto \subseteq Lists!Tagged(c)
  /\ pc \in {"variants", "variant", "stale"} => TagsIn(p, c)
  /\ pc \in {"variants", "variant"} => left \subseteq Listing(p, c)
  /\ pc = "variants" => \A e \in Listing(p, c) \ left : UpToDate(p, c, e)
  /\ pc = "variant" =>
       /\ \A e \in Listing(p, c) \ left : UpToDate(p, c, e) \/ e.name = row.name
       /\ row.channel = c /\ row.version = p.version /\ row.name \in NamesIn(p, c)
  /\ pc = "stale" =>
       /\ \A e \in Listing(p, c) : UpToDate(p, c, e)
       /\ \A v \in left : v.channel = c /\ v.name \notin NamesIn(p, c)
       /\ {v \in OfChannel(c) : v.name \notin NamesIn(p, c)} \subseteq left

WorkOf(i) == ChannelOf_(import[i].playlist, import[i].channel, import[i].pc, import[i].auto,
                        import[i].left, import[i].row)

RunInv == \A i \in Imports : Lone(i) => MetOf(i) /\ WorkOf(i)

LastInv ==
  last # None =>
    /\ \A c, d \in channels : c.tvg_id = d.tvg_id => c = d
    /\ {c.tvg_id : c \in channels} = Ids(last)
    /\ \A c \in channels : Imported(last, c)

ListInv ==
  /\ ListType
  /\ \A i \in Imports : HandOf(i)
  /\ AssignedInv
  /\ LoneInv
  /\ RunInv
  /\ LastInv

LEMMA ListsInit == Lists!Init => ListInv
<1> SUFFICES ASSUME Lists!Init PROVE ListInv
  OBVIOUS
<1>1. Lists!Idle \in ImportType
  BY ListsAssumption DEF Lists!Idle, ImportType, ImportStates
<1>2. ListType
  BY <1>1 DEF Lists!Init, ListType
<1>3. \A i \in Imports : import[i].pc = "idle"
  BY DEF Lists!Init, Lists!Idle
<1>4. assigned = {} /\ last = None
  BY DEF Lists!Init
<1>5. \A i \in Imports : HandOf(i)
  BY <1>3 DEF HandOf, OnChannel
<1>6. LoneInv /\ RunInv
  BY <1>3, <1>4 DEF LoneInv, RunInv, Lone
<1>q. QED
  BY <1>2, <1>4, <1>5, <1>6 DEF ListInv, AssignedInv, LastInv

\* Nothing else happens while an import works, unless it is alone no more.
LEMMA ImportSteps ==
  ASSUME ListInv, NEW i \in Imports, import[i].pc # "idle", ListType',
         \A j \in Imports : j # i => import'[j] = import[j],
         import'[i].pc = "idle" \/ import'[i].alone = import[i].alone, last' = last, HandOf(i)', AssignedInv',
         import[i].alone /\ import'[i].pc # "idle" => MetOf(i)' /\ WorkOf(i)'
  PROVE  ListInv'
<1>1. \A j \in Imports : HandOf(j)'
  BY DEF ListInv, HandOf
<1>2. last = None /\ \A j \in Imports : Lone(j) => j = i
  BY DEF ListInv, LoneInv, Lone
<1>3. \A j \in Imports : Lone(j)' => j = i
  BY <1>2 DEF Lone
<1>4. LoneInv'
  <2>1. ASSUME NEW j \in Imports, NEW k \in Imports, Lone(j)', import'[k].pc # "idle", k # i
        PROVE  FALSE
    <3>1. j = i /\ import[k].pc # "idle"
      BY <1>3, <2>1
    <3>2. Lone(i)
      BY <2>1, <3>1 DEF Lone
    <3>q. QED
      BY <2>1, <3>1, <3>2 DEF ListInv, LoneInv
  <2>q. QED
    BY <1>2, <1>3, <2>1 DEF LoneInv
<1>5. RunInv'
  BY <1>3 DEF RunInv, Lone
<1>6. LastInv'
  BY <1>2 DEF LastInv
<1>q. QED
  BY <1>1, <1>4, <1>5, <1>6 DEF ListInv

\* Where an import becomes another record.
LEMMA Becoming ==
  ASSUME ListType, NEW i \in Imports, NEW r \in ImportType, Lists!Becomes(i, r)
  PROVE  /\ import' \in [Imports -> ImportType] /\ import'[i] = r
         /\ \A j \in Imports : j # i => import'[j] = import[j]
  BY DEF ListType, Lists!Becomes

\* A channel keeps what it has where its tags and variants stay.
LEMMA ChannelStays ==
  ASSUME NEW p, NEW c, NEW pc, NEW auto, NEW left, NEW row,
         OfChannel(c)' = OfChannel(c),
         \A g \in Lists!Groups : mapping'[<<c, g>>] = mapping[<<c, g>>]
  PROVE  /\ Imported(p, c)' <=> Imported(p, c)
         /\ TagsIn(p, c)' <=> TagsIn(p, c)
         /\ \A e : UpToDate(p, c, e)' <=> UpToDate(p, c, e)
         /\ ChannelOf_(p, c, pc, auto, left, row)' <=> ChannelOf_(p, c, pc, auto, left, row)
<1>1. Lists!Auto(c)' = Lists!Auto(c)
  BY DEF Lists!Auto
<1>2. Lists!Tagged(c)' = Lists!Tagged(c)
  BY DEF Lists!Tagged
<1>3. TagsIn(p, c)' <=> TagsIn(p, c)
  BY <1>1, <1>2 DEF TagsIn, GroupsIn, Listing, Lists!Of
<1>4. \A e : UpToDate(p, c, e)' <=> UpToDate(p, c, e)
  BY DEF UpToDate
<1>5. Listing(p, c)' = Listing(p, c) /\ NamesIn(p, c)' = NamesIn(p, c)
  BY DEF Listing, NamesIn, Lists!Of
<1>6. Imported(p, c)' <=> Imported(p, c)
  BY <1>3, <1>4, <1>5 DEF Imported
<1>7. ChannelOf_(p, c, pc, auto, left, row)' <=> ChannelOf_(p, c, pc, auto, left, row)
  BY <1>1, <1>2, <1>3, <1>4, <1>5 DEF ChannelOf_
<1>q. QED
  BY <1>3, <1>4, <1>6, <1>7

\* Where nothing is written, every channel keeps what it has.
LEMMA TablesStay ==
  ASSUME UNCHANGED <<variants, mapping>>
  PROVE  \A p, c : /\ Imported(p, c)' <=> Imported(p, c)
                   /\ TagsIn(p, c)' <=> TagsIn(p, c)
                   /\ Lists!Auto(c)' = Lists!Auto(c) /\ Lists!Tagged(c)' = Lists!Tagged(c)
                   /\ OfChannel(c)' = OfChannel(c)
                   /\ \A e : UpToDate(p, c, e)' <=> UpToDate(p, c, e)
<1> SUFFICES ASSUME NEW p, NEW c
             PROVE  /\ Imported(p, c)' <=> Imported(p, c)
                    /\ TagsIn(p, c)' <=> TagsIn(p, c)
                    /\ Lists!Auto(c)' = Lists!Auto(c) /\ Lists!Tagged(c)' = Lists!Tagged(c)
                    /\ OfChannel(c)' = OfChannel(c)
                    /\ \A e : UpToDate(p, c, e)' <=> UpToDate(p, c, e)
  OBVIOUS
<1>1. OfChannel(c)' = OfChannel(c)
  BY DEF OfChannel
<1>2. Lists!Auto(c)' = Lists!Auto(c) /\ Lists!Tagged(c)' = Lists!Tagged(c)
  BY DEF Lists!Auto, Lists!Tagged
<1>q. QED
  BY <1>1, <1>2, ChannelStays

LEMMA ImportEnds ==
  ASSUME ListInv, NEW i \in Imports, import[i].pc # "idle", Lists!Becomes(i, Lists!Idle),
         UNCHANGED <<channels, variants, mapping, made, assigned, last>>
  PROVE  ListInv'
<1>1. Lists!Idle \in ImportType /\ Lists!Idle.pc = "idle"
  BY ListsAssumption DEF Lists!Idle, ImportType, ImportStates
<1>2. /\ import' \in [Imports -> ImportType] /\ import'[i].pc = "idle"
      /\ \A j \in Imports : j # i => import'[j] = import[j]
  BY <1>1, Becoming DEF ListInv
<1>3. ListType' /\ HandOf(i)' /\ AssignedInv'
  BY <1>2 DEF ListInv, ListType, HandOf, AssignedInv, OnChannel
<1>q. QED
  BY <1>2, <1>3, ImportSteps

LEMMA FetchInv ==
  ASSUME ListInv, NEW i \in Imports, Lists!Fetch(i)
  PROVE  ListInv'
<1> DEFINE others == {j \in Imports : Lists!Active(j)}
           record(j, p) == IF j = i
                           THEN [Lists!Idle EXCEPT !.pc = "existing", !.run = made',
                                                   !.playlist = p, !.alone = others = {}]
                           ELSE [import[j] EXCEPT !.alone = @ /\ j \notin others]
<1>1. /\ import[i].pc = "idle" /\ made < MaxImports /\ made' = made + 1 /\ last' = None
      /\ UNCHANGED <<channels, variants, mapping, assigned>>
  BY DEF Lists!Fetch, Lists!Active, Lists!At
<1>2. PICK p \in Lists!Playlists : import' = [j \in Imports |-> record(j, p)]
  BY DEF Lists!Fetch
<1>3. \A j \in Imports : j \in others <=> import[j].pc # "idle"
  BY DEF Lists!Active, Lists!At
<1>4. made' \in 1..MaxImports /\ made' \in Nat
  BY <1>1, ListsAssumption DEF ListInv, ListType
<1>5. /\ record(i, p) \in ImportType /\ record(i, p).pc = "existing"
      /\ record(i, p).run \in 1..MaxImports /\ record(i, p).playlist = p
      /\ record(i, p).seen = {} /\ record(i, p).alone = (others = {})
  <2>1. (others = {}) \in BOOLEAN
    OBVIOUS
  <2>2. record(i, p) = [Lists!Idle EXCEPT !.pc = "existing", !.run = made',
                                          !.playlist = p, !.alone = others = {}]
    OBVIOUS
  <2>3. made' \in 0..MaxImports
    BY <1>4, ListsAssumption
  <2>4. Lists!Idle \in ImportType
    BY ListsAssumption DEF Lists!Idle, ImportType, ImportStates
  <2>5. Lists!Idle.seen = {}
    BY DEF Lists!Idle
  <2> HIDE DEF others, record
  <2>q. QED
    BY ZenonT(60), <1>4, <2>1, <2>2, <2>3, <2>4, <2>5 DEF ImportType, ImportStates
<1>6. ASSUME NEW j \in Imports, j # i
      PROVE  /\ record(j, p) \in ImportType
             /\ record(j, p) = [import[j] EXCEPT !.alone = record(j, p).alone]
             /\ record(j, p).alone => import[j].alone /\ import[j].pc = "idle"
             /\ HandOf(j) /\ import[j] \in ImportType
  <2>1. import[j] \in ImportType /\ HandOf(j)
    BY DEF ListInv, ListType
  <2>2. (import[j].alone /\ j \notin others) \in BOOLEAN
    OBVIOUS
  <2>3. record(j, p) = [import[j] EXCEPT !.alone = import[j].alone /\ j \notin others]
    BY <1>6
  <2>4. record(j, p).alone = (import[j].alone /\ j \notin others)
    <3> HIDE DEF others, record
    <3>q. QED
      BY <2>1, <2>3 DEF ImportType
  <2> HIDE DEF others, record
  <2>q. QED
    BY <1>3, <2>1, <2>2, <2>3, <2>4 DEF ImportType
<1> HIDE DEF record
<1>7. ListType'
  BY <1>1, <1>2, <1>4, <1>5, <1>6 DEF ListInv, ListType
<1>8. ASSUME NEW j \in Imports PROVE HandOf(j)'
  <2>1. CASE j = i
    BY <1>2, <1>5, <2>1 DEF HandOf, OnChannel
  <2>2. CASE j # i
    <3>1. /\ import'[j].pc = import[j].pc /\ import'[j].run = import[j].run
          /\ import'[j].playlist = import[j].playlist /\ import'[j].seen = import[j].seen
          /\ import'[j].channel = import[j].channel /\ import'[j].left = import[j].left
          /\ import'[j].row = import[j].row
      BY <1>2, <1>6, <2>2 DEF ImportType
    <3>q. QED
      BY <1>6, <2>2, <3>1 DEF HandOf
  <2>q. QED
    BY <2>1, <2>2
<1>9. ASSUME NEW j \in Imports, Lone(j)'
      PROVE  j = i /\ \A k \in Imports : import'[k].pc # "idle" => k = i
  <2>1. j = i
    <3>1. j # i => import'[j].pc = import[j].pc
      BY <1>2, <1>6 DEF ImportType
    <3>q. QED
      BY <1>2, <1>6, <1>9, <3>1 DEF Lone
  <2>2. others = {}
    BY <1>2, <1>5, <1>9, <2>1 DEF Lone
  <2>3. \A k \in Imports : k # i => import'[k].pc = import[k].pc
    BY <1>2, <1>6 DEF ImportType
  <2>q. QED
    BY <1>3, <2>1, <2>2, <2>3
<1>10. LoneInv'
  BY <1>1, <1>9 DEF LoneInv
<1>11. RunInv'
  <2>1. import'[i].pc = "existing"
    BY <1>2, <1>5
  <2>2. MetOf(i)' /\ WorkOf(i)'
    BY <2>1 DEF MetOf, WorkOf, ChannelOf_
  <2>q. QED
    BY <1>9, <2>2 DEF RunInv
<1>12. AssignedInv' /\ LastInv'
  BY <1>1 DEF ListInv, AssignedInv, LastInv
<1>q. QED
  BY <1>7, <1>8, <1>10, <1>11, <1>12 DEF ListInv

LEMMA ExistingInv ==
  ASSUME ListInv, NEW i \in Imports, Lists!get_all_channel_ids(i)
  PROVE  ListInv'
<1> DEFINE r == [import[i] EXCEPT !.pc = "next", !.existing = channels,
                                  !.todo = {e.tvg_id : e \in import[i].playlist.entries}]
<1>1. /\ import[i].pc = "existing" /\ Lists!Becomes(i, r)
      /\ UNCHANGED <<channels, variants, mapping, made, assigned, last>>
  BY DEF Lists!get_all_channel_ids, Lists!At
<1>2. /\ import[i] \in ImportType /\ HandOf(i) /\ import[i].playlist \in Lists!Playlists
      /\ import[i].seen = {} /\ channels \subseteq Lists!Rows
  BY <1>1 DEF ListInv, ListType, HandOf
<1>3. /\ r \in ImportType /\ r.pc = "next" /\ r.existing = channels
      /\ r.todo = Ids(import[i].playlist) /\ r.playlist = import[i].playlist
      /\ r.run = import[i].run /\ r.seen = {} /\ r.alone = import[i].alone
  <2>1. Ids(import[i].playlist) \subseteq Lists!TvgIds
    BY <1>2 DEF Ids, Lists!Playlists, Lists!TvgIds
  <2>q. QED
    BY <1>2, <2>1 DEF ImportType, ImportStates, Ids
<1> HIDE DEF r
<1>4. /\ import' \in [Imports -> ImportType] /\ import'[i] = r
      /\ \A j \in Imports : j # i => import'[j] = import[j]
  BY <1>1, <1>3, Becoming DEF ListInv
<1>5. ListType' /\ AssignedInv' /\ HandOf(i)'
  BY <1>1, <1>2, <1>3, <1>4 DEF ListInv, ListType, AssignedInv, HandOf, OnChannel
<1>6. MetOf(i)' /\ WorkOf(i)'
  BY <1>1, <1>3, <1>4 DEF MetOf, WorkOf, ChannelOf_, Met, OnChannel, Ids
<1>q. QED
  BY <1>1, <1>3, <1>4, <1>5, <1>6, ImportSteps

\* A tvg-id of the playlist that is still to do becomes the channel at hand.
LEMMA ChooseInv ==
  ASSUME ListInv, NEW i \in Imports, Lists!get_channel_by_tvg_id(i)
  PROVE  ListInv'
<1>1. /\ import[i].pc = "next"
      /\ UNCHANGED <<channels, variants, mapping, made, assigned, last>>
  BY DEF Lists!get_channel_by_tvg_id, Lists!At
<1>2. /\ import[i] \in ImportType /\ HandOf(i) /\ channels \subseteq Lists!Rows
      /\ import[i].run \in 1..MaxImports
      /\ \A p, c : Imported(p, c)' <=> Imported(p, c)
  BY <1>1, TablesStay DEF ListInv, ListType, HandOf
<1>3. PICK k \in import[i].todo :
        \/ \E c \in channels : c.tvg_id = k /\ Lists!update_channel(i, c, k)
        \/ /\ ~\E c \in channels : c.tvg_id = k
           /\ Lists!Becomes(i, [import[i] EXCEPT !.pc = "add",
                                                 !.channel = [by |-> import[i].run, tvg_id |-> k],
                                                 !.todo = @ \ {k}])
  BY DEF Lists!get_channel_by_tvg_id
<1>4. k \in Lists!TvgIds /\ [by |-> import[i].run, tvg_id |-> k] \in Lists!Rows
  BY <1>2 DEF ImportType, Lists!Rows
<1>5. CASE \E c \in channels : c.tvg_id = k /\ Lists!update_channel(i, c, k)
  <2>1. PICK c \in channels : c.tvg_id = k /\ Lists!update_channel(i, c, k)
    BY <1>5
  <2> DEFINE r == [import[i] EXCEPT !.pc = "auto", !.channel = c, !.todo = @ \ {k},
                                    !.seen = @ \cup {c}]
  <2>2. /\ r \in ImportType /\ r.pc = "auto" /\ r.channel = c /\ r.todo = import[i].todo \ {k}
        /\ r.seen = import[i].seen \cup {c} /\ r.existing = import[i].existing
        /\ r.playlist = import[i].playlist /\ r.run = import[i].run
        /\ r.alone = import[i].alone
    BY <1>2, <2>1 DEF ImportType, ImportStates
  <2>3. Lists!Becomes(i, r)
    BY <2>1 DEF Lists!update_channel
  <2> HIDE DEF r
  <2>4. /\ import' \in [Imports -> ImportType] /\ import'[i] = r
        /\ \A j \in Imports : j # i => import'[j] = import[j]
    BY <2>2, <2>3, Becoming DEF ListInv
  <2>5. ListType' /\ AssignedInv' /\ HandOf(i)'
    BY <1>1, <1>2, <2>1, <2>2, <2>4 DEF ListInv, ListType, AssignedInv, HandOf, OnChannel
  <2>6. import[i].alone => MetOf(i)' /\ WorkOf(i)'
    <3>1. WorkOf(i)'
      BY <2>2, <2>4 DEF WorkOf, ChannelOf_
    <3>2. ASSUME import[i].alone PROVE MetOf(i)'
      <4>1. MetOf(i)
        BY <1>1, <3>2 DEF ListInv, RunInv, Lone
      <4>2. Met(i) = import[i].seen /\ Met(i)' = import[i].seen \cup {c}
        BY <1>1, <2>2, <2>4 DEF Met
      <4>3. \A d \in import[i].seen : d.tvg_id # k
        BY <1>1, <4>1, <4>2 DEF MetOf
      <4>4. \A d, e \in Met(i)' : d.tvg_id = e.tvg_id => d = e
        BY <1>1, <2>1, <4>1, <4>2, <4>3 DEF MetOf
      <4>5. {d.tvg_id : d \in Met(i)'} = Ids(import[i].playlist) \ r.todo
        <5>1. /\ {d.tvg_id : d \in import[i].seen} = Ids(import[i].playlist) \ import[i].todo
              /\ k \in Ids(import[i].playlist) /\ k \in import[i].todo
          BY <1>1, <4>1, <4>2 DEF MetOf
        <5>2. {d.tvg_id : d \in Met(i)'} = {d.tvg_id : d \in import[i].seen} \cup {k}
          BY <2>1, <4>2
        <5>q. QED
          BY <2>2, <5>1, <5>2
      <4>6. \A d \in import[i].seen : Imported(import[i].playlist, d)'
        <5>1. PICK p : p = import[i].playlist
          OBVIOUS
        <5>2. import'[i].playlist = p
          BY <2>2, <2>4, <5>1
        <5>3. \A d \in import[i].seen : Imported(p, d)
          BY <1>1, <4>1, <5>1 DEF MetOf
        <5>4. \A d \in import[i].seen : Imported(p, d)'
          BY <1>2, <5>3
        <5>q. QED
          BY <5>2, <5>4
      <4>q. QED
        BY <1>1, <2>1, <2>2, <2>4, <4>1, <4>4, <4>5, <4>6 DEF MetOf, OnChannel, Ids
    <3>q. QED
      BY <3>1, <3>2
  <2>q. QED
    BY <1>1, <2>2, <2>4, <2>5, <2>6, ImportSteps
<1>6. CASE /\ ~\E c \in channels : c.tvg_id = k
           /\ Lists!Becomes(i, [import[i] EXCEPT !.pc = "add",
                                                 !.channel = [by |-> import[i].run, tvg_id |-> k],
                                                 !.todo = @ \ {k}])
  <2>1. PICK c : c = [by |-> import[i].run, tvg_id |-> k]
    OBVIOUS
  <2> DEFINE r == [import[i] EXCEPT !.pc = "add", !.channel = c, !.todo = @ \ {k}]
  <2>2. /\ r \in ImportType /\ r.pc = "add" /\ r.channel = c /\ r.todo = import[i].todo \ {k}
        /\ r.seen = import[i].seen /\ r.existing = import[i].existing
        /\ r.playlist = import[i].playlist /\ r.run = import[i].run
        /\ r.alone = import[i].alone
    BY <1>2, <1>4, <2>1 DEF ImportType, ImportStates
  <2>3. Lists!Becomes(i, r) /\ c.tvg_id = k /\ c \in Lists!Rows
    BY <1>4, <1>6, <2>1
  <2> HIDE DEF r
  <2>4. /\ import' \in [Imports -> ImportType] /\ import'[i] = r
        /\ \A j \in Imports : j # i => import'[j] = import[j]
    BY <2>2, <2>3, Becoming DEF ListInv
  <2>5. ListType' /\ AssignedInv' /\ HandOf(i)'
    BY <1>1, <1>2, <2>2, <2>3, <2>4 DEF ListInv, ListType, AssignedInv, HandOf, OnChannel
  <2>6. import[i].alone => MetOf(i)' /\ WorkOf(i)'
    <3>1. WorkOf(i)'
      BY <2>2, <2>4 DEF WorkOf, ChannelOf_
    <3>2. ASSUME import[i].alone PROVE MetOf(i)'
      <4>1. MetOf(i)
        BY <1>1, <3>2 DEF ListInv, RunInv, Lone
      <4>2. Met(i) = import[i].seen /\ Met(i)' = import[i].seen \cup {c}
        BY <1>1, <2>2, <2>4 DEF Met
      <4>3. \A d \in import[i].seen : d.tvg_id # k
        BY <1>1, <4>1, <4>2 DEF MetOf
      <4>4. \A d, e \in Met(i)' : d.tvg_id = e.tvg_id => d = e
        BY <1>1, <2>3, <4>1, <4>2, <4>3 DEF MetOf
      <4>5. {d.tvg_id : d \in Met(i)'} = Ids(import[i].playlist) \ r.todo
        <5>1. /\ {d.tvg_id : d \in import[i].seen} = Ids(import[i].playlist) \ import[i].todo
              /\ k \in Ids(import[i].playlist) /\ k \in import[i].todo
          BY <1>1, <4>1, <4>2 DEF MetOf
        <5>2. {d.tvg_id : d \in Met(i)'} = {d.tvg_id : d \in import[i].seen} \cup {k}
          BY <2>3, <4>2
        <5>q. QED
          BY <2>2, <5>1, <5>2
      <4>6. \A d \in import[i].seen : Imported(import[i].playlist, d)'
        <5>1. PICK p : p = import[i].playlist
          OBVIOUS
        <5>2. import'[i].playlist = p
          BY <2>2, <2>4, <5>1
        <5>3. \A d \in import[i].seen : Imported(p, d)
          BY <1>1, <4>1, <5>1 DEF MetOf
        <5>4. \A d \in import[i].seen : Imported(p, d)'
          BY <1>2, <5>3
        <5>q. QED
          BY <5>2, <5>4
      <4>q. QED
        BY <1>1, <2>2, <2>4, <4>1, <4>4, <4>5, <4>6 DEF MetOf, OnChannel, Ids
    <3>q. QED
      BY <3>1, <3>2
  <2>q. QED
    BY <1>1, <2>2, <2>4, <2>5, <2>6, ImportSteps
<1>q. QED
  BY <1>3, <1>5, <1>6

\* Where an import is done with a step of the work on its channel.
LEMMA WorkSteps ==
  ASSUME ListInv, NEW i \in Imports, import[i].pc \in OnChannel,
         NEW r \in ImportType, Lists!Becomes(i, r), r.pc \in OnChannel \cup {"next"},
         r.pc \in OnChannel => r.channel = import[i].channel,
         r.pc \in {"variants", "variant"} => r.left \subseteq Entries,
         r.pc = "variant" => r.row \in Variants,
         r.pc = "stale" => r.left \subseteq Variants,
         r.seen = import[i].seen, r.existing = import[i].existing, r.todo = import[i].todo,
         r.playlist = import[i].playlist, r.run = import[i].run, r.alone = import[i].alone,
         UNCHANGED <<channels, made, assigned, last>>, variants' \subseteq Variants,
         mapping' \in [Lists!Rows \X Lists!Groups -> {None, "auto", "user"}], AssignedInv',
         NEW p, NEW c, p = import[i].playlist, c = import[i].channel,
         import[i].alone => \A d \in Lists!Rows : d # c => (Imported(p, d)' <=> Imported(p, d)),
         import[i].alone => IF r.pc = "next" THEN Imported(p, c)'
                            ELSE ChannelOf_(p, c, r.pc, r.auto, r.left, r.row)'
  PROVE  ListInv'
<1>1. /\ import' \in [Imports -> ImportType] /\ import'[i] = r
      /\ \A j \in Imports : j # i => import'[j] = import[j]
  BY Becoming DEF ListInv
<1>2. import[i].pc # "idle" /\ r.pc # "idle" /\ r.pc # "existing" /\ r.pc # "add" /\ import[i].pc # "next"
      /\ import[i].pc # "existing" /\ import[i].pc # "add" /\ HandOf(i)
  BY DEF OnChannel, ListInv
<1>3. ListType'
  BY <1>1 DEF ListInv, ListType
<1>4. HandOf(i)'
  BY <1>1, <1>2 DEF HandOf, OnChannel
<1>5. ASSUME import[i].alone PROVE MetOf(i)' /\ WorkOf(i)'
  <2>1. MetOf(i) /\ channels \subseteq Lists!Rows
    BY <1>2, <1>5 DEF ListInv, ListType, RunInv, Lone
  <2>2. Met(i) = import[i].seen /\ Met(i)' = import[i].seen
    BY <1>1, <1>2 DEF Met
  <2>3. WorkOf(i)'
    <3>1. r.pc = "next" => WorkOf(i)'
      BY <1>1 DEF WorkOf, ChannelOf_
    <3>2. r.pc # "next" => WorkOf(i)'
      <4> SUFFICES ASSUME r.pc # "next" PROVE WorkOf(i)'
        OBVIOUS
      <4>1. r.channel = c /\ r.playlist = p
        OBVIOUS
      <4>2. ChannelOf_(p, c, r.pc, r.auto, r.left, r.row)'
        BY <1>5
      <4>q. QED
        BY <1>1, <4>1, <4>2 DEF WorkOf
    <3>q. QED
      BY <3>1, <3>2
  <2>4. ASSUME NEW d \in import[i].seen, r.pc = "next" \/ d # r.channel
        PROVE  Imported(p, d)'
    <3>1. CASE d = c
      <4>1. r.pc = "next"
        BY <2>4, <3>1
      <4>2. Imported(p, c)'
        BY <1>5, <4>1
      <4>q. QED
        BY <3>1, <4>2
    <3>2. CASE d # c
      <4>1. Imported(p, d)
        BY <1>2, <2>1, <3>2 DEF MetOf
      <4>2. d \in Lists!Rows
        BY <1>2, <2>1 DEF MetOf
      <4>q. QED
        BY <1>5, <3>2, <4>1, <4>2
    <3>q. QED
      BY <3>1, <3>2
  <2>5. (\A d \in import[i].seen :
           import[i].pc \in {"next", "add"} \/ d # import[i].channel
             => Imported(import[i].playlist, d))'
    <3>1. import'[i].playlist = p /\ import'[i].seen = import[i].seen
      BY <1>1
    <3>2. import'[i].pc = r.pc /\ import'[i].channel = r.channel
      BY <1>1
    <3>q. QED
      BY <1>2, <2>4, <3>1, <3>2
  <2>q. QED
    BY <1>1, <1>2, <2>1, <2>2, <2>3, <2>5 DEF MetOf, OnChannel, Ids
<1>q. QED
  BY <1>1, <1>2, <1>3, <1>4, <1>5, ImportSteps

LEMMA AddInv ==
  ASSUME ListInv, NEW i \in Imports, Lists!add_channel(i)
  PROVE  ListInv'
<1>1. PICK c : c = import[i].channel
  OBVIOUS
<1> DEFINE r == [import[i] EXCEPT !.pc = "auto", !.seen = @ \cup {c}]
<1>2. /\ import[i].pc = "add" /\ channels' = channels \cup {c} /\ Lists!Becomes(i, r)
      /\ UNCHANGED <<variants, mapping, made, assigned, last>>
  BY <1>1 DEF Lists!add_channel, Lists!At
<1>3. /\ import[i] \in ImportType /\ HandOf(i) /\ channels \subseteq Lists!Rows
      /\ c \in Lists!Rows
      /\ \A p, d : Imported(p, d)' <=> Imported(p, d)
  BY <1>1, <1>2, TablesStay DEF ListInv, ListType, HandOf
<1>4. /\ r \in ImportType /\ r.pc = "auto" /\ r.channel = c /\ r.todo = import[i].todo
      /\ r.seen = import[i].seen \cup {c} /\ r.existing = import[i].existing
      /\ r.playlist = import[i].playlist /\ r.run = import[i].run
      /\ r.alone = import[i].alone
  BY <1>1, <1>3 DEF ImportType, ImportStates
<1> HIDE DEF r
<1>5. /\ import' \in [Imports -> ImportType] /\ import'[i] = r
      /\ \A j \in Imports : j # i => import'[j] = import[j]
  BY <1>2, <1>4, Becoming DEF ListInv
<1>6. ListType' /\ AssignedInv' /\ HandOf(i)'
  BY <1>2, <1>3, <1>4, <1>5 DEF ListInv, ListType, AssignedInv, HandOf, OnChannel
<1>7. WorkOf(i)'
  BY <1>4, <1>5 DEF WorkOf, ChannelOf_
<1>8. ASSUME import[i].alone PROVE MetOf(i)'
  <2>1. MetOf(i)
    BY <1>2, <1>8 DEF ListInv, RunInv, Lone
  <2>2. Met(i) = import[i].seen \cup {c} /\ Met(i)' = import[i].seen \cup {c}
    BY <1>1, <1>2, <1>4, <1>5 DEF Met
  <2>3. \A d \in import[i].seen : Imported(import[i].playlist, d)'
    <3>1. PICK p : p = import[i].playlist
      OBVIOUS
    <3>2. import'[i].playlist = p
      BY <1>4, <1>5, <3>1
    <3>3. \A d \in import[i].seen : Imported(p, d)
      BY <1>2, <2>1, <3>1 DEF MetOf
    <3>4. \A d \in import[i].seen : Imported(p, d)'
      BY <1>3, <3>3
    <3>q. QED
      BY <3>2, <3>4
  <2>q. QED
    BY <1>2, <1>4, <1>5, <2>1, <2>2, <2>3 DEF MetOf, OnChannel, Ids
<1>q. QED
  BY <1>2, <1>4, <1>5, <1>6, <1>7, <1>8, ImportSteps

\* The tags it takes the channel to have are compared with those of its groups.
LEMMA TagsInv ==
  ASSUME ListInv, NEW i \in Imports, import[i].pc \in {"auto", "tags"},
         NEW tags \in SUBSET Lists!Groups, Lists!HasTags(i, tags),
         UNCHANGED <<channels, variants, made, assigned, last>>,
         mapping' \in [Lists!Rows \X Lists!Groups -> {None, "auto", "user"}], AssignedInv',
         NEW p, NEW c, p = import[i].playlist, c = import[i].channel,
         \A d \in Lists!Rows, g \in Lists!Groups : d # c => mapping'[<<d, g>>] = mapping[<<d, g>>],
         import[i].alone => Lists!Auto(c)' \subseteq tags /\ tags \subseteq Lists!Tagged(c)'
  PROVE  ListInv'
<1>1. /\ import[i] \in ImportType /\ variants' \subseteq Variants
      /\ p \in Lists!Playlists
  BY DEF ListInv, ListType, HandOf
<1>2. Lists!Listed(i) = Listing(p, c) /\ Lists!Wanted(i) = GroupsIn(p, c)
  BY DEF Lists!Listed, Lists!Wanted, Listing, GroupsIn
<1>3. Listing(p, c) \subseteq Entries
  BY <1>1 DEF Listing, Lists!Of, Lists!Playlists
<1>4. \A d \in Lists!Rows : d # c => (Imported(p, d)' <=> Imported(p, d))
  <2> SUFFICES ASSUME NEW d \in Lists!Rows, d # c PROVE Imported(p, d)' <=> Imported(p, d)
    OBVIOUS
  <2>1. OfChannel(d)' = OfChannel(d)
    BY DEF OfChannel
  <2>2. \A g \in Lists!Groups : mapping'[<<d, g>>] = mapping[<<d, g>>]
    OBVIOUS
  <2>q. QED
    BY <2>1, <2>2, ChannelStays
<1>5. import[i].pc \in OnChannel
  BY DEF OnChannel
<1>6. CASE tags # GroupsIn(p, c)
  <2>1. PICK r : r = [import[i] EXCEPT !.pc = "tags", !.auto = tags]
    OBVIOUS
  <2>2. /\ r \in ImportType /\ r.pc = "tags" /\ r.channel = c /\ r.auto = tags
        /\ r.seen = import[i].seen /\ r.existing = import[i].existing /\ r.todo = import[i].todo
        /\ r.playlist = import[i].playlist /\ r.run = import[i].run /\ r.alone = import[i].alone
    BY <1>1, <2>1 DEF ImportType, ImportStates
  <2>3. Lists!Becomes(i, r) /\ r.pc \in OnChannel \cup {"next"}
    BY <1>2, <1>6, <2>1, <2>2 DEF Lists!HasTags, OnChannel
  <2>4. import[i].alone => ChannelOf_(p, c, r.pc, r.auto, r.left, r.row)'
    BY <2>2 DEF ChannelOf_
  <2>q. QED
    BY <1>1, <1>4, <1>5, <2>2, <2>3, <2>4, WorkSteps
<1>7. CASE tags = GroupsIn(p, c)
  <2>1. PICK r : r = [import[i] EXCEPT !.pc = "variants", !.auto = {}, !.left = Listing(p, c)]
    OBVIOUS
  <2>2. /\ r \in ImportType /\ r.pc = "variants" /\ r.channel = c /\ r.left = Listing(p, c)
        /\ r.seen = import[i].seen /\ r.existing = import[i].existing /\ r.todo = import[i].todo
        /\ r.playlist = import[i].playlist /\ r.run = import[i].run /\ r.alone = import[i].alone
    BY <1>1, <1>3, <2>1 DEF ImportType, ImportStates
  <2>3. Lists!Becomes(i, r) /\ r.pc \in OnChannel \cup {"next"}
    BY <1>2, <1>7, <2>1, <2>2 DEF Lists!HasTags, OnChannel
  <2>4. Listing(p, c) = r.left /\ GroupsIn(p, c) = tags
    BY <1>7, <2>2
  <2>5. import[i].alone => ChannelOf_(p, c, r.pc, r.auto, r.left, r.row)'
    <3> SUFFICES ASSUME import[i].alone PROVE ChannelOf_(p, c, r.pc, r.auto, r.left, r.row)'
      OBVIOUS
    <3>1. TagsIn(p, c)'
      BY <1>7 DEF TagsIn, GroupsIn, Listing
    <3>2. Listing(p, c) \ r.left = {}
      BY <2>2
    <3>q. QED
      BY <2>2, <3>1, <3>2 DEF ChannelOf_
  <2>q. QED
    BY <1>1, <1>3, <1>4, <1>5, <2>2, <2>3, <2>5, WorkSteps
<1>q. QED
  BY <1>6, <1>7

LEMMA AutoTagsInv ==
  ASSUME ListInv, NEW i \in Imports, Lists!get_channel_auto_tag_ids(i)
  PROVE  ListInv'
<1>1. PICK p, c, tags : p = import[i].playlist /\ c = import[i].channel /\ tags = Lists!Auto(c)
  OBVIOUS
<1>2. /\ import[i].pc = "auto" /\ Lists!HasTags(i, tags)
      /\ UNCHANGED <<channels, variants, mapping, made, assigned, last>>
  BY <1>1 DEF Lists!get_channel_auto_tag_ids, Lists!At
<1>3. tags \in SUBSET Lists!Groups
  BY <1>1 DEF Lists!Auto
<1>4. Lists!Auto(c)' \subseteq tags /\ tags \subseteq Lists!Tagged(c)'
  BY <1>1, <1>2, ListsAssumption DEF Lists!Auto, Lists!Tagged
<1>5. AssignedInv' /\ mapping' \in [Lists!Rows \X Lists!Groups -> {None, "auto", "user"}]
  BY <1>2 DEF ListInv, ListType, AssignedInv
<1>6. \A d \in Lists!Rows, g \in Lists!Groups : d # c => mapping'[<<d, g>>] = mapping[<<d, g>>]
  BY <1>2
<1>q. QED
  BY <1>1, <1>2, <1>3, <1>4, <1>5, <1>6, TagsInv

LEMMA AddTagInv ==
  ASSUME ListInv, NEW i \in Imports, Lists!AddTag(i)
  PROVE  ListInv'
<1>1. PICK p, c, auto : p = import[i].playlist /\ c = import[i].channel /\ auto = import[i].auto
  OBVIOUS
<1>2. PICK g \in Lists!Wanted(i) \ import[i].auto :
        Lists!add_channel_tag(import[i].channel, g, "auto")
        /\ Lists!HasTags(i, import[i].auto \cup {g})
  BY DEF Lists!AddTag
<1>3. import[i].pc = "tags" /\ UNCHANGED <<channels, variants, made, assigned, last>>
  BY DEF Lists!AddTag, Lists!At
<1>4. /\ import[i] \in ImportType /\ c \in Lists!Rows /\ auto \subseteq Lists!Groups
      /\ p \in Lists!Playlists
      /\ mapping \in [Lists!Rows \X Lists!Groups -> {None, "auto", "user"}] /\ AssignedInv
      /\ assigned \subseteq Lists!Rows \X Lists!Groups
  <2>1. import[i] \in ImportType /\ HandOf(i)
    BY DEF ListInv, ListType
  <2>2. c \in Lists!Rows /\ p \in Lists!Playlists
    BY <1>1, <1>3, <2>1 DEF HandOf, OnChannel
  <2>3. auto \subseteq Lists!Groups
    BY <1>1, <2>1 DEF ImportType
  <2>q. QED
    BY <2>1, <2>2, <2>3 DEF ListInv, ListType
<1>5. g \in Lists!Groups
  BY <1>1, <1>2, <1>4 DEF Lists!Wanted, Lists!Listed, Lists!Of, Lists!Playlists, Lists!Groups
<1>6. mapping' = [mapping EXCEPT ![<<c, g>>] = IF mapping[<<c, g>>] = None THEN "auto"
                                               ELSE mapping[<<c, g>>]]
  BY <1>1, <1>2 DEF Lists!add_channel_tag
<1>7. mapping' \in [Lists!Rows \X Lists!Groups -> {None, "auto", "user"}]
  BY <1>4, <1>5, <1>6
<1>8. \A x \in Lists!Rows \X Lists!Groups :
        mapping'[x] = IF x = <<c, g>> /\ mapping[x] = None THEN "auto" ELSE mapping[x]
  BY <1>4, <1>5, <1>6
<1>9. AssignedInv'
  BY <1>3, <1>4, <1>8, ListsAssumption DEF AssignedInv
<1>10. \A d \in Lists!Rows, h \in Lists!Groups : d # c => mapping'[<<d, h>>] = mapping[<<d, h>>]
  <2> SUFFICES ASSUME NEW d \in Lists!Rows, NEW h \in Lists!Groups, d # c
               PROVE  mapping'[<<d, h>>] = mapping[<<d, h>>]
    OBVIOUS
  <2>1. <<d, h>> # <<c, g>> /\ <<d, h>> \in Lists!Rows \X Lists!Groups
    OBVIOUS
  <2>q. QED
    BY <1>8, <2>1
<1>11. ASSUME import[i].alone
       PROVE  Lists!Auto(c)' \subseteq auto \cup {g} /\ auto \cup {g} \subseteq Lists!Tagged(c)'
  <2>1. Lists!Auto(c) \subseteq auto /\ auto \subseteq Lists!Tagged(c)
    BY <1>1, <1>3, <1>11 DEF ListInv, RunInv, Lone, WorkOf, ChannelOf_
  <2>2. ASSUME NEW h \in Lists!Groups
        PROVE  mapping'[<<c, h>>] = IF h = g /\ mapping[<<c, h>>] = None THEN "auto"
                                    ELSE mapping[<<c, h>>]
    <3>1. <<c, h>> \in Lists!Rows \X Lists!Groups /\ (<<c, h>> = <<c, g>> <=> h = g)
      BY <1>4
    <3>q. QED
      BY <1>8, <3>1
  <2>q. QED
    BY <1>4, <1>5, <2>1, <2>2, ListsAssumption DEF Lists!Auto, Lists!Tagged
<1>12. PICK tags : tags = auto \cup {g}
  OBVIOUS
<1>13. tags \in SUBSET Lists!Groups /\ Lists!HasTags(i, tags)
  BY <1>1, <1>2, <1>4, <1>5, <1>12
<1>14. import[i].alone => Lists!Auto(c)' \subseteq tags /\ tags \subseteq Lists!Tagged(c)'
  BY <1>11, <1>12
<1>q. QED
  BY <1>1, <1>3, <1>7, <1>9, <1>10, <1>13, <1>14, TagsInv

LEMMA RemoveTagInv ==
  ASSUME ListInv, NEW i \in Imports, Lists!RemoveTag(i)
  PROVE  ListInv'
<1>1. PICK p, c, auto : p = import[i].playlist /\ c = import[i].channel /\ auto = import[i].auto
  OBVIOUS
<1>2. PICK g \in import[i].auto \ Lists!Wanted(i) :
        Lists!remove_channel_auto_tag(import[i].channel, g)
        /\ Lists!HasTags(i, import[i].auto \ {g})
  BY DEF Lists!RemoveTag
<1>3. import[i].pc = "tags" /\ UNCHANGED <<channels, variants, made, assigned, last>>
  BY DEF Lists!RemoveTag, Lists!At
<1>4. /\ c \in Lists!Rows /\ auto \subseteq Lists!Groups
      /\ mapping \in [Lists!Rows \X Lists!Groups -> {None, "auto", "user"}] /\ AssignedInv
      /\ assigned \subseteq Lists!Rows \X Lists!Groups
  <2>1. import[i] \in ImportType /\ HandOf(i)
    BY DEF ListInv, ListType
  <2>2. c \in Lists!Rows
    BY <1>1, <1>3, <2>1 DEF HandOf, OnChannel
  <2>3. auto \subseteq Lists!Groups
    BY <1>1, <2>1 DEF ImportType
  <2>q. QED
    BY <2>1, <2>2, <2>3 DEF ListInv, ListType
<1>5. g \in Lists!Groups
  BY <1>1, <1>2, <1>4
<1>6. mapping' = [mapping EXCEPT ![<<c, g>>] = IF mapping[<<c, g>>] = "auto" THEN None
                                               ELSE mapping[<<c, g>>]]
  BY <1>1, <1>2 DEF Lists!remove_channel_auto_tag
<1>7. mapping' \in [Lists!Rows \X Lists!Groups -> {None, "auto", "user"}]
  BY <1>4, <1>5, <1>6
<1>8. \A x \in Lists!Rows \X Lists!Groups :
        mapping'[x] = IF x = <<c, g>> /\ mapping[x] = "auto" THEN None ELSE mapping[x]
  BY <1>4, <1>5, <1>6
<1>9. AssignedInv'
  BY <1>3, <1>4, <1>8, ListsAssumption DEF AssignedInv
<1>10. \A d \in Lists!Rows, h \in Lists!Groups : d # c => mapping'[<<d, h>>] = mapping[<<d, h>>]
  <2> SUFFICES ASSUME NEW d \in Lists!Rows, NEW h \in Lists!Groups, d # c
               PROVE  mapping'[<<d, h>>] = mapping[<<d, h>>]
    OBVIOUS
  <2>1. <<d, h>> # <<c, g>> /\ <<d, h>> \in Lists!Rows \X Lists!Groups
    OBVIOUS
  <2>q. QED
    BY <1>8, <2>1
<1>11. ASSUME import[i].alone
       PROVE  Lists!Auto(c)' \subseteq auto \ {g} /\ auto \ {g} \subseteq Lists!Tagged(c)'
  <2>1. Lists!Auto(c) \subseteq auto /\ auto \subseteq Lists!Tagged(c)
    BY <1>1, <1>3, <1>11 DEF ListInv, RunInv, Lone, WorkOf, ChannelOf_
  <2>2. ASSUME NEW h \in Lists!Groups
        PROVE  mapping'[<<c, h>>] = IF h = g /\ mapping[<<c, h>>] = "auto" THEN None
                                    ELSE mapping[<<c, h>>]
    <3>1. <<c, h>> \in Lists!Rows \X Lists!Groups /\ (<<c, h>> = <<c, g>> <=> h = g)
      BY <1>4
    <3>q. QED
      BY <1>8, <3>1
  <2>q. QED
    BY <1>4, <1>5, <2>1, <2>2, ListsAssumption DEF Lists!Auto, Lists!Tagged
<1>12. PICK tags : tags = auto \ {g}
  OBVIOUS
<1>13. tags \in SUBSET Lists!Groups /\ Lists!HasTags(i, tags)
  BY <1>1, <1>2, <1>4, <1>5, <1>12
<1>14. import[i].alone => Lists!Auto(c)' \subseteq tags /\ tags \subseteq Lists!Tagged(c)'
  BY <1>11, <1>12
<1>q. QED
  BY <1>1, <1>3, <1>7, <1>9, <1>10, <1>13, <1>14, TagsInv

LEMMA VariantInv ==
  ASSUME ListInv, NEW i \in Imports, Lists!get_channel_variant_by_tvg_name(i)
  PROVE  ListInv'
<1>1. PICK p, c : p = import[i].playlist /\ c = import[i].channel
  OBVIOUS
<1>2. /\ import[i].pc = "variants"
      /\ UNCHANGED <<channels, variants, mapping, made, assigned, last>>
  BY DEF Lists!get_channel_variant_by_tvg_name, Lists!At
<1>3. PICK e \in import[i].left :
        LET found == Lists!Named(c, e.name)
            new   == [channel |-> c, name |-> e.name, by |-> import[i].run, version |-> p.version]
        IN  \E v \in IF found = {} THEN {new} ELSE found :
              Lists!Becomes(i, IF found # {} /\ v.version = p.version
                               THEN [import[i] EXCEPT !.left = import[i].left \ {e}]
                               ELSE [import[i] EXCEPT !.left = import[i].left \ {e}, !.pc = "variant",
                                                      !.row = [v EXCEPT !.version = p.version]])
  BY <1>1 DEF Lists!get_channel_variant_by_tvg_name
<1>4. PICK new : new = [channel |-> c, name |-> e.name, by |-> import[i].run, version |-> p.version]
  OBVIOUS
<1>5. PICK v \in IF Lists!Named(c, e.name) = {} THEN {new} ELSE Lists!Named(c, e.name) :
        Lists!Becomes(i, IF Lists!Named(c, e.name) # {} /\ v.version = p.version
                         THEN [import[i] EXCEPT !.left = import[i].left \ {e}]
                         ELSE [import[i] EXCEPT !.left = import[i].left \ {e}, !.pc = "variant",
                                                !.row = [v EXCEPT !.version = p.version]])
  BY <1>3, <1>4
<1>6. /\ import[i] \in ImportType /\ c \in Lists!Rows /\ p \in Lists!Playlists
      /\ import[i].run \in 1..MaxImports /\ import[i].left \subseteq Entries
      /\ variants \subseteq Variants /\ import[i].pc \in OnChannel
  BY <1>1, <1>2 DEF ListInv, ListType, HandOf, OnChannel
<1>7. /\ e \in Entries /\ e.name \in Lists!Names /\ p.version \in Versions
  BY <1>6 DEF Lists!Names, Lists!Playlists
<1>8. v \in Variants /\ v.channel = c /\ v.name = e.name
  <2>1. new \in Variants /\ new.channel = c /\ new.name = e.name
    BY <1>4, <1>6, <1>7 DEF Variants
  <2>q. QED
    BY <1>5, <1>6, <2>1 DEF Lists!Named
<1>9. /\ AssignedInv' /\ variants' \subseteq Variants
      /\ mapping' \in [Lists!Rows \X Lists!Groups -> {None, "auto", "user"}]
  BY <1>2 DEF ListInv, ListType, AssignedInv
<1>10. \A d \in Lists!Rows : d # c => (Imported(p, d)' <=> Imported(p, d))
  BY <1>2, TablesStay
<1>11. /\ TagsIn(p, c)' <=> TagsIn(p, c)
       /\ \A f : UpToDate(p, c, f)' <=> UpToDate(p, c, f)
       /\ NamesIn(p, c)' = NamesIn(p, c) /\ Listing(p, c)' = Listing(p, c)
  BY <1>2, TablesStay DEF NamesIn, Listing, Lists!Of
<1>12. ASSUME import[i].alone
       PROVE  /\ TagsIn(p, c) /\ import[i].left \subseteq Listing(p, c)
              /\ \A f \in Listing(p, c) \ import[i].left : UpToDate(p, c, f)
  BY <1>1, <1>2, <1>12 DEF ListInv, RunInv, Lone, WorkOf, ChannelOf_
<1>13. CASE Lists!Named(c, e.name) # {} /\ v.version = p.version
  <2>1. PICK r : r = [import[i] EXCEPT !.left = import[i].left \ {e}]
    OBVIOUS
  <2>2. /\ r \in ImportType /\ r.pc = "variants" /\ r.channel = c /\ r.left = import[i].left \ {e}
        /\ r.seen = import[i].seen /\ r.existing = import[i].existing /\ r.todo = import[i].todo
        /\ r.playlist = import[i].playlist /\ r.run = import[i].run /\ r.alone = import[i].alone
    BY <1>1, <1>2, <1>6, <2>1 DEF ImportType
  <2>3. Lists!Becomes(i, r) /\ r.left \subseteq Entries /\ r.pc \in OnChannel \cup {"next"}
    BY <1>5, <1>6, <1>13, <2>1, <2>2 DEF OnChannel
  <2>4. UpToDate(p, c, e)
    BY <1>5, <1>13 DEF UpToDate, OfChannel, Lists!Named
  <2>5. import[i].alone => ChannelOf_(p, c, r.pc, r.auto, r.left, r.row)'
    <3> SUFFICES ASSUME import[i].alone PROVE ChannelOf_(p, c, r.pc, r.auto, r.left, r.row)'
      OBVIOUS
    <3>1. TagsIn(p, c)' /\ r.left \subseteq Listing(p, c)'
      BY <1>11, <1>12, <2>2
    <3>2. \A f \in Listing(p, c)' \ r.left : UpToDate(p, c, f)'
      BY <1>11, <1>12, <2>2, <2>4
    <3>q. QED
      BY <2>2, <3>1, <3>2 DEF ChannelOf_
  <2>q. QED
    BY <1>1, <1>2, <1>6, <1>9, <1>10, <2>2, <2>3, <2>5, WorkSteps
<1>14. CASE ~(Lists!Named(c, e.name) # {} /\ v.version = p.version)
  <2>1. PICK row : row = [v EXCEPT !.version = p.version]
    OBVIOUS
  <2>2. row \in Variants /\ row.channel = c /\ row.name = e.name /\ row.version = p.version
    BY <1>7, <1>8, <2>1 DEF Variants
  <2>3. PICK r : r = [import[i] EXCEPT !.left = import[i].left \ {e}, !.pc = "variant", !.row = row]
    OBVIOUS
  <2>4. /\ r \in ImportType /\ r.pc = "variant" /\ r.channel = c /\ r.left = import[i].left \ {e}
        /\ r.seen = import[i].seen /\ r.existing = import[i].existing /\ r.todo = import[i].todo
        /\ r.playlist = import[i].playlist /\ r.run = import[i].run /\ r.alone = import[i].alone
        /\ r.row = row
    BY <1>1, <1>2, <1>6, <2>2, <2>3 DEF ImportType, ImportStates
  <2>5. /\ Lists!Becomes(i, r) /\ r.left \subseteq Entries /\ r.row \in Variants
        /\ r.pc \in OnChannel \cup {"next"}
    BY <1>5, <1>6, <1>14, <2>1, <2>2, <2>3, <2>4 DEF OnChannel
  <2>6. import[i].alone => ChannelOf_(p, c, r.pc, r.auto, r.left, r.row)'
    <3> SUFFICES ASSUME import[i].alone PROVE ChannelOf_(p, c, r.pc, r.auto, r.left, r.row)'
      OBVIOUS
    <3>1. TagsIn(p, c)' /\ r.left \subseteq Listing(p, c)'
      BY <1>11, <1>12, <2>4
    <3>2. \A f \in Listing(p, c)' \ r.left : UpToDate(p, c, f)' \/ f.name = r.row.name
      BY <1>11, <1>12, <2>2, <2>4
    <3>3. r.row.name \in NamesIn(p, c)'
      <4>1. e \in Listing(p, c)
        BY <1>12
      <4>q. QED
        BY <1>11, <2>2, <2>4, <4>1 DEF NamesIn
    <3>4. r.row.channel = c /\ r.row.version = p.version
      BY <2>2, <2>4
    <3>q. QED
      BY <2>4, <3>1, <3>2, <3>3, <3>4 DEF ChannelOf_
  <2>q. QED
    BY <1>1, <1>2, <1>6, <1>9, <1>10, <2>4, <2>5, <2>6, WorkSteps
<1>q. QED
  BY <1>13, <1>14

LEMMA AddVariantInv ==
  ASSUME ListInv, NEW i \in Imports, Lists!add_channel_variant(i)
  PROVE  ListInv'
<1>1. PICK p, c, row : p = import[i].playlist /\ c = import[i].channel /\ row = import[i].row
  OBVIOUS
<1>2. PICK r : r = [import[i] EXCEPT !.pc = "variants", !.row = None]
  OBVIOUS
<1>3. /\ import[i].pc = "variant" /\ Lists!Becomes(i, r)
      /\ variants' = {v \in variants : ~Lists!SameRow(v, row)} \cup {row}
      /\ UNCHANGED <<channels, mapping, made, assigned, last>>
  BY <1>1, <1>2 DEF Lists!add_channel_variant, Lists!At
<1>4. /\ import[i] \in ImportType /\ row \in Variants /\ import[i].left \subseteq Entries
      /\ variants \subseteq Variants /\ import[i].pc \in OnChannel
  BY <1>1, <1>3 DEF ListInv, ListType, HandOf, OnChannel
<1>5. /\ r \in ImportType /\ r.pc = "variants" /\ r.channel = c /\ r.left = import[i].left
      /\ r.seen = import[i].seen /\ r.existing = import[i].existing /\ r.todo = import[i].todo
      /\ r.playlist = import[i].playlist /\ r.run = import[i].run /\ r.alone = import[i].alone
  BY <1>1, <1>2, <1>4 DEF ImportType, ImportStates
<1>6. /\ AssignedInv' /\ variants' \subseteq Variants /\ r.pc \in OnChannel \cup {"next"}
      /\ mapping' \in [Lists!Rows \X Lists!Groups -> {None, "auto", "user"}]
  BY <1>3, <1>4, <1>5 DEF ListInv, ListType, AssignedInv, OnChannel
<1>7. ASSUME import[i].alone
      PROVE  /\ TagsIn(p, c) /\ import[i].left \subseteq Listing(p, c)
             /\ \A e \in Listing(p, c) \ import[i].left : UpToDate(p, c, e) \/ e.name = row.name
             /\ row.channel = c /\ row.version = p.version
  BY <1>1, <1>3, <1>7 DEF ListInv, RunInv, Lone, WorkOf, ChannelOf_
<1>8. ASSUME import[i].alone
      PROVE  \A d \in Lists!Rows : d # c => (Imported(p, d)' <=> Imported(p, d))
  <2> SUFFICES ASSUME NEW d \in Lists!Rows, d # c PROVE Imported(p, d)' <=> Imported(p, d)
    OBVIOUS
  <2>1. OfChannel(d)' = OfChannel(d)
    BY <1>3, <1>7, <1>8 DEF OfChannel, Lists!SameRow
  <2>2. \A g \in Lists!Groups : mapping'[<<d, g>>] = mapping[<<d, g>>]
    BY <1>3
  <2>q. QED
    BY <2>1, <2>2, ChannelStays
<1>9. ASSUME import[i].alone PROVE ChannelOf_(p, c, r.pc, r.auto, r.left, r.row)'
  <2>1. TagsIn(p, c)'
    BY <1>3, <1>7, <1>9 DEF TagsIn, GroupsIn, Listing, Lists!Auto, Lists!Tagged
  <2>2. r.left \subseteq Listing(p, c)' /\ Listing(p, c)' = Listing(p, c)
    BY <1>5, <1>7, <1>9 DEF Listing, Lists!Of
  <2>3. ASSUME NEW e \in Listing(p, c) \ r.left PROVE UpToDate(p, c, e)'
    <3>1. row \in OfChannel(c)'
      BY <1>3, <1>7, <1>9 DEF OfChannel
    <3>2. CASE e.name = row.name
      BY <1>7, <1>9, <3>1, <3>2 DEF UpToDate
    <3>3. CASE e.name # row.name
      <4>1. UpToDate(p, c, e)
        BY <1>5, <1>7, <1>9, <2>3, <3>3
      <4>2. PICK v \in OfChannel(c) : v.name = e.name /\ v.version = p.version
        BY <4>1 DEF UpToDate
      <4>3. v \in OfChannel(c)'
        BY <1>3, <3>3, <4>2 DEF OfChannel, Lists!SameRow
      <4>q. QED
        BY <4>2, <4>3 DEF UpToDate
    <3>q. QED
      BY <3>2, <3>3
  <2>q. QED
    BY <1>5, <2>1, <2>2, <2>3 DEF ChannelOf_
<1>q. QED
  BY <1>1, <1>3, <1>4, <1>5, <1>6, <1>8, <1>9, WorkSteps

\* The variants to remove are the work that is left; without any the channel is done.
LEMMA StaleInv ==
  ASSUME ListInv, NEW i \in Imports, import[i].pc \in {"variants", "stale"},
         NEW rows \in SUBSET Variants, Lists!Stale(i, rows),
         UNCHANGED <<channels, mapping, made, assigned, last>>, variants' \subseteq Variants,
         NEW p, NEW c, p = import[i].playlist, c = import[i].channel,
         import[i].alone => \A d \in Lists!Rows : d # c => (Imported(p, d)' <=> Imported(p, d)),
         import[i].alone => /\ \A v \in rows : v.channel = c /\ v.name \notin NamesIn(p, c)
                            /\ {v \in OfChannel(c)' : v.name \notin NamesIn(p, c)} \subseteq rows
                            /\ TagsIn(p, c) /\ \A e \in Listing(p, c) : UpToDate(p, c, e)'
  PROVE  ListInv'
<1>1. import[i] \in ImportType /\ import[i].pc \in OnChannel
  BY DEF ListInv, ListType, OnChannel
<1>2. /\ AssignedInv' /\ mapping' \in [Lists!Rows \X Lists!Groups -> {None, "auto", "user"}]
  BY DEF ListInv, ListType, AssignedInv
<1>3. /\ NamesIn(p, c)' = NamesIn(p, c) /\ Listing(p, c)' = Listing(p, c)
      /\ TagsIn(p, c)' <=> TagsIn(p, c)
  BY DEF NamesIn, Listing, Lists!Of, TagsIn, GroupsIn, Lists!Auto, Lists!Tagged
<1>4. CASE rows # {}
  <2>1. PICK r : r = [import[i] EXCEPT !.pc = "stale", !.left = rows]
    OBVIOUS
  <2>2. /\ r \in ImportType /\ r.pc = "stale" /\ r.channel = c /\ r.left = rows
        /\ r.seen = import[i].seen /\ r.existing = import[i].existing /\ r.todo = import[i].todo
        /\ r.playlist = import[i].playlist /\ r.run = import[i].run /\ r.alone = import[i].alone
    BY <1>1, <2>1 DEF ImportType, ImportStates
  <2>3. Lists!Becomes(i, r) /\ r.pc \in OnChannel \cup {"next"}
    BY <1>4, <2>1, <2>2 DEF Lists!Stale, OnChannel
  <2>4. import[i].alone => ChannelOf_(p, c, r.pc, r.auto, r.left, r.row)'
    <3> SUFFICES ASSUME import[i].alone PROVE ChannelOf_(p, c, r.pc, r.auto, r.left, r.row)'
      OBVIOUS
    <3>1. TagsIn(p, c)' /\ \A e \in Listing(p, c)' : UpToDate(p, c, e)'
      BY <1>3
    <3>2. /\ \A v \in r.left : v.channel = c /\ v.name \notin NamesIn(p, c)'
          /\ {v \in OfChannel(c)' : v.name \notin NamesIn(p, c)'} \subseteq r.left
      BY <1>3, <2>2
    <3>q. QED
      BY <2>2, <3>1, <3>2 DEF ChannelOf_
  <2>q. QED
    BY <1>1, <1>2, <2>2, <2>3, <2>4, WorkSteps
<1>5. CASE rows = {}
  <2>1. PICK r : r = [import[i] EXCEPT !.pc = "next", !.left = {}, !.channel = None]
    OBVIOUS
  <2>2. /\ r \in ImportType /\ r.pc = "next" /\ r.left = {}
        /\ r.seen = import[i].seen /\ r.existing = import[i].existing /\ r.todo = import[i].todo
        /\ r.playlist = import[i].playlist /\ r.run = import[i].run /\ r.alone = import[i].alone
    BY <1>1, <2>1 DEF ImportType, ImportStates
  <2>3. Lists!Becomes(i, r) /\ r.pc \in OnChannel \cup {"next"} /\ r.pc \notin OnChannel
    BY <1>5, <2>1, <2>2 DEF Lists!Stale, OnChannel
  <2>4. import[i].alone => Imported(p, c)'
    <3> SUFFICES ASSUME import[i].alone PROVE Imported(p, c)'
      OBVIOUS
    <3>1. TagsIn(p, c)' /\ \A e \in Listing(p, c)' : UpToDate(p, c, e)'
      BY <1>3
    <3>2. \A v \in OfChannel(c)' : v.name \in NamesIn(p, c)'
      BY <1>3, <1>5
    <3>q. QED
      BY <3>1, <3>2 DEF Imported
  <2>q. QED
    BY <1>1, <1>2, <2>2, <2>3, <2>4, WorkSteps
<1>q. QED
  BY <1>4, <1>5

LEMMA VariantsInv ==
  ASSUME ListInv, NEW i \in Imports, Lists!get_channel_variants(i)
  PROVE  ListInv'
<1>1. PICK p, c : p = import[i].playlist /\ c = import[i].channel
  OBVIOUS
<1>2. /\ import[i].pc = "variants" /\ import[i].left = {}
      /\ UNCHANGED <<channels, variants, mapping, made, assigned, last>>
      /\ variants \subseteq Variants
  BY DEF Lists!get_channel_variants, Lists!At, ListInv, ListType
<1>3. PICK rows : rows = {v \in OfChannel(c) : v.name \notin NamesIn(p, c)}
  OBVIOUS
<1>4. rows \in SUBSET Variants /\ Lists!Stale(i, rows)
  <2>1. rows = {v \in variants : /\ v.channel = import[i].channel
                                 /\ v.name \notin {e.name : e \in Lists!Listed(i)}}
    BY <1>1, <1>3 DEF OfChannel, NamesIn, Listing, Lists!Listed
  <2>q. QED
    BY <1>2, <2>1 DEF Lists!get_channel_variants
<1>5. /\ \A d \in Lists!Rows : d # c => (Imported(p, d)' <=> Imported(p, d))
      /\ OfChannel(c)' = OfChannel(c)
      /\ \A e : UpToDate(p, c, e)' <=> UpToDate(p, c, e)
  BY <1>2, TablesStay
<1>6. ASSUME import[i].alone
      PROVE  /\ \A v \in rows : v.channel = c /\ v.name \notin NamesIn(p, c)
             /\ {v \in OfChannel(c)' : v.name \notin NamesIn(p, c)} \subseteq rows
             /\ TagsIn(p, c) /\ \A e \in Listing(p, c) : UpToDate(p, c, e)'
  <2>1. TagsIn(p, c) /\ \A e \in Listing(p, c) : UpToDate(p, c, e)
    BY <1>1, <1>2, <1>6 DEF ListInv, RunInv, Lone, WorkOf, ChannelOf_
  <2>2. \A v \in rows : v.channel = c /\ v.name \notin NamesIn(p, c)
    BY <1>3 DEF OfChannel
  <2>q. QED
    BY <1>3, <1>5, <2>1, <2>2
<1>q. QED
  BY <1>1, <1>2, <1>4, <1>5, <1>6, StaleInv

LEMMA RemoveVariantInv ==
  ASSUME ListInv, NEW i \in Imports, Lists!remove_channel_variant(i)
  PROVE  ListInv'
<1>1. PICK p, c : p = import[i].playlist /\ c = import[i].channel
  OBVIOUS
<1>2. PICK v \in import[i].left : /\ variants' = {w \in variants : ~Lists!SameRow(v, w)}
                                  /\ Lists!Stale(i, import[i].left \ {v})
  BY DEF Lists!remove_channel_variant
<1>3. PICK rows : rows = import[i].left \ {v}
  OBVIOUS
<1>4. import[i].pc = "stale" /\ UNCHANGED <<channels, mapping, made, assigned, last>>
  BY DEF Lists!remove_channel_variant, Lists!At
<1>5. /\ rows \in SUBSET Variants /\ Lists!Stale(i, rows) /\ variants' \subseteq Variants
      /\ import[i].left \subseteq Variants
  BY <1>2, <1>3, <1>4 DEF ListInv, ListType, HandOf
<1>6. ASSUME import[i].alone
      PROVE  /\ TagsIn(p, c) /\ \A e \in Listing(p, c) : UpToDate(p, c, e)
             /\ \A w \in import[i].left : w.channel = c /\ w.name \notin NamesIn(p, c)
             /\ {w \in OfChannel(c) : w.name \notin NamesIn(p, c)} \subseteq import[i].left
  BY <1>1, <1>4, <1>6 DEF ListInv, RunInv, Lone, WorkOf, ChannelOf_
<1>7. ASSUME import[i].alone
      PROVE  \A d \in Lists!Rows : d # c => (Imported(p, d)' <=> Imported(p, d))
  <2> SUFFICES ASSUME NEW d \in Lists!Rows, d # c PROVE Imported(p, d)' <=> Imported(p, d)
    OBVIOUS
  <2>1. OfChannel(d)' = OfChannel(d)
    BY <1>2, <1>6, <1>7 DEF OfChannel, Lists!SameRow
  <2>2. \A g \in Lists!Groups : mapping'[<<d, g>>] = mapping[<<d, g>>]
    BY <1>4
  <2>q. QED
    BY <2>1, <2>2, ChannelStays
<1>8. ASSUME import[i].alone
      PROVE  /\ \A w \in rows : w.channel = c /\ w.name \notin NamesIn(p, c)
             /\ {w \in OfChannel(c)' : w.name \notin NamesIn(p, c)} \subseteq rows
             /\ TagsIn(p, c) /\ \A e \in Listing(p, c) : UpToDate(p, c, e)'
  <2>1. ASSUME NEW e \in Listing(p, c) PROVE UpToDate(p, c, e)'
    <3>1. PICK w \in OfChannel(c) : w.name = e.name /\ w.version = p.version
      BY <1>6, <1>8 DEF UpToDate
    <3>2. w.name # v.name
      BY <1>6, <1>8, <3>1 DEF NamesIn
    <3>3. w \in OfChannel(c)'
      BY <1>2, <3>1, <3>2 DEF OfChannel, Lists!SameRow
    <3>q. QED
      BY <3>1, <3>3 DEF UpToDate
  <2>2. \A w \in OfChannel(c)' : w \in OfChannel(c) /\ w # v
    BY <1>2 DEF OfChannel, Lists!SameRow
  <2>q. QED
    BY <1>3, <1>6, <1>8, <2>1, <2>2
<1>q. QED
  BY <1>1, <1>4, <1>5, <1>7, <1>8, StaleInv

\* The removal of a channel takes what it has and nothing of another's.
LEMMA RowRemoved ==
  ASSUME ListType, AssignedInv, NEW c, Lists!RemoveRow(c)
  PROVE  /\ channels' = channels \ {c} /\ variants' \subseteq Variants
         /\ mapping' \in [Lists!Rows \X Lists!Groups -> {None, "auto", "user"}]
         /\ assigned' \subseteq Lists!Rows \X Lists!Groups /\ AssignedInv'
         /\ \A d \in Lists!Rows : d # c => \A p : Imported(p, d)' <=> Imported(p, d)
<1>1. /\ channels' = channels \ {c}
      /\ variants' = {v \in variants : v.channel # c}
      /\ mapping' = [x \in Lists!Rows \X Lists!Groups |-> IF x[1] = c THEN None ELSE mapping[x]]
      /\ assigned' = {x \in assigned : x[1] # c}
  BY DEF Lists!RemoveRow, ListType
<1>2. /\ variants \subseteq Variants /\ assigned \subseteq Lists!Rows \X Lists!Groups
      /\ mapping \in [Lists!Rows \X Lists!Groups -> {None, "auto", "user"}]
  BY DEF ListType
<1>3. mapping' \in [Lists!Rows \X Lists!Groups -> {None, "auto", "user"}]
  BY <1>1, <1>2
<1>4. AssignedInv'
  BY <1>1, <1>2 DEF AssignedInv
<1>5. ASSUME NEW d \in Lists!Rows, d # c, NEW p PROVE Imported(p, d)' <=> Imported(p, d)
  <2>1. OfChannel(d)' = OfChannel(d)
    BY <1>1, <1>5 DEF OfChannel
  <2>2. \A g \in Lists!Groups : mapping'[<<d, g>>] = mapping[<<d, g>>]
    BY <1>1, <1>5
  <2>q. QED
    BY <2>1, <2>2, ChannelStays
<1>q. QED
  BY <1>1, <1>2, <1>3, <1>4, <1>5

LEMMA RemoveInv ==
  ASSUME ListInv, NEW i \in Imports, Lists!remove_channel(i)
  PROVE  ListInv'
<1>1. PICK c \in import[i].existing \ import[i].seen :
        /\ Lists!RemoveRow(c)
        /\ Lists!Becomes(i, [import[i] EXCEPT !.existing = import[i].existing \ {c}])
  BY DEF Lists!remove_channel
<1>2. import[i].pc = "next" /\ UNCHANGED <<made, last>>
  BY DEF Lists!remove_channel, Lists!At
<1> DEFINE r == [import[i] EXCEPT !.existing = import[i].existing \ {c}]
<1>3. /\ import[i] \in ImportType /\ HandOf(i) /\ ListType /\ AssignedInv
  BY DEF ListInv, ListType
<1>4. /\ r \in ImportType /\ r.pc = "next" /\ r.existing = import[i].existing \ {c}
      /\ r.seen = import[i].seen /\ r.todo = import[i].todo
      /\ r.playlist = import[i].playlist /\ r.run = import[i].run /\ r.alone = import[i].alone
  BY <1>2, <1>3 DEF ImportType
<1>5. Lists!Becomes(i, r)
  BY <1>1
<1> HIDE DEF r
<1>6. /\ import' \in [Imports -> ImportType] /\ import'[i] = r
      /\ \A j \in Imports : j # i => import'[j] = import[j]
  BY <1>4, <1>5, Becoming DEF ListInv
<1>7. /\ channels' = channels \ {c} /\ variants' \subseteq Variants
      /\ mapping' \in [Lists!Rows \X Lists!Groups -> {None, "auto", "user"}]
      /\ assigned' \subseteq Lists!Rows \X Lists!Groups /\ AssignedInv'
      /\ \A d \in Lists!Rows : d # c => \A p : Imported(p, d)' <=> Imported(p, d)
  BY <1>1, <1>3, RowRemoved
<1>8. ListType' /\ HandOf(i)'
  BY <1>2, <1>3, <1>4, <1>6, <1>7 DEF ListType, HandOf, OnChannel
<1>9. ASSUME import[i].alone PROVE MetOf(i)' /\ WorkOf(i)'
  <2>1. MetOf(i) /\ channels \subseteq Lists!Rows
    BY <1>2, <1>3, <1>9 DEF ListInv, ListType, RunInv, Lone
  <2>2. Met(i) = import[i].seen /\ Met(i)' = import[i].seen
    BY <1>2, <1>4, <1>6 DEF Met
  <2>3. \A d \in import[i].seen : Imported(import[i].playlist, d)'
    <3>1. PICK p : p = import[i].playlist
      OBVIOUS
    <3>2. import'[i].playlist = p
      BY <1>4, <1>6, <3>1
    <3>3. \A d \in import[i].seen : Imported(p, d) /\ d # c /\ d \in Lists!Rows
      BY <1>1, <1>2, <2>1, <3>1 DEF MetOf
    <3>4. \A d \in import[i].seen : Imported(p, d)'
      BY <1>7, <3>3
    <3>q. QED
      BY <3>2, <3>4
  <2>4. WorkOf(i)'
    BY <1>4, <1>6 DEF WorkOf, ChannelOf_
  <2>q. QED
    BY <1>1, <1>2, <1>4, <1>6, <1>7, <2>1, <2>2, <2>3, <2>4 DEF MetOf, OnChannel, Ids
<1>q. QED
  BY <1>2, <1>4, <1>6, <1>7, <1>8, <1>9, ImportSteps

\* One that is alone at its end leaves the channels it found or made.
LEMMA DoneInv ==
  ASSUME ListInv, NEW i \in Imports, Lists!Done(i)
  PROVE  ListInv'
<1>1. /\ import[i].pc = "next" /\ import[i].todo = {} /\ import[i].existing \subseteq import[i].seen
      /\ Lists!Becomes(i, Lists!Idle)
      /\ last' = IF import[i].alone THEN import[i].playlist ELSE None
      /\ UNCHANGED <<channels, variants, mapping, made, assigned>>
  BY DEF Lists!Done, Lists!At
<1>2. last = None
  BY <1>1 DEF ListInv, LoneInv
<1>3. CASE ~import[i].alone
  <2>1. last' = last
    BY <1>1, <1>2, <1>3
  <2>q. QED
    BY <1>1, <2>1, ImportEnds
<1>4. CASE import[i].alone
  <2>1. Lists!Idle \in ImportType /\ Lists!Idle.pc = "idle"
    BY ListsAssumption DEF Lists!Idle, ImportType, ImportStates
  <2>2. /\ import' \in [Imports -> ImportType] /\ import'[i].pc = "idle"
        /\ \A j \in Imports : j # i => import'[j] = import[j]
    BY <1>1, <2>1, Becoming DEF ListInv
  <2>3. Lone(i) /\ MetOf(i) /\ HandOf(i)
    BY <1>1, <1>4 DEF ListInv, RunInv, Lone
  <2>4. \A j \in Imports : import'[j].pc = "idle"
    BY <2>2, <2>3 DEF ListInv, LoneInv
  <2>5. PICK p : p = import[i].playlist
    OBVIOUS
  <2>6. last' = p /\ p \in Lists!Playlists
    BY <1>1, <1>4, <2>3, <2>5 DEF HandOf
  <2>7. ListType' /\ AssignedInv'
    BY <1>1, <2>2, <2>6 DEF ListInv, ListType, AssignedInv
  <2>8. (\A j \in Imports : HandOf(j))'
    BY <2>4 DEF HandOf, OnChannel
  <2>9. LoneInv' /\ RunInv'
    BY <2>4 DEF LoneInv, RunInv, Lone
  <2>10. channels = import[i].seen
    BY <1>1, <2>3 DEF MetOf
  <2>11. /\ \A c, d \in channels : c.tvg_id = d.tvg_id => c = d
         /\ {c.tvg_id : c \in channels} = Ids(p)
         /\ \A c \in channels : Imported(p, c)
    BY <1>1, <2>3, <2>5, <2>10 DEF MetOf, Met
  <2>12. \A c : Imported(p, c)' <=> Imported(p, c)
    BY <1>1, TablesStay
  <2>13. \A c \in channels : Imported(p, c)'
    BY <2>11, <2>12
  <2>14. LastInv'
    BY <1>1, <2>6, <2>11, <2>13 DEF LastInv, Ids
  <2>q. QED
    BY <2>7, <2>8, <2>9, <2>14 DEF ListInv
<1>q. QED
  BY <1>3, <1>4

\* A call of a user leaves no import alone.
LEMMA CallSteps ==
  ASSUME ListInv, Lists!Called, channels' \subseteq Lists!Rows, variants' \subseteq Variants,
         mapping' \in [Lists!Rows \X Lists!Groups -> {None, "auto", "user"}],
         assigned' \subseteq Lists!Rows \X Lists!Groups, AssignedInv'
  PROVE  ListInv'
<1>1. /\ import' = [i \in Imports |-> [import[i] EXCEPT !.alone = import[i].alone /\ ~Lists!Active(i)]]
      /\ last' = None /\ made' = made
  BY DEF Lists!Called
<1>2. ASSUME NEW i \in Imports
      PROVE  /\ import'[i] \in ImportType
             /\ import'[i].alone => import[i].pc = "idle"
             /\ import'[i].pc = import[i].pc /\ import'[i].run = import[i].run
             /\ import'[i].playlist = import[i].playlist /\ import'[i].seen = import[i].seen
             /\ import'[i].channel = import[i].channel /\ import'[i].left = import[i].left
             /\ import'[i].row = import[i].row
  <2>1. import[i] \in ImportType
    BY DEF ListInv, ListType
  <2>2. PICK alone \in BOOLEAN : /\ import'[i] = [import[i] EXCEPT !.alone = alone]
                                 /\ alone => import[i].pc = "idle"
    BY <1>1 DEF Lists!Active, Lists!At
  <2>3. import'[i].alone = alone
    BY <2>1, <2>2 DEF ImportType
  <2>q. QED
    BY <2>1, <2>2, <2>3 DEF ImportType
<1>3. import' \in [Imports -> ImportType]
  BY <1>1, <1>2
<1>4. ListType'
  BY <1>1, <1>3 DEF ListInv, ListType
<1>5. (\A i \in Imports : HandOf(i))'
  <2>1. ASSUME NEW i \in Imports PROVE HandOf(i)'
    BY <1>2 DEF ListInv, HandOf
  <2>q. QED
    BY <2>1
<1>6. (\A i \in Imports : ~Lone(i))'
  BY <1>2 DEF Lone
<1>q. QED
  BY <1>1, <1>4, <1>5, <1>6 DEF ListInv, LoneInv, RunInv, LastInv

LEMMA RemoveChannelInv == ListInv /\ Lists!RemoveChannel => ListInv'
<1> SUFFICES ASSUME ListInv, Lists!RemoveChannel PROVE ListInv'
  OBVIOUS
<1>1. PICK c \in channels : Lists!RemoveRow(c)
  BY DEF Lists!RemoveChannel
<1>2. Lists!Called /\ ListType /\ AssignedInv /\ channels \subseteq Lists!Rows
  BY DEF Lists!RemoveChannel, ListInv, ListType
<1>3. /\ channels' = channels \ {c} /\ variants' \subseteq Variants
      /\ mapping' \in [Lists!Rows \X Lists!Groups -> {None, "auto", "user"}]
      /\ assigned' \subseteq Lists!Rows \X Lists!Groups /\ AssignedInv'
  BY <1>1, <1>2, RowRemoved
<1>4. channels' \subseteq Lists!Rows
  BY <1>2, <1>3
<1>q. QED
  BY <1>2, <1>3, <1>4, CallSteps

\* A tag is a user's for good when it was nobody's.
LEMMA AddUserTagInv == ListInv /\ Lists!AddUserTag => ListInv'
<1> SUFFICES ASSUME ListInv, Lists!AddUserTag PROVE ListInv'
  OBVIOUS
<1>1. PICK c \in channels, g \in Lists!Groups :
        /\ Lists!add_channel_tag(c, g, "user")
        /\ assigned' = IF mapping[<<c, g>>] = None THEN assigned \cup {<<c, g>>} ELSE assigned
  BY DEF Lists!AddUserTag
<1>2. /\ Lists!Called /\ UNCHANGED <<channels, variants>> /\ AssignedInv
      /\ channels \subseteq Lists!Rows /\ variants \subseteq Variants
      /\ mapping \in [Lists!Rows \X Lists!Groups -> {None, "auto", "user"}]
      /\ assigned \subseteq Lists!Rows \X Lists!Groups
  BY DEF Lists!AddUserTag, ListInv, ListType
<1>3. <<c, g>> \in Lists!Rows \X Lists!Groups
  BY <1>1, <1>2
<1>4. mapping' = [mapping EXCEPT ![<<c, g>>] = IF mapping[<<c, g>>] = None THEN "user"
                                               ELSE mapping[<<c, g>>]]
  BY <1>1 DEF Lists!add_channel_tag
<1>5. mapping' \in [Lists!Rows \X Lists!Groups -> {None, "auto", "user"}]
  BY <1>2, <1>3, <1>4
<1>6. \A x \in Lists!Rows \X Lists!Groups :
        mapping'[x] = IF x = <<c, g>> /\ mapping[x] = None THEN "user" ELSE mapping[x]
  BY <1>2, <1>3, <1>4
<1>7. assigned' \subseteq Lists!Rows \X Lists!Groups
  BY <1>1, <1>2, <1>3
<1>8. AssignedInv'
  BY <1>1, <1>2, <1>3, <1>6, ListsAssumption DEF AssignedInv
<1>9. channels' \subseteq Lists!Rows /\ variants' \subseteq Variants
  BY <1>2
<1>q. QED
  BY <1>2, <1>5, <1>7, <1>8, <1>9, CallSteps

LEMMA RemoveUserTagInv == ListInv /\ Lists!remove_channel_tag => ListInv'
<1> SUFFICES ASSUME ListInv, Lists!remove_channel_tag PROVE ListInv'
  OBVIOUS
<1>1. PICK c \in channels, g \in Lists!Groups :
        /\ mapping' = [mapping EXCEPT ![<<c, g>>] = None]
        /\ assigned' = assigned \ {<<c, g>>}
  BY DEF Lists!remove_channel_tag, Lists!Tagged
<1>2. /\ Lists!Called /\ UNCHANGED <<channels, variants>> /\ AssignedInv
      /\ channels \subseteq Lists!Rows /\ variants \subseteq Variants
      /\ mapping \in [Lists!Rows \X Lists!Groups -> {None, "auto", "user"}]
      /\ assigned \subseteq Lists!Rows \X Lists!Groups
  BY DEF Lists!remove_channel_tag, ListInv, ListType
<1>3. <<c, g>> \in Lists!Rows \X Lists!Groups
  BY <1>1, <1>2
<1>4. mapping' \in [Lists!Rows \X Lists!Groups -> {None, "auto", "user"}]
  BY <1>1, <1>2, <1>3
<1>5. \A x \in Lists!Rows \X Lists!Groups : x # <<c, g>> => mapping'[x] = mapping[x]
  BY <1>1, <1>2
<1>6. assigned' \subseteq Lists!Rows \X Lists!Groups
  BY <1>1, <1>2
<1>7. AssignedInv'
  BY <1>1, <1>2, <1>5 DEF AssignedInv
<1>8. channels' \subseteq Lists!Rows /\ variants' \subseteq Variants
  BY <1>2
<1>q. QED
  BY <1>2, <1>4, <1>6, <1>7, <1>8, CallSteps

LEMMA ListsNext == ListInv /\ Lists!Next => ListInv'
<1> SUFFICES ASSUME ListInv, Lists!Next PROVE ListInv'
  OBVIOUS
<1>1. ASSUME NEW i \in Imports, Lists!RefuseVariant(i) PROVE ListInv'
  <2>1. /\ import[i].pc = "variant" /\ Lists!Becomes(i, Lists!Idle)
        /\ UNCHANGED <<channels, variants, mapping, made, assigned, last>>
    BY <1>1 DEF Lists!RefuseVariant, Lists!At
  <2>q. QED
    BY <2>1, ImportEnds
<1>2. ASSUME NEW i \in Imports, Lists!Fail(i) PROVE ListInv'
  <2>1. /\ import[i].pc # "idle" /\ Lists!Becomes(i, Lists!Idle)
        /\ UNCHANGED <<channels, variants, mapping, made, assigned, last>>
    BY <1>2 DEF Lists!Fail, Lists!Active, Lists!At
  <2>q. QED
    BY <2>1, ImportEnds
<1>3. CASE \E i \in Imports :
             \/ Lists!Fetch(i) \/ Lists!get_all_channel_ids(i)
             \/ Lists!get_channel_by_tvg_id(i) \/ Lists!add_channel(i)
             \/ Lists!get_channel_auto_tag_ids(i) \/ Lists!AddTag(i) \/ Lists!RemoveTag(i)
  BY <1>3, FetchInv, ExistingInv, ChooseInv, AddInv, AutoTagsInv, AddTagInv, RemoveTagInv
<1>4. CASE \E i \in Imports :
             \/ Lists!get_channel_variant_by_tvg_name(i) \/ Lists!add_channel_variant(i)
             \/ Lists!RefuseVariant(i) \/ Lists!get_channel_variants(i)
             \/ Lists!remove_channel_variant(i)
             \/ Lists!remove_channel(i) \/ Lists!Done(i) \/ Lists!Fail(i)
  BY <1>1, <1>2, <1>4, VariantInv, AddVariantInv, VariantsInv, RemoveVariantInv, RemoveInv, DoneInv
<1>5. CASE Lists!RemoveChannel \/ Lists!AddUserTag \/ Lists!remove_channel_tag
  BY <1>5, RemoveChannelInv, AddUserTagInv, RemoveUserTagInv
<1>q. QED
  BY <1>3, <1>4, <1>5 DEF Lists!Next

LEMMA ListsStay == ListInv /\ UNCHANGED listVars => ListInv'
<1> SUFFICES ASSUME ListInv, UNCHANGED listVars PROVE ListInv'
  OBVIOUS
<1>1. UNCHANGED <<channels, variants, mapping, import, made, calls, assigned, last>>
  BY DEF listVars
<1>2. \A p, c : Imported(p, c)' <=> Imported(p, c)
  BY <1>1, TablesStay
<1>3. ListType' /\ AssignedInv' /\ LoneInv' /\ (\A i \in Imports : HandOf(i))'
  BY <1>1 DEF ListInv, ListType, AssignedInv, LoneInv, Lone, HandOf
<1>4. LastInv'
  BY <1>1, <1>2 DEF ListInv, LastInv
<1>5. RunInv'
  <2>1. ASSUME NEW i \in Imports, Lone(i)' PROVE MetOf(i)' /\ WorkOf(i)'
    <3>1. MetOf(i) /\ WorkOf(i)
      BY <1>1, <2>1 DEF ListInv, RunInv, Lone
    <3>2. MetOf(i)'
      BY <1>1, <1>2, <3>1 DEF MetOf, Met
    <3>3. OfChannel(import[i].channel)' = OfChannel(import[i].channel)
      BY <1>1 DEF OfChannel
    <3>4. WorkOf(i)'
      BY <1>1, <3>1 DEF WorkOf, ChannelOf_, TagsIn, UpToDate, OfChannel, Lists!Auto, Lists!Tagged,
                        GroupsIn, NamesIn, Listing, Lists!Of
    <3>q. QED
      BY <3>2, <3>4
  <2>q. QED
    BY <2>1 DEF RunInv
<1>q. QED
  BY <1>3, <1>4, <1>5 DEF ListInv

\* An import that met nobody leaves the channels, tags and variants of its playlist, whatever
\* was there before it, and a tag that a user gave stays the user's, whatever imports do
\* meanwhile (refresh_channels of src/src/model/channels.rs).
THEOREM PlaylistImportedCorrect == MCSpec => []PlaylistImported
<1> DEFINE Inv == subject = "lists" => ListInv
<1>1. MCInit => Inv
  BY ListsInit DEF MCInit
<1>2. Inv /\ [MCNext]_<<subject, vars, listVars>> => Inv'
  <2> SUFFICES ASSUME subject = "lists", ListInv, [MCNext]_<<subject, vars, listVars>>
               PROVE  ListInv'
    BY DEF MCNext
  <2>1. CASE MCNext
    BY <2>1, ListsNext DEF MCNext
  <2>2. CASE UNCHANGED <<subject, vars, listVars>>
    BY <2>2, ListsStay
  <2>q. QED
    BY <2>1, <2>2
<1>3. Inv => PlaylistImported
  <2> SUFFICES ASSUME subject = "lists", ListInv PROVE Lists!PlaylistImported
    BY DEF PlaylistImported
  <2>1. \A x \in assigned : mapping[x] = "user"
    BY DEF ListInv, AssignedInv
  <2>2. ASSUME last # None, NEW c \in channels
        PROVE  /\ Lists!Auto(c) \subseteq {e.group : e \in Lists!Of(last, c.tvg_id)}
               /\ {e.group : e \in Lists!Of(last, c.tvg_id)} \subseteq Lists!Tagged(c)
               /\ {v.name : v \in {w \in variants : w.channel = c}}
                    = {e.name : e \in Lists!Of(last, c.tvg_id)}
               /\ \A e \in Lists!Of(last, c.tvg_id) :
                    \E v \in Lists!Named(c, e.name) : v.version = last.version
    <3>1. Imported(last, c)
      BY <2>2 DEF ListInv, LastInv
    <3>2. \A e \in Lists!Of(last, c.tvg_id) :
            \E v \in {w \in variants : w.channel = c} : v.name = e.name /\ v.version = last.version
      BY <3>1 DEF Imported, UpToDate, OfChannel, Listing
    <3>3. \A v \in {w \in variants : w.channel = c} :
            v.name \in {e.name : e \in Lists!Of(last, c.tvg_id)}
      BY <3>1 DEF Imported, NamesIn, OfChannel, Listing
    <3>4. {v.name : v \in {w \in variants : w.channel = c}}
            = {e.name : e \in Lists!Of(last, c.tvg_id)}
      BY <3>2, <3>3
    <3>5. \A e \in Lists!Of(last, c.tvg_id) :
            \E v \in Lists!Named(c, e.name) : v.version = last.version
      BY <3>2 DEF Lists!Named
    <3>q. QED
      BY <3>1, <3>4, <3>5 DEF Imported, TagsIn, GroupsIn, Listing
  <2>3. last # None => /\ \A c, d \in channels : c.tvg_id = d.tvg_id => c = d
                       /\ {c.tvg_id : c \in channels} = {e.tvg_id : e \in last.entries}
    BY DEF ListInv, LastInv, Ids
  <2>q. QED
    BY <2>1, <2>2, <2>3 DEF Lists!PlaylistImported
<1>q. QED
  BY <1>1, <1>2, <1>3, PTL DEF MCSpec

=============================================================================
