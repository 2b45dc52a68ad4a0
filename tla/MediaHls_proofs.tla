--------------------------- MODULE MediaHls_proofs ---------------------------
(***************************************************************************)
(* Theorems about MediaHls, for any number of requests and keys.           *)
(*                                                                         *)
(* The argument: what the map holds was registered by its own request and  *)
(* is removed by a supervisor that was cancelled, or by the cleaner, which *)
(* only handles keys of which some session was cancelled (HlsInv).         *)
(***************************************************************************)
EXTENDS MediaHls, TLAPS

\* What the map and the cleaner refer to.
MapInv ==
  /\ \A k \in Keys : sessions[k] # None =>
       KeyOf[sessions[k]] = k /\ start[sessions[k]] = "registered"
  /\ cleaner.dir # None => start[cleaner.dir] = "registered" /\ ~IsRegistered(cleaner.dir)
  /\ cleaner.key # None => cleaner.dir = None

\* How a supervisor follows its FFmpeg and its token.
SupInv ==
  \A r \in Requests :
    /\ sup[r] = "none" <=> ffmpeg[r] = "none"
    /\ ffmpeg[r] = "killed" => r \in cancelled
    /\ sup[r] = "waiting" <=> ffmpeg[r] = "running"
    /\ sup[r] \in {"cleanup", "unregister"} => r \in cancelled
    /\ sup[r] = "unregister" => r \notin dirs
    /\ start[r] \in {"idle", "joined", "resolving", "failed"} =>
         sup[r] = "none" /\ r \notin cancelled
    /\ start[r] = "spawned" =>
         r \in dirs /\ r \notin cancelled /\ sup[r] \in {"waiting", "ended"}
    /\ start[r] = "duplicate" => r \in cancelled

\* Some session of the key was cancelled.
KeyCancelled(k) == \E s \in Requests : KeyOf[s] = k /\ s \in cancelled

\* A key the cleaner stops, or has yet to stop, is free only because one of
\* its sessions was cancelled; so is the key of a session that left the map.
CancelInv ==
  /\ \A k \in cleaner.todo : sessions[k] # None \/ KeyCancelled(k)
  /\ cleaner.key # None => KeyCancelled(cleaner.key)
  /\ \A r \in Requests :
       start[r] = "registered" /\ ~IsRegistered(r) => r \in cancelled \/ RivalCancelled(r)

HlsInv == MapInv /\ SupInv /\ CancelInv

-----------------------------------------------------------------------------
LEMMA InitHls == Init => TypeOK /\ HlsInv
<1>1. Init => /\ sessions \in [Keys -> Requests \cup {None}]
              /\ cleaner \in [todo : SUBSET Keys, key : Keys \cup {None}, dir : Requests \cup {None}]
  BY DEF Init
<1>2. Init => TypeOK
  BY <1>1 DEF Init, TypeOK, StartStates, FfmpegStates, SupStates
<1>3. Init => HlsInv
  BY HlsAssumption DEF Init, HlsInv, MapInv, SupInv, CancelInv
<1>q. QED
  BY <1>2, <1>3

LEMMA TypeStep ==
  ASSUME TypeOK, [Next]_vars
  PROVE  TypeOK'
<1> USE HlsAssumption DEF TypeOK, To, SupTo
<1>1. ASSUME NEW r \in Requests, Handler(r) \/ HangUp(r) \/ BecomeStale(r)
      PROVE TypeOK'
  BY <1>1 DEF Handler, Join, Miss, SpawnFfmpeg, StartFails, Register, Duplicate, HangUp,
              BecomeStale, StartStates, FfmpegStates, SupStates
<1>2. ASSUME NEW r \in Requests, Supervisor(r)
      PROVE TypeOK'
  BY <1>2 DEF Supervisor, FfmpegExits, KillFfmpeg, RemoveDir, Unregister,
              FfmpegStates, SupStates
<1>3. ASSUME NEW k \in Keys, TouchSession(k) \/ Stop(k)
      PROVE TypeOK'
  BY <1>3 DEF TouchSession, Stop, Registered
<1>4. ASSUME CollectStale \/ Cleaner
      PROVE TypeOK'
  <2>1. CASE CollectStale
    BY <2>1 DEF CollectStale, Registered
  <2>2. ASSUME NEW k \in Keys, StopStale(k)
        PROVE TypeOK'
    BY <2>2 DEF StopStale, Registered
  <2>3. CASE RemoveStale \/ RemoveStaleDir
    BY <2>3 DEF RemoveStale, RemoveStaleDir
  <2>q. QED
    BY <1>4, <2>1, <2>2, <2>3 DEF Cleaner
<1>5. CASE UNCHANGED vars
  BY <1>5 DEF vars
<1>q. QED
  BY <1>1, <1>2, <1>3, <1>4, <1>5 DEF Next

LEMMA HlsStep ==
  ASSUME TypeOK, HlsInv, [Next]_vars
  PROVE  HlsInv'
<1> USE HlsAssumption DEF TypeOK, HlsInv, MapInv, SupInv, CancelInv, IsRegistered,
                          RivalCancelled, KeyCancelled
<1>1. ASSUME NEW r \in Requests, Join(r)
      PROVE HlsInv'
  BY <1>1 DEF Join, To
<1>2. ASSUME NEW r \in Requests, Miss(r)
      PROVE HlsInv'
  BY <1>2 DEF Miss, To
<1>3. ASSUME NEW r \in Requests, SpawnFfmpeg(r)
      PROVE HlsInv'
  BY <1>3 DEF SpawnFfmpeg, To
<1>4. ASSUME NEW r \in Requests, StartFails(r)
      PROVE HlsInv'
  BY <1>4 DEF StartFails, To
<1>5. ASSUME NEW r \in Requests, Register(r)
      PROVE HlsInv'
  BY <1>5 DEF Register, To
<1>6. ASSUME NEW r \in Requests, Duplicate(r)
      PROVE HlsInv'
  BY <1>6 DEF Duplicate, To
<1>7. ASSUME NEW r \in Requests, HangUp(r)
      PROVE HlsInv'
  BY <1>7 DEF HangUp, To
<1>8. ASSUME NEW r \in Requests, BecomeStale(r)
      PROVE HlsInv'
  BY <1>8 DEF BecomeStale
<1>9. ASSUME NEW r \in Requests, FfmpegExits(r)
      PROVE HlsInv'
  BY <1>9 DEF FfmpegExits, SupTo
<1>10. ASSUME NEW r \in Requests, KillFfmpeg(r)
      PROVE HlsInv'
  BY <1>10 DEF KillFfmpeg, SupTo
<1>11. ASSUME NEW r \in Requests, RemoveDir(r)
      PROVE HlsInv'
  BY <1>11 DEF RemoveDir, SupTo
<1>12. ASSUME NEW r \in Requests, Unregister(r)
      PROVE HlsInv'
  BY <1>12 DEF Unregister, SupTo
<1>13. ASSUME NEW k \in Keys, TouchSession(k)
      PROVE HlsInv'
  BY <1>13 DEF TouchSession, Registered
<1>14. ASSUME NEW k \in Keys, Stop(k)
      PROVE HlsInv'
  BY <1>14 DEF Stop, Registered
<1>15. ASSUME CollectStale
      PROVE HlsInv'
  BY <1>15 DEF CollectStale, Registered
<1>16. ASSUME NEW k \in Keys, StopStale(k)
      PROVE HlsInv'
  BY <1>16 DEF StopStale, Registered
<1>17. ASSUME RemoveStale
      PROVE HlsInv'
  BY <1>17 DEF RemoveStale
<1>18. ASSUME RemoveStaleDir
      PROVE HlsInv'
  BY <1>18 DEF RemoveStaleDir
<1>19. ASSUME UNCHANGED vars
      PROVE HlsInv'
  BY <1>19 DEF vars
<1>q. QED
  BY <1>1, <1>2, <1>3, <1>4, <1>5, <1>6, <1>7, <1>8, <1>9, <1>10, <1>11, <1>12, <1>13, <1>14, <1>15, <1>16, <1>17, <1>18, <1>19
  DEF Next, Handler, Supervisor, Cleaner

\* The state is well typed, and the map, the supervisors and the cleaner
\* agree on who may remove what.
THEOREM TypeCorrect == Spec => [](TypeOK /\ HlsInv)
  BY InitHls, TypeStep, HlsStep, PTL DEF Spec

-----------------------------------------------------------------------------
\* Viewers of a session nobody stopped find its segments.
THEOREM DirCorrect == Spec => []LiveEntryHasDir
<1>1. TypeOK /\ HlsInv /\ LiveEntryHasDir /\ [Next]_vars => LiveEntryHasDir'
  <2> SUFFICES ASSUME TypeOK, HlsInv, LiveEntryHasDir, [Next]_vars
               PROVE  LiveEntryHasDir'
    OBVIOUS
  <2> USE HlsAssumption DEF TypeOK, HlsInv, MapInv, SupInv, LiveEntryHasDir, IsRegistered
  <2>1. ASSUME NEW r \in Requests, Handler(r) \/ HangUp(r) \/ BecomeStale(r)
        PROVE LiveEntryHasDir'
    BY <2>1 DEF Handler, Join, Miss, SpawnFfmpeg, StartFails, Register, Duplicate, HangUp,
                BecomeStale, To
  <2>2. ASSUME NEW r \in Requests, Supervisor(r)
        PROVE LiveEntryHasDir'
    BY <2>2 DEF Supervisor, FfmpegExits, KillFfmpeg, RemoveDir, Unregister, SupTo
  <2>3. ASSUME NEW k \in Keys, TouchSession(k) \/ Stop(k)
        PROVE LiveEntryHasDir'
    BY <2>3 DEF TouchSession, Stop, Registered
  <2>4. CASE CollectStale
    BY <2>4 DEF CollectStale
  <2>5. ASSUME NEW k \in Keys, StopStale(k)
        PROVE LiveEntryHasDir'
    BY <2>5 DEF StopStale
  <2>6. CASE RemoveStale
    BY <2>6 DEF RemoveStale
  <2>7. CASE RemoveStaleDir
    BY <2>7 DEF RemoveStaleDir
  <2>q. QED
    BY <2>1, <2>2, <2>3, <2>4, <2>5, <2>6, <2>7 DEF Next, Cleaner, vars
<1>2. Init => LiveEntryHasDir
  BY HlsAssumption DEF Init, LiveEntryHasDir, IsRegistered
<1>q. QED
  BY <1>1, <1>2, TypeCorrect, PTL DEF Spec

\* FFmpeg runs without an entry only in the races named in the property.
THEOREM OrphanCorrect == Spec => []OrphanOnlyByRace
<1>1. TypeOK /\ HlsInv => OrphanOnlyByRace
  <2> SUFFICES ASSUME TypeOK, HlsInv, NEW r \in Requests,
                      ffmpeg[r] = "running", r \notin cancelled, ~IsRegistered(r)
               PROVE  start[r] \in {"spawned", "left"} \/ RivalCancelled(r)
    BY DEF OrphanOnlyByRace
  <2>1. start[r] \notin {"idle", "joined", "resolving", "failed", "duplicate"}
    BY DEF HlsInv, SupInv
  <2>2. start[r] = "registered" => RivalCancelled(r)
    BY DEF HlsInv, CancelInv
  <2>q. QED
    BY <2>1, <2>2 DEF TypeOK, StartStates
<1>q. QED
  BY <1>1, TypeCorrect, PTL

\* The directories that outlive their session are those of the races named
\* in the property.
THEOREM DiskCorrect == Spec => []NoDirLeak
<1>1. TypeOK /\ HlsInv /\ NoDirLeak /\ [Next]_vars => NoDirLeak'
  <2> SUFFICES ASSUME TypeOK, HlsInv, NoDirLeak, [Next]_vars
               PROVE  NoDirLeak'
    OBVIOUS
  <2> USE HlsAssumption DEF TypeOK, HlsInv, MapInv, SupInv, CancelInv, NoDirLeak,
                            IsRegistered, RivalCancelled, KeyCancelled
  <2>1. ASSUME NEW r \in Requests, Handler(r) \/ HangUp(r) \/ BecomeStale(r)
        PROVE NoDirLeak'
    <3>1. CASE Join(r) \/ Miss(r) \/ SpawnFfmpeg(r) \/ StartFails(r) \/ BecomeStale(r)
      BY <3>1 DEF Join, Miss, SpawnFfmpeg, StartFails, BecomeStale, To
    <3>2. CASE Register(r)
      BY <3>2 DEF Register, To
    <3>3. CASE Duplicate(r)
      BY <3>3 DEF Duplicate, To, FfmpegStates
    <3>4. CASE HangUp(r)
      BY <3>4 DEF HangUp, To
    <3>q. QED
      BY <2>1, <3>1, <3>2, <3>3, <3>4 DEF Handler
  <2>2. ASSUME NEW r \in Requests, Supervisor(r)
        PROVE NoDirLeak'
    BY <2>2 DEF Supervisor, FfmpegExits, KillFfmpeg, RemoveDir, Unregister, SupTo
  <2>3. ASSUME NEW k \in Keys, TouchSession(k) \/ Stop(k)
        PROVE NoDirLeak'
    BY <2>3 DEF TouchSession, Stop, Registered
  <2>4. CASE CollectStale
    BY <2>4 DEF CollectStale
  <2>5. ASSUME NEW k \in Keys, StopStale(k)
        PROVE NoDirLeak'
    BY <2>5 DEF StopStale
  <2>6. CASE RemoveStale
    BY <2>6 DEF RemoveStale
  <2>7. CASE RemoveStaleDir
    BY <2>7 DEF RemoveStaleDir
  <2>q. QED
    BY <2>1, <2>2, <2>3, <2>4, <2>5, <2>6, <2>7 DEF Next, Cleaner, vars
<1>2. Init => NoDirLeak
  BY DEF Init, NoDirLeak
<1>q. QED
  BY <1>1, <1>2, TypeCorrect, PTL DEF Spec

=============================================================================
