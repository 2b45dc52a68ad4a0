------------------------ MODULE ConvertQueue_proofs ------------------------
(***************************************************************************)
(* Proofs about the local conversion queue, for any set of requests, any   *)
(* assignment of temporary file names and any set of panicking elements.   *)
(***************************************************************************)
EXTENDS ConvertQueue, TLAPS

\* convert_element is in progress exactly while it has an element.
PhaseInv == \A w \in Requests : phase[w] = "none" <=> current[w] = NoRequest

\* The lock: only its holder drains, and only a draining worker converts.
LockInv ==
  /\ \A w \in Requests : worker[w] = "draining" <=> holder = w
  /\ \A w \in Requests : current[w] # NoRequest => holder = w

\* The flag: TRUE while a worker drains; left TRUE only by a panic.
FlagInv ==
  /\ holder # NoRequest => converting
  /\ converting /\ holder = NoRequest => \E r \in Requests : outcome[r] = "panicked"

\* Each request is, at most once, in one place: not accepted yet, queued,
\* being converted, or ended.
OnceInv ==
  /\ \A i \in DOMAIN queue : call[queue[i]] = "accepted" /\ outcome[queue[i]] = "none"
  /\ \A i, j \in DOMAIN queue : queue[i] = queue[j] => i = j
  /\ \A w \in Requests : current[w] # NoRequest =>
       /\ call[current[w]] = "accepted"
       /\ outcome[current[w]] = "none"
       /\ \A i \in DOMAIN queue : queue[i] # current[w]
  /\ \A r \in Requests : outcome[r] # "none" => call[r] = "accepted"

-----------------------------------------------------------------------------
LEMMA InitType == Init => TypeOK /\ PhaseInv
<1> SUFFICES ASSUME Init PROVE TypeOK /\ PhaseInv
  OBVIOUS
<1>1. queue \in Seq(Requests)
  BY DEF Init
<1>2. /\ converting \in BOOLEAN
      /\ holder \in Requests \cup {NoRequest}
      /\ current \in [Requests -> Requests \cup {NoRequest}]
      /\ temp \in SUBSET Names
  BY DEF Init
<1>3. /\ call \in [Requests -> CallStates]
      /\ worker \in [Requests -> WorkerStates]
      /\ phase \in [Requests -> Phases]
      /\ outcome \in [Requests -> Outcomes]
  BY DEF Init, CallStates, WorkerStates, Phases, Outcomes
<1>4. PhaseInv
  BY DEF Init, PhaseInv
<1>q. QED
  BY <1>1, <1>2, <1>3, <1>4 DEF TypeOK

\* Every action keeps the types; the phase tells when current[w] is a request.
LEMMA NextType == TypeOK /\ PhaseInv /\ [Next]_vars => TypeOK' /\ PhaseInv'
<1> SUFFICES ASSUME TypeOK, PhaseInv, [Next]_vars PROVE TypeOK' /\ PhaseInv'
  OBVIOUS
<1> USE RequestsAssumption
    DEF TypeOK, PhaseInv, CallStates, WorkerStates, Phases, Outcomes
<1>1. ASSUME NEW r \in Requests, Submit(r) \/ Reject(r) \/ Disconnect(r)
      PROVE TypeOK' /\ PhaseInv'
  BY <1>1 DEF Submit, Reject, Disconnect
<1>2. ASSUME NEW r \in Requests, Enqueue(r) PROVE TypeOK' /\ PhaseInv'
  BY <1>2 DEF Enqueue
<1>3. ASSUME NEW w \in Requests, StartWorker(w) \/ FinishWorker(w)
      PROVE TypeOK' /\ PhaseInv'
  <2>1. CASE StartWorker(w)
    BY <2>1 DEF StartWorker
  <2>2. CASE FinishWorker(w)
    BY <2>2 DEF FinishWorker
  <2>q. QED
    BY <1>3, <2>1, <2>2
<1>4. ASSUME NEW w \in Requests, PopElement(w) PROVE TypeOK' /\ PhaseInv'
  <2>1. Head(queue) \in Requests /\ Tail(queue) \in Seq(Requests)
    BY <1>4 DEF PopElement
  <2>q. QED
    BY <1>4, <2>1 DEF PopElement
<1>5. ASSUME NEW w \in Requests, ConvertElement(w) PROVE TypeOK' /\ PhaseInv'
  <2>0. phase[w] # "none" /\ current[w] \in Requests /\ DestOf[current[w]] \in Names
    BY <1>5 DEF ConvertElement, Prepare, PrepareFails, PreparePanics, Transcode,
                TranscodeFails, Import, ImportFails, CopyRelations
  <2>1. CASE Prepare(w)
    BY <2>0, <2>1 DEF Prepare, Advance
  <2>2. CASE PrepareFails(w)
    BY <2>0, <2>2 DEF PrepareFails, EndElement
  <2>3. CASE PreparePanics(w)
    BY <2>0, <2>3 DEF PreparePanics, EndElement
  <2>4. CASE Transcode(w)
    BY <2>0, <2>4 DEF Transcode, Advance
  <2>5. CASE TranscodeFails(w)
    BY <2>0, <2>5 DEF TranscodeFails, EndElement
  <2>6. ASSUME NEW stored \in BOOLEAN, Import(w, stored)
        PROVE TypeOK' /\ PhaseInv'
    <3>1. CASE stored /\ DestOf[current[w]] \in temp
      BY <2>0, <2>6, <3>1 DEF Import, Advance
    <3>2. CASE ~(stored /\ DestOf[current[w]] \in temp)
      BY <2>0, <2>6, <3>2 DEF Import, EndElement
    <3>q. QED
      BY <3>1, <3>2
  <2>7. CASE ImportFails(w)
    BY <2>0, <2>7 DEF ImportFails, EndElement
  <2>8. CASE \E ok \in BOOLEAN : CopyRelations(w, ok)
    BY <2>0, <2>8 DEF CopyRelations, EndElement
  <2>q. QED
    BY <1>5, <2>1, <2>2, <2>3, <2>4, <2>5, <2>6, <2>7, <2>8 DEF ConvertElement
<1>6. CASE UNCHANGED vars
  BY <1>6 DEF vars
<1>q. QED
  BY <1>1, <1>2, <1>3, <1>4, <1>5, <1>6 DEF Next, Worker

\* The state of the queue, its lock and its workers keeps its type.
THEOREM TypeCorrect == Spec => [](TypeOK /\ PhaseInv)
<1>1. QED
  BY InitType, NextType, PTL DEF Spec

-----------------------------------------------------------------------------
(***************************************************************************)
(* What one step of convert_element may do to the rest of the system: it   *)
(* keeps the lock, unless it is the panic.                                 *)
(***************************************************************************)
LEMMA ElementStep ==
  ASSUME TypeOK, PhaseInv, NEW w \in Requests, ConvertElement(w)
  PROVE  /\ current[w] \in Requests /\ phase[w] # "none"
         /\ UNCHANGED <<queue, call, converting>>
         /\ \A v \in Requests \ {w} : current'[v] = current[v] /\ phase'[v] = phase[v]
         /\ \/ UNCHANGED <<holder, worker>>
            \/ /\ holder' = NoRequest
               /\ worker' = [worker EXCEPT ![w] = "dead"]
               /\ outcome' = [outcome EXCEPT ![current[w]] = "panicked"]
               /\ current' = [current EXCEPT ![w] = NoRequest]
         /\ \/ current'[w] = current[w] /\ outcome' = outcome
            \/ /\ current'[w] = NoRequest
               /\ \E o \in Outcomes \ {"none"} :
                    outcome' = [outcome EXCEPT ![current[w]] = o]
<1> USE RequestsAssumption DEF TypeOK, PhaseInv, Outcomes, Phases
<1>1. current[w] \in Requests /\ phase[w] # "none"
  BY DEF ConvertElement, Prepare, PrepareFails, PreparePanics, Transcode,
         TranscodeFails, Import, ImportFails, CopyRelations
<1>2. CASE Prepare(w) \/ Transcode(w)
  BY <1>1, <1>2 DEF Prepare, Transcode, Advance
<1>3. CASE PrepareFails(w) \/ TranscodeFails(w) \/ ImportFails(w)
  BY <1>1, <1>3 DEF PrepareFails, TranscodeFails, ImportFails, EndElement
<1>4. CASE PreparePanics(w)
  BY <1>1, <1>4 DEF PreparePanics, EndElement
<1>5. ASSUME NEW stored \in BOOLEAN, Import(w, stored)
      PROVE Advance(w, "relations") \/ (EndElement(w, "failed") /\ UNCHANGED <<holder, worker>>)
  BY <1>5 DEF Import
<1>6. CASE \E stored \in BOOLEAN : Import(w, stored)
  <2>1. CASE Advance(w, "relations")
    BY <1>1, <2>1 DEF Advance
  <2>2. CASE EndElement(w, "failed") /\ UNCHANGED <<holder, worker>>
    BY <1>1, <2>2 DEF EndElement
  <2>q. QED
    BY <1>5, <1>6, <2>1, <2>2
<1>7. ASSUME NEW ok \in BOOLEAN, CopyRelations(w, ok)
      PROVE /\ EndElement(w, "converted") \/ EndElement(w, "failed")
            /\ UNCHANGED <<holder, worker>>
  BY <1>7 DEF CopyRelations
<1>8. CASE \E ok \in BOOLEAN : CopyRelations(w, ok)
  BY <1>1, <1>7, <1>8 DEF EndElement
<1>q. QED
  BY <1>2, <1>3, <1>4, <1>6, <1>8 DEF ConvertElement

LEMMA LockStep ==
  TypeOK /\ PhaseInv /\ LockInv /\ FlagInv /\ [Next]_vars => LockInv' /\ FlagInv'
<1> SUFFICES ASSUME TypeOK, PhaseInv, LockInv, FlagInv, [Next]_vars
             PROVE  LockInv' /\ FlagInv'
  OBVIOUS
<1> USE RequestsAssumption DEF TypeOK, LockInv, FlagInv
<1>1. ASSUME NEW r \in Requests, Submit(r) \/ Reject(r) \/ Disconnect(r)
      PROVE LockInv' /\ FlagInv'
  BY <1>1 DEF Submit, Reject, Disconnect
<1>2. ASSUME NEW r \in Requests, Enqueue(r) PROVE LockInv' /\ FlagInv'
  BY <1>2 DEF Enqueue
<1>3. ASSUME NEW w \in Requests, StartWorker(w) PROVE LockInv' /\ FlagInv'
  BY <1>3 DEF StartWorker
<1>4. ASSUME NEW w \in Requests, FinishWorker(w) PROVE LockInv' /\ FlagInv'
  BY <1>4 DEF FinishWorker
<1>5. ASSUME NEW w \in Requests, PopElement(w) PROVE LockInv' /\ FlagInv'
  BY <1>5 DEF PopElement
<1>6. ASSUME NEW w \in Requests, ConvertElement(w) PROVE LockInv' /\ FlagInv'
  <2>1. holder = w /\ worker[w] = "draining"
    BY <1>6, ElementStep
  <2>2. CASE UNCHANGED <<holder, worker>>
    <3>1. LockInv'
      BY <1>6, <2>1, <2>2, ElementStep
    <3>2. FlagInv'
      BY <1>6, <2>1, <2>2, ElementStep
    <3>q. QED
      BY <3>1, <3>2
  <2>3. CASE ~UNCHANGED <<holder, worker>>
    <3>1. /\ holder' = NoRequest
          /\ worker' = [worker EXCEPT ![w] = "dead"]
          /\ current' = [current EXCEPT ![w] = NoRequest]
          /\ outcome'[current[w]] = "panicked"
          /\ current[w] \in Requests
      BY <1>6, <2>3, ElementStep
    <3>2. LockInv'
      BY <2>1, <3>1
    <3>3. FlagInv'
      BY <3>1
    <3>q. QED
      BY <3>2, <3>3
  <2>q. QED
    BY <2>2, <2>3
<1>7. CASE UNCHANGED vars
  BY <1>7 DEF vars
<1>q. QED
  BY <1>1, <1>2, <1>3, <1>4, <1>5, <1>6, <1>7 DEF Next, Worker

LEMMA LockCorrect == Spec => [](TypeOK /\ PhaseInv /\ LockInv /\ FlagInv)
<1>1. Init => LockInv /\ FlagInv
  BY RequestsAssumption DEF Init, LockInv, FlagInv
<1>q. QED
  BY <1>1, InitType, NextType, LockStep, PTL DEF Spec

-----------------------------------------------------------------------------
LEMMA WakeupStep ==
  ASSUME TypeOK, PhaseInv, LockInv, FlagInv, NoLostWakeup, [Next]_vars
  PROVE  NoLostWakeup'
<1> USE RequestsAssumption DEF TypeOK, NoLostWakeup, WorkerAlive, StalledByPanic
<1>1. ASSUME NEW r \in Requests, Submit(r) \/ Reject(r) \/ Disconnect(r)
      PROVE NoLostWakeup'
  BY <1>1 DEF Submit, Reject, Disconnect
<1>2. ASSUME NEW r \in Requests, Enqueue(r) PROVE NoLostWakeup'
  <2>1. CASE converting
    BY <1>2, <2>1 DEF Enqueue, FlagInv
  <2>2. CASE ~converting
    BY <1>2, <2>2 DEF Enqueue
  <2>q. QED
    BY <2>1, <2>2
<1>3. ASSUME NEW w \in Requests, StartWorker(w) PROVE NoLostWakeup'
  BY <1>3 DEF StartWorker
<1>4. ASSUME NEW w \in Requests, FinishWorker(w) PROVE NoLostWakeup'
  BY <1>4 DEF FinishWorker
<1>5. ASSUME NEW w \in Requests, PopElement(w) PROVE NoLostWakeup'
  BY <1>5 DEF PopElement
<1>6. ASSUME NEW w \in Requests, ConvertElement(w) PROVE NoLostWakeup'
  <2>1. /\ worker[w] = "draining" /\ converting /\ converting'
        /\ current[w] \in Requests
    BY <1>6, ElementStep DEF LockInv, FlagInv
  <2>2. CASE UNCHANGED <<holder, worker>>
    BY <2>1, <2>2
  <2>3. CASE ~UNCHANGED <<holder, worker>>
    <3>1. outcome'[current[w]] = "panicked"
      BY <1>6, <2>3, ElementStep
    <3>q. QED
      BY <2>1, <3>1
  <2>q. QED
    BY <2>2, <2>3
<1>7. CASE UNCHANGED vars
  BY <1>7 DEF vars
<1>q. QED
  BY <1>1, <1>2, <1>3, <1>4, <1>5, <1>6, <1>7 DEF Next, Worker

\* A queued element always has a worker that will take it, unless a worker
\* panicked: for any number of callers, convert()'s flag loses no wake-up.
THEOREM WakeupCorrect == Spec => []NoLostWakeup
<1>1. Init => NoLostWakeup
  BY DEF Init, NoLostWakeup
<1>q. QED
  BY <1>1, WakeupStep, LockCorrect, PTL DEF Spec

-----------------------------------------------------------------------------
LEMMA OnceStep ==
  ASSUME TypeOK, PhaseInv, LockInv, OnceInv, [Next]_vars
  PROVE  OnceInv'
<1> USE RequestsAssumption DEF TypeOK, OnceInv
<1>1. ASSUME NEW r \in Requests, Submit(r) \/ Reject(r) \/ Disconnect(r)
      PROVE OnceInv'
  BY <1>1 DEF Submit, Reject, Disconnect
<1>2. ASSUME NEW r \in Requests, Enqueue(r) PROVE OnceInv'
  <2>1. /\ queue' = Append(queue, r) /\ call' = [call EXCEPT ![r] = "accepted"]
        /\ call[r] = "waiting" /\ UNCHANGED <<current, outcome>>
    BY <1>2 DEF Enqueue
  <2>2. /\ outcome[r] = "none"
        /\ \A i \in DOMAIN queue : queue[i] # r
        /\ \A w \in Requests : current[w] # r
    BY <2>1
  <2>3. \A i \in DOMAIN queue' :
          \/ i \in DOMAIN queue /\ queue'[i] = queue[i]
          \/ i = Len(queue) + 1 /\ queue'[i] = r
    BY <2>1
  <2>q. QED
    BY <2>1, <2>2, <2>3
<1>3. ASSUME NEW w \in Requests, StartWorker(w) \/ FinishWorker(w) PROVE OnceInv'
  BY <1>3 DEF StartWorker, FinishWorker
<1>4. ASSUME NEW w \in Requests, PopElement(w) PROVE OnceInv'
  <2>1. /\ queue # <<>> /\ queue' = Tail(queue) /\ UNCHANGED <<call, outcome>>
        /\ current' = [current EXCEPT ![w] = queue[1]]
        /\ queue[1] \in Requests /\ 1 \in DOMAIN queue
    BY <1>4 DEF PopElement
  <2>2. \A i \in DOMAIN queue' :
          i + 1 \in DOMAIN queue /\ queue'[i] = queue[i + 1] /\ i + 1 # 1
    BY <2>1
  <2>q. QED
    BY <2>1, <2>2
<1>5. ASSUME NEW w \in Requests, ConvertElement(w) PROVE OnceInv'
  <2>1. /\ current[w] \in Requests /\ UNCHANGED <<queue, call>>
        /\ \A v \in Requests \ {w} : current[v] = NoRequest /\ current'[v] = NoRequest
    BY <1>5, ElementStep DEF LockInv
  <2>2. CASE current'[w] = current[w] /\ outcome' = outcome
    BY <2>1, <2>2
  <2>3. ASSUME current'[w] = NoRequest, NEW o \in Outcomes \ {"none"},
               outcome' = [outcome EXCEPT ![current[w]] = o]
        PROVE OnceInv'
    BY <2>1, <2>3
  <2>q. QED
    BY <1>5, <2>2, <2>3, ElementStep
<1>6. CASE UNCHANGED vars
  BY <1>6 DEF vars
<1>q. QED
  BY <1>1, <1>2, <1>3, <1>4, <1>5, <1>6 DEF Next, Worker

LEMMA OnceCorrect == Spec => []OnceInv
<1>1. Init => OnceInv
  BY DEF Init, OnceInv
<1>q. QED
  BY <1>1, OnceStep, LockCorrect, PTL DEF Spec

-----------------------------------------------------------------------------
(***************************************************************************)
(* The temporary files.  A worker imports only what it wrote itself, since *)
(* the lock keeps every other worker out between the two steps.            *)
(***************************************************************************)
LEMMA TempStep ==
  ASSUME TypeOK, PhaseInv, LockInv, OnceInv, OutputStillThere, StrayTempOnlyAfterFailure,
         [Next]_vars
  PROVE  OutputStillThere' /\ StrayTempOnlyAfterFailure'
<1> USE RequestsAssumption
    DEF TypeOK, OutputStillThere, StrayTempOnlyAfterFailure, Phases, Outcomes
<1>1. ASSUME NEW r \in Requests,
             Submit(r) \/ Reject(r) \/ Disconnect(r) \/ Enqueue(r)
                \/ StartWorker(r) \/ FinishWorker(r)
      PROVE OutputStillThere' /\ StrayTempOnlyAfterFailure'
  BY <1>1 DEF Submit, Reject, Disconnect, Enqueue, StartWorker, FinishWorker
<1>2. ASSUME NEW w \in Requests, PopElement(w)
      PROVE OutputStillThere' /\ StrayTempOnlyAfterFailure'
  BY <1>2 DEF PopElement, PhaseInv
<1>3. ASSUME NEW w \in Requests, ConvertElement(w)
      PROVE OutputStillThere' /\ StrayTempOnlyAfterFailure'
  <2>1. /\ current[w] \in Requests /\ phase[w] # "none"
        /\ outcome[current[w]] = "none"
        /\ \A v \in Requests \ {w} : phase[v] = "none"
    BY <1>3, ElementStep DEF LockInv, PhaseInv, OnceInv
  <2>2. CASE Prepare(w) \/ Transcode(w)
    BY <2>1, <2>2 DEF Prepare, Transcode, Advance
  <2>3. CASE PrepareFails(w) \/ TranscodeFails(w) \/ ImportFails(w)
    BY <2>1, <2>3 DEF PrepareFails, TranscodeFails, ImportFails, EndElement
  <2>4. CASE PreparePanics(w)
    BY <2>1, <2>4 DEF PreparePanics, EndElement
  <2>5. ASSUME NEW stored \in BOOLEAN, Import(w, stored)
        PROVE OutputStillThere' /\ StrayTempOnlyAfterFailure'
    <3>1. CASE stored /\ DestOf[current[w]] \in temp
      BY <2>1, <2>5, <3>1 DEF Import, Advance
    <3>2. CASE ~(stored /\ DestOf[current[w]] \in temp)
      BY <2>1, <2>5, <3>2 DEF Import, EndElement
    <3>q. QED
      BY <3>1, <3>2
  <2>6. ASSUME NEW ok \in BOOLEAN, CopyRelations(w, ok)
        PROVE OutputStillThere' /\ StrayTempOnlyAfterFailure'
    <3>1. DestOf[current[w]] \in Names /\ outcome[current[w]] \in Outcomes
      BY <2>1
    <3>2. OutputStillThere'
      BY <2>1, <2>6 DEF CopyRelations, EndElement
    <3>3. StrayTempOnlyAfterFailure'
      BY <2>1, <2>6, <3>1 DEF CopyRelations, EndElement
    <3>q. QED
      BY <3>2, <3>3
  <2>q. QED
    BY <1>3, <2>2, <2>3, <2>4, <2>5, <2>6 DEF ConvertElement
<1>4. CASE UNCHANGED vars
  BY <1>4 DEF vars
<1>q. QED
  BY <1>1, <1>2, <1>3, <1>4 DEF Next, Worker

\* FFmpeg's output is still there when it is imported, and a temporary file
\* that nobody is about to import was left by a conversion that failed.
THEOREM TempCorrect == Spec => [](OutputStillThere /\ StrayTempOnlyAfterFailure)
<1>1. Init => OutputStillThere /\ StrayTempOnlyAfterFailure
  BY DEF Init, OutputStillThere, StrayTempOnlyAfterFailure
<1>q. QED
  BY <1>1, TempStep, LockCorrect, OnceCorrect, PTL DEF Spec

-----------------------------------------------------------------------------
(***************************************************************************)
(* The refinement: the queue with its lock, flag and workers is a serial   *)
(* first-come first-served service.                                        *)
(***************************************************************************)
Serving == IF holder = NoRequest THEN NoRequest ELSE current[holder]
Ended   == {r \in Requests : outcome[r] # "none"}

LEMMA ServiceStep ==
  ASSUME TypeOK, PhaseInv, LockInv, OnceInv, [Next]_vars
  PROVE  \/ \E r \in Requests : Service!Accept(r)
         \/ Service!Serve
         \/ Service!End
         \/ UNCHANGED <<queue, Serving, Ended>>
<1> USE RequestsAssumption DEF TypeOK, Serving, Ended
<1>1. ASSUME NEW r \in Requests, Submit(r) \/ Reject(r) \/ Disconnect(r)
      PROVE UNCHANGED <<queue, Serving, Ended>>
  BY <1>1 DEF Submit, Reject, Disconnect
<1>2. ASSUME NEW r \in Requests, Enqueue(r) PROVE Service!Accept(r)
  <2>1. /\ queue' = Append(queue, r) /\ UNCHANGED <<Serving, Ended>>
        /\ call[r] = "waiting" /\ holder = NoRequest
    BY <1>2 DEF Enqueue
  <2>2. /\ r \notin Ended /\ r # Serving
        /\ \A i \in DOMAIN queue : queue[i] # r
    BY <2>1 DEF OnceInv
  <2>q. QED
    BY <2>1, <2>2 DEF Service!Accept, Service!Waiting
<1>3. ASSUME NEW w \in Requests, StartWorker(w) \/ FinishWorker(w)
      PROVE UNCHANGED <<queue, Serving, Ended>>
  <2>1. current[w] = NoRequest /\ UNCHANGED <<queue, current, outcome>>
    BY <1>3 DEF StartWorker, FinishWorker, LockInv
  <2>2. holder \in {NoRequest, w} /\ holder' \in {NoRequest, w}
    BY <1>3 DEF StartWorker, FinishWorker, LockInv
  <2>q. QED
    BY <2>1, <2>2
<1>4. ASSUME NEW w \in Requests, PopElement(w) PROVE Service!Serve
  BY <1>4 DEF PopElement, LockInv, Service!Serve
<1>5. ASSUME NEW w \in Requests, ConvertElement(w)
      PROVE Service!End \/ UNCHANGED <<queue, Serving, Ended>>
  <2>1. /\ holder = w /\ current[w] \in Requests /\ UNCHANGED queue
        /\ Serving = current[w]
    BY <1>5, ElementStep DEF LockInv
  <2>2. CASE current'[w] = current[w] /\ outcome' = outcome
    <3>1. UNCHANGED holder
      BY <1>5, <2>1, <2>2, ElementStep
    <3>q. QED
      BY <2>1, <2>2, <3>1
  <2>3. ASSUME current'[w] = NoRequest, NEW o \in Outcomes \ {"none"},
               outcome' = [outcome EXCEPT ![current[w]] = o]
        PROVE Service!End
    <3>1. Ended' = Ended \cup {Serving}
      BY <2>1, <2>3
    <3>2. holder' \in {NoRequest, w}
      BY <1>5, <2>1, ElementStep
    <3>3. Serving' = NoRequest
      BY <2>3, <3>2
    <3>q. QED
      BY <2>1, <3>1, <3>3 DEF Service!End
  <2>q. QED
    BY <1>5, <2>2, <2>3, ElementStep
<1>6. CASE UNCHANGED vars
  BY <1>6 DEF vars
<1>q. QED
  BY <1>1, <1>2, <1>3, <1>4, <1>5, <1>6 DEF Next, Worker

\* Accepted conversions are served one at a time, in the order in which they
\* were accepted, each at most once: the queue implements ConvertService.
THEOREM ServiceCorrect == Spec => ImplementsService
<1>1. Init => Service!Init
  BY DEF Init, Service!Init
<1>2. TypeOK /\ PhaseInv /\ LockInv /\ OnceInv /\ [Next]_vars
        => [Service!Next]_<<queue, Serving, Ended>>
  BY ServiceStep DEF Service!Next
<1>q. QED
  BY <1>1, <1>2, LockCorrect, OnceCorrect, PTL
  DEF Spec, ImplementsService, Service!Spec, Serving, Ended

=============================================================================
