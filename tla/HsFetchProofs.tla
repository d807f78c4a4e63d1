---------------------------- MODULE HsFetchProofs ----------------------------
(***************************************************************************)
(* Proofs about the descriptor side of the client (HsFetch): the type      *)
(* invariant, and that at most one descriptor fetch per service is ever in *)
(* flight, for every set of services, intro points, HSDirs and streams.    *)
(***************************************************************************)
EXTENDS HsFetch, TLAPS

-----------------------------------------------------------------------------
(* Lemmas about the operators the actions are built from.                  *)

\* can_client_refetch_desc returns one of its statuses or "ok".
LEMMA PrecheckValues ==
    ASSUME NEW s, NEW di
    PROVE  FetchPrecheck(s, di) \in {"NotAllowed", "MissingInfo", "HaveDesc",
                                     "Pending", "ok"}
BY DEF FetchPrecheck

\* hs_client_refetch_hsdesc returns a fetch status.
LEMMA StatusType ==
    ASSUME NEW s, NEW di
    PROVE  FetchStatus(s, di) \in FetchStatuses
BY PrecheckValues DEF FetchStatus, FetchStatuses

\* The pre-checks let a fetch through only when none is pending.
LEMMA PrecheckOkNoFetch ==
    ASSUME TypeOK, NEW s \in Services, NEW di,
           FetchPrecheck(s, di) = "ok"
    PROVE  fetches[s] = 0
BY DEF FetchPrecheck, TypeOK

\* A launched fetch passed the pre-checks.
LEMMA LaunchedOk ==
    ASSUME NEW s, NEW di, FetchStatus(s, di) = "Launched"
    PROVE  FetchPrecheck(s, di) = "ok"
BY PrecheckValues DEF FetchStatus

\* Recording a failure keeps a failure-cache entry well formed.
LEMMA NotedType ==
    ASSUME NEW st \in IntroState, NEW k \in FailureKinds
    PROVE  Noted(st, k) \in IntroState
<1>1. CASE k = "Generic"
  BY <1>1 DEF Noted, IntroState
<1>2. CASE k = "Timeout"
  BY <1>2 DEF Noted, IntroState
<1>3. CASE k = "Unreachable"
  <2>1. Noted(st, k) = [st EXCEPT !.unreachable = @ + 1]
    BY <1>3 DEF Noted
  <2>. QED
    BY <2>1 DEF IntroState
<1>. QED
  BY <1>1, <1>2, <1>3 DEF FailureKinds

\* The clean failure-cache entry is well formed.
LEMMA NoFailureType == NoFailure \in IntroState
BY ConstAssumption DEF NoFailure, IntroState

\* Closing and re-parking streams keep every stream in a stream state.
LEMMA CloseWaitingType ==
    ASSUME NEW S, NEW di, NEW strm \in [Streams -> StreamStates]
    PROVE  CloseWaiting(S, di, strm) \in [Streams -> StreamStates]
BY DEF CloseWaiting, StreamStates

LEMMA FlagWaitDescType ==
    ASSUME NEW s, NEW strm \in [Streams -> StreamStates]
    PROVE  FlagWaitDesc(s, strm) \in [Streams -> StreamStates]
BY DEF FlagWaitDesc, StreamStates

\* A refetch of the services in S keeps the scheduler's variables typed.
LEMMA RefetchType ==
    ASSUME TypeOK, NEW S \in SUBSET Services, NEW di, NEW p \in Picks(S),
           Refetch(S, di, p)
    PROVE  /\ fetches' \in [Services -> Nat]
           /\ queried' \in [Services -> SUBSET HSDirs]
           /\ lastFetch' \in [Services -> FetchStatuses \cup {"none"}]
<1>1. \A s \in S : p[s] \in HSDirs
  BY DEF Picks
<1>2. \A s \in Services : FetchStatus(s, di) \in FetchStatuses
  BY StatusType
<1>. QED
  BY <1>1, <1>2 DEF Refetch, TypeOK

\* A refetch launches a fetch for s only if none was in flight.
LEMMA RefetchAtMostOne ==
    ASSUME TypeOK, AtMostOneFetch, NEW S \in SUBSET Services, NEW di,
           NEW p, Refetch(S, di, p)
    PROVE  \A s \in Services : fetches'[s] <= 1
<1>. SUFFICES ASSUME NEW s \in Services PROVE fetches'[s] <= 1
  OBVIOUS
<1>1. CASE s \in S /\ FetchStatus(s, di) = "Launched"
  <2>1. fetches[s] = 0
    BY <1>1, LaunchedOk, PrecheckOkNoFetch
  <2>. QED
    BY <1>1, <2>1 DEF Refetch
<1>2. CASE ~(s \in S /\ FetchStatus(s, di) = "Launched")
  BY <1>2 DEF Refetch, AtMostOneFetch
<1>. QED
  BY <1>1, <1>2

-----------------------------------------------------------------------------
(* The type invariant.                                                     *)

LEMMA InitTypeOK == FetchInit => TypeOK
BY NoFailureType DEF FetchInit, TypeOK, StreamStates, FetchStatuses

LEMMA NextTypeOK == TypeOK /\ [Next]_fetchVars => TypeOK'
<1>. SUFFICES ASSUME TypeOK, [Next]_fetchVars PROVE TypeOK'
  OBVIOUS
<1>. USE DEF TypeOK
<1>0. [x \in Services |-> "none"] \in [Services -> FetchStatuses \cup {"none"}]
  OBVIOUS
<1>1. ASSUME NEW st \in Streams, StreamRequest(st) PROVE TypeOK'
  <2>. DEFINE s == StreamSvc[st]
  <2>0. s \in Services
    BY ConstAssumption
  <2>1. CASE HaveUsableDesc(s)
    BY <1>1, <2>1, <1>0 DEF StreamRequest, StreamStates
  <2>2. CASE ~HaveUsableDesc(s)
    <3>1. PICK p \in Picks({s}) :
             /\ Refetch({s}, dirInfo, p)
             /\ streams' = CloseWaiting({s}, dirInfo,
                              [streams EXCEPT ![st] = "renddesc_wait"])
      BY <1>1, <2>2 DEF StreamRequest
    <3>2. [streams EXCEPT ![st] = "renddesc_wait"] \in [Streams -> StreamStates]
      BY DEF StreamStates
    <3>3. streams' \in [Streams -> StreamStates]
      BY <3>1, <3>2, CloseWaitingType
    <3>. QED
      BY <1>1, <2>0, <3>1, <3>3, RefetchType DEF StreamRequest
  <2>. QED
    BY <2>1, <2>2
<1>2. ASSUME NEW s \in Services, NEW D \in SUBSET IPs, DescArrives(s, D)
      PROVE TypeOK'
  BY <1>2, <1>0 DEF DescArrives, StreamStates
<1>3. ASSUME NEW s \in Services, FetchFails(s) PROVE TypeOK'
  BY <1>3, <1>0 DEF FetchFails
<1>4. ASSUME NEW di \in BOOLEAN, DirInfoChanged(di) PROVE TypeOK'
  <2>. DEFINE S == {StreamSvc[st] : st \in {x \in Streams : streams[x] = "renddesc_wait"}}
  <2>1. S \in SUBSET Services
    BY ConstAssumption
  <2>2. PICK p \in Picks(S) : Refetch(S, di, p)
    BY <1>4 DEF DirInfoChanged
  <2>3. streams' \in [Streams -> StreamStates]
    BY <1>4, CloseWaitingType DEF DirInfoChanged
  <2>. QED
    BY <1>4, <2>1, <2>2, <2>3, RefetchType DEF DirInfoChanged
<1>5. CASE Newnym
  BY <1>5, <1>0, NoFailureType DEF Newnym
<1>6. ASSUME NEW s \in Services, NEW ip \in IPs, IntroStateExpire(s, ip)
      PROVE TypeOK'
  BY <1>6, <1>0, NoFailureType DEF IntroStateExpire
<1>7. ASSUME NEW s \in Services, IntroduceWithoutDesc(s) PROVE TypeOK'
  <2>1. PICK p \in Picks({s}) :
           /\ Refetch({s}, dirInfo, p)
           /\ streams' = FlagWaitDesc(s, CloseWaiting({s}, dirInfo, streams))
    BY <1>7 DEF IntroduceWithoutDesc, RefetchAndRepark
  <2>2. streams' \in [Streams -> StreamStates]
    BY <2>1, CloseWaitingType, FlagWaitDescType
  <2>. QED
    BY <1>7, <2>1, <2>2, RefetchType DEF IntroduceWithoutDesc, RefetchAndRepark
<1>8. ASSUME NEW st \in Streams, ConnectionSucceeded(st) PROVE TypeOK'
  BY <1>8, <1>0, ConstAssumption
  DEF ConnectionSucceeded, NoteConnectionSucceeded, StreamStates
<1>9. ASSUME NEW s \in Services, NEW ip \in IPs, NEW k \in FailureKinds,
             NoteFailure(s, ip, k)
      PROVE TypeOK'
  <2>1. Noted(ipfc[s][ip], k) \in IntroState
    BY NotedType
  <2>. QED
    BY <1>9, <1>0, <2>1 DEF NoteFailure, FetchUnchangedButIpfc
<1>10. CASE UNCHANGED fetchVars
  BY <1>10 DEF fetchVars
<1>. QED
  BY <1>1, <1>2, <1>3, <1>4, <1>5, <1>6, <1>7, <1>8, <1>9, <1>10
  DEF Next, FetchNext, CircuitCalls

\* The client's descriptor-side state is always well formed.
THEOREM TypeCorrect == Spec => []TypeOK
BY InitTypeOK, NextTypeOK, PTL DEF Spec

-----------------------------------------------------------------------------
(* At most one fetch per service.                                          *)

\* The inductive invariant: the type invariant and the property itself.
IInv == TypeOK /\ AtMostOneFetch

LEMMA NextAtMostOne == IInv /\ [Next]_fetchVars => AtMostOneFetch'
<1>. SUFFICES ASSUME IInv, [Next]_fetchVars PROVE AtMostOneFetch'
  OBVIOUS
<1>. USE DEF IInv
<1>1. ASSUME NEW st \in Streams, StreamRequest(st) PROVE AtMostOneFetch'
  <2>. DEFINE s == StreamSvc[st]
  <2>0. s \in Services
    BY ConstAssumption
  <2>1. CASE HaveUsableDesc(s)
    BY <1>1, <2>1 DEF StreamRequest, AtMostOneFetch
  <2>2. CASE ~HaveUsableDesc(s)
    <3>1. PICK p \in Picks({s}) : Refetch({s}, dirInfo, p)
      BY <1>1, <2>2 DEF StreamRequest
    <3>. QED
      BY <2>0, <3>1, RefetchAtMostOne DEF AtMostOneFetch
  <2>. QED
    BY <2>1, <2>2
<1>2. ASSUME NEW s \in Services, NEW D \in SUBSET IPs, DescArrives(s, D)
      PROVE AtMostOneFetch'
  BY <1>2 DEF DescArrives, AtMostOneFetch, TypeOK
<1>3. ASSUME NEW s \in Services, FetchFails(s) PROVE AtMostOneFetch'
  BY <1>3 DEF FetchFails, AtMostOneFetch, TypeOK
<1>4. ASSUME NEW di \in BOOLEAN, DirInfoChanged(di) PROVE AtMostOneFetch'
  <2>. DEFINE S == {StreamSvc[st] : st \in {x \in Streams : streams[x] = "renddesc_wait"}}
  <2>1. S \in SUBSET Services
    BY ConstAssumption
  <2>2. PICK p \in Picks(S) : Refetch(S, di, p)
    BY <1>4 DEF DirInfoChanged
  <2>. QED
    BY <2>1, <2>2, RefetchAtMostOne DEF AtMostOneFetch
<1>5. ASSUME NEW s \in Services, IntroduceWithoutDesc(s) PROVE AtMostOneFetch'
  <2>1. PICK p \in Picks({s}) : Refetch({s}, dirInfo, p)
    BY <1>5 DEF IntroduceWithoutDesc, RefetchAndRepark
  <2>. QED
    BY <2>1, RefetchAtMostOne DEF AtMostOneFetch
<1>6. CASE \/ Newnym
           \/ \E s \in Services, ip \in IPs : IntroStateExpire(s, ip)
           \/ \E st \in Streams : ConnectionSucceeded(st)
           \/ \E s \in Services, ip \in IPs, k \in FailureKinds : NoteFailure(s, ip, k)
           \/ UNCHANGED fetchVars
  <2>1. fetches' = fetches
    <3>1. CASE Newnym
      BY <3>1 DEF Newnym
    <3>2. CASE \E s \in Services, ip \in IPs : IntroStateExpire(s, ip)
      BY <3>2 DEF IntroStateExpire
    <3>3. CASE \E st \in Streams : ConnectionSucceeded(st)
      BY <3>3 DEF ConnectionSucceeded, NoteConnectionSucceeded
    <3>4. CASE \E s \in Services, ip \in IPs, k \in FailureKinds : NoteFailure(s, ip, k)
      BY <3>4 DEF NoteFailure, FetchUnchangedButIpfc
    <3>5. CASE UNCHANGED fetchVars
      BY <3>5 DEF fetchVars
    <3>. QED
      BY <1>6, <3>1, <3>2, <3>3, <3>4, <3>5
  <2>. QED
    BY <2>1 DEF AtMostOneFetch
<1>. QED
  BY <1>1, <1>2, <1>3, <1>4, <1>5, <1>6 DEF Next, FetchNext, CircuitCalls

\* I3: at most one descriptor fetch per service is ever in flight, however
\* new requests, directory-info retries and failed INTRODUCE1 attempts
\* interleave (can_client_refetch_desc's pending-request check).
THEOREM AtMostOneFetchHolds == Spec => []AtMostOneFetch
<1>1. FetchInit => IInv
  BY InitTypeOK DEF FetchInit, AtMostOneFetch, IInv
<1>2. IInv /\ [Next]_fetchVars => IInv'
  BY NextTypeOK, NextAtMostOne DEF IInv
<1>3. IInv => AtMostOneFetch
  BY DEF IInv
<1>. QED
  BY <1>1, <1>2, <1>3, PTL DEF Spec

-----------------------------------------------------------------------------
(* Action properties.                                                      *)

\* Closing, re-parking and the refetch never move a stream to circuit_wait.
LEMMA CloseWaitingNoWake ==
    ASSUME NEW S, NEW di, NEW strm, NEW st \in Streams,
           CloseWaiting(S, di, strm)[st] = "circuit_wait"
    PROVE  strm[st] = "circuit_wait"
BY DEF CloseWaiting

LEMMA FlagWaitDescNoWake ==
    ASSUME NEW s, NEW strm, NEW st \in Streams,
           FlagWaitDesc(s, strm)[st] = "circuit_wait"
    PROVE  strm[st] = "circuit_wait"
BY DEF FlagWaitDesc

\* The step-wise form of WokenOnlyWithUsableDesc.
Woken(st) == streams[st] # "circuit_wait" /\ streams'[st] = "circuit_wait"

LEMMA NextWoken ==
    ASSUME TypeOK, [Next]_fetchVars, NEW st \in Streams, Woken(st)
    PROVE  (HaveUsableDesc(StreamSvc[st]))'
<1>. DEFINE s0 == StreamSvc[st]
<1>0. s0 \in Services
  BY ConstAssumption
<1>1. ASSUME NEW x \in Streams, StreamRequest(x) PROVE HaveUsableDesc(s0)'
  <2>1. CASE HaveUsableDesc(StreamSvc[x])
    <3>1. x = st
      BY <1>1, <2>1 DEF StreamRequest, Woken, TypeOK
    <3>. QED
      BY <1>1, <2>1, <3>1 DEF StreamRequest, HaveUsableDesc, Usable, UsableIn
  <2>3. CASE ~HaveUsableDesc(StreamSvc[x])
    <3>1. streams' = CloseWaiting({StreamSvc[x]}, dirInfo,
                        [streams EXCEPT ![x] = "renddesc_wait"])
      BY <1>1, <2>3 DEF StreamRequest
    <3>2. [streams EXCEPT ![x] = "renddesc_wait"][st] = "circuit_wait"
      BY <3>1 DEF Woken, CloseWaiting
    <3>. QED
      BY <3>2 DEF Woken, TypeOK
  <2>. QED
    BY <2>1, <2>3
<1>2. ASSUME NEW s \in Services, NEW D \in SUBSET IPs, DescArrives(s, D)
      PROVE HaveUsableDesc(s0)'
  <2>1. s0 = s /\ \E ip \in D : Usable(s, ip)
    BY <1>2 DEF DescArrives, Woken
  <2>. QED
    BY <1>2, <2>1 DEF DescArrives, HaveUsableDesc, Usable, UsableIn, TypeOK
<1>3. ASSUME NEW di \in BOOLEAN, DirInfoChanged(di) PROVE HaveUsableDesc(s0)'
  BY <1>3, CloseWaitingNoWake DEF DirInfoChanged, Woken
<1>4. ASSUME NEW s \in Services, IntroduceWithoutDesc(s)
      PROVE HaveUsableDesc(s0)'
  BY <1>4, CloseWaitingNoWake, FlagWaitDescNoWake
  DEF IntroduceWithoutDesc, RefetchAndRepark, Woken
<1>5. ASSUME NEW x \in Streams, ConnectionSucceeded(x) PROVE HaveUsableDesc(s0)'
  BY <1>5 DEF ConnectionSucceeded, NoteConnectionSucceeded, Woken, TypeOK
<1>6. CASE \/ \E s \in Services : FetchFails(s)
           \/ Newnym
           \/ \E s \in Services, ip \in IPs : IntroStateExpire(s, ip)
           \/ \E s \in Services, ip \in IPs, k \in FailureKinds : NoteFailure(s, ip, k)
           \/ UNCHANGED fetchVars
  <2>1. streams' = streams
    BY <1>6 DEF FetchFails, Newnym, IntroStateExpire, NoteFailure,
                FetchUnchangedButIpfc, fetchVars
  <2>. QED
    BY <2>1 DEF Woken
<1>. QED
  BY <1>1, <1>2, <1>3, <1>4, <1>5, <1>6 DEF Next, FetchNext, CircuitCalls

\* I2 (hs_client_desc_has_arrived and the SOCKS request path): a stream is
\* put to wait for circuits only when its service has a cached descriptor
\* with a usable intro point, however requests, arrivals, retries, NEWNYM
\* and the circuit layer interleave.
THEOREM WokenOnlyWithUsableDescHolds == Spec => WokenOnlyWithUsableDesc
<1>1. TypeOK /\ [Next]_fetchVars =>
        [\A st \in Streams :
           (streams[st] # "circuit_wait" /\ streams'[st] = "circuit_wait")
              => HaveUsableDesc(StreamSvc[st])']_fetchVars
  BY NextWoken DEF Woken
<1>. QED
  BY <1>1, TypeCorrect, PTL DEF Spec, WokenOnlyWithUsableDesc

\* Recording a failure only adds to an entry.
LEMMA NotedAccumulates ==
    ASSUME NEW st \in IntroState, NEW k \in FailureKinds
    PROVE  Accumulates(st, Noted(st, k))
<1>1. CASE k = "Generic"
  BY <1>1 DEF Noted, Accumulates, IntroState
<1>2. CASE k = "Timeout"
  BY <1>2 DEF Noted, Accumulates, IntroState
<1>3. CASE k = "Unreachable"
  BY <1>3 DEF Noted, Accumulates, IntroState
<1>. QED
  BY <1>1, <1>2, <1>3 DEF FailureKinds

LEMMA AccumulatesRefl ==
    ASSUME NEW st \in IntroState
    PROVE  Accumulates(st, st)
BY DEF Accumulates, IntroState

\* Noting a failure of one entry keeps every entry accumulating.
LEMMA NotedStep ==
    ASSUME TypeOK, NEW s2 \in Services, NEW ip2 \in IPs, NEW k \in FailureKinds,
           ipfc' = [ipfc EXCEPT ![s2][ip2] = Noted(@, k)],
           NEW s \in Services, NEW ip \in IPs
    PROVE  Accumulates(ipfc[s][ip], ipfc'[s][ip])
<1>1. ipfc[s][ip] \in IntroState
  BY DEF TypeOK
<1>2. CASE <<s2, ip2>> = <<s, ip>>
  <2>1. ipfc'[s][ip] = Noted(ipfc[s][ip], k)
    BY <1>2 DEF TypeOK
  <2>. QED
    BY <1>1, <2>1, NotedAccumulates
<1>3. CASE <<s2, ip2>> # <<s, ip>>
  <2>1. ipfc'[s][ip] = ipfc[s][ip]
    BY <1>3 DEF TypeOK
  <2>. QED
    BY <1>1, <2>1, AccumulatesRefl
<1>. QED
  BY <1>2, <1>3

\* The step-wise form of IntroFailuresPersist.
LEMMA NextPersist ==
    ASSUME TypeOK, [Next]_fetchVars, NEW s \in Services, NEW ip \in IPs,
           ~Accumulates(ipfc[s][ip], ipfc'[s][ip])
    PROVE  IntroStateExpire(s, ip) \/ Newnym
<1>1. ipfc[s][ip] \in IntroState
  BY DEF TypeOK
<1>2. ASSUME NEW s2 \in Services, NEW ip2 \in IPs, IntroStateExpire(s2, ip2)
      PROVE  <<s2, ip2>> = <<s, ip>>
  <2>1. CASE <<s2, ip2>> # <<s, ip>>
    <3>1. ipfc'[s][ip] = ipfc[s][ip]
      BY <1>2, <2>1 DEF IntroStateExpire, TypeOK
    <3>. QED
      BY <1>1, <3>1, AccumulatesRefl
  <2>. QED
    BY <2>1
<1>3. ASSUME NEW s2 \in Services, NEW ip2 \in IPs, NEW k \in FailureKinds,
             NoteFailure(s2, ip2, k)
      PROVE  FALSE
  BY <1>3, NotedStep DEF NoteFailure
<1>4. CASE \/ \E st \in Streams : StreamRequest(st)
           \/ \E s2 \in Services, D \in SUBSET IPs : DescArrives(s2, D)
           \/ \E s2 \in Services : FetchFails(s2)
           \/ \E di \in BOOLEAN : DirInfoChanged(di)
           \/ \E s2 \in Services : IntroduceWithoutDesc(s2)
           \/ \E st \in Streams : ConnectionSucceeded(st)
           \/ UNCHANGED fetchVars
  <2>1. ipfc' = ipfc
    BY <1>4 DEF StreamRequest, DescArrives, FetchFails, DirInfoChanged,
                IntroduceWithoutDesc, RefetchAndRepark, ConnectionSucceeded,
                NoteConnectionSucceeded, fetchVars
  <2>. QED
    BY <1>1, <2>1, AccumulatesRefl
<1>. QED
  BY <1>2, <1>3, <1>4 DEF Next, FetchNext, CircuitCalls

\* I5 (hs_cache_client_intro_state_note and its callers): no step of the
\* client takes a failure out of the intro-point failure cache but the
\* expiry of the entry and NEWNYM; a successful connection in particular
\* keeps every failure recorded.
THEOREM IntroFailuresPersistHolds == Spec => IntroFailuresPersist
<1>1. TypeOK /\ [Next]_fetchVars =>
        [\A s \in Services, ip \in IPs :
           ~Accumulates(ipfc[s][ip], ipfc'[s][ip])
              => (IntroStateExpire(s, ip) \/ Newnym)]_fetchVars
  BY NextPersist
<1>. QED
  BY <1>1, TypeCorrect, PTL DEF Spec, IntroFailuresPersist

=============================================================================
