------------------------------- MODULE HsFetch -------------------------------
(***************************************************************************)
(* The descriptor side of the v3 onion-service client (src/or/hs_client.c):*)
(* the client view of the descriptor cache (DCV), the intro-point failure  *)
(* cache (IPFC), the fetch scheduler (FS: hs_client_refetch_hsdesc and the *)
(* HSDir memory), and the reconciliation of SOCKS streams that wait for a  *)
(* descriptor.  The circuit state machines are in HsCircuits, which        *)
(* EXTENDS this module; here the circuit layer is represented only by the  *)
(* two calls it makes into this side: the transient-error branch of        *)
(* send_introduce1 and note_connection_attempt_succeeded.                  *)
(*                                                                         *)
(* Data is abstracted: a service identity key, an intro-point auth key and *)
(* an HSDir are model values; a descriptor is the set of intro points it   *)
(* lists; the blinded key and time period are folded into the service      *)
(* (the HSDir memory is kept per service, i.e. per current blinded key).   *)
(***************************************************************************)
EXTENDS Naturals, FiniteSets

CONSTANTS
    Services,     \* onion service identity keys
    IPs,          \* intro-point auth keys
    HSDirs,       \* hidden-service directories
    Streams,      \* SOCKS (AP) streams
    StreamSvc,    \* the service each stream asks for (edge_conn->hs_ident)
    Responsible,  \* the hashring: responsible HSDirs of each service
    FetchAllowed, \* options->FetchHidServDescriptors
    MaxReach      \* MAX_INTRO_POINT_REACHABILITY_FAILURES

ASSUME ConstAssumption ==
    /\ StreamSvc \in [Streams -> Services]
    /\ HSDirs # {}
    /\ Responsible \in [Services -> SUBSET HSDirs]
    /\ FetchAllowed \in BOOLEAN
    /\ MaxReach \in Nat \ {0}

VARIABLES
    dirInfo,    \* live consensus and minimum directory info are present
    cached,     \* the services that have a descriptor in the client cache
    desc,       \* desc[s]: intro points of s's cached descriptor
    ipfc,       \* ipfc[s][ip]: the hs_cache_intro_state_t of (s, ip)
    fetches,    \* fetches[s]: in-flight DIR_PURPOSE_FETCH_HSDESC connections
    queried,    \* queried[s]: HSDirs recently queried for s's blinded key
    streams,    \* streams[st]: AP connection state of st
    lastFetch   \* lastFetch[s]: status of a refetch of s done in the last
                \* step, "none" if the step made none (history variable)

fetchVars == <<dirInfo, cached, desc, ipfc, fetches, queried, streams, lastFetch>>

StreamStates == {"idle", "renddesc_wait", "circuit_wait", "connected", "closed"}

FetchStatuses == {"Launched", "HaveDesc", "NoHsDirs", "NotAllowed",
                  "MissingInfo", "Pending", "Error"}

\* A cache entry; the clean record stands for "no entry" (same usability).
IntroState == [error : BOOLEAN, timed_out : BOOLEAN, unreachable : Nat]

NoFailure == [error |-> FALSE, timed_out |-> FALSE, unreachable |-> 0]

FailureKinds == {"Generic", "Timeout", "Unreachable"}

-----------------------------------------------------------------------------
(* Descriptor cache and failure cache predicates.                          *)

\* intro_point_is_usable: no error, not timed out, reachable enough.
\* The same predicate read in a given failure cache f.
UsableIn(f, s, ip) ==
    /\ ~f[s][ip].error
    /\ ~f[s][ip].timed_out
    /\ f[s][ip].unreachable < MaxReach

Usable(s, ip) == UsableIn(ipfc, s, ip)

\* hs_cache_lookup_as_client(s) != NULL && hs_client_any_intro_points_usable
HaveUsableDesc(s) ==
    /\ s \in cached
    /\ \E ip \in desc[s] : Usable(s, ip)

\* hs_cache_client_intro_state_note: accumulate one failure of kind k (the
\* unreachable counter is incremented without limit).
Noted(st, k) ==
    CASE k = "Generic"     -> [st EXCEPT !.error = TRUE]
      [] k = "Timeout"     -> [st EXCEPT !.timed_out = TRUE]
      [] k = "Unreachable" -> [st EXCEPT !.unreachable = @ + 1]

-----------------------------------------------------------------------------
(* The fetch scheduler.  A refetch is evaluated for a set S of services at *)
(* once with one HSDir pick per service; refetches of distinct services    *)
(* touch disjoint state, so this equals calling them one after the other.  *)
(* di is the directory-info flag the pre-checks read.                      *)

\* hs_pick_hsdir: the responsible HSDirs not queried recently for s.
Available(s) == Responsible[s] \ queried[s]

\* Mutant: the pending-request pre-check of can_client_refetch_desc dropped.
FetchPrecheckNoPending(s, di) ==
    CASE ~FetchAllowed       -> "NotAllowed"
      [] ~di                 -> "MissingInfo"
      [] HaveUsableDesc(s)   -> "HaveDesc"
      [] OTHER               -> "ok"

\* can_client_refetch_desc: the first failing pre-check, or "ok".
FetchPrecheck(s, di) ==
    CASE ~FetchAllowed       -> "NotAllowed"
      [] ~di                 -> "MissingInfo"
      [] HaveUsableDesc(s)   -> "HaveDesc"
      [] fetches[s] > 0      -> "Pending"
      [] OTHER               -> "ok"

\* fetch_status_should_close_socks
ShouldCloseSocks(status) == status \in {"NoHsDirs", "Error", "NotAllowed"}

\* hs_client_refetch_hsdesc: the status returned for s.
FetchStatus(s, di) ==
    IF FetchPrecheck(s, di) # "ok" THEN FetchPrecheck(s, di)
    ELSE IF Available(s) = {} THEN "NoHsDirs"
    ELSE "Launched"

\* The close/purge branch runs only on fetch_v3_desc's status, never on an
\* early return of the pre-checks.
ClosesSocks(s, di) ==
    FetchPrecheck(s, di) = "ok" /\ ShouldCloseSocks(FetchStatus(s, di))

\* The HSDir picks allowed to a refetch of the services in S.
Picks(S) == {p \in [S -> HSDirs] :
                \A s \in S : Available(s) # {} => p[s] \in Available(s)}

\* close_all_socks_conns_waiting_for_desc for every s in S that closes.
CloseWaiting(S, di, strm) ==
    [st \in Streams |->
        IF /\ strm[st] = "renddesc_wait"
           /\ StreamSvc[st] \in S
           /\ ClosesSocks(StreamSvc[st], di)
        THEN "closed" ELSE strm[st]]

\* flag_all_conn_wait_desc(s)
FlagWaitDesc(s, strm) ==
    [st \in Streams |->
        IF strm[st] = "circuit_wait" /\ StreamSvc[st] = s
        THEN "renddesc_wait" ELSE strm[st]]

\* The effect of hs_client_refetch_hsdesc on everything but the streams:
\* a launch records the HSDir and an in-flight fetch; a closing status
\* purges the HSDir memory (purge_hid_serv_request).
Refetch(S, di, p) ==
    /\ fetches' = [s \in Services |->
                     IF s \in S /\ FetchStatus(s, di) = "Launched"
                     THEN fetches[s] + 1 ELSE fetches[s]]
    /\ queried' = [s \in Services |->
                     IF s \notin S THEN queried[s]
                     ELSE IF FetchStatus(s, di) = "Launched"
                          THEN queried[s] \cup {p[s]}
                     ELSE IF ClosesSocks(s, di) THEN {}
                     ELSE queried[s]]
    /\ lastFetch' = [s \in Services |->
                       IF s \in S THEN FetchStatus(s, di) ELSE "none"]

-----------------------------------------------------------------------------
(* Actions.                                                                *)

\* A step that makes no refetch and changes none of the variables of this
\* module but the failure cache.
FetchUnchangedButIpfc ==
    /\ lastFetch' = [x \in Services |-> "none"]
    /\ UNCHANGED <<dirInfo, cached, desc, fetches, queried, streams>>

FetchUnchanged == FetchUnchangedButIpfc /\ UNCHANGED ipfc

\* A new SOCKS request for StreamSvc[st] (connection_edge.c): it waits for
\* circuits if a usable descriptor is cached, else it is parked and a
\* refetch is ordered.
StreamRequest(st) ==
    LET s == StreamSvc[st] IN
    /\ streams[st] = "idle"
    /\ IF HaveUsableDesc(s)
       THEN /\ streams' = [streams EXCEPT ![st] = "circuit_wait"]
            /\ lastFetch' = [x \in Services |-> "none"]
            /\ UNCHANGED <<fetches, queried>>
       ELSE \E p \in Picks({s}) :
              /\ Refetch({s}, dirInfo, p)
              /\ streams' = CloseWaiting({s}, dirInfo,
                               [streams EXCEPT ![st] = "renddesc_wait"])
    /\ UNCHANGED <<dirInfo, cached, desc, ipfc>>

\* Mutant: hs_client_desc_has_arrived wakes the parked streams without
\* checking that the new descriptor has a usable intro point.
DescArrivesWakeAll(s, D) ==
    LET waiting(st) == streams[st] = "renddesc_wait" /\ StreamSvc[st] = s IN
    /\ fetches[s] > 0
    /\ fetches' = [fetches EXCEPT ![s] = @ - 1]
    /\ cached' = cached \cup {s}
    /\ desc' = [desc EXCEPT ![s] = D]
    /\ streams' = [st \in Streams |->
                     IF waiting(st) THEN "circuit_wait" ELSE streams[st]]
    /\ lastFetch' = [x \in Services |-> "none"]
    /\ UNCHANGED <<dirInfo, ipfc, queried>>

\* A fetch ends with a descriptor listing the intro points D; it is stored
\* and hs_client_desc_has_arrived reconciles the parked streams of s.
DescArrives(s, D) ==
    LET unusable == ~\E ip \in D : Usable(s, ip)
        waiting(st) == streams[st] = "renddesc_wait" /\ StreamSvc[st] = s
    IN
    /\ fetches[s] > 0
    /\ fetches' = [fetches EXCEPT ![s] = @ - 1]
    /\ cached' = cached \cup {s}
    /\ desc' = [desc EXCEPT ![s] = D]
    /\ streams' = [st \in Streams |->
                     IF waiting(st)
                     THEN IF unusable THEN "closed" ELSE "circuit_wait"
                     ELSE streams[st]]
    \* note_connection_attempt_succeeded for each stream it closes
    /\ queried' = IF unusable /\ \E st \in Streams : waiting(st)
                  THEN [queried EXCEPT ![s] = {}] ELSE queried
    /\ lastFetch' = [x \in Services |-> "none"]
    /\ UNCHANGED <<dirInfo, ipfc>>

\* A fetch ends without a stored descriptor (the directory connection's
\* completion in directory.c: the HSDir had none, or the descriptor failed
\* to decode); the cache is untouched and no stream is woken.  A refetch
\* the directory code may order then is not modelled: the parked streams
\* wait for the next directory-info change or their SOCKS timeout.
FetchFails(s) ==
    /\ fetches[s] > 0
    /\ fetches' = [fetches EXCEPT ![s] = @ - 1]
    /\ lastFetch' = [x \in Services |-> "none"]
    /\ UNCHANGED <<dirInfo, cached, desc, ipfc, queried, streams>>

\* hs_client_dir_info_changed: directory information changed to di, and
\* retry_all_socks_conn_waiting_for_desc orders a refetch for every parked
\* stream (once per service: a later stream of the same service sees the
\* first one's result or is already marked for close).
DirInfoChanged(di) ==
    LET S == {StreamSvc[st] : st \in {x \in Streams : streams[x] = "renddesc_wait"}}
    IN
    /\ dirInfo' = di
    /\ \E p \in Picks(S) : Refetch(S, di, p)
    /\ streams' = CloseWaiting(S, di, streams)
    /\ UNCHANGED <<cached, desc, ipfc>>

\* hs_client_purge_state (SIGNAL NEWNYM).  cancel_descriptor_fetches lists
\* the directory connections whose *state* equals DIR_PURPOSE_FETCH_HSDESC;
\* no directory connection is ever in that state, so no fetch is cancelled.
Newnym ==
    /\ ipfc' = [s \in Services |-> [ip \in IPs |-> NoFailure]]
    /\ cached' = {}
    /\ queried' = [s \in Services |-> {}]
    /\ lastFetch' = [x \in Services |-> "none"]
    /\ UNCHANGED <<dirInfo, desc, fetches, streams>>

\* The circuit layer reports a failure of intro point ip of s (timeout of
\* an intro circuit, unreachable intro point, NACK).  Model bound: the
\* environment stops reporting an intro point unreachable once its counter
\* reaches MaxReach; a further report changes no verdict of
\* intro_point_is_usable, which reads the counter only as >= MaxReach.
NoteFailure(s, ip, k) ==
    /\ k = "Unreachable" => ipfc[s][ip].unreachable < MaxReach
    /\ ipfc' = [ipfc EXCEPT ![s][ip] = Noted(@, k)]
    /\ FetchUnchangedButIpfc

\* A failure-cache entry reaches its lifetime and is removed.
IntroStateExpire(s, ip) ==
    /\ ipfc[s][ip] # NoFailure
    /\ ipfc' = [ipfc EXCEPT ![s][ip] = NoFailure]
    /\ lastFetch' = [x \in Services |-> "none"]
    /\ UNCHANGED <<dirInfo, cached, desc, fetches, queried, streams>>

\* send_introduce1, transient branch: the descriptor is missing or has no
\* usable intro point; a refetch is ordered and then every stream of s
\* waiting for circuits is flagged back to waiting for the descriptor.
RefetchAndRepark(s) ==
    /\ \E p \in Picks({s}) :
          /\ Refetch({s}, dirInfo, p)
          /\ streams' = FlagWaitDesc(s, CloseWaiting({s}, dirInfo, streams))
    /\ UNCHANGED <<dirInfo, cached, desc, ipfc>>

\* Standing for the circuit layer: an intro circuit of s is ready to send
\* INTRODUCE1 while streams of s wait for circuits.
IntroduceWithoutDesc(s) ==
    /\ \E st \in Streams : streams[st] = "circuit_wait" /\ StreamSvc[st] = s
    /\ ~HaveUsableDesc(s)
    /\ RefetchAndRepark(s)

\* Mutant: a successful connection also clears the service's intro-point
\* failure cache.
NoteConnectionSucceededResetIpfc(st) ==
    /\ streams' = [streams EXCEPT ![st] = "connected"]
    /\ queried' = [queried EXCEPT ![StreamSvc[st]] = {}]
    /\ ipfc' = [ipfc EXCEPT ![StreamSvc[st]] = [ip \in IPs |-> NoFailure]]
    /\ lastFetch' = [x \in Services |-> "none"]
    /\ UNCHANGED <<dirInfo, cached, desc, fetches>>

\* hs_client_note_connection_attempt_succeeded: the stream is connected and
\* the HSDir memory of its service is purged; the failure cache is kept.
NoteConnectionSucceeded(st) ==
    /\ streams' = [streams EXCEPT ![st] = "connected"]
    /\ queried' = [queried EXCEPT ![StreamSvc[st]] = {}]
    /\ lastFetch' = [x \in Services |-> "none"]
    /\ UNCHANGED <<dirInfo, cached, desc, ipfc, fetches>>

\* Standing for the circuit layer: a stream waiting for circuits of a
\* service with a usable descriptor gets connected.
ConnectionSucceeded(st) ==
    /\ streams[st] = "circuit_wait"
    /\ HaveUsableDesc(StreamSvc[st])
    /\ NoteConnectionSucceeded(st)

-----------------------------------------------------------------------------

FetchInit ==
    /\ dirInfo \in BOOLEAN
    /\ cached = {}
    /\ desc = [s \in Services |-> {}]
    /\ ipfc = [s \in Services |-> [ip \in IPs |-> NoFailure]]
    /\ fetches = [s \in Services |-> 0]
    /\ queried = [s \in Services |-> {}]
    /\ streams = [st \in Streams |-> "idle"]
    /\ lastFetch = [s \in Services |-> "none"]

\* The steps of the descriptor side proper and of its environment.
FetchNext ==
    \/ \E st \in Streams : StreamRequest(st)
    \/ \E s \in Services, D \in SUBSET IPs : DescArrives(s, D)
    \/ \E s \in Services : FetchFails(s)
    \/ \E di \in BOOLEAN : DirInfoChanged(di)
    \/ Newnym
    \/ \E s \in Services, ip \in IPs : IntroStateExpire(s, ip)

\* What the circuit layer does to the descriptor side, left open here and
\* made precise in HsCircuits.
CircuitCalls ==
    \/ \E s \in Services : IntroduceWithoutDesc(s)
    \/ \E st \in Streams : ConnectionSucceeded(st)
    \/ \E s \in Services, ip \in IPs, k \in FailureKinds : NoteFailure(s, ip, k)

Next == FetchNext \/ CircuitCalls

Spec == FetchInit /\ [][Next]_fetchVars

-----------------------------------------------------------------------------
(* Properties.                                                             *)

TypeOK ==
    /\ dirInfo \in BOOLEAN
    /\ cached \in SUBSET Services
    /\ desc \in [Services -> SUBSET IPs]
    /\ ipfc \in [Services -> [IPs -> IntroState]]
    /\ fetches \in [Services -> Nat]
    /\ queried \in [Services -> SUBSET HSDirs]
    /\ streams \in [Streams -> StreamStates]
    /\ lastFetch \in [Services -> FetchStatuses \cup {"none"}]

\* I3: at most one descriptor fetch is in flight per service, whichever of
\* a new SOCKS request, a retry on directory-info change or a failed
\* INTRODUCE1 orders it (the Pending pre-check of can_client_refetch_desc).
AtMostOneFetch == \A s \in Services : fetches[s] <= 1

\* I4: after a refetch that returns NotAllowed, NoHsDirs or Error, no stream
\* of that service is left waiting for the descriptor (it would wait for a
\* fetch that was never launched).
TerminalFetchClosesWaiters ==
    \A s \in Services :
        lastFetch[s] \in {"NotAllowed", "NoHsDirs", "Error"} =>
            \A st \in Streams :
                StreamSvc[st] = s => streams[st] # "renddesc_wait"

\* A stream only moves to waiting for circuits when its service has a
\* usable descriptor at that moment (hs_client_desc_has_arrived closes the
\* streams of an unusable descriptor instead; a new request checks too).
WokenOnlyWithUsableDesc ==
    [][\A st \in Streams :
         (streams[st] # "circuit_wait" /\ streams'[st] = "circuit_wait")
            => HaveUsableDesc(StreamSvc[st])']_fetchVars

\* I5: failures only accumulate in the intro-point failure cache; an entry
\* loses a failure only when it expires or on NEWNYM, never because a
\* connection to the service succeeded (note_connection_attempt_succeeded).
Accumulates(a, b) ==
    /\ a.error => b.error
    /\ a.timed_out => b.timed_out
    /\ a.unreachable <= b.unreachable

IntroFailuresPersist ==
    [][\A s \in Services, ip \in IPs :
         ~Accumulates(ipfc[s][ip], ipfc'[s][ip])
            => (IntroStateExpire(s, ip) \/ Newnym)]_fetchVars

\* retry_all_socks_conn_waiting_for_desc treats HaveDesc as impossible: a
\* stream waiting for a descriptor never coexists with a usable cached
\* descriptor of its service, because the arrival callback wakes it.
ParkedOnlyWithoutUsableDesc ==
    \A st \in Streams :
        streams[st] = "renddesc_wait" => ~HaveUsableDesc(StreamSvc[st])

\* NEWNYM cancels every in-flight descriptor fetch (hs_client_purge_state
\* calls cancel_descriptor_fetches first "so ... our descriptor cache won't
\* [be] modified").
NewnymCancelsFetches ==
    [][Newnym => \A s \in Services : fetches'[s] = 0]_fetchVars

=============================================================================
