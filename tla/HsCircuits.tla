------------------------------ MODULE HsCircuits ------------------------------
(***************************************************************************)
(* The introduction (ISM) and rendezvous (RSM) circuit state machines of   *)
(* the v3 onion-service client (src/or/hs_client.c), composed with the     *)
(* descriptor side of HsFetch.  A circuit is a record indexed by a circuit *)
(* id; a rendezvous circuit's id is its rendezvous cookie (a fresh cookie  *)
(* per circuit, registered in the circuit map when the circuit opens).     *)
(* The intro point's encryption key is identified with the intro point    *)
(* (one enc key per auth key), and a RENDEZVOUS2 MAC with the handshake    *)
(* inputs it binds: the cookie's circuit, the intro auth key and the intro *)
(* enc key.  Cells from relays arrive at any time on an open circuit,      *)
(* since the intro and rendezvous points are not trusted.                  *)
(***************************************************************************)
EXTENDS HsFetch

CONSTANTS
    IntroCircs,   \* origin circuits that can be used as intro circuits
    RendCircs,    \* origin circuits that can be used as rend circuits
    RelayEarly,   \* remaining_relay_early_cells of a new intro circuit
    NoIP,         \* unset intro key in a circuit identifier
    NoCirc        \* unset rendezvous cookie in an intro circuit identifier

ASSUME CircAssumption ==
    /\ RelayEarly \in Nat
    /\ NoIP \notin IPs
    /\ NoCirc \notin RendCircs
    /\ Services # {}

VARIABLES
    intro,       \* intro[c]: state and hs_ident of intro circuit c
    rend,        \* rend[r]: state and hs_ident of rend circuit r
    introduced   \* INTRODUCE1 cells the service received (history)

circVars == <<intro, rend, introduced>>

vars == <<dirInfo, cached, desc, ipfc, fetches, queried, streams, lastFetch,
          intro, rend, introduced>>

\* CIRCUIT_PURPOSE_C_INTRODUCING / _INTRODUCE_ACK_WAIT; "closed" is marked
\* for close (an ACKED intro circuit is always marked at once).
IntroStates == {"unused", "introducing", "ack_wait", "closed"}

\* CIRCUIT_PURPOSE_C_ESTABLISH_REND / _REND_READY /
\* _REND_READY_INTRO_ACKED / _REND_JOINED, or marked for close.
RendStates == {"unused", "establish_rend", "rend_ready", "intro_acked",
               "joined", "closed"}

\* The handshake inputs an INTRODUCE1 carries and a RENDEZVOUS2 MAC binds.
Handshake == [cookie : RendCircs, auth : IPs, enc : IPs]

\* A RENDEZVOUS2 MAC that binds no INTRODUCE1 the service received (made
\* up by the rendezvous point); also the peer of a rend circuit not joined.
NoHandshake == [cookie |-> NoCirc, auth |-> NoIP, enc |-> NoIP]

IntroRec == [state : IntroStates, svc : Services, exit : IPs \cup {NoIP},
             auth : IPs \cup {NoIP}, cookie : RendCircs \cup {NoCirc},
             early : 0..RelayEarly, opened : BOOLEAN, relayed : BOOLEAN]

RendRec == [state : RendStates, svc : Services, opened : BOOLEAN,
            auth : IPs \cup {NoIP}, enc : IPs \cup {NoIP},
            peer : Handshake \cup {NoHandshake}]

AnySvc == CHOOSE s \in Services : TRUE

UnusedIntro == [state |-> "unused", svc |-> AnySvc, exit |-> NoIP,
                auth |-> NoIP, cookie |-> NoCirc, early |-> RelayEarly,
                opened |-> FALSE, relayed |-> FALSE]

UnusedRend == [state |-> "unused", svc |-> AnySvc, opened |-> FALSE,
               auth |-> NoIP, enc |-> NoIP, peer |-> NoHandshake]

-----------------------------------------------------------------------------
(* Helpers.                                                                *)

Live(st) == st \notin {"unused", "closed"}

\* hs_circuitmap_get_rend_circ_client_side(cookie): the live registered
\* rend circuit with that cookie, in any purpose (FALSE if there is none).
InCircuitMap(r) == r \in RendCircs /\ rend[r].opened /\ Live(rend[r].state)

\* hs_circuitmap_get_established_rend_circ_client_side(cookie)
Established(r) ==
    InCircuitMap(r) /\ rend[r].state \in {"rend_ready", "intro_acked", "joined"}

\* Mark the rend circuit with cookie r for close if the map still has it.
CloseRendOf(r) ==
    rend' = IF InCircuitMap(r) THEN [rend EXCEPT ![r].state = "closed"]
            ELSE rend

\* client_get_random_intro: the intro points it may return for s (no
\* ExcludeNodes set, every intro point has extendable link specifiers).
RandomIntroChoices(s, f) ==
    IF s \in cached THEN {ip \in desc[s] : UsableIn(f, s, ip)} ELSE {}

StreamWaits(s) ==
    \E st \in Streams : streams[st] = "circuit_wait" /\ StreamSvc[st] = s

-----------------------------------------------------------------------------
(* Circuit launch (circuituse.c, driven by streams waiting for circuits).  *)

LaunchIntro(c, s) ==
    /\ intro[c].state = "unused"
    /\ StreamWaits(s)
    /\ \E ip \in RandomIntroChoices(s, ipfc) :
          intro' = [intro EXCEPT ![c] = [UnusedIntro EXCEPT
                       !.state = "introducing", !.svc = s, !.exit = ip]]
    /\ FetchUnchanged
    /\ UNCHANGED <<rend, introduced>>

LaunchRend(r, s) ==
    /\ rend[r].state = "unused"
    /\ StreamWaits(s)
    /\ rend' = [rend EXCEPT ![r] = [UnusedRend EXCEPT
                   !.state = "establish_rend", !.svc = s]]
    /\ FetchUnchanged
    /\ UNCHANGED <<intro, introduced>>

-----------------------------------------------------------------------------
(* The introduction state machine.                                         *)

\* client_intro_circ_has_opened: setup_intro_circ_auth_key copies the auth
\* key of the descriptor's intro point whose legacy id is the circuit's
\* exit; with no descriptor or no such intro point the ident is left as is.
IntroOpens(c) ==
    LET s == intro[c].svc IN
    /\ intro[c].state = "introducing"
    /\ ~intro[c].opened
    /\ intro' = [intro EXCEPT
                   ![c].opened = TRUE,
                   ![c].auth = IF s \in cached /\ intro[c].exit \in desc[s]
                               THEN intro[c].exit ELSE @]
    /\ FetchUnchanged
    /\ UNCHANGED <<rend, introduced>>

\* send_introduce1, permanent error: both circuits are marked for close.
Introduce1Fails(c, r) ==
    /\ intro' = [intro EXCEPT ![c].state = "closed"]
    /\ rend' = [rend EXCEPT ![r].state = "closed"]
    /\ FetchUnchanged
    /\ UNCHANGED introduced

\* send_introduce1, success: the rend ident gets the intro point's keys,
\* the intro circuit waits for the ACK; the intro point relays the cell to
\* the service only if it is the intro point the keys belong to.
Introduce1Sent(c, r) ==
    LET ip == intro[c].auth
        relayed == ip = intro[c].exit
    IN
    /\ rend' = [rend EXCEPT ![r].auth = ip, ![r].enc = ip]
    /\ intro' = [intro EXCEPT ![c].state = "ack_wait", ![c].cookie = r,
                              ![c].relayed = relayed]
    /\ introduced' = IF relayed
                     THEN introduced \cup {[cookie |-> r, auth |-> ip, enc |-> ip]}
                     ELSE introduced
    /\ FetchUnchanged

\* hs_client_send_introduce1 on an open intro circuit c and a ready rend
\* circuit r of the same service (a re-extended intro circuit introduces
\* again over the same rend circuit, whose intro keys are overwritten).
SendIntroduce1(c, r) ==
    LET s == intro[c].svc IN
    /\ intro[c].state = "introducing"
    /\ intro[c].opened
    /\ rend[r].state = "rend_ready"
    /\ rend[r].svc = s
    /\ StreamWaits(s)
    /\ \/ /\ intro[c].auth = NoIP            \* intro_circ_is_ok fails
          /\ Introduce1Fails(c, r)
       \/ /\ intro[c].auth # NoIP
          /\ ~HaveUsableDesc(s)              \* transient error
          /\ RefetchAndRepark(s)
          /\ UNCHANGED circVars
       \/ /\ intro[c].auth # NoIP
          /\ HaveUsableDesc(s)
          /\ intro[c].auth \notin desc[s]    \* no intro point for the ident
          /\ Introduce1Fails(c, r)
       \/ /\ intro[c].auth # NoIP
          /\ HaveUsableDesc(s)
          /\ intro[c].auth \in desc[s]
          /\ \/ Introduce1Fails(c, r)        \* the cell could not be sent
             \/ Introduce1Sent(c, r)

\* Mutant: the REND_JOINED check of handle_introduce_ack_success dropped.
IntroAckSuccessNoJoinedCheck(c) ==
    LET r == intro[c].cookie IN
    /\ rend' = IF Established(r)
               THEN [rend EXCEPT ![r].state = "intro_acked"]
               ELSE rend
    /\ intro' = [intro EXCEPT ![c].state = "closed"]
    /\ FetchUnchanged
    /\ UNCHANGED introduced

\* handle_introduce_ack_success
IntroAckSuccess(c) ==
    LET r == intro[c].cookie IN
    /\ rend' = IF Established(r) /\ rend[r].state # "joined"
               THEN [rend EXCEPT ![r].state = "intro_acked"]
               ELSE rend
    /\ intro' = [intro EXCEPT ![c].state = "closed"]
    /\ FetchUnchanged
    /\ UNCHANGED introduced

\* Mutant: re-extend without looking at remaining_relay_early_cells.
HasRelayEarlyIgnored(c) == TRUE

\* hs_client_reextend_intro_circuit: the circuit has RELAY_EARLY cells left.
HasRelayEarly(c) == intro[c].early > 0

\* Mutant: the intro point to re-extend to is drawn from the failure cache
\* as it was before the NACK was noted.
IntroAckBadStaleCache(c) ==
    LET s == intro[c].svc
        f == [ipfc EXCEPT ![s][intro[c].auth] = Noted(@, "Generic")]
        closeBoth == /\ intro' = [intro EXCEPT ![c].state = "closed"]
                     /\ CloseRendOf(intro[c].cookie)
    IN
    /\ ipfc' = f
    /\ FetchUnchangedButIpfc
    /\ UNCHANGED introduced
    /\ \/ /\ RandomIntroChoices(s, ipfc) = {}
          /\ closeBoth
       \/ /\ RandomIntroChoices(s, ipfc) # {}
          /\ ~HasRelayEarly(c)
          /\ intro' = [intro EXCEPT ![c].state = "closed"]
          /\ UNCHANGED rend
       \/ /\ RandomIntroChoices(s, ipfc) # {}
          /\ HasRelayEarly(c)
          /\ \/ \E ip \in RandomIntroChoices(s, ipfc) :
                   /\ intro' = [intro EXCEPT ![c].state = "introducing",
                                             ![c].exit = ip,
                                             ![c].opened = FALSE,
                                             ![c].early = @ - 1]
                   /\ UNCHANGED rend
             \/ closeBoth

\* handle_introduce_ack_bad, then close_or_reextend_intro_circ (with
\* hs_client_reextend_intro_circuit): the NACK is noted against the intro
\* point, then the circuit is re-extended to another usable intro point,
\* closed alone when out of RELAY_EARLY cells, or closed with its rend
\* circuit when no usable intro point is left or the extension fails.
IntroAckBad(c) ==
    LET s == intro[c].svc
        f == [ipfc EXCEPT ![s][intro[c].auth] = Noted(@, "Generic")]
        closeBoth == /\ intro' = [intro EXCEPT ![c].state = "closed"]
                     /\ CloseRendOf(intro[c].cookie)
    IN
    /\ ipfc' = f
    /\ FetchUnchangedButIpfc
    /\ UNCHANGED introduced
    /\ \/ /\ RandomIntroChoices(s, f) = {}
          /\ closeBoth
       \/ /\ RandomIntroChoices(s, f) # {}
          /\ ~HasRelayEarly(c)
          /\ intro' = [intro EXCEPT ![c].state = "closed"]
          /\ UNCHANGED rend
       \/ /\ RandomIntroChoices(s, f) # {}
          /\ HasRelayEarly(c)
          /\ \/ \E ip \in RandomIntroChoices(s, f) :
                   /\ intro' = [intro EXCEPT ![c].state = "introducing",
                                             ![c].exit = ip,
                                             ![c].opened = FALSE,
                                             ![c].early = @ - 1]
                   /\ UNCHANGED rend
             \/ closeBoth                     \* circuit_extend_to_new_exit fails

\* hs_client_receive_introduce_ack: an ACK outside ACK_WAIT is a protocol
\* violation.  An intro point that could not relay the INTRODUCE1 (it was
\* made with another intro point's keys) nacks it; one that relayed it may
\* ack or nack.  An unknown status code is logged and changes nothing.
IntroduceAck(c) ==
    /\ intro[c].opened
    /\ Live(intro[c].state)
    /\ \/ /\ intro[c].state # "ack_wait"
          /\ intro' = [intro EXCEPT ![c].state = "closed"]
          /\ FetchUnchanged
          /\ UNCHANGED <<rend, introduced>>
       \/ /\ intro[c].state = "ack_wait"
          /\ intro[c].relayed
          /\ IntroAckSuccess(c)
       \/ /\ intro[c].state = "ack_wait"
          /\ IntroAckBad(c)

-----------------------------------------------------------------------------
(* The rendezvous state machine.                                           *)

\* client_rendezvous_circ_has_opened: ESTABLISH_RENDEZVOUS is sent; if that
\* did not close the circuit it is registered in the circuit map.
RendOpens(r) ==
    /\ rend[r].state = "establish_rend"
    /\ ~rend[r].opened
    /\ \/ rend' = [rend EXCEPT ![r].opened = TRUE]
       \/ rend' = [rend EXCEPT ![r].state = "closed"]
    /\ FetchUnchanged
    /\ UNCHANGED <<intro, introduced>>

\* hs_client_receive_rendezvous_acked
RendezvousEstablished(r) ==
    /\ rend[r].opened
    /\ Live(rend[r].state)
    /\ rend' = [rend EXCEPT ![r].state =
                   IF @ = "establish_rend" THEN "rend_ready" ELSE "closed"]
    /\ FetchUnchanged
    /\ UNCHANGED <<intro, introduced>>

\* hs_ntor_client_rendezvous2_mac_is_good: the MAC is the one computed from
\* the cookie and the intro keys of the circuit's own ident.
MacIsGood(r, mac) ==
    mac = [cookie |-> r, auth |-> rend[r].auth, enc |-> rend[r].enc]

\* hs_client_receive_rendezvous2 and handle_rendezvous2: accepted only in
\* REND_READY or READY_INTRO_ACKED, with computable keys (the intro enc key
\* is set, else the DH result is zero) and a MAC equal to the one computed
\* from the circuit's own ident; then the e2e keys are set up.
Rendezvous2(r, mac) ==
    LET accepted == /\ rend[r].state \in {"rend_ready", "intro_acked"}
                    /\ rend[r].enc # NoIP
                    /\ MacIsGood(r, mac)
    IN
    /\ rend[r].opened
    /\ Live(rend[r].state)
    /\ rend' = IF accepted
               THEN [rend EXCEPT ![r].state = "joined", ![r].peer = mac]
               ELSE [rend EXCEPT ![r].state = "closed"]
    /\ FetchUnchanged
    /\ UNCHANGED <<intro, introduced>>

-----------------------------------------------------------------------------
(* The circuit layer's own failures and the streams' attachment.           *)

\* An intro circuit fails to build or extend (the intro point is noted
\* unreachable) or times out waiting for the ACK (noted timed out).
IntroCircFails(c) ==
    LET s == intro[c].svc
        ip == intro[c].auth
        kind == IF intro[c].state = "ack_wait" THEN "Timeout" ELSE "Unreachable"
    IN
    /\ Live(intro[c].state)
    /\ intro' = [intro EXCEPT ![c].state = "closed"]
    /\ IF ip \in IPs /\ (intro[c].state = "ack_wait" \/ ~intro[c].opened)
       THEN ipfc' = [ipfc EXCEPT ![s][ip] = Noted(@, kind)]
       ELSE UNCHANGED ipfc
    /\ FetchUnchangedButIpfc
    /\ UNCHANGED <<rend, introduced>>

RendCircFails(r) ==
    /\ Live(rend[r].state)
    /\ rend' = [rend EXCEPT ![r].state = "closed"]
    /\ FetchUnchanged
    /\ UNCHANGED <<intro, introduced>>

\* Mutant: the stream is attached to a rend circuit that has not joined.
StreamAttachedAnyRend(st, r) ==
    /\ streams[st] = "circuit_wait"
    /\ Live(rend[r].state)
    /\ rend[r].svc = StreamSvc[st]
    /\ NoteConnectionSucceeded(st)
    /\ UNCHANGED circVars

\* A stream waiting for circuits attaches to a joined rend circuit of its
\* service, and hs_client_note_connection_attempt_succeeded runs.
StreamAttached(st, r) ==
    /\ streams[st] = "circuit_wait"
    /\ rend[r].state = "joined"
    /\ rend[r].svc = StreamSvc[st]
    /\ NoteConnectionSucceeded(st)
    /\ UNCHANGED circVars

-----------------------------------------------------------------------------

Init ==
    /\ FetchInit
    /\ intro = [c \in IntroCircs |-> UnusedIntro]
    /\ rend = [r \in RendCircs |-> UnusedRend]
    /\ introduced = {}

CircNext ==
    \/ \E c \in IntroCircs, s \in Services : LaunchIntro(c, s)
    \/ \E r \in RendCircs, s \in Services : LaunchRend(r, s)
    \/ \E c \in IntroCircs : IntroOpens(c)
    \/ \E c \in IntroCircs, r \in RendCircs : SendIntroduce1(c, r)
    \/ \E c \in IntroCircs : IntroduceAck(c)
    \/ \E r \in RendCircs : RendOpens(r)
    \/ \E r \in RendCircs : RendezvousEstablished(r)
    \/ \E r \in RendCircs, mac \in introduced \cup {NoHandshake} : Rendezvous2(r, mac)
    \/ \E c \in IntroCircs : IntroCircFails(c)
    \/ \E r \in RendCircs : RendCircFails(r)
    \/ \E st \in Streams, r \in RendCircs : StreamAttached(st, r)

ClientNext == (FetchNext /\ UNCHANGED circVars) \/ CircNext

ClientSpec == Init /\ [][ClientNext]_vars

-----------------------------------------------------------------------------
(* Properties.                                                             *)

CircTypeOK ==
    /\ TypeOK
    /\ intro \in [IntroCircs -> IntroRec]
    /\ rend \in [RendCircs -> RendRec]
    /\ introduced \in SUBSET Handshake

\* A joined rendezvous circuit stays joined until it is closed: an
\* INTRODUCE_ACK that arrives after the RENDEZVOUS2 (handle_introduce_ack_
\* success) must not move it back to READY_INTRO_ACKED.
JoinedIsFinal ==
    [][\A r \in RendCircs :
         rend[r].state = "joined" => rend'[r].state \in {"joined", "closed"}]_vars

\* A NACKed intro circuit is never re-extended to the intro point that just
\* nacked it: handle_introduce_ack_bad notes the failure in the cache before
\* close_or_reextend_intro_circ asks client_get_random_intro for a new intro
\* point, so a re-extension reads the cache with the NACK in it, whatever
\* other circuits of the service noted in between.
ReextendAvoidsNacked ==
    [][\A c \in IntroCircs :
         intro[c].state = "ack_wait" /\ intro'[c].state = "introducing"
            => intro'[c].exit # intro[c].auth]_vars

\* An intro circuit that has opened carries the auth key of the intro point
\* it is extended to (setup_intro_circ_auth_key treats a missing intro
\* point as unreachable): the INTRODUCE1 it sends and a NACK it gets are
\* about that intro point.
IntroAuthMatchesExit ==
    \A c \in IntroCircs :
        intro[c].state \in {"introducing", "ack_wait"} /\ intro[c].opened
            => intro[c].auth = intro[c].exit

-----------------------------------------------------------------------------
(* Refinement of the abstract stream specification HsStreams.              *)

\* Waiting for a descriptor and waiting for circuits are both "pending".
AbsStreamState(x) ==
    IF x \in {"renddesc_wait", "circuit_wait"} THEN "pending" ELSE x

\* The services with a joined rendezvous circuit.
Sessions == {rend[r].svc : r \in {x \in RendCircs : rend[x].state = "joined"}}

Abs == INSTANCE HsStreams
           WITH astreams <- [st \in Streams |-> AbsStreamState(streams[st])],
                sessions <- Sessions

\* The client implements HsStreams: every SOCKS stream goes from its request
\* to connected or closed and never back, whichever of the fetch, retry,
\* re-park and circuit callbacks move it, and a stream is only attached
\* (hs_client_note_connection_attempt_succeeded) to a service with a joined
\* rendezvous circuit.
RefinesStreams == Abs!ASpec

=============================================================================
