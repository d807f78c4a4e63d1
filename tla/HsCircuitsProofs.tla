-------------------------- MODULE HsCircuitsProofs --------------------------
(***************************************************************************)
(* Proofs about the circuit state machines (HsCircuits): the type          *)
(* invariant of the composed client, that a joined rendezvous circuit      *)
(* stays joined, that a NACKed circuit is not re-extended to the intro     *)
(* point that nacked it, and that the client implements HsStreams, for     *)
(* every set of services, intro points, streams and circuits.              *)
(***************************************************************************)
EXTENDS HsCircuits, HsFetchProofs

-----------------------------------------------------------------------------
(* The strengthening.                                                      *)

\* An intro circuit waiting for INTRODUCE_ACK has the auth key of an intro
\* point (send_introduce1 sends only on an ident whose key it found in the
\* descriptor), so handle_introduce_ack_bad notes a NACK against a real
\* intro point.  The type invariant alone is not inductive without it.
AckWaitKeyed ==
    \A c \in IntroCircs : intro[c].state = "ack_wait" => intro[c].auth \in IPs

\* The type invariant with AckWaitKeyed, which the NACK step needs.
CInv == CircTypeOK /\ AckWaitKeyed

-----------------------------------------------------------------------------
(* Lemmas about the descriptor side as the circuit actions change it.      *)

LEMMA FetchUnchangedType == TypeOK /\ FetchUnchanged => TypeOK'
BY DEF TypeOK, FetchUnchanged, FetchUnchangedButIpfc

\* Noting a failure against a known intro point keeps the client typed.
LEMMA NoteFailureType ==
    ASSUME TypeOK, NEW s \in Services, NEW ip \in IPs, NEW k \in FailureKinds,
           ipfc' = [ipfc EXCEPT ![s][ip] = Noted(@, k)], FetchUnchangedButIpfc
    PROVE  TypeOK'
<1>1. Noted(ipfc[s][ip], k) \in IntroState
  BY NotedType DEF TypeOK
<1>. QED
  BY <1>1 DEF TypeOK, FetchUnchangedButIpfc

\* The transient branch of send_introduce1 is the call HsFetch leaves open.
LEMMA RefetchAndReparkType ==
    ASSUME TypeOK, NEW s \in Services, StreamWaits(s), ~HaveUsableDesc(s),
           RefetchAndRepark(s)
    PROVE  TypeOK'
<1>1. IntroduceWithoutDesc(s)
  BY DEF IntroduceWithoutDesc, StreamWaits
<1>2. Next
  BY <1>1 DEF Next, CircuitCalls
<1>. QED
  BY <1>2, NextTypeOK

LEMMA UnusedType == UnusedIntro \in IntroRec /\ UnusedRend \in RendRec
<1>1. AnySvc \in Services
  BY CircAssumption DEF AnySvc
<1>2. RelayEarly \in 0..RelayEarly
  BY CircAssumption
<1>3. UnusedIntro \in IntroRec
  BY <1>1, <1>2 DEF UnusedIntro, IntroRec, IntroStates
<1>4. UnusedRend \in RendRec
  BY <1>1 DEF UnusedRend, RendRec, RendStates
<1>. QED
  BY <1>3, <1>4

\* client_get_random_intro returns an intro point of the descriptor.
LEMMA ChoicesInIPs ==
    ASSUME TypeOK, NEW s \in Services, NEW f
    PROVE  RandomIntroChoices(s, f) \subseteq IPs
BY DEF RandomIntroChoices, TypeOK

\* Closing the rend circuit of a cookie keeps the rend records typed.
LEMMA CloseRendOfType ==
    ASSUME rend \in [RendCircs -> RendRec], NEW r, CloseRendOf(r)
    PROVE  rend' \in [RendCircs -> RendRec]
BY DEF CloseRendOf, InCircuitMap, RendRec, RendStates

-----------------------------------------------------------------------------
(* The type invariant of the composed client.                             *)

LEMMA InitCInv == Init => CInv
<1>. SUFFICES ASSUME Init PROVE CInv
  OBVIOUS
<1>1. TypeOK
  BY InitTypeOK DEF Init
<1>2. intro \in [IntroCircs -> IntroRec] /\ rend \in [RendCircs -> RendRec]
  BY UnusedType DEF Init
<1>3. AckWaitKeyed
  BY DEF Init, AckWaitKeyed, UnusedIntro
<1>. QED
  BY <1>1, <1>2, <1>3 DEF Init, CInv, CircTypeOK

\* A circuit step that leaves the descriptor side alone.
LEMMA CircOnly ==
    ASSUME CInv, FetchUnchanged,
           intro' \in [IntroCircs -> IntroRec],
           rend' \in [RendCircs -> RendRec],
           introduced' \in SUBSET Handshake,
           AckWaitKeyed'
    PROVE  CInv'
BY FetchUnchangedType DEF CInv, CircTypeOK

LEMMA LaunchIntroCInv ==
    ASSUME CInv, NEW c \in IntroCircs, NEW s \in Services, LaunchIntro(c, s)
    PROVE  CInv'
<1>. USE DEF CInv, CircTypeOK
<1>1. PICK ip \in RandomIntroChoices(s, ipfc) :
         intro' = [intro EXCEPT ![c] = [UnusedIntro EXCEPT
                      !.state = "introducing", !.svc = s, !.exit = ip]]
  BY DEF LaunchIntro
<1>2. ip \in IPs
  BY ChoicesInIPs
<1>3. intro' \in [IntroCircs -> IntroRec]
  BY <1>1, <1>2, UnusedType DEF IntroRec, IntroStates
<1>4. AckWaitKeyed'
  BY <1>1 DEF AckWaitKeyed
<1>. QED
  BY <1>3, <1>4, CircOnly DEF LaunchIntro

LEMMA LaunchRendCInv ==
    ASSUME CInv, NEW r \in RendCircs, NEW s \in Services, LaunchRend(r, s)
    PROVE  CInv'
<1>. USE DEF CInv, CircTypeOK
<1>1. rend' \in [RendCircs -> RendRec]
  BY UnusedType DEF LaunchRend, RendRec, RendStates
<1>. QED
  BY <1>1, CircOnly DEF LaunchRend, AckWaitKeyed

LEMMA IntroOpensCInv ==
    ASSUME CInv, NEW c \in IntroCircs, IntroOpens(c)
    PROVE  CInv'
<1>. USE DEF CInv, CircTypeOK
<1>1. intro' \in [IntroCircs -> IntroRec]
  BY DEF IntroOpens, IntroRec
<1>2. AckWaitKeyed'
  BY DEF IntroOpens, AckWaitKeyed
<1>. QED
  BY <1>1, <1>2, CircOnly DEF IntroOpens

\* The permanent-error branch of send_introduce1.
LEMMA Introduce1FailsCInv ==
    ASSUME CInv, NEW c \in IntroCircs, NEW r \in RendCircs,
           Introduce1Fails(c, r)
    PROVE  CInv'
<1>. USE DEF CInv, CircTypeOK
<1>1. intro' \in [IntroCircs -> IntroRec]
  BY DEF Introduce1Fails, IntroRec, IntroStates
<1>2. rend' \in [RendCircs -> RendRec]
  BY DEF Introduce1Fails, RendRec, RendStates
<1>3. AckWaitKeyed'
  BY DEF Introduce1Fails, AckWaitKeyed
<1>. QED
  BY <1>1, <1>2, <1>3, CircOnly DEF Introduce1Fails

\* The success branch, with the intro point's auth key found.
LEMMA Introduce1SentCInv ==
    ASSUME CInv, NEW c \in IntroCircs, NEW r \in RendCircs,
           intro[c].auth \in IPs, Introduce1Sent(c, r)
    PROVE  CInv'
<1>. USE DEF CInv, CircTypeOK
<1>1. rend' \in [RendCircs -> RendRec]
  BY DEF Introduce1Sent, RendRec
<1>2. intro' \in [IntroCircs -> IntroRec]
  <2>1. intro[c] \in IntroRec /\ (intro[c].auth = intro[c].exit) \in BOOLEAN
    OBVIOUS
  <2>2. [intro[c] EXCEPT !.state = "ack_wait", !.cookie = r,
                         !.relayed = (intro[c].auth = intro[c].exit)] \in IntroRec
    BY <2>1 DEF IntroRec, IntroStates
  <2>. QED
    BY <2>2 DEF Introduce1Sent
<1>3. introduced' \in SUBSET Handshake
  BY DEF Introduce1Sent, Handshake
<1>4. AckWaitKeyed'
  BY DEF Introduce1Sent, AckWaitKeyed
<1>. QED
  BY <1>1, <1>2, <1>3, <1>4, CircOnly DEF Introduce1Sent

LEMMA SendIntroduce1CInv ==
    ASSUME CInv, NEW c \in IntroCircs, NEW r \in RendCircs,
           SendIntroduce1(c, r)
    PROVE  CInv'
<1>. DEFINE s == intro[c].svc
<1>1. s \in Services
  BY DEF CInv, CircTypeOK, IntroRec
<1>2. CASE intro[c].auth = NoIP /\ Introduce1Fails(c, r)
  BY <1>2, Introduce1FailsCInv
<1>3. CASE /\ ~HaveUsableDesc(s)
           /\ RefetchAndRepark(s)
           /\ UNCHANGED circVars
  <2>1. TypeOK'
    BY <1>1, <1>3, RefetchAndReparkType DEF SendIntroduce1, CInv, CircTypeOK
  <2>. QED
    BY <1>3, <2>1 DEF CInv, CircTypeOK, AckWaitKeyed, circVars
<1>4. CASE intro[c].auth \notin desc[s] /\ Introduce1Fails(c, r)
  BY <1>4, Introduce1FailsCInv
<1>5. CASE /\ intro[c].auth \in desc[s]
           /\ \/ Introduce1Fails(c, r)
              \/ Introduce1Sent(c, r)
  <2>1. intro[c].auth \in IPs
    BY <1>1, <1>5 DEF CInv, CircTypeOK, TypeOK
  <2>. QED
    BY <1>5, <2>1, Introduce1FailsCInv, Introduce1SentCInv
<1>. QED
  BY <1>2, <1>3, <1>4, <1>5 DEF SendIntroduce1

LEMMA IntroAckSuccessCInv ==
    ASSUME CInv, NEW c \in IntroCircs, IntroAckSuccess(c)
    PROVE  CInv'
<1>. USE DEF CInv, CircTypeOK
<1>1. rend' \in [RendCircs -> RendRec]
  BY DEF IntroAckSuccess, Established, InCircuitMap, RendRec, RendStates
<1>2. intro' \in [IntroCircs -> IntroRec]
  BY DEF IntroAckSuccess, IntroRec, IntroStates
<1>3. AckWaitKeyed'
  BY DEF IntroAckSuccess, AckWaitKeyed
<1>. QED
  BY <1>1, <1>2, <1>3, CircOnly DEF IntroAckSuccess

\* A NACK is noted against the circuit's intro point, which is known in
\* ACK_WAIT; then the circuit is re-extended or closed.
LEMMA IntroAckBadCInv ==
    ASSUME CInv, NEW c \in IntroCircs, intro[c].state = "ack_wait",
           IntroAckBad(c)
    PROVE  CInv'
<1>. DEFINE s == intro[c].svc
            f == [ipfc EXCEPT ![s][intro[c].auth] = Noted(@, "Generic")]
<1>1. s \in Services /\ intro[c].auth \in IPs
  BY DEF CInv, CircTypeOK, IntroRec, AckWaitKeyed
<1>2. TypeOK'
  <2>1. /\ ipfc' = [ipfc EXCEPT ![s][intro[c].auth] = Noted(@, "Generic")]
        /\ FetchUnchangedButIpfc
    BY DEF IntroAckBad
  <2>. QED
    BY <1>1, <2>1, NoteFailureType DEF CInv, CircTypeOK, FailureKinds
<1>3. RandomIntroChoices(s, f) \subseteq IPs
  BY <1>1, ChoicesInIPs DEF CInv, CircTypeOK
<1>4. intro' \in [IntroCircs -> IntroRec] /\ AckWaitKeyed'
  <2>1. CASE intro' = [intro EXCEPT ![c].state = "closed"]
    BY <2>1 DEF CInv, CircTypeOK, IntroRec, IntroStates, AckWaitKeyed
  <2>2. CASE /\ HasRelayEarly(c)
             /\ \E ip \in RandomIntroChoices(s, f) :
                   intro' = [intro EXCEPT ![c].state = "introducing",
                                          ![c].exit = ip,
                                          ![c].opened = FALSE,
                                          ![c].early = @ - 1]
    <3>1. PICK ip \in RandomIntroChoices(s, f) :
             intro' = [intro EXCEPT ![c].state = "introducing",
                                    ![c].exit = ip,
                                    ![c].opened = FALSE,
                                    ![c].early = @ - 1]
      BY <2>2
    <3>2. intro[c].early - 1 \in 0..RelayEarly
      BY <2>2 DEF HasRelayEarly, CInv, CircTypeOK, IntroRec
    <3>. QED
      BY <1>3, <3>1, <3>2 DEF CInv, CircTypeOK, IntroRec, IntroStates, AckWaitKeyed
  <2>. QED
    BY <2>1, <2>2 DEF IntroAckBad
<1>5. rend' \in [RendCircs -> RendRec]
  BY CloseRendOfType DEF IntroAckBad, CInv, CircTypeOK
<1>. QED
  BY <1>2, <1>4, <1>5 DEF IntroAckBad, CInv, CircTypeOK

LEMMA IntroduceAckCInv ==
    ASSUME CInv, NEW c \in IntroCircs, IntroduceAck(c)
    PROVE  CInv'
<1>1. CASE intro[c].state # "ack_wait" /\ intro' = [intro EXCEPT ![c].state = "closed"]
         /\ FetchUnchanged /\ UNCHANGED <<rend, introduced>>
  BY <1>1, CircOnly DEF CInv, CircTypeOK, IntroRec, IntroStates, AckWaitKeyed
<1>2. CASE IntroAckSuccess(c)
  BY <1>2, IntroAckSuccessCInv
<1>3. CASE intro[c].state = "ack_wait" /\ IntroAckBad(c)
  BY <1>3, IntroAckBadCInv
<1>. QED
  BY <1>1, <1>2, <1>3 DEF IntroduceAck

\* ESTABLISH_RENDEZVOUS sent, RENDEZVOUS_ESTABLISHED, a rend circuit failing.
LEMMA RendStepCInv ==
    ASSUME CInv, NEW r \in RendCircs,
           \/ RendOpens(r)
           \/ RendezvousEstablished(r)
           \/ RendCircFails(r)
    PROVE  CInv'
<1>. USE DEF CInv, CircTypeOK
<1>1. rend' \in [RendCircs -> RendRec]
  <2>1. CASE RendOpens(r)
    <3>1. [rend EXCEPT ![r].opened = TRUE] \in [RendCircs -> RendRec]
      BY DEF RendRec
    <3>2. [rend EXCEPT ![r].state = "closed"] \in [RendCircs -> RendRec]
      BY DEF RendRec, RendStates
    <3>. QED
      BY <2>1, <3>1, <3>2 DEF RendOpens
  <2>2. CASE RendezvousEstablished(r)
    BY <2>2 DEF RendezvousEstablished, RendRec, RendStates
  <2>3. CASE RendCircFails(r)
    BY <2>3 DEF RendCircFails, RendRec, RendStates
  <2>. QED
    BY <2>1, <2>2, <2>3
<1>2. FetchUnchanged /\ UNCHANGED <<intro, introduced>>
  BY DEF RendOpens, RendezvousEstablished, RendCircFails
<1>. QED
  BY <1>1, <1>2, CircOnly DEF AckWaitKeyed

LEMMA Rendezvous2CInv ==
    ASSUME CInv, NEW r \in RendCircs, NEW mac \in introduced \cup {NoHandshake},
           Rendezvous2(r, mac)
    PROVE  CInv'
<1>. USE DEF CInv, CircTypeOK
<1>1. mac \in Handshake \cup {NoHandshake}
  OBVIOUS
<1>2. rend' \in [RendCircs -> RendRec]
  <2>1. [rend EXCEPT ![r].state = "joined", ![r].peer = mac] \in [RendCircs -> RendRec]
    BY <1>1 DEF RendRec, RendStates
  <2>2. [rend EXCEPT ![r].state = "closed"] \in [RendCircs -> RendRec]
    BY DEF RendRec, RendStates
  <2>. QED
    BY <2>1, <2>2 DEF Rendezvous2
<1>3. FetchUnchanged /\ UNCHANGED <<intro, introduced>>
  BY DEF Rendezvous2
<1>. QED
  BY <1>2, <1>3, CircOnly DEF AckWaitKeyed

\* An intro circuit failing notes a timeout or an unreachable intro point.
LEMMA IntroCircFailsCInv ==
    ASSUME CInv, NEW c \in IntroCircs, IntroCircFails(c)
    PROVE  CInv'
<1>. DEFINE s == intro[c].svc
            ip == intro[c].auth
            kind == IF intro[c].state = "ack_wait" THEN "Timeout" ELSE "Unreachable"
<1>1. TypeOK'
  <2>1. CASE ip \in IPs /\ (intro[c].state = "ack_wait" \/ ~intro[c].opened)
    <3>1. ipfc' = [ipfc EXCEPT ![s][ip] = Noted(@, kind)] /\ FetchUnchangedButIpfc
      BY <2>1 DEF IntroCircFails
    <3>2. s \in Services /\ kind \in FailureKinds
      BY DEF CInv, CircTypeOK, IntroRec, FailureKinds
    <3>. QED
      BY <2>1, <3>1, <3>2, NoteFailureType DEF CInv, CircTypeOK
  <2>2. CASE ~(ip \in IPs /\ (intro[c].state = "ack_wait" \/ ~intro[c].opened))
    BY <2>2, FetchUnchangedType DEF IntroCircFails, FetchUnchanged, CInv, CircTypeOK
  <2>. QED
    BY <2>1, <2>2
<1>2. intro' \in [IntroCircs -> IntroRec] /\ AckWaitKeyed'
  BY DEF IntroCircFails, CInv, CircTypeOK, IntroRec, IntroStates, AckWaitKeyed
<1>. QED
  BY <1>1, <1>2 DEF IntroCircFails, CInv, CircTypeOK

LEMMA StreamAttachedCInv ==
    ASSUME CInv, NEW st \in Streams, NEW r \in RendCircs, StreamAttached(st, r)
    PROVE  CInv'
<1>1. TypeOK'
  BY ConstAssumption DEF StreamAttached, NoteConnectionSucceeded, CInv,
                         CircTypeOK, TypeOK, StreamStates
<1>. QED
  BY <1>1 DEF StreamAttached, CInv, CircTypeOK, AckWaitKeyed, circVars

LEMMA NextCInv == CInv /\ [ClientNext]_vars => CInv'
<1>. SUFFICES ASSUME CInv, [ClientNext]_vars PROVE CInv'
  OBVIOUS
<1>1. CASE FetchNext /\ UNCHANGED circVars
  <2>1. TypeOK'
    BY <1>1, NextTypeOK DEF Next, CInv, CircTypeOK
  <2>. QED
    BY <1>1, <2>1 DEF CInv, CircTypeOK, AckWaitKeyed, circVars
<1>2. CASE CircNext
  BY <1>2, LaunchIntroCInv, LaunchRendCInv, IntroOpensCInv, SendIntroduce1CInv,
     IntroduceAckCInv, RendStepCInv, Rendezvous2CInv, IntroCircFailsCInv,
     StreamAttachedCInv
  DEF CircNext
<1>3. CASE UNCHANGED vars
  BY <1>3 DEF vars, CInv, CircTypeOK, TypeOK, AckWaitKeyed
<1>. QED
  BY <1>1, <1>2, <1>3 DEF ClientNext

\* The composed client keeps every circuit record and every descriptor-side
\* variable well formed, whichever handler runs: in particular the
\* RELAY_EARLY budget of a re-extended intro circuit never goes negative
\* (hs_client_reextend_intro_circuit) and a NACK is always noted against an
\* intro point of the descriptor (handle_introduce_ack_bad).
THEOREM CircTypeCorrect == ClientSpec => []CircTypeOK
<1>1. CInv => CircTypeOK
  BY DEF CInv
<1>. QED
  BY InitCInv, NextCInv, <1>1, PTL DEF ClientSpec

-----------------------------------------------------------------------------
(* A joined circuit stays joined.                                          *)

\* A step that touches a rend circuit only by closing it keeps every other
\* joined circuit joined.
LEMMA MarkKeepsJoined ==
    ASSUME rend \in [RendCircs -> RendRec], NEW x,
           \/ rend' = [rend EXCEPT ![x].state = "closed"]
           \/ rend' = rend
    PROVE  \A r \in RendCircs :
               rend[r].state = "joined" => rend'[r].state \in {"joined", "closed"}
BY DEF RendRec

LEMMA NextJoined ==
    ASSUME CInv, [ClientNext]_vars
    PROVE  \A r \in RendCircs :
               rend[r].state = "joined" => rend'[r].state \in {"joined", "closed"}
<1>. USE DEF CInv, CircTypeOK
<1>0. CASE UNCHANGED rend
  BY <1>0
<1>1. ASSUME NEW r \in RendCircs, NEW s \in Services, LaunchRend(r, s)
      PROVE  \A x \in RendCircs :
               rend[x].state = "joined" => rend'[x].state \in {"joined", "closed"}
  BY <1>1 DEF LaunchRend
<1>2. ASSUME NEW c \in IntroCircs, NEW r \in RendCircs, SendIntroduce1(c, r)
      PROVE  \A x \in RendCircs :
               rend[x].state = "joined" => rend'[x].state \in {"joined", "closed"}
  <2>1. CASE Introduce1Fails(c, r)
    BY <2>1, MarkKeepsJoined DEF Introduce1Fails
  <2>2. CASE Introduce1Sent(c, r)
    BY <2>2 DEF Introduce1Sent, RendRec
  <2>3. CASE UNCHANGED circVars
    BY <2>3 DEF circVars
  <2>. QED
    BY <1>2, <2>1, <2>2, <2>3 DEF SendIntroduce1
<1>3. ASSUME NEW c \in IntroCircs, IntroduceAck(c)
      PROVE  \A x \in RendCircs :
               rend[x].state = "joined" => rend'[x].state \in {"joined", "closed"}
  <2>1. CASE IntroAckSuccess(c)
    BY <2>1 DEF IntroAckSuccess, RendRec
  <2>2. CASE IntroAckBad(c)
    <3>1. \/ rend' = [rend EXCEPT ![intro[c].cookie].state = "closed"]
          \/ rend' = rend
      BY <2>2 DEF IntroAckBad, CloseRendOf
    <3>. QED
      BY <3>1, MarkKeepsJoined
  <2>. QED
    BY <1>3, <1>0, <2>1, <2>2 DEF IntroduceAck
<1>4. ASSUME NEW r \in RendCircs,
             \/ RendOpens(r)
             \/ RendezvousEstablished(r)
             \/ RendCircFails(r)
             \/ \E mac \in introduced \cup {NoHandshake} : Rendezvous2(r, mac)
      PROVE  \A x \in RendCircs :
               rend[x].state = "joined" => rend'[x].state \in {"joined", "closed"}
  <2>1. CASE RendOpens(r)
    BY <2>1 DEF RendOpens, RendRec
  <2>2. CASE RendezvousEstablished(r)
    BY <2>2 DEF RendezvousEstablished, RendRec
  <2>3. CASE RendCircFails(r)
    BY <2>3, MarkKeepsJoined DEF RendCircFails
  <2>4. CASE \E mac \in introduced \cup {NoHandshake} : Rendezvous2(r, mac)
    BY <2>4 DEF Rendezvous2, RendRec
  <2>. QED
    BY <1>4, <2>1, <2>2, <2>3, <2>4
<1>5. CASE \/ \E c \in IntroCircs, s \in Services : LaunchIntro(c, s)
           \/ \E c \in IntroCircs : IntroOpens(c)
           \/ \E c \in IntroCircs : IntroCircFails(c)
           \/ \E st \in Streams, r \in RendCircs : StreamAttached(st, r)
           \/ FetchNext /\ UNCHANGED circVars
           \/ UNCHANGED vars
  BY <1>5, <1>0 DEF LaunchIntro, IntroOpens, IntroCircFails, StreamAttached,
                    circVars, vars
<1>. QED
  BY <1>1, <1>2, <1>3, <1>4, <1>5 DEF ClientNext, CircNext

\* A joined rendezvous circuit is never moved back to an earlier purpose: a
\* late INTRODUCE_ACK (handle_introduce_ack_success's REND_JOINED check), a
\* second RENDEZVOUS2 or RENDEZVOUS_ESTABLISHED can only close it.
THEOREM JoinedIsFinalHolds == ClientSpec => JoinedIsFinal
<1>1. CInv /\ [ClientNext]_vars =>
        [\A r \in RendCircs :
            rend[r].state = "joined" => rend'[r].state \in {"joined", "closed"}]_vars
  BY NextJoined
<1>. QED
  BY InitCInv, NextCInv, <1>1, PTL DEF ClientSpec, JoinedIsFinal

-----------------------------------------------------------------------------
(* A NACKed intro point is not extended to again.                         *)

\* Once a NACK is noted against intro point a, client_get_random_intro
\* cannot return a: intro_point_is_usable rejects an entry with error set.
LEMMA NackedUnusable ==
    ASSUME TypeOK, NEW s \in Services, NEW a \in IPs
    PROVE  ~UsableIn([ipfc EXCEPT ![s][a] = Noted(@, "Generic")], s, a)
BY DEF TypeOK, IntroState, UsableIn, Noted

\* The NACK handler re-extends a circuit to an intro point drawn from the
\* cache that already holds the NACK.
LEMMA IntroAckBadReextend ==
    ASSUME CInv, NEW c \in IntroCircs, intro[c].state = "ack_wait",
           IntroAckBad(c), intro'[c].state = "introducing"
    PROVE  intro'[c].exit # intro[c].auth
<1>. DEFINE s == intro[c].svc
            a == intro[c].auth
            f == [ipfc EXCEPT ![s][a] = Noted(@, "Generic")]
<1>1. s \in Services /\ a \in IPs
  BY DEF CInv, CircTypeOK, IntroRec, AckWaitKeyed
<1>2. ~UsableIn(f, s, a)
  BY <1>1, NackedUnusable DEF CInv, CircTypeOK
<1>3. \E ip \in RandomIntroChoices(s, f) :
         intro' = [intro EXCEPT ![c].state = "introducing", ![c].exit = ip,
                                ![c].opened = FALSE, ![c].early = @ - 1]
  BY DEF IntroAckBad, CloseRendOf, CInv, CircTypeOK, IntroRec
<1>. QED
  BY <1>2, <1>3 DEF RandomIntroChoices, CInv, CircTypeOK, IntroRec

\* No handler but the NACK handler moves a circuit out of ACK_WAIT to
\* anything but closed, and it only moves its own circuit.
LEMMA NextReextend ==
    ASSUME CInv, [ClientNext]_vars, NEW c \in IntroCircs,
           intro[c].state = "ack_wait", intro'[c].state = "introducing"
    PROVE  intro'[c].exit # intro[c].auth
<1>. USE DEF CInv, CircTypeOK
<1>0. CASE intro'[c] = intro[c]
  BY <1>0
<1>1. ASSUME NEW x \in IntroCircs, NEW s \in Services, LaunchIntro(x, s)
      PROVE  FALSE
  BY <1>1 DEF LaunchIntro, IntroRec
<1>2. ASSUME NEW x \in IntroCircs, IntroOpens(x) PROVE FALSE
  BY <1>2 DEF IntroOpens, IntroRec
<1>3. ASSUME NEW x \in IntroCircs, NEW r \in RendCircs, SendIntroduce1(x, r)
      PROVE  intro'[c].exit # intro[c].auth
  BY <1>3, <1>0 DEF SendIntroduce1, Introduce1Fails, Introduce1Sent, circVars,
                    IntroRec
<1>4. ASSUME NEW x \in IntroCircs, IntroduceAck(x)
      PROVE  intro'[c].exit # intro[c].auth
  <2>1. CASE x = c /\ IntroAckBad(x)
    BY <2>1, IntroAckBadReextend
  <2>2. CASE x # c /\ IntroAckBad(x)
    BY <2>2, <1>0 DEF IntroAckBad, IntroRec
  <2>3. CASE ~IntroAckBad(x)
    BY <1>4, <2>3 DEF IntroduceAck, IntroAckSuccess, IntroRec
  <2>. QED
    BY <2>1, <2>2, <2>3
<1>5. ASSUME NEW x \in IntroCircs, IntroCircFails(x) PROVE FALSE
  BY <1>5 DEF IntroCircFails, IntroRec
<1>6. CASE \/ \E r \in RendCircs, s \in Services : LaunchRend(r, s)
           \/ \E r \in RendCircs : RendOpens(r)
           \/ \E r \in RendCircs : RendezvousEstablished(r)
           \/ \E r \in RendCircs, mac \in introduced \cup {NoHandshake} :
                 Rendezvous2(r, mac)
           \/ \E r \in RendCircs : RendCircFails(r)
           \/ \E st \in Streams, r \in RendCircs : StreamAttached(st, r)
           \/ FetchNext /\ UNCHANGED circVars
           \/ UNCHANGED vars
  BY <1>6, <1>0 DEF LaunchRend, RendOpens, RendezvousEstablished, Rendezvous2,
                    RendCircFails, StreamAttached, circVars, vars
<1>. QED
  BY <1>1, <1>2, <1>3, <1>4, <1>5, <1>6 DEF ClientNext, CircNext

\* hs_client_reextend_intro_circuit never sends a NACKed circuit back to the
\* intro point that nacked it, whatever the other circuits of the service
\* noted in between: handle_introduce_ack_bad notes the NACK before
\* client_get_random_intro reads the cache.
THEOREM ReextendAvoidsNackedHolds == ClientSpec => ReextendAvoidsNacked
<1>1. CInv /\ [ClientNext]_vars =>
        [\A c \in IntroCircs :
            intro[c].state = "ack_wait" /\ intro'[c].state = "introducing"
               => intro'[c].exit # intro[c].auth]_vars
  BY NextReextend
<1>. QED
  BY InitCInv, NextCInv, <1>1, PTL DEF ClientSpec, ReextendAvoidsNacked

-----------------------------------------------------------------------------
(* The refinement of HsStreams.                                            *)

\* The abstract stream states of a stream map.
AS(strm) == [st \in Streams |-> AbsStreamState(strm[st])]

PendingIn(a) == {st \in Streams : a[st] = "pending"}

\* A step that closes pending streams F and leaves the sessions alone is a
\* Fail step of HsStreams, or a stutter when F is empty.
LEMMA AbsFail ==
    ASSUME NEW F \in SUBSET Streams, F \subseteq PendingIn(AS(streams)),
           AS(streams') = Abs!CloseAll(F, AS(streams)),
           Sessions' = Sessions
    PROVE  [Abs!ANext]_Abs!absVars
<1>1. CASE F = {}
  <2>1. AS(streams') = AS(streams)
    BY <1>1 DEF AS, Abs!CloseAll
  <2>. QED
    BY <2>1 DEF AS, Abs!absVars
<1>2. CASE F # {}
  <2>1. Abs!Fail(F)
    BY <1>2 DEF AS, PendingIn, Abs!Fail, Abs!Pending
  <2>. QED
    BY <2>1 DEF Abs!ANext
<1>. QED
  BY <1>1, <1>2

\* A step that leaves the streams alone is a SessionsChange step.
LEMMA AbsSessions ==
    ASSUME streams' = streams, Sessions' \in SUBSET Services
    PROVE  [Abs!ANext]_Abs!absVars
<1>1. Abs!SessionsChange
  BY DEF Abs!SessionsChange, AS
<1>. QED
  BY <1>1 DEF Abs!ANext

\* The streams close_all_socks_conns_waiting_for_desc closes.
ClosedBy(S, di, strm) ==
    {st \in Streams : /\ strm[st] = "renddesc_wait"
                      /\ StreamSvc[st] \in S
                      /\ ClosesSocks(StreamSvc[st], di)}

\* Closing the parked streams of S closes abstractly pending streams.
LEMMA CloseWaitingAbs ==
    ASSUME NEW S, NEW di, NEW strm \in [Streams -> StreamStates]
    PROVE  /\ ClosedBy(S, di, strm) \subseteq PendingIn(AS(strm))
           /\ AS(CloseWaiting(S, di, strm))
                = Abs!CloseAll(ClosedBy(S, di, strm), AS(strm))
BY DEF ClosedBy, PendingIn, AS, AbsStreamState, CloseWaiting, Abs!CloseAll

\* Re-parking streams that wait for circuits is invisible abstractly.
LEMMA FlagWaitDescAbs ==
    ASSUME NEW s, NEW strm \in [Streams -> StreamStates]
    PROVE  AS(FlagWaitDesc(s, strm)) = AS(strm)
BY DEF FlagWaitDesc, AS, AbsStreamState

\* A new SOCKS request is a Request step, with the streams its refetch
\* closes at once.
LEMMA StreamRequestAbs ==
    ASSUME TypeOK, NEW st \in Streams, StreamRequest(st), Sessions' = Sessions
    PROVE  [Abs!ANext]_Abs!absVars
<1>. DEFINE s == StreamSvc[st]
            strm0 == [streams EXCEPT ![st] = "renddesc_wait"]
<1>1. AS(streams)[st] = "idle"
  BY DEF StreamRequest, AS, AbsStreamState
<1>2. CASE HaveUsableDesc(s)
  <2>1. AS(streams') = Abs!CloseAll({}, [AS(streams) EXCEPT ![st] = "pending"])
    BY <1>2 DEF StreamRequest, AS, AbsStreamState, Abs!CloseAll, TypeOK
  <2>2. Abs!Request(st, {})
    BY <1>1, <2>1 DEF Abs!Request, AS
  <2>. QED
    BY <2>2 DEF Abs!ANext
<1>3. CASE ~HaveUsableDesc(s)
  <2>. DEFINE F == ClosedBy({s}, dirInfo, strm0)
  <2>1. streams' = CloseWaiting({s}, dirInfo, strm0)
    BY <1>3 DEF StreamRequest
  <2>2. strm0 \in [Streams -> StreamStates]
    BY DEF TypeOK, StreamStates
  <2>3. AS(strm0) = [AS(streams) EXCEPT ![st] = "pending"]
    BY DEF AS, AbsStreamState, TypeOK
  <2>4. /\ F \subseteq PendingIn(AS(strm0))
        /\ AS(streams') = Abs!CloseAll(F, AS(strm0))
    BY <2>1, <2>2, CloseWaitingAbs
  <2>5. F \subseteq Abs!Pending \cup {st}
    BY <2>3, <2>4 DEF PendingIn, Abs!Pending, AS
  <2>6. Abs!Request(st, F)
    BY <1>1, <2>3, <2>4, <2>5 DEF Abs!Request, AS
  <2>7. F \in SUBSET Streams
    BY DEF ClosedBy
  <2>. QED
    BY <2>6, <2>7 DEF Abs!ANext
<1>. QED
  BY <1>2, <1>3

\* hs_client_desc_has_arrived wakes or closes the parked streams of s.
LEMMA DescArrivesAbs ==
    ASSUME TypeOK, NEW s \in Services, NEW D, DescArrives(s, D),
           Sessions' = Sessions
    PROVE  [Abs!ANext]_Abs!absVars
<1>. DEFINE unusable == ~\E ip \in D : Usable(s, ip)
            W == {st \in Streams : streams[st] = "renddesc_wait" /\ StreamSvc[st] = s}
            F == IF unusable THEN W ELSE {}
<1>1. F \in SUBSET Streams /\ F \subseteq PendingIn(AS(streams))
  BY DEF PendingIn, AS, AbsStreamState
<1>2. AS(streams') = Abs!CloseAll(F, AS(streams))
  BY DEF DescArrives, AS, AbsStreamState, Abs!CloseAll
<1>. QED
  BY <1>1, <1>2, AbsFail

\* retry_all_socks_conn_waiting_for_desc closes the streams of services
\* whose refetch ends in a closing status.
LEMMA DirInfoChangedAbs ==
    ASSUME TypeOK, NEW di, DirInfoChanged(di), Sessions' = Sessions
    PROVE  [Abs!ANext]_Abs!absVars
<1>. DEFINE S == {StreamSvc[st] : st \in {x \in Streams : streams[x] = "renddesc_wait"}}
<1>1. streams' = CloseWaiting(S, di, streams)
  BY DEF DirInfoChanged
<1>2. /\ ClosedBy(S, di, streams) \subseteq PendingIn(AS(streams))
      /\ AS(streams') = Abs!CloseAll(ClosedBy(S, di, streams), AS(streams))
  BY <1>1, CloseWaitingAbs DEF TypeOK
<1>3. ClosedBy(S, di, streams) \in SUBSET Streams
  BY DEF ClosedBy
<1>. QED
  BY <1>2, <1>3, AbsFail

\* The transient branch of send_introduce1: the refetch may close parked
\* streams; re-parking the others is invisible.
LEMMA RefetchAndReparkAbs ==
    ASSUME TypeOK, NEW s, RefetchAndRepark(s), Sessions' = Sessions
    PROVE  [Abs!ANext]_Abs!absVars
<1>. DEFINE F == ClosedBy({s}, dirInfo, streams)
<1>1. streams' = FlagWaitDesc(s, CloseWaiting({s}, dirInfo, streams))
  BY DEF RefetchAndRepark
<1>2. /\ F \subseteq PendingIn(AS(streams))
      /\ AS(CloseWaiting({s}, dirInfo, streams)) = Abs!CloseAll(F, AS(streams))
  BY CloseWaitingAbs DEF TypeOK
<1>3. CloseWaiting({s}, dirInfo, streams) \in [Streams -> StreamStates]
  BY CloseWaitingType DEF TypeOK
<1>4. AS(streams') = Abs!CloseAll(F, AS(streams))
  BY <1>1, <1>2, <1>3, FlagWaitDescAbs
<1>5. F \in SUBSET Streams
  BY DEF ClosedBy
<1>. QED
  BY <1>2, <1>4, <1>5, AbsFail

\* A stream attached to a joined rend circuit of its service is a Connect.
LEMMA StreamAttachedAbs ==
    ASSUME TypeOK, NEW st \in Streams, NEW r \in RendCircs, StreamAttached(st, r)
    PROVE  [Abs!ANext]_Abs!absVars
<1>1. AS(streams)[st] = "pending"
  BY DEF StreamAttached, AS, AbsStreamState
<1>2. StreamSvc[st] \in Sessions
  BY DEF StreamAttached, Sessions
<1>3. AS(streams') = [AS(streams) EXCEPT ![st] = "connected"]
  BY DEF StreamAttached, NoteConnectionSucceeded, AS, AbsStreamState, TypeOK
<1>4. Sessions' = Sessions
  BY DEF StreamAttached, circVars, Sessions
<1>5. Abs!Connect(st)
  BY <1>1, <1>2, <1>3, <1>4 DEF Abs!Connect, AS
<1>. QED
  BY <1>5 DEF Abs!ANext

LEMMA NextAbs ==
    ASSUME CInv, CInv', [ClientNext]_vars
    PROVE  [Abs!ANext]_Abs!absVars
<1>. USE DEF CInv, CircTypeOK
<1>0. Sessions' \in SUBSET Services
  BY DEF Sessions, RendRec
<1>1. CASE FetchNext /\ UNCHANGED circVars
  <2>1. Sessions' = Sessions
    BY <1>1 DEF circVars, Sessions
  <2>2. CASE \E st \in Streams : StreamRequest(st)
    BY <2>1, <2>2, StreamRequestAbs
  <2>3. CASE \E s \in Services, D \in SUBSET IPs : DescArrives(s, D)
    BY <2>1, <2>3, DescArrivesAbs
  <2>4. CASE \E di \in BOOLEAN : DirInfoChanged(di)
    BY <2>1, <2>4, DirInfoChangedAbs
  <2>5. CASE \/ \E s \in Services : FetchFails(s)
             \/ Newnym
             \/ \E s \in Services, ip \in IPs : IntroStateExpire(s, ip)
    <3>1. streams' = streams
      BY <2>5 DEF FetchFails, Newnym, IntroStateExpire
    <3>. QED
      BY <1>0, <3>1, AbsSessions
  <2>. QED
    BY <1>1, <2>2, <2>3, <2>4, <2>5 DEF FetchNext
<1>2. ASSUME NEW c \in IntroCircs, NEW r \in RendCircs, SendIntroduce1(c, r)
      PROVE  [Abs!ANext]_Abs!absVars
  <2>1. CASE RefetchAndRepark(intro[c].svc) /\ UNCHANGED circVars
    <3>1. Sessions' = Sessions
      BY <2>1 DEF circVars, Sessions
    <3>. QED
      BY <2>1, <3>1, RefetchAndReparkAbs
  <2>2. CASE Introduce1Fails(c, r) \/ Introduce1Sent(c, r)
    <3>1. streams' = streams
      BY <2>2 DEF Introduce1Fails, Introduce1Sent, FetchUnchanged,
                  FetchUnchangedButIpfc
    <3>. QED
      BY <1>0, <3>1, AbsSessions
  <2>. QED
    BY <1>2, <2>1, <2>2 DEF SendIntroduce1
<1>3. ASSUME NEW st \in Streams, NEW r \in RendCircs, StreamAttached(st, r)
      PROVE  [Abs!ANext]_Abs!absVars
  BY <1>3, StreamAttachedAbs
<1>4. CASE \/ \E c \in IntroCircs, s \in Services : LaunchIntro(c, s)
           \/ \E r \in RendCircs, s \in Services : LaunchRend(r, s)
           \/ \E c \in IntroCircs : IntroOpens(c)
           \/ \E c \in IntroCircs : IntroduceAck(c)
           \/ \E r \in RendCircs : RendOpens(r)
           \/ \E r \in RendCircs : RendezvousEstablished(r)
           \/ \E r \in RendCircs, mac \in introduced \cup {NoHandshake} :
                 Rendezvous2(r, mac)
           \/ \E c \in IntroCircs : IntroCircFails(c)
           \/ \E r \in RendCircs : RendCircFails(r)
  <2>1. streams' = streams
    BY <1>4 DEF LaunchIntro, LaunchRend, IntroOpens, IntroduceAck,
                IntroAckSuccess, IntroAckBad, RendOpens, RendezvousEstablished,
                Rendezvous2, IntroCircFails, RendCircFails, FetchUnchanged,
                FetchUnchangedButIpfc
  <2>. QED
    BY <1>0, <2>1, AbsSessions
<1>5. CASE UNCHANGED vars
  BY <1>0, <1>5, AbsSessions DEF vars
<1>. QED
  BY <1>1, <1>2, <1>3, <1>4, <1>5 DEF ClientNext, CircNext

\* The client implements the abstract stream specification HsStreams for
\* every set of services, streams and circuits: the fetch, retry, re-park
\* and circuit callbacks only ever take a SOCKS stream from its request to
\* connected or closed, and hs_client_note_connection_attempt_succeeded
\* runs only for a service with a joined rendezvous circuit.
THEOREM ImplementsStreams == ClientSpec => RefinesStreams
<1>1. Init => Abs!AInit
  <2>1. Init => Sessions = {}
    BY DEF Init, Sessions, UnusedRend
  <2>. QED
    BY <2>1 DEF Init, FetchInit, Abs!AInit, AbsStreamState
<1>2. CInv /\ [ClientNext]_vars => CInv' /\ [Abs!ANext]_Abs!absVars
  BY NextCInv, NextAbs
<1>. QED
  BY InitCInv, <1>1, <1>2, PTL DEF ClientSpec, RefinesStreams, Abs!ASpec

=============================================================================
