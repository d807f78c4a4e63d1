------------------------------ MODULE HsStreams ------------------------------
(***************************************************************************)
(* What the onion-service client promises a SOCKS stream, abstractly: a    *)
(* stream that asks for a service is pending until it is connected or      *)
(* closed, never goes back, and is connected only to a service with which  *)
(* the client holds an authenticated rendezvous session.  Sessions come    *)
(* and go as the network lets them.  Several pending streams may be closed *)
(* in one step (a fetch that fails closes every stream that waits for it). *)
(***************************************************************************)
CONSTANTS
    Services,
    Streams,
    StreamSvc

VARIABLES
    astreams,   \* astreams[st]: "idle", "pending", "connected" or "closed"
    sessions    \* services with an authenticated rendezvous session

absVars == <<astreams, sessions>>

AStates == {"idle", "pending", "connected", "closed"}

Pending == {st \in Streams : astreams[st] = "pending"}

\* Close the streams F.
CloseAll(F, a) == [st \in Streams |-> IF st \in F THEN "closed" ELSE a[st]]

\* A stream asks for its service; the request, and any other pending
\* streams F, may fail at once.
Request(st, F) ==
    /\ astreams[st] = "idle"
    /\ F \subseteq Pending \cup {st}
    /\ astreams' = CloseAll(F, [astreams EXCEPT ![st] = "pending"])
    /\ UNCHANGED sessions

\* Pending streams F fail.
Fail(F) ==
    /\ F # {}
    /\ F \subseteq Pending
    /\ astreams' = CloseAll(F, astreams)
    /\ UNCHANGED sessions

\* A pending stream is connected over a session with its service.
Connect(st) ==
    /\ astreams[st] = "pending"
    /\ StreamSvc[st] \in sessions
    /\ astreams' = [astreams EXCEPT ![st] = "connected"]
    /\ UNCHANGED sessions

\* Sessions are set up or torn down.
SessionsChange ==
    /\ sessions' \in SUBSET Services
    /\ UNCHANGED astreams

AInit ==
    /\ astreams = [st \in Streams |-> "idle"]
    /\ sessions = {}

ANext ==
    \/ \E st \in Streams, F \in SUBSET Streams : Request(st, F)
    \/ \E F \in SUBSET Streams : Fail(F)
    \/ \E st \in Streams : Connect(st)
    \/ SessionsChange

ASpec == AInit /\ [][ANext]_absVars

=============================================================================
