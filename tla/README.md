# Formal model of the v3 onion-service client (`hs_client.c`)

This directory holds TLA+ models of the client side of Tor's v3 onion services,
`src/tor/src/or/hs_client.c`. It contains TLC configurations that model-check
them on small instances, and TLAPS proofs that hold for every instance.

## The system

`hs_client.c` is event driven. Tor's main loop calls into it from other
subsystems, one callback at a time. There are no threads, so the hazards come
from the *order* of callbacks, not from data races. The file has these parts:

| Part | Code | What it does |
|---|---|---|
| Fetch scheduler (FS) | `hs_client_refetch_hsdesc`, `can_client_refetch_desc`, `fetch_v3_desc`, `pick_hsdir_v3`, `purge_hid_serv_request` | decides whether to fetch a descriptor, picks an HSDir not queried recently, and launches the directory request |
| Stream reconciliation | `close_all_socks_conns_waiting_for_desc`, `flag_all_conn_wait_desc`, `retry_all_socks_conn_waiting_for_desc`, `hs_client_desc_has_arrived`, `note_connection_attempt_succeeded` | moves SOCKS streams between *waiting for descriptor* (RENDDESC_WAIT) and *waiting for circuits*, or closes them |
| Descriptor cache view (DCV) | `hs_client_decode_descriptor`, `hs_client_any_intro_points_usable` | a stored descriptor is usable if one of its intro points is |
| Intro-point failure cache (IPFC) | `intro_point_is_usable` (the cache itself is in `hs_cache.c`) | remembers error, timeout and unreachable counts per (service, intro point) |
| Intro state machine (ISM) | `client_intro_circ_has_opened`, `send_introduce1`, `handle_introduce_ack*`, `close_or_reextend_intro_circ`, `hs_client_reextend_intro_circuit` | INTRODUCING → INTRODUCE_ACK_WAIT → ACKED, or NACK → re-extend or close |
| Rendezvous state machine (RSM) | `client_rendezvous_circ_has_opened`, `hs_client_receive_rendezvous_acked`, `handle_rendezvous2` | ESTABLISH_REND → REND_READY → READY_INTRO_ACKED → REND_JOINED |
| Purge | `hs_client_purge_state` (SIGNAL NEWNYM), `hs_client_dir_info_changed` | resets the client state, or retries parked streams |

How they interact:
- A SOCKS request without a usable descriptor is parked and a fetch is ordered.
- The arrival of the descriptor wakes the parked streams, and circuits are launched.
- An intro circuit that finds the descriptor unusable orders a refetch and parks the streams again.
- INTRODUCE_ACK results feed the IPFC, and the IPFC decides usability.
- `hs_client_note_connection_attempt_succeeded` purges the HSDir memory.

## Modules

- **`HsFetch`** models FS, the stream reconciliation, DCV and IPFC.
  - Variables:
    - `dirInfo`: whether there is a live consensus and minimum dir info.
    - `cached` and `desc[s]`: a descriptor is the set of intro points it lists.
    - `ipfc[s][ip]`: an `hs_cache_intro_state_t`. The clean record stands for "no entry".
    - `fetches[s]`: the in-flight directory connections.
    - `queried[s]`: the HSDir request memory.
    - `streams[st]`: the AP connection state.
    - `lastFetch`: a history variable holding the status returned by a refetch in the last step.
  - One action per handler: `DescArrives` (`hs_client_desc_has_arrived`), `FetchFails`, `DirInfoChanged` (`hs_client_dir_info_changed` with `retry_all_...`), `Newnym` (`hs_client_purge_state`). Each refetch is the whole `hs_client_refetch_hsdesc`: pre-checks, launch or NoHsDirs, then close-and-purge (`Refetch`, `CloseWaiting`).
  - The circuit layer appears only through the two calls it makes into this side:
    - the transient branch of `send_introduce1` (`RefetchAndRepark`: refetch, then `flag_all_conn_wait_desc`, in that order);
    - `note_connection_attempt_succeeded`.
  - `StreamRequest` (connection_edge.c), `FetchFails` (the end of a failed fetch, directory.c), `Noted`, `NoteFailure` and `IntroStateExpire` (hs_cache.c) are outside `src/`, so they are modelled from the spec.
  - `Noted` increments the unreachable counter without limit, as `hs_cache_client_intro_state_note` does. The free `NoteFailure` action stands for reports from the environment; it stops reporting an intro point unreachable once the counter reaches `MaxReach`. A further report would change no verdict of `intro_point_is_usable`, which reads the counter only as `>= MaxReach`. This bound keeps the state space finite. In `HsCircuits` the unreachable notes come from circuit failures and are bounded by the finite set of circuits.
- **`HsCircuits`** EXTENDS `HsFetch` and adds ISM and RSM.
  - `intro[c]` and `rend[r]` are records: purpose, service, chosen exit, `hs_ident` keys, RELAY_EARLY budget, and whether the circuit has opened.
  - A rendezvous circuit's id is its cookie. An intro point's enc key is identified with the intro point.
  - A RENDEZVOUS2 MAC is abstracted to the handshake inputs it binds, `[cookie, auth, enc]`.
  - `introduced` records the INTRODUCE1 cells the service received. An intro point relays a cell only if it was built with its own keys.
  - Intro and rendezvous points are untrusted: they can send ACK, NACK, RENDEZVOUS_ESTABLISHED and RENDEZVOUS2 at any time on an open circuit, including forged RENDEZVOUS2 cells (`NoHandshake`).
  - NoteFailure is not a free action here. Failures are noted exactly where the code notes them: NACK in `IntroAckBad`, timeout or unreachable in `IntroCircFails`.
  - Circuit launch and circuit failure are in `circuituse.c` and are modelled from the spec.
- **`IntroSelect`** models `client_get_random_intro` as the loop it runs.
  - The inputs of one call are chosen in the initial state: which intro points the failure cache deems usable, which convert to an `extend_info` (`desc_intro_point_to_extend_info`), which are in ExcludeNodes, and StrictNodes.
  - `Begin` is the entry check, `Pick(ip)` one iteration of the `while` loop (random pick, `smartlist_del`, skip, hold aside an excluded pick, return a good one), `Exhausted` the code after the loop.
  - `live` tracks the `extend_info` objects the call allocated and has not freed.
  - `SelectionCorrect` compares the result with a reference definition of what the call may return (`ReferenceChoices`).
  - `HsCircuits` uses that reference choice, with no ExcludeNodes set, when it launches or re-extends an intro circuit.
- **`HsStreams`** is the abstract specification of what the client promises a SOCKS stream.
  - A stream goes idle → pending → connected or closed, and never back.
  - It is connected only to a service with which the client holds a session.
  - Several pending streams may be closed in one step.
  - `HsCircuits` implements it through a refinement mapping: RENDDESC_WAIT and CIRCUIT_WAIT are both "pending", and the sessions are the services of joined rendezvous circuits.
- **`HsFetchProofs`**, **`HsCircuitsProofs`** and **`IntroSelectProofs`** hold the TLAPS proofs.
- **`MCHsFetch`, `MCHsCircuits`, `MCIntroSelect`** instantiate the models for TLC.

Data is abstracted: keys, HSDirs and streams are model values. Formatting,
logging, base32 addresses and the descriptor parser are left out; a descriptor
that fails to decode or to verify is a `FetchFails` step. A refetch the
directory code may order after a failed fetch is not modelled. The time period is
folded into the service, because the HSDir memory is keyed by the current
blinded key.

## Runs

| Run | Config | Expect | What it shows |
|---|---|---|---|
| fetch_safety | `MCHsFetch.cfg` | pass | see below |
| fetch_notallowed | `MCHsFetch_NotAllowed.cfg` | violation | NotAllowed leaves streams parked |
| fetch_repark | `MCHsFetch_ReparkOrder.cfg` | violation | streams re-parked after NoHsDirs, with no fetch in flight |
| fetch_havedesc_stall | `MCHsFetch_HaveDescStall.cfg` | violation | the "impossible" HaveDesc case in `retry_all_...` is reachable |
| newnym_cancel | `MCHsFetch_Newnym.cfg` | violation | NEWNYM cancels no descriptor fetch |
| circuits_safety | `MCHsCircuits.cfg` | pass | see below |
| circuits_stale_auth | `MCHsCircuits_StaleAuth.cfg` | violation | intro circuit opens without its intro point's auth key |
| circuits_refinement | `MCHsCircuits_Refine.cfg` | pass | the client implements `HsStreams` |
| intro_select | `MCIntroSelect.cfg` | pass | `client_get_random_intro` returns what the reference allows |
| intro_select_leak | `MCIntroSelect_Leak.cfg` | violation | the held-aside excluded `extend_info` leaks |

**fetch_safety** checks three properties:
- `AtMostOneFetch`: at most one fetch per service.
- `WokenOnlyWithUsableDesc`: streams move to waiting-for-circuits only with a usable descriptor.
- `IntroFailuresPersist`: IPFC entries lose failures only on expiry or NEWNYM, never on a successful connection.

It covers every interleaving of requests, arrivals, directory changes, NEWNYM,
failures and the two circuit callbacks. It reaches 317k distinct states.

**circuits_safety** checks three properties:
- `JoinedIsFinal`: an INTRODUCE_ACK arriving after RENDEZVOUS2 does not move a joined circuit back.
- `ReextendAvoidsNacked`: a NACKed intro circuit is never re-extended to the intro point that nacked it. `handle_introduce_ack_bad` notes the NACK in the failure cache, and only then does `close_or_reextend_intro_circ` ask `client_get_random_intro` for a new intro point (lines 1028-1031). Reading the cache before the note would send the circuit straight back, and TLC finds that mutant.
- `CircTypeOK`: this includes that the RELAY_EARLY budget never goes negative.

It reaches about 300k distinct states.

**circuits_refinement** checks `RefinesStreams == Abs!ASpec`, with `Abs == INSTANCE HsStreams WITH ...`. It uses two streams of one service and one intro circuit, and reaches 34k distinct states. Every fetch, retry, re-park and circuit step maps to a Request, Fail, Connect or SessionsChange step of `HsStreams`, or to a stutter:
- A re-park (`flag_all_conn_wait_desc`) is invisible, because both waiting states are "pending".
- A refetch that closes parked streams is a Fail step.
- A stream is attached only to a joined rendezvous circuit.

**intro_select** checks `SelectionCorrect` over every input with three intro points (1,768 distinct states under symmetry of the intro points): the result is a usable, convertible, non-excluded intro point when one exists; otherwise the last excluded one unless StrictNodes is set; otherwise NULL.

Every property of the passing runs has a mutant in `PROJECT.json` that TLC catches:
- the pending pre-check dropped (`AtMostOneFetch`);
- the unusable check dropped on arrival (`WokenOnlyWithUsableDesc`);
- the failure cache reset on success (`IntroFailuresPersist`);
- the RELAY_EARLY check dropped (`CircTypeOK`);
- the REND_JOINED check dropped (`JoinedIsFinal`);
- the new intro point drawn from the cache as it was before the NACK (`ReextendAvoidsNacked`);
- a stream attached to a rendezvous circuit that has not joined (`RefinesStreams`);
- StrictNodes ignored after the selection loop (`SelectionCorrect`).

### Findings

1. **NotAllowed does not close parked streams** (`hs_client.c:1280`).
   - The pre-checks return before the close-and-purge branch.
   - `fetch_status_should_close_socks` lists NotAllowed, but that branch never sees it.
   - Counterexample in 2 states.
2. **Streams are re-parked after a terminal status** (`hs_client.c:548-551`).
   - `send_introduce1` refetches (NoHsDirs closes the parked streams and purges the HSDir memory).
   - It then flags the streams waiting for circuits back to RENDDESC_WAIT.
   - They now wait with no fetch in flight.
3. **The "impossible" HaveDesc case** (`hs_client.c:268`).
   - A stream parked while every intro point was unusable stays parked when an IPFC entry expires.
   - `retry_all_...` then gets HaveDesc and skips the stream, so nothing wakes it.
4. **NEWNYM cancels nothing** (`hs_client.c:94`).
   - `cancel_descriptor_fetches` passes a purpose where a connection state is expected.
5. **An intro circuit opens without its auth key** (`hs_client.c:623`).
   - NEWNYM, or a descriptor replacement, between launch and open makes `setup_intro_circ_auth_key` hit its BUG/"not supposed to happen" branch.

6. **`client_get_random_intro` leaks an `extend_info_t`** (`hs_client.c:852`).
   - An excluded pick is kept in `ei_excluded`, and the loop goes on.
   - A later good pick jumps to `end` and returns `ei`. `ei_excluded` is freed only when another excluded pick replaces it, or under StrictNodes.
   - Counterexample: two usable intro points, the first one picked is excluded.
### Bounds

`MCHsFetch` uses:
- one service (the refetch of a set of services is evaluated at once, and services share no state);
- two intro points, so a descriptor can be usable, partly usable or unusable;
- two HSDirs, so NoHsDirs is reached only after a retry;
- two streams (symmetric), so one can be re-parked while another waits;
- `MaxReach = 3`, so a third unreachable report makes an intro point unusable.

`MCHsCircuits` uses:
- two intro circuits, so a rendezvous circuit can be introduced twice;
- one rendezvous circuit and one stream;
- `RelayEarly = 1`, so one re-extension happens, and a NACK on the re-extended circuit meets an empty budget;
- `MaxReach = 2`.

Every action and every branch of `IntroAckBad` fires: re-extend, out of RELAY_EARLY (reached after an IPFC expiry), no intro point left, extension failure.

`MCHsCircuits_Refine` uses two streams instead of one, so that a refetch can close one stream while another is re-parked or attached. It uses one intro circuit to stay small.

`MCIntroSelect` uses three intro points. With three, an excluded pick can come before and after a good pick, and a skipped pick can fall between two excluded ones. Every subset of them is tried as the usable, convertible and excluded sets, with and without StrictNodes.

### Fairness

No run assumes fairness, and no liveness property is checked. A stream parked for a descriptor is not promised an answer by this file: the SOCKS timeout of `connection_edge.c` expires it (the comment at `hs_client.c:1433-1437`), and that code is not modelled. The selection loop terminates because every iteration removes its pick (`smartlist_del` at line 816); `Pick` does the same in every branch.

## Proofs (`HsFetchProofs`)

- **`TypeCorrect`**: `Spec => []TypeOK`.
  - There is one step per action.
  - It rests on lemmas about the building blocks: `Noted` keeps an entry in `IntroState` (the unreachable counter stays a natural number), `Refetch`, `CloseWaiting`, `FlagWaitDesc` and `FetchStatus`.
  - No run checks `TypeOK` on its own; the theorem is the base the other proofs use.
- **`AtMostOneFetchHolds`**: `Spec => []AtMostOneFetch`.
  - It uses the inductive invariant `IInv == TypeOK /\ AtMostOneFetch`. The type part is needed to know that `fetches[s]` is a natural number.
  - The key lemmas:
    - `LaunchedOk`: a Launched status passed the pre-checks.
    - `PrecheckOkNoFetch`: passing them means `fetches[s] = 0`.
    - `RefetchAtMostOne`: a refetch over any set of services increments only counters that were 0.

- **`WokenOnlyWithUsableDescHolds`**: `Spec => WokenOnlyWithUsableDesc` (I2).
  - `NextWoken` goes through the actions. Only two steps move a stream to CIRCUIT_WAIT: a request that finds a usable descriptor, and an arrival whose descriptor lists a usable intro point. Both leave the failure cache alone, so the descriptor is still usable after the step.
  - `CloseWaiting` and `FlagWaitDesc` never produce CIRCUIT_WAIT (`CloseWaitingNoWake`, `FlagWaitDescNoWake`).
- **`IntroFailuresPersistHolds`**: `Spec => IntroFailuresPersist` (I5).
  - `NotedAccumulates`: `Noted` only adds a failure. The unreachable counter never decreases.
  - `NotedStep`: noting one entry keeps every entry accumulating.
  - `NextPersist`: every other step leaves the cache as it is, except `IntroStateExpire` of that very entry and `Newnym`.
- Both action properties follow from `TypeCorrect` and a step lemma, by PTL.

The theorems assume `ConstAssumption`, that is `HSDirs # {}`, `MaxReach \in Nat \ {0}`, and well-typed `StreamSvc` and `Responsible`. They hold for every number of services, intro points, HSDirs and streams.

## Proofs (`HsCircuitsProofs`)

- **`CircTypeCorrect`**: `ClientSpec => []CircTypeOK`, for the composed client.
  - The type invariant is not inductive by itself. A NACK notes a failure at `ipfc[s][intro[c].auth]`, so that key must be an intro point.
  - The inductive invariant is `CInv == CircTypeOK /\ AckWaitKeyed`.
  - There is one lemma per circuit action.
  - `AckWaitKeyed` says an intro circuit in ACK_WAIT has the auth key of an intro point. It holds because `send_introduce1` sends only on an ident whose key it found in the descriptor.
  - The descriptor-side steps reuse `NextTypeOK` from `HsFetchProofs`: the transient branch of `send_introduce1` is `IntroduceWithoutDesc`. A failure noted by a circuit step keeps the cache typed by `NotedType`.
- **`JoinedIsFinalHolds`**: `ClientSpec => JoinedIsFinal`, the action property of circuits_safety. `NextJoined` shows, action by action, that a joined circuit stays joined or is closed.
- **`ReextendAvoidsNackedHolds`**: `ClientSpec => ReextendAvoidsNacked`.
  - `NackedUnusable`: after the NACK is noted against intro point a, `UsableIn` rejects a, because its error flag is set.
  - `IntroAckBadReextend`: the re-extension branch draws its intro point from that updated cache. `AckWaitKeyed`, part of `CInv`, makes the nacked key an intro point of the cache.
  - `NextReextend`: no other handler moves a circuit out of ACK_WAIT to INTRODUCING. A NACK of another circuit leaves this one alone.
- **`ImplementsStreams`**: `ClientSpec => RefinesStreams`, the refinement of `HsStreams`.
  - The initial state maps to `AInit`. Each step maps to an abstract step or a stutter.
  - `CloseWaitingAbs` shows that closing the parked streams is `CloseAll` of abstractly pending streams, and `FlagWaitDescAbs` that re-parking changes nothing abstractly.

These hold for every instance satisfying `ConstAssumption` and `CircAssumption`: `RelayEarly \in Nat`, `NoIP \notin IPs`, `NoCirc \notin RendCircs`, `Services # {}`.

## Proofs (`IntroSelectProofs`)

- **`SelectionCorrectHolds`**: `SelectSpec => []SelectionCorrect`, for every set of intro points.
  - `SelectionCorrect` is not inductive: it says nothing until the call returns, and `Exhausted` returns `ei_excluded`.
  - The inductive invariant `SInv` adds `SelTypeOK` and `LoopInv`. While the loop runs, `ei` is still NULL. Every good intro point is still in `usable_ips`. `ei_excluded` is an excluded usable pick, or NULL only while every excluded usable intro point is still listed.
  - There is one lemma per action. A skipped pick is neither good nor held. A held pick becomes `ei_excluded`. When the list is empty, the invariant gives no good point, and a NULL `ei_excluded` means no held point. The induction is over steps, not over the data, so no recursive definition is involved.
`SelectAssumption` (`NoIP \notin IPs`) is the only assumption.

## What only TLC checks

- the violation runs;
- `NoLeak`, which is false.

Every invariant and action property of a passing run is also proved. Liveness and ENABLED are out of TLAPS's reach, but the project states no liveness property.

## Not modelled

- The v2 (`rend_data`) paths: they dispatch into code that is not in this repository.
- `fetch_status_to_string`, logging and control-port events.
- `hs_client_free_all`.
- ExcludeNodes inside `HsCircuits`. The circuit model chooses among the usable intro points of the descriptor, which is the reference of `IntroSelect` with no ExcludeNodes set and every intro point convertible. `IntroSelect` checks the loop against that reference on its own.
- The SOCKS timeout that expires parked streams (`connection_edge.c`), and the refetch the directory code may order after a failed fetch (`directory.c`).
- The unknown INTRODUCE_ACK status. It is logged and changes nothing, so it is a stutter.
- The cryptography, which is abstracted to the handshake inputs a MAC binds.

## Plan for the next steps

1. A liveness property for the circuit side: with fair circuit callbacks and a supply of fresh circuits, a stream waiting for circuits is eventually attached or closed. This needs circuit relaunch in the model, since circuits are now used once.
2. A proof that the descriptor side alone (`HsFetch`) refines `HsStreams`.
3. A larger `MCHsCircuits` instance (two services) to exercise the per-service separation of the failure cache.
4. The SOCKS timeout, so that a liveness property about parked streams can say what the client really promises.
