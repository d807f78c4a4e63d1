----------------------------- MODULE IntroSelect -----------------------------
(***************************************************************************)
(* client_get_random_intro (src/or/hs_client.c): the choice of the intro   *)
(* point an intro circuit is launched or re-extended to, as the loop the   *)
(* code runs.  The descriptor lists the intro points IPs; the inputs of    *)
(* one call are which of them the failure cache deems usable, which can be *)
(* converted to an extend_info (desc_intro_point_to_extend_info), which    *)
(* fall in ExcludeNodes, and StrictNodes.  They are chosen in the initial  *)
(* state, so one run covers every input.  The extend_info objects the call *)
(* has allocated and not freed are tracked by intro point (each intro      *)
(* point is picked at most once per call).                                 *)
(***************************************************************************)
EXTENDS FiniteSets

CONSTANTS
    IPs,    \* the intro points of the cached descriptor
    NoIP    \* a NULL extend_info

ASSUME SelectAssumption == NoIP \notin IPs

VARIABLES
    usable,       \* intro points intro_point_is_usable accepts
    convertible,  \* intro points with link specifiers we can extend to
    excluded,     \* intro points whose extend_info is in ExcludeNodes
    strict,       \* options->StrictNodes
    phase,        \* "start", "loop" (the while loop) or "done" (returned)
    pool,         \* usable_ips: intro points not picked yet
    eiExcluded,   \* ei_excluded: the last excluded pick, or NoIP
    ei,           \* ei: the value returned
    live          \* extend_info objects allocated by the call and not freed

selVars == <<usable, convertible, excluded, strict, phase, pool, eiExcluded,
             ei, live>>

\* The entry check: a missing descriptor or one without usable intro points
\* returns NULL at once; otherwise every listed intro point is a candidate.
Begin ==
    /\ phase = "start"
    /\ IF usable = {}
       THEN /\ phase' = "done"
            /\ UNCHANGED pool
       ELSE /\ phase' = "loop"
            /\ pool' = IPs
    /\ UNCHANGED <<usable, convertible, excluded, strict, eiExcluded, ei, live>>

\* One iteration: pick ip at random and remove it from the list; skip it if
\* unusable or not convertible; keep an excluded one aside (freeing the one
\* kept before); return any other.
Pick(ip) ==
    /\ phase = "loop"
    /\ ip \in pool
    /\ pool' = pool \ {ip}
    /\ \/ /\ ip \notin usable \cap convertible
          /\ UNCHANGED <<phase, eiExcluded, ei, live>>
       \/ /\ ip \in usable \cap convertible \cap excluded
          /\ live' = (live \ {eiExcluded}) \cup {ip}
          /\ eiExcluded' = ip
          /\ UNCHANGED <<phase, ei>>
       \/ /\ ip \in (usable \cap convertible) \ excluded
          /\ live' = live \cup {ip}
          /\ ei' = ip
          /\ phase' = "done"
          /\ UNCHANGED eiExcluded
    /\ UNCHANGED <<usable, convertible, excluded, strict>>

\* Mutant: StrictNodes is not looked at after the loop.
ExhaustedIgnoreStrict ==
    /\ phase = "loop"
    /\ pool = {}
    /\ ei' = eiExcluded
    /\ phase' = "done"
    /\ UNCHANGED <<usable, convertible, excluded, strict, pool, eiExcluded, live>>

\* The loop ran out of candidates: return the last excluded pick, unless
\* StrictNodes is set, in which case it is freed and NULL is returned.
Exhausted ==
    /\ phase = "loop"
    /\ pool = {}
    /\ IF strict
       THEN /\ ei' = NoIP
            /\ live' = live \ {eiExcluded}
       ELSE /\ ei' = eiExcluded
            /\ UNCHANGED live
    /\ phase' = "done"
    /\ UNCHANGED <<usable, convertible, excluded, strict, pool, eiExcluded>>

SelectInit ==
    /\ usable \in SUBSET IPs
    /\ convertible \in SUBSET IPs
    /\ excluded \in SUBSET IPs
    /\ strict \in BOOLEAN
    /\ phase = "start"
    /\ pool = {}
    /\ eiExcluded = NoIP
    /\ ei = NoIP
    /\ live = {}

SelectNext ==
    \/ Begin
    \/ \E ip \in IPs : Pick(ip)
    \/ Exhausted

SelectSpec == SelectInit /\ [][SelectNext]_selVars


-----------------------------------------------------------------------------
(* Properties.                                                             *)

\* The reference: what client_get_random_intro promises its callers.  Any
\* usable, extendable intro point outside ExcludeNodes may be returned; if
\* there is none, an excluded one, unless StrictNodes forbids it; if there
\* is none of those either, NULL.
Good == (usable \cap convertible) \ excluded

Held == usable \cap convertible \cap excluded

ReferenceChoices ==
    IF Good # {} THEN Good
    ELSE IF strict \/ Held = {} THEN {NoIP}
    ELSE Held

\* The loop, over every order of random picks, returns what the reference
\* allows: it never returns an excluded intro point while a good one is
\* listed, nor one when StrictNodes is set, nor NULL when something may be
\* used (the "last excluded pick" kept across iterations is what makes
\* this depend on the order of picks).
SelectionCorrect == phase = "done" => ei \in ReferenceChoices

\* When the call returns, the only extend_info it still owns is the one it
\* returns: every other object it allocated was freed.
NoLeak == phase = "done" => live = {ei} \ {NoIP}

=============================================================================
