--------------------------- MODULE IntroSelectProofs ---------------------------
(***************************************************************************)
(* Proofs about client_get_random_intro (IntroSelect): the loop returns    *)
(* what the reference allows (SelectionCorrect) for every descriptor, every *)
(* failure-cache verdict, every ExcludeNodes and StrictNodes setting and   *)
(* every order of random picks.                                            *)
(***************************************************************************)
EXTENDS IntroSelect, TLAPS

-----------------------------------------------------------------------------
(* The inductive invariant.                                                *)

SelTypeOK ==
    /\ usable \in SUBSET IPs
    /\ convertible \in SUBSET IPs
    /\ excluded \in SUBSET IPs
    /\ strict \in BOOLEAN
    /\ phase \in {"start", "loop", "done"}
    /\ pool \in SUBSET IPs
    /\ eiExcluded \in IPs \cup {NoIP}
    /\ ei \in IPs \cup {NoIP}

\* While the loop runs, nothing it has removed from usable_ips could have
\* been returned: nothing is returned yet, every good intro point is still
\* listed, and the kept ei_excluded is an excluded usable pick, or NULL
\* only while no excluded usable intro point has been picked yet.  Before
\* the loop, nothing is held.  SelectionCorrect alone is not inductive: it says nothing until
\* the call returns, and Exhausted returns ei_excluded, so the state of the
\* loop must already say what ei_excluded is.
LoopInv ==
    /\ phase \in {"start", "loop"} => ei = NoIP
    /\ phase = "start" => eiExcluded = NoIP
    /\ phase = "loop" =>
         /\ Good \subseteq pool
         /\ eiExcluded = NoIP => Held \subseteq pool
    /\ eiExcluded \in Held \cup {NoIP}

SInv == SelTypeOK /\ LoopInv /\ SelectionCorrect

-----------------------------------------------------------------------------

LEMMA InitSInv == SelectInit => SInv
BY SelectAssumption DEF SelectInit, SInv, SelTypeOK, LoopInv, SelectionCorrect

\* The entry check returns NULL only when no intro point is usable, which
\* is what the reference allows then.
LEMMA BeginSInv == SInv /\ Begin => SInv'
<1>. SUFFICES ASSUME SInv, Begin PROVE SInv'
  OBVIOUS
<1>1. CASE usable = {}
  <2>1. Good = {} /\ Held = {}
    BY <1>1 DEF Good, Held
  <2>. QED
    BY <1>1, <2>1 DEF Begin, SInv, SelTypeOK, LoopInv, SelectionCorrect,
                      ReferenceChoices, Good, Held
<1>2. CASE usable # {}
  BY <1>2 DEF Begin, SInv, SelTypeOK, LoopInv, SelectionCorrect, Good, Held
<1>. QED
  BY <1>1, <1>2

\* An iteration removes ip from the list: a skipped or held pick is not
\* good, so every good intro point stays listed; a held pick becomes
\* ei_excluded; a good pick is returned.
LEMMA PickSInv ==
    ASSUME SInv, NEW ip \in IPs, Pick(ip)
    PROVE  SInv'
<1>. USE DEF SInv, SelTypeOK
<1>1. CASE ip \notin usable \cap convertible
  <2>1. ip \notin Good /\ ip \notin Held
    BY <1>1 DEF Good, Held
  <2>2. Good' = Good /\ Held' = Held
    BY <1>1 DEF Pick, Good, Held
  <2>3. /\ UNCHANGED <<usable, convertible, excluded, strict>>
        /\ UNCHANGED <<phase, eiExcluded, ei>>
        /\ pool' = pool \ {ip}
    BY <1>1 DEF Pick
  <2>4. phase = "loop"
    BY DEF Pick
  <2>. QED
    BY <2>1, <2>2, <2>3, <2>4 DEF LoopInv, SelectionCorrect
<1>2. CASE ip \in usable \cap convertible \cap excluded
  <2>1. ip \notin Good /\ ip \in Held
    BY <1>2 DEF Good, Held
  <2>2. Good' = Good /\ Held' = Held
    BY <1>2 DEF Pick, Good, Held
  <2>3. /\ UNCHANGED <<usable, convertible, excluded, strict>>
        /\ UNCHANGED <<phase, ei>>
        /\ pool' = pool \ {ip}
        /\ eiExcluded' = ip
    BY <1>2 DEF Pick
  <2>4. phase = "loop"
    BY DEF Pick
  <2>. QED
    BY <2>1, <2>2, <2>3, <2>4, SelectAssumption DEF LoopInv, SelectionCorrect
<1>3. CASE ip \in (usable \cap convertible) \ excluded
  <2>1. ei' \in Good /\ Good' = Good
    BY <1>3 DEF Pick, Good
  <2>2. ei' \in ReferenceChoices'
    BY <2>1 DEF ReferenceChoices
  <2>. QED
    BY <1>3, <2>2 DEF Pick, LoopInv, SelectionCorrect, Held
<1>. QED
  BY <1>1, <1>2, <1>3 DEF Pick

\* The loop ran out: no good intro point was listed, and ei_excluded is
\* NULL only if no excluded usable one was.
LEMMA ExhaustedSInv == SInv /\ Exhausted => SInv'
<1>. SUFFICES ASSUME SInv, Exhausted PROVE SInv'
  OBVIOUS
<1>. USE DEF SInv, SelTypeOK
<1>1. Good = {} /\ (eiExcluded = NoIP => Held = {})
  BY DEF Exhausted, LoopInv
<1>2. ei' \in ReferenceChoices'
  <2>1. CASE strict
    BY <1>1, <2>1 DEF Exhausted, ReferenceChoices, Good, Held
  <2>2. CASE ~strict
    BY <1>1, <2>2 DEF Exhausted, ReferenceChoices, Good, Held, LoopInv
  <2>. QED
    BY <2>1, <2>2
<1>. QED
  BY <1>2 DEF Exhausted, LoopInv, SelectionCorrect, Good, Held

LEMMA NextSInv == SInv /\ [SelectNext]_selVars => SInv'
<1>. SUFFICES ASSUME SInv, [SelectNext]_selVars PROVE SInv'
  OBVIOUS
<1>1. CASE Begin
  BY <1>1, BeginSInv
<1>2. ASSUME NEW ip \in IPs, Pick(ip) PROVE SInv'
  BY <1>2, PickSInv
<1>3. CASE Exhausted
  BY <1>3, ExhaustedSInv
<1>4. CASE UNCHANGED selVars
  BY <1>4 DEF selVars, SInv, SelTypeOK, LoopInv, SelectionCorrect,
              ReferenceChoices, Good, Held
<1>. QED
  BY <1>1, <1>2, <1>3, <1>4 DEF SelectNext

\* client_get_random_intro returns a good intro point whenever one is
\* listed, an excluded usable one only when none is good and StrictNodes
\* is off, and NULL only when nothing may be used, for every descriptor,
\* failure-cache verdict, ExcludeNodes, StrictNodes and order of picks.
THEOREM SelectionCorrectHolds == SelectSpec => []SelectionCorrect
<1>1. SelectInit => SInv
  BY InitSInv
<1>2. SInv /\ [SelectNext]_selVars => SInv'
  BY NextSInv
<1>3. SInv => SelectionCorrect
  BY DEF SInv
<1>. QED
  BY <1>1, <1>2, <1>3, PTL DEF SelectSpec

=============================================================================
