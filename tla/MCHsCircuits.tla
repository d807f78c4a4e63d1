---------------------------- MODULE MCHsCircuits ----------------------------
(* The client with one service, two intro points, one HSDir, one stream,  *)
(* two intro circuits and one rendezvous circuit.                         *)
EXTENDS HsCircuits, TLC

CONSTANTS s1, i1, i2, d1, t1, t2, c1, c2, r1

MCServices == {s1}
MCIPs == {i1, i2}
MCHSDirs == {d1}
MCStreams == {t1}
\* Two streams, for the refinement run: one may be closed or re-parked
\* while the other is attached.
MCStreams2 == {t1, t2}
MCIntroCircs == {c1, c2}
MCIntroCircs1 == {c1}
MCRendCircs == {r1}
MCStreamSvc == [st \in MCStreams |-> s1]
MCStreamSvc2 == [st \in MCStreams2 |-> s1]
MCResponsible == [s \in MCServices |-> MCHSDirs]

MCSymmetry == Permutations(MCIntroCircs)
MCSymmetry2 == Permutations(MCStreams2)

=============================================================================
