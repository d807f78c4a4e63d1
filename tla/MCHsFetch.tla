------------------------------ MODULE MCHsFetch ------------------------------
(* Model-checking instance of HsFetch: one service with two intro points   *)
(* and two responsible HSDirs, two SOCKS streams asking for it.            *)
EXTENDS HsFetch, TLC

CONSTANTS s1, i1, i2, d1, d2, t1, t2

MCServices == {s1}
MCIPs == {i1, i2}
MCHSDirs == {d1, d2}
MCStreams == {t1, t2}
MCStreamSvc == [st \in MCStreams |-> s1]
MCResponsible == [s \in MCServices |-> MCHSDirs]

\* Streams are interchangeable: they ask for the same service.
MCSymmetry == Permutations(MCStreams)
=============================================================================
