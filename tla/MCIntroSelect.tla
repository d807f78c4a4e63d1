--------------------------- MODULE MCIntroSelect ---------------------------
(* client_get_random_intro over a descriptor of three intro points.       *)
EXTENDS IntroSelect, TLC

CONSTANTS i1, i2, i3

MCIPs == {i1, i2, i3}

MCSymmetry == Permutations(MCIPs)

=============================================================================
