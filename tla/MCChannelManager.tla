-------------------------- MODULE MCChannelManager --------------------------
(***************************************************************************)
(* Instances of ChannelManager for TLC.  The names n1 and n3 look alike.   *)
(***************************************************************************)
EXTENDS ChannelManager, TLC

CONSTANTS n1, n2, n3, k1, k2

MCSkeleton == [n \in Names |-> IF n \in {n1, n3} THEN k1 ELSE k2]

MCSymmetry ==
    Permutations(Goroutines) \cup Permutations(Clients) \cup Permutations(Names)
=============================================================================
