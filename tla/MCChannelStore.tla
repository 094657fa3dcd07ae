--------------------------- MODULE MCChannelStore ---------------------------
(***************************************************************************)
(* Instances of ChannelStore for TLC.                                      *)
(***************************************************************************)
EXTENDS ChannelStore, TLC

MCSymmetry ==
    Permutations(Callers) \cup Permutations(Writers) \cup Permutations(Accounts)
=============================================================================
