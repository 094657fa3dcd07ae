------------------------------ MODULE MCSocket ------------------------------
(***************************************************************************)
(* Instances of Socket for TLC: two callers, two send goroutines.          *)
(***************************************************************************)
EXTENDS Socket, TLC

CONSTANTS c1, c2, s1, s2

=============================================================================
