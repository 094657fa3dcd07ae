---------------------------- MODULE OutputStream ----------------------------
(***************************************************************************)
(* What irc/socket.go promises to the goroutines that write to a client:   *)
(* an ordered stream of lines that is cut short at most once.              *)
(*                                                                         *)
(* Lines are submitted and go out in that order; a line may be sent        *)
(* directly when nothing older waits; when the stream fails or is ended,   *)
(* what waits is lost, nothing is sent but one final line, and after that  *)
(* the stream is silent for ever.                                          *)
(***************************************************************************)
EXTENDS Integers, Sequences

CONSTANTS Line, FinalLines

VARIABLES open, up, ended, pending, wire

vars == <<open, up, ended, pending, wire>>

Init ==
    /\ open = TRUE
    /\ up = TRUE
    /\ ended = FALSE
    /\ pending = <<>>
    /\ wire = <<>>

(* A new line is accepted: it is newer than every line that waits.         *)
Submit ==
    /\ open /\ up
    /\ \E l \in Line :
          /\ \A k \in 1 .. Len(pending) : pending[k].id < l.id
          /\ pending' = Append(pending, l)
    /\ UNCHANGED <<open, up, ended, wire>>

(* Lines go out from the front of what waits.                              *)
Flush ==
    /\ up
    /\ \E k \in 1 .. Len(pending) :
          /\ wire' = wire \o SubSeq(pending, 1, k)
          /\ pending' = SubSeq(pending, k + 1, Len(pending))
    /\ UNCHANGED <<open, up, ended>>

(* A line overtakes only lines submitted after it.                         *)
Direct ==
    /\ up
    /\ \E l \in Line :
          /\ \A k \in 1 .. Len(pending) : l.id < pending[k].id
          /\ wire' = Append(wire, l)
    /\ UNCHANGED <<open, up, ended, pending>>

(* No more lines are accepted; those that wait may still go out.           *)
Close ==
    /\ open
    /\ open' = FALSE
    /\ UNCHANGED <<up, ended, pending, wire>>

(* The stream goes down, after a last part of what waits.                  *)
Fail ==
    /\ up
    /\ up' = FALSE
    /\ \E k \in 0 .. Len(pending) : wire' = wire \o SubSeq(pending, 1, k)
    /\ pending' = <<>>
    /\ UNCHANGED <<open, ended>>

(* The end: a stream that is down and closed says its last line, or none.  *)
End ==
    /\ ~up /\ ~open /\ ~ended
    /\ ended' = TRUE
    /\ \/ \E l \in FinalLines : wire' = Append(wire, l)
       \/ UNCHANGED wire
    /\ UNCHANGED <<open, up, pending>>

Next == Submit \/ Flush \/ Direct \/ Close \/ Fail \/ End

Spec == Init /\ [][Next]_vars
=============================================================================
