--------------------------- MODULE MCConnections ---------------------------
(***************************************************************************)
(* Who is connected and who is kept out, on small instances: the clients   *)
(* with their sessions, and the bans.  At the level they are modelled at   *)
(* they share no state: a behaviour is a behaviour of one of them          *)
(* (`part`), and the other stays in its initial state.                     *)
(***************************************************************************)
EXTENDS Clients, Bans, TLC

CONSTANTS b1, n1, n2, m1

VARIABLE part

-----------------------------------------------------------------------------
(* Clients: two connections and the resident client, the account's nick and *)
(* two nicks that are confusable with each other. *)
MCSkeleton == [n \in Nicks |-> IF n = Account THEN "account" ELSE "other"]

(* Bans: one connection, two networks that hold it, one mask that matches it. *)
MCConnsIn == (n1 :> {b1}) @@ (n2 :> {b1})
MCShownBy == (m1 :> {b1})
MCMatchedBy == (m1 :> {b1})

(* A behaviour involves the connections or the ban operators, never both:   *)
(* they are permuted together. *)
Identity(S) == [x \in S |-> x]
MCSymmetry ==
  Permutations(Nicks \ {Account}) \cup
  {f @@ g : f \in Permutations(Conns) \ {Identity(Conns)},
            g \in Permutations(BanOpers) \ {Identity(BanOpers)}}

-----------------------------------------------------------------------------
connectionVars == <<clientVars, banVars, part>>

ConnectionsInit == part \in {"clients", "bans"} /\ Init /\ BansInit

ConnectionsNext ==
  \/ part = "clients" /\ Next /\ UNCHANGED <<banVars, part>>
  \/ part = "bans" /\ BansNext /\ UNCHANGED <<clientVars, part>>

ConnectionsSpec == ConnectionsInit /\ [][ConnectionsNext]_connectionVars
=============================================================================
