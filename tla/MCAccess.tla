---------------------------- MODULE MCAccess ----------------------------
(***************************************************************************)
(* Who may do what, on small instances: accounts, channel privileges,      *)
(* the handshake and the commands of a session.  At the level they are     *)
(* modelled at they share no state: a behaviour is a behaviour of one of   *)
(* them (`part`), and the others stay in one initial state.                *)
(***************************************************************************)
EXTENDS Accounts, ChannelModes, Handshake, Messages, TLC

CONSTANTS c1, c2, op

VARIABLE part

-----------------------------------------------------------------------------
(* Accounts: two names with the same casefolding, two with the same skeleton. *)
MCNames == {"Iota", "iota", "lota"}
MCFold == [n \in MCNames |-> IF n = "lota" THEN n ELSE "iota"]
MCSkel == [n \in MCNames |-> IF n = "iota" THEN "sk_iota" ELSE "sk_lota"]

(* ChannelModes: two clients with an account each and an operator without one. *)
MCAccountOfFolk == (c1 :> "A") @@ (c2 :> "B") @@ (op :> "none")

(* Messages: with labelled responses and batches, without either. *)
MCCaps == {{"labeled-response", "batch", "multiline", "echo"}, {"labeled-response", "echo"},
           {"batch", "multiline", "echo"}}

(* A message reaches whom it should, in every situation of sender, channel  *)
(* and target. *)
ASSUME Delivery == DeliveryIsComplete

-----------------------------------------------------------------------------
accessVars == <<accountVars, channelVars, handshakeVars, messageVars, part>>

PlainHandshake ==
  conf = (CHOOSE c \in Requirements : TRUE) /\ hs = NewConnection(FALSE, FALSE, FALSE, FALSE)

(* The server starts with require-sasl for Tor just when the client comes   *)
(* over Tor, and then without a certificate; a rehash leads to the rest. *)
StartedHandshake == conf.torSasl = hs.tor /\ ~(hs.tor /\ hs.cert)

AccessInit ==
  /\ part \in {"accounts", "channel modes", "handshake", "messages"}
  /\ AccountsInit
  /\ ChannelModesInit
  /\ HandshakeInit /\ (IF part = "handshake" THEN StartedHandshake ELSE PlainHandshake)
  /\ MessagesInit /\ (part # "messages" => sessionCaps = {"labeled-response", "echo"})

AccessNext ==
  \/ /\ part = "accounts" /\ AccountsNext
     /\ UNCHANGED <<channelVars, handshakeVars, messageVars, part>>
  \/ /\ part = "channel modes" /\ ChannelModesNext
     /\ UNCHANGED <<accountVars, handshakeVars, messageVars, part>>
  \/ /\ part = "handshake" /\ HandshakeNext
     /\ UNCHANGED <<accountVars, channelVars, messageVars, part>>
  \/ /\ part = "messages" /\ MessagesNext
     /\ UNCHANGED <<accountVars, channelVars, handshakeVars, part>>

AccessSpec == AccessInit /\ [][AccessNext]_accessVars
=============================================================================
