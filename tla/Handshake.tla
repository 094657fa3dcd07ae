----------------------------- MODULE Handshake -----------------------------
(***************************************************************************)
(* What a connection does before it is registered (handlers.go, client.go, *)
(* server.go): the address it is given by a gateway, PASS, CAP, NICK,      *)
(* USER, the SASL conversation with its chunked messages, REGISTER; and    *)
(* tryRegister, which after every command decides whether to admit it.     *)
(* The configuration can be changed (REHASH, DEFCON) at any time.          *)
(*                                                                         *)
(* A handler is an operator from the connection's state to the set of its  *)
(* outcomes; Run takes one of them and then tryRegister.                   *)
(***************************************************************************)
EXTENDS Naturals, FiniteSets

CONSTANTS
  RegistrationMessages,  \* config: lines before registration
  MaxConversations,      \* bound: SASL conversations
  MaxRehashes            \* bound: changes of the configuration

ASSUME HandshakeAssumption ==
  RegistrationMessages \in Nat /\ MaxConversations \in Nat /\ MaxRehashes \in Nat

VARIABLES
  hs,        \* the connection: its Client and Session
  conf,      \* what the configuration and DEFCON require
  rehashes,
  asked      \* ghost: what was required when it was admitted

handshakeVars == <<hs, conf, rehashes, asked>>

Mechanisms == {"PLAIN", "EXTERNAL", "SCRAM", "IRCV3BEARER", "OAUTHBEARER"}

Requirements ==
  {r \in [pass : BOOLEAN, skip : BOOLEAN, sasl : BOOLEAN, torSasl : BOOLEAN] : r.skip => r.pass}

-----------------------------------------------------------------------------
\* RunClient: the connection is accepted, possibly with a soft ban on its address
\* (requireSASL).  Ghosts: `first`, the outcome of the first PASS that was compared
\* with the server password; `proved`, that it has logged in with the whole message
\* of one conversation; `talk`, the number of the SASL conversation.
NewConnection(tor, sts, soft, cert) ==
  [st |-> "handshake", tor |-> tor, sts |-> sts, soft |-> soft, cert |-> cert, proxied |-> FALSE,
   nick |-> FALSE, user |-> FALSE, cap |-> "none", pass |-> "unsent", account |-> FALSE,
   mech |-> "none", buf |-> {}, conv |-> "none", sent |-> FALSE, lines |-> 0,
   first |-> "none", proved |-> FALSE, talk |-> 0]

HandshakeInit ==
  /\ \E tor, sts, soft, cert \in BOOLEAN :
       (tor => ~soft) /\ (sts => ~cert) /\ hs = NewConnection(tor, sts, soft, cert)
  /\ conf \in Requirements
  /\ rehashes = 0 /\ asked = {}

\* saslStatus.Clear.
saslClear(h) == [h EXCEPT !.mech = "none", !.conv = "none", !.buf = {}]

\* AuthenticateBy..., Login: `whole` says that the credentials are the client's own.
LoggedIn(h, whole) == [h EXCEPT !.account = TRUE, !.proved = @ \/ whole]

Closed(h) == [h EXCEPT !.st = "closed"]

-----------------------------------------------------------------------------
(* Handlers. *)

\* PROXY, as the first line, and WEBIRC, from an authorised gateway: the new address
\* is checked for bans; the certificate was the gateway's.
ApplyProxiedIP(h) ==
  IF h.tor \/ h.proxied THEN {Closed(h)}
  ELSE {Closed(h)} \cup {[h EXCEPT !.proxied = TRUE, !.soft = soft, !.cert = FALSE] : soft \in BOOLEAN}

handleProxyCommand(h) == IF h.lines = 0 THEN ApplyProxiedIP(h) ELSE {}

webircHandler(h) == IF h.proxied THEN {h} ELSE ApplyProxiedIP(h)

nickHandler(h) == {[h EXCEPT !.nick = TRUE]}

\* USER may carry a password (user:pass@device).
userHandler(h) == {[h EXCEPT !.user = TRUE], [LoggedIn(h, TRUE) EXCEPT !.user = TRUE]}

\* What if: PASS can be tried again.
PassMayBeTried_Again(h) == h.pass # "ok"

\* "only give them one try".
PassMayBeTried(h) == h.pass = "unsent"

\* PASS: account:password if there is no login yet; else, or if that fails, the
\* server password.
passHandler(h) ==
  IF ~PassMayBeTried(h) THEN {h}
  ELSE (IF h.account THEN {} ELSE {[LoggedIn(h, TRUE) EXCEPT !.pass = "ok"]})
       \cup (IF ~conf.pass THEN {h}
             ELSE {[h EXCEPT !.pass = IF right THEN "ok" ELSE "failed",
                             !.first = IF @ # "none" THEN @ ELSE IF right THEN "right" ELSE "wrong"]
                     : right \in BOOLEAN})

\* CAP: LS and REQ suspend the registration until END; the trap capability ends the
\* connection, an unknown one changes nothing.
capHandler(h) == {[h EXCEPT !.cap = "negotiating"], [h EXCEPT !.cap = "negotiated"], h, Closed(h)}

\* authPlainHandler and the other one-message mechanisms: the conversation is over.
authPlainHandler(h, msg) ==
  {saslClear(h), LoggedIn(saslClear(h), msg \subseteq {h.talk})}

authExternalHandler(h, msg) ==
  {saslClear(h)} \cup (IF h.cert THEN {LoggedIn(saslClear(h), msg \subseteq {h.talk})} ELSE {})

authIRCv3BearerHandler(h, msg) == authPlainHandler(h, msg)

\* Two messages and an empty one, after which the login takes place; the client can be
\* throttled at the first, be refused at each, or find that the account is gone.
authScramHandler(h, msg) ==
  CASE h.conv = "none"  -> {saslClear(h), [h EXCEPT !.conv = "first"]}
    [] h.conv = "first" -> {saslClear(h), [h EXCEPT !.conv = "valid"], [h EXCEPT !.conv = "invalid"]}
    [] h.conv = "valid" -> {saslClear(h), LoggedIn(saslClear(h), msg \subseteq {h.talk})}
    [] OTHER            -> {saslClear(h)}

\* A failure is reported in a challenge, which the client has to answer.  If OAuth2 is
\* not enabled the conversation is left as it is.
authOauthBearerHandler(h, msg) ==
  IF h.conv = "refused" THEN {saslClear(h)}
  ELSE {h, [h EXCEPT !.conv = "refused"], LoggedIn(saslClear(h), msg \subseteq {h.talk}), saslClear(h)}

saslHandler(h, msg) ==
  CASE h.mech = "PLAIN"       -> authPlainHandler(h, msg)
    [] h.mech = "EXTERNAL"    -> authExternalHandler(h, msg)
    [] h.mech = "SCRAM"       -> authScramHandler(h, msg)
    [] h.mech = "IRCV3BEARER" -> authIRCv3BearerHandler(h, msg)
    [] h.mech = "OAUTHBEARER" -> authOauthBearerHandler(h, msg)

\* SASLBuffer.Add: a chunk of 400 bytes is kept, with any other the message is complete;
\* an error (too long, not base64) ends the conversation.
saslBufferAdd(h) ==
  {saslClear(h), [h EXCEPT !.buf = @ \cup {h.talk}]} \cup saslHandler([h EXCEPT !.buf = {}], h.buf \cup {h.talk})

\* AUTHENTICATE: nothing if logged in, "*" aborts, else the mechanism or a chunk.
authenticateHandler(h) ==
  IF h.sts \/ h.account THEN {h}
  ELSE IF h.mech = "none"
  THEN {saslClear(h)} \cup (IF h.talk < MaxConversations
                            THEN {[h EXCEPT !.mech = m, !.talk = @ + 1] : m \in Mechanisms} ELSE {})
  ELSE {saslClear(h)} \cup saslBufferAdd(h)

\* REGISTER and VERIFY, before registration if the configuration allows it.
registerHandler(h) ==
  IF h.sent \/ h.account \/ ~h.nick THEN {h} ELSE {h, LoggedIn(h, TRUE), [h EXCEPT !.sent = TRUE]}

verifyHandler(h) == IF h.account THEN {h} ELSE {h, LoggedIn(h, TRUE)}

-----------------------------------------------------------------------------
(* Admission. *)

isAuthorized(h) ==
  /\ conf.pass => h.pass = "ok" \/ (conf.skip /\ h.account)
  /\ h.tor /\ conf.torSasl => h.account
  /\ h.soft \/ conf.sasl => h.account

\* tryRegister: not before there are a nick, a user name and no negotiation; then the check script
\* for those without an account, the nick, which may be taken, and K-lines.
Admit(h) ==
  IF h.st = "closed" \/ ~h.nick \/ ~h.user \/ h.cap = "negotiating" THEN {h}
  ELSE IF h.sts \/ ~isAuthorized(h) THEN {Closed(h)}
  ELSE {[h EXCEPT !.nick = FALSE], [h EXCEPT !.st = "registered"], Closed(h)}

\* One line: too many are the end.
Run(outcomes) ==
  /\ hs.st = "handshake"
  /\ IF hs.lines = RegistrationMessages
     THEN hs' = Closed(hs) /\ UNCHANGED asked
     ELSE \E h \in outcomes : \E g \in Admit([h EXCEPT !.lines = @ + 1]) :
            /\ hs' = g
            /\ asked' = IF g.st = "registered" THEN {conf} ELSE asked
  /\ UNCHANGED <<conf, rehashes>>

\* handleRegisterTimeout, or the peer closes.
RegisterTimeoutFires ==
  /\ hs.st = "handshake" /\ hs' = Closed(hs) /\ UNCHANGED <<conf, rehashes, asked>>

\* REHASH and DEFCON.
Rehash ==
  /\ hs.st = "handshake" /\ rehashes < MaxRehashes /\ rehashes' = rehashes + 1
  /\ conf' \in Requirements /\ UNCHANGED <<hs, asked>>

HandshakeNext ==
  \/ Run(handleProxyCommand(hs)) \/ Run(webircHandler(hs)) \/ Run(nickHandler(hs)) \/ Run(userHandler(hs))
  \/ Run(passHandler(hs)) \/ Run(capHandler(hs)) \/ Run(authenticateHandler(hs))
  \/ Run(registerHandler(hs)) \/ Run(verifyHandler(hs))
  \/ RegisterTimeoutFires \/ Rehash

HandshakeSpec == HandshakeInit /\ [][HandshakeNext]_handshakeVars

-----------------------------------------------------------------------------
(* Properties. *)

\* Nobody is admitted without what the configuration of that moment requires, and what
\* counts is what the client has really shown: the server password at the first PASS
\* ("only give them one try"), or a login whose SASL message was sent in one
\* conversation, never pieced together from an aborted one; whatever the order of PASS,
\* CAP, AUTHENTICATE, NICK and USER, and if the configuration changes in between.
AdmittedHasProved ==
  /\ hs.account => hs.proved
  /\ hs.st = "registered" => \A r \in asked :
       /\ r.pass => hs.first = "right" \/ hs.proved
       /\ r.sasl \/ hs.soft \/ (hs.tor /\ r.torSasl) => hs.proved
=============================================================================
