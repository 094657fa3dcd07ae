------------------------------ MODULE Accounts ------------------------------
(***************************************************************************)
(* The account manager (accounts.go) and the NickServ commands that drive  *)
(* it (nickserv.go).  Accounts live in the datastore; in memory are the    *)
(* index of reserved nicks and skeletons, the enforcement methods and the  *)
(* clients logged into each account.                                       *)
(*                                                                         *)
(* What runs under serialCacheUpdateMutex, and what is one transaction of  *)
(* the datastore, is one step.  An operation that reads, computes and then *)
(* writes (a password, a certificate, a login) is several steps, during    *)
(* which the user's goroutine is `busy`.                                   *)
(***************************************************************************)
EXTENDS Naturals, FiniteSets

CONSTANTS
  Users,          \* clients
  Names,          \* nicknames and account names as written
  Fold,           \* [Names -> Names]: CasefoldName
  Skel,           \* [Names -> skeletons]: Skeleton, which is not case-blind
  Certs,          \* certificate fingerprints
  Nobody,         \* no account, no name
  AdditionalNickLimit,
  MaxAccountOps   \* bound: commands

ASSUME AccountsAssumption ==
  /\ Nobody \notin Names \cup Certs /\ MaxAccountOps \in Nat /\ AdditionalNickLimit \in Nat
  /\ \A n \in Names : Fold[n] \in Names /\ Fold[Fold[n]] = Fold[n]

AccountIds == {Fold[n] : n \in Names}
Skels == {Skel[n] : n \in Names}

VARIABLES
  db,        \* the datastore's keys of each account
  certTo,    \* keyCertToAccount
  nickTo,    \* nickToAccount
  skelTo,    \* skeletonToAccount
  methodOf,  \* accountToMethod: does the account enforce its nicks?
  login,     \* client.account
  listed,    \* accountToClients
  busy,      \* where each user's goroutine is
  accountOps,
  drift      \* ghost: what the known defects have put out of step

accountVars == <<db, certTo, nickTo, skelTo, methodOf, login, listed, busy, accountOps, drift>>

-----------------------------------------------------------------------------
\* An account's keys.  `kept` and `lasting` say what of an unverified account has
\* no expiry date: its credentials, the index entries of some fingerprints.  Two
\* passwords are not told apart.
NoAccount == [exists |-> FALSE, name |-> Nobody, verified |-> FALSE, code |-> FALSE,
              pass |-> FALSE, certs |-> {}, nicks |-> {}, strict |-> FALSE,
              suspended |-> FALSE, reset |-> FALSE, gone |-> Nobody,
              kept |-> FALSE, lasting |-> {}]

NotBusy == [at |-> "rest"]

NoDrift == [keys |-> {}, certs |-> {}, methods |-> {}, logins |-> {}]

AccountsInit ==
  /\ db = [a \in AccountIds |-> NoAccount]
  /\ certTo = [f \in Certs |-> Nobody]
  /\ nickTo = [a \in AccountIds |-> Nobody] /\ skelTo = [k \in Skels |-> Nobody]
  /\ methodOf = [a \in AccountIds |-> FALSE]
  /\ login = [u \in Users |-> Nobody] /\ listed = [a \in AccountIds |-> {}]
  /\ busy = [u \in Users |-> NotBusy]
  /\ accountOps = 0 /\ drift = NoDrift

\* A user gives a command.
Command(u) ==
  /\ busy[u].at = "rest" /\ accountOps < MaxAccountOps
  /\ accountOps' = accountOps + 1

Becomes(u, where) == busy' = [busy EXCEPT ![u] = where]

NickToAccount(n) == IF nickTo[Fold[n]] # Nobody THEN nickTo[Fold[n]] ELSE skelTo[Skel[n]]

\* The accounts that the datastore makes owner of a casefolded nick or of a
\* skeleton: what buildNickToAccountIndex reads (enforcement is strict, so that
\* the names of unregistered accounts stay protected).
Holds(a, n) ==
  \/ db[a].verified /\ db[a].name = n
  \/ db[a].exists /\ n \in db[a].nicks
  \/ db[a].gone = n

NickClaims(k) == {a \in AccountIds : \E n \in Names : Fold[n] = k /\ Holds(a, n)}
SkelClaims(k) == {a \in AccountIds : \E n \in Names : Skel[n] = k /\ Holds(a, n)}

\* Keys that two names claim in the datastore (an unverified account's name counts
\* for the nick), and those of nicks grouped with an account that is not verified
\* or bears that very name: a later deletion or expiry will not leave the index as
\* it should be.
Named(a, n) == Holds(a, n) \/ (db[a].exists /\ db[a].name = n)

Disputed ==
  LET Pairs == AccountIds \X Names
  IN {k \in AccountIds : \E h, g \in Pairs : /\ h # g /\ Fold[h[2]] = k /\ Fold[g[2]] = k
                                             /\ Named(h[1], h[2]) /\ Named(g[1], g[2])}
     \cup {k \in Skels : \E h, g \in Pairs : /\ h # g /\ Skel[h[2]] = k /\ Skel[g[2]] = k
                                             /\ Holds(h[1], h[2]) /\ Holds(g[1], g[2])}

KeysOf(names) == {Fold[n] : n \in names} \cup {Skel[n] : n \in names}

Stranded == KeysOf({n \in Names : \E a \in AccountIds :
                      n \in db[a].nicks /\ (~db[a].verified \/ Fold[n] = a)})

\* The server starts anew: the caches are rebuilt and nobody is logged in.
buildNickToAccountIndex ==
  /\ accountOps < MaxAccountOps /\ accountOps' = accountOps + 1
  /\ nickTo' = [k \in AccountIds |-> IF NickClaims(k) = {} THEN Nobody ELSE CHOOSE a \in NickClaims(k) : TRUE]
  /\ skelTo' = [k \in Skels |-> IF SkelClaims(k) = {} THEN Nobody ELSE CHOOSE a \in SkelClaims(k) : TRUE]
  /\ methodOf' = [a \in AccountIds |-> db[a].exists /\ db[a].strict]
  /\ login' = [u \in Users |-> Nobody] /\ listed' = [a \in AccountIds |-> {}]
  /\ busy' = [u \in Users |-> NotBusy]
  /\ drift' = [NoDrift EXCEPT !.certs = drift.certs, !.keys = Disputed \cup Stranded]
  /\ UNCHANGED <<db, certTo>>

-----------------------------------------------------------------------------
(* Registration. *)

\* The transaction of Register; the name must be free, reserved by nobody and
\* never have been unregistered, the certificate unused.  `then` says what follows
\* once the code is sent: a wait for it, or at once a verification without login
\* (SAREGISTER) or with it.
Register(u, n, pass, f, then) ==
  LET a == Fold[n]
  IN /\ NickToAccount(n) = Nobody /\ db[a].gone = Nobody /\ ~db[a].exists
     /\ f # Nobody => certTo[f] = Nobody
     /\ db' = [db EXCEPT ![a] = [NoAccount EXCEPT !.exists = TRUE, !.name = n, !.pass = pass,
                                                  !.certs = {f} \ {Nobody}, !.nicks = db[a].nicks,
                                                  !.code = db[a].code]]
     /\ certTo' = [g \in Certs |-> IF g = f THEN a ELSE certTo[g]]
     /\ Becomes(u, [at |-> "callback", a |-> a, then |-> then])
     /\ UNCHANGED <<nickTo, skelTo, methodOf, login, listed, drift>>

\* NS REGISTER, by password or certificate, with or without e-mail verification.
nsRegisterHandler(u) ==
  /\ Command(u) /\ login[u] = Nobody
  /\ \E n \in Names, f \in Certs \cup {Nobody}, then \in {"code", "login"} :
       Register(u, n, f = Nobody, f, then)

\* NS SAREGISTER: an operator registers and verifies at once.
nsSaregisterHandler(u) ==
  /\ Command(u)
  /\ \E n \in Names : Register(u, n, TRUE, Nobody, "rest")

\* The account that an authentication script or a token names does not exist yet:
\* it is created without credentials, and then loaded.
loadWithAutocreation(u) ==
  /\ Command(u) /\ login[u] = Nobody
  /\ \E n \in Names : Register(u, n, FALSE, Nobody, "login")

\* The fingerprints of the deleted account are deleted, if they are its own.
DropCerts(a) == [f \in Certs |-> IF f \in db[a].certs /\ certTo[f] = a THEN Nobody ELSE certTo[f]]

\* Unregister drops the account's name from the index unless it stays protected,
\* and the grouped nicks; those it looks up as they were written.
ForgetNicks(a, protect) ==
  [k \in AccountIds |-> IF (k = a /\ ~protect) \/ k \in db[a].nicks THEN Nobody ELSE nickTo[k]]

ForgetSkels(a, name, protect) ==
  [k \in Skels |-> IF \/ ~protect /\ name # Nobody /\ k = Skel[name]
                      \/ \E n \in db[a].nicks : k = Skel[n]
                   THEN Nobody ELSE skelTo[k]]

\* Unregister, up to the clients it kills on its way out.
Unregister(u, a, erase) ==
  LET name    == IF db[a].exists THEN db[a].name ELSE db[a].gone
      protect == ~erase /\ db[a].verified
      lost    == {Skel[n] : n \in {m \in {name} \ {Nobody} : skelTo[Skel[m]] \notin {a, Nobody}}}
                   \cup {k \in {a} : nickTo[k] \notin {a, Nobody}}
  IN /\ db' = [db EXCEPT ![a] = [NoAccount EXCEPT !.gone =
                 IF protect THEN name ELSE IF erase THEN Nobody ELSE db[a].gone]]
     /\ certTo' = DropCerts(a)
     /\ nickTo' = ForgetNicks(a, protect)
     /\ skelTo' = ForgetSkels(a, name, protect)
     /\ listed' = [listed EXCEPT ![a] = {}]
     /\ Becomes(u, [at |-> "kill", who |-> listed[a]])
     /\ drift' = [drift EXCEPT
                 !.keys = @ \cup {Fold[n] : n \in {m \in db[a].nicks : Fold[m] # m}}
                            \cup (IF protect THEN {} ELSE lost),
                 !.methods = @ \cup {b \in {a} : methodOf[b]}]
     /\ UNCHANGED <<methodOf, login>>

\* NS UNREGISTER and NS ERASE.
nsUnregisterHandler(u) ==
  /\ Command(u)
  /\ \E a \in AccountIds, erase \in BOOLEAN :
       /\ erase \/ db[a].exists
       /\ Unregister(u, a, erase)

\* The mail is sent and the code stored, whatever became of the account since, or
\* the registration is undone.
dispatchCallback(u) ==
  LET a == busy[u].a
  IN /\ busy[u].at = "callback" /\ UNCHANGED accountOps
     /\ \/ /\ db' = [db EXCEPT ![a].code = TRUE]
           /\ Becomes(u, IF busy[u].then = "code" THEN NotBusy
                         ELSE [at |-> "verify", a |-> a, then |-> busy[u].then])
           /\ UNCHANGED <<certTo, nickTo, skelTo, methodOf, login, listed, drift>>
        \/ busy[u].then = "code" /\ Unregister(u, a, TRUE)

\* killClients: the clients that were logged in are logged out and destroyed.
KillClients(u) ==
  /\ busy[u].at = "kill"
  /\ login' = [v \in Users |-> IF v \in busy[u].who THEN Nobody ELSE login[v]]
  /\ Becomes(u, NotBusy)
  /\ UNCHANGED <<db, certTo, nickTo, skelTo, methodOf, listed, accountOps, drift>>

\* What if: no second look at confusable names.
Verifiable_NoSkeleton(a) == db[a].exists /\ ~db[a].verified

\* Somebody may have verified a confusable name since this one was registered.
Verifiable(a) == db[a].exists /\ ~db[a].verified /\ skelTo[Skel[db[a].name]] = Nobody

\* Verify, under serialCacheUpdateMutex.
Verify(u, a, then) ==
  /\ Verifiable(a)
  /\ db' = [db EXCEPT ![a].verified = TRUE, ![a].code = FALSE,
                       ![a].kept = FALSE, ![a].lasting = {}]
  /\ certTo' = [f \in Certs |-> IF f \in db[a].certs THEN a ELSE certTo[f]]
  /\ nickTo' = [nickTo EXCEPT ![a] = a]
  /\ skelTo' = [skelTo EXCEPT ![Skel[db[a].name]] = a]
  /\ Becomes(u, then)
  /\ UNCHANGED <<methodOf, login, listed, drift>>

\* NS VERIFY with the code; the client is logged in.
nsVerifyHandler(u) ==
  /\ Command(u) /\ login[u] = Nobody
  /\ \E a \in AccountIds : db[a].code /\ Verify(u, a, [at |-> "login", a |-> a])

\* NS SAVERIFY needs no code and logs nobody in.
nsSaverifyHandler(u) ==
  /\ Command(u)
  /\ \E a \in AccountIds : Verify(u, a, NotBusy)

\* The second half of SAREGISTER, of an automatic creation and of a registration
\* without e-mail; the last two go on to log in.
SARegister(u) ==
  LET a == busy[u].a
  IN /\ busy[u].at = "verify" /\ UNCHANGED accountOps
     /\ \/ Verify(u, a, IF busy[u].then = "login" THEN [at |-> "login", a |-> a] ELSE NotBusy)
        \/ /\ ~Verifiable(a) /\ Becomes(u, NotBusy)
           /\ UNCHANGED <<db, certTo, nickTo, skelTo, methodOf, login, listed, drift>>

\* The keys of an account that was never verified expire together; those that an
\* operator has written since were set without an expiry date.
ExpireUnverified(a) ==
  LET left == [NoAccount EXCEPT !.gone = db[a].gone, !.nicks = db[a].nicks]
  IN /\ db[a].exists /\ ~db[a].verified
     /\ db' = [db EXCEPT ![a] = IF db[a].kept THEN [left EXCEPT !.pass = db[a].pass, !.certs = db[a].certs]
                                ELSE left]
     /\ certTo' = [f \in Certs |-> IF f \in db[a].certs \ db[a].lasting /\ certTo[f] = a
                                   THEN Nobody ELSE certTo[f]]
     /\ drift' = [drift EXCEPT !.certs = @ \cup db[a].lasting \cup (IF db[a].kept THEN db[a].certs ELSE {})]
     /\ UNCHANGED <<nickTo, skelTo, methodOf, login, listed, busy, accountOps>>

-----------------------------------------------------------------------------
(* Grouped nicks. *)

\* NS GROUP: SetNickReserved with reserve.  That the client's account still exists
\* is not looked at.
nsGroupHandler(u) ==
  LET a == login[u]
  IN /\ Command(u) /\ a # Nobody
     /\ \E n \in Names :
          /\ nickTo[Fold[n]] = Nobody /\ skelTo[Skel[n]] = Nobody
          /\ ~db[Fold[n]].exists /\ Cardinality(db[a].nicks) < AdditionalNickLimit
          /\ db' = [db EXCEPT ![a].nicks = @ \cup {n}]
          /\ nickTo' = [nickTo EXCEPT ![Fold[n]] = a]
          /\ skelTo' = [skelTo EXCEPT ![Skel[n]] = a]
          /\ drift' = IF db[a].verified THEN drift ELSE [drift EXCEPT !.keys = @ \cup {Fold[n], Skel[n]}]
     /\ UNCHANGED <<certTo, methodOf, login, listed, busy>>

\* SetNickReserved without reserve.  It looks for the nick among those of the
\* account of the client that asks, SADROP included: an operator's SADROP of a
\* nick grouped with another account changes the index and not the datastore.
DropNick(u, n) ==
  LET a    == login[u]
      mine == {m \in db[a].nicks : Fold[m] = Fold[n]}
      skel == IF mine = {} THEN Skel[n] ELSE Skel[CHOOSE m \in mine : TRUE]
  IN /\ Fold[n] # a
     /\ db' = [db EXCEPT ![a].nicks = @ \ mine]
     /\ nickTo' = [nickTo EXCEPT ![Fold[n]] = Nobody]
     /\ skelTo' = [skelTo EXCEPT ![skel] = Nobody]
     /\ drift' = [drift EXCEPT !.keys = @ \cup
                    IF mine = {} THEN {Fold[n], skel} ELSE {Skel[m] : m \in mine} \ {skel}]
     /\ UNCHANGED <<certTo, methodOf, login, listed, busy>>

nsDropHandler(u) ==
  /\ Command(u) /\ login[u] # Nobody
  /\ \E n \in Names : nickTo[Fold[n]] = login[u] /\ DropNick(u, n)

NsSadrop(u) ==
  /\ Command(u) /\ login[u] # Nobody
  /\ \E n \in Names : nickTo[Fold[n]] # Nobody /\ DropNick(u, n)

\* NS RENAME changes the case of an account's name; the index is left alone.
Rename(u) ==
  /\ Command(u)
  /\ \E n \in Names :
       /\ db[Fold[n]].exists /\ db[Fold[n]].name # n
       /\ db' = [db EXCEPT ![Fold[n]].name = n]
       /\ drift' = IF db[Fold[n]].verified
                   THEN [drift EXCEPT !.keys = @ \cup {Skel[n], Skel[db[Fold[n]].name]}] ELSE drift
  /\ UNCHANGED <<certTo, nickTo, skelTo, methodOf, login, listed, busy>>

\* NS SET ENFORCE: first the datastore (ModifyAccountSettings) ...
NsSetEnforce(u) ==
  /\ Command(u)
  /\ \E a \in AccountIds, v \in BOOLEAN :
       /\ db[a].verified
       /\ db' = [db EXCEPT ![a].strict = v]
       /\ Becomes(u, [at |-> "method", a |-> a, v |-> v])
  /\ UNCHANGED <<certTo, nickTo, skelTo, methodOf, login, listed, drift>>

\* ... then accountToMethod.
SetEnforcementStatus(u) ==
  LET a == busy[u].a
  IN /\ busy[u].at = "method"
     /\ methodOf' = [methodOf EXCEPT ![a] = busy[u].v]
     /\ drift' = [drift EXCEPT !.methods = IF db[a].strict = busy[u].v THEN @ \ {a} ELSE @ \cup {a}]
     /\ Becomes(u, NotBusy)
     /\ UNCHANGED <<db, certTo, nickTo, skelTo, login, listed, accountOps>>

-----------------------------------------------------------------------------
(* Credentials: read, hash, then compare and swap. *)

Creds(a) == [pass |-> db[a].pass, certs |-> db[a].certs]

\* The first half of setPassword and addRemoveCertfp: an owner may not touch
\* externally managed credentials nor leave the account without any.
ReadCreds(u, a, privileged, new, cert) ==
  /\ db[a].exists
  /\ privileged \/ (login[u] = a /\ Creds(a) # [pass |-> FALSE, certs |-> {}])
  /\ privileged \/ new # [pass |-> FALSE, certs |-> {}]
  /\ Becomes(u, [at |-> "write", a |-> a, old |-> Creds(a), new |-> new, cert |-> cert])
  /\ UNCHANGED <<db, certTo, nickTo, skelTo, methodOf, login, listed, drift>>

nsPasswdHandler(u) ==
  /\ Command(u)
  /\ \E a \in AccountIds, privileged, p \in BOOLEAN :
       ReadCreds(u, a, privileged, [Creds(a) EXCEPT !.pass = p], Nobody)

nsCertHandler(u) ==
  /\ Command(u)
  /\ \E a \in AccountIds, privileged \in BOOLEAN, f \in Certs :
       ReadCreds(u, a, privileged,
                 [Creds(a) EXCEPT !.certs = IF f \in @ THEN @ \ {f} ELSE @ \cup {f}], f)

\* What if: the credentials are written back without comparing.
Unchanged_NoCompare(u) == db[busy[u].a].exists
\* The stored credentials are still the ones that were read.
Unchanged(u) == db[busy[u].a].exists /\ Creds(busy[u].a) = busy[u].old

\* The transaction that ends both.
WriteCreds(u) ==
  LET a == busy[u].a
      f == busy[u].cert
      adding == f # Nobody /\ f \in busy[u].new.certs
  IN /\ busy[u].at = "write"
     /\ IF Unchanged(u) /\ (adding => certTo[f] = Nobody)
        THEN /\ db' = [db EXCEPT ![a].pass = busy[u].new.pass, ![a].certs = busy[u].new.certs,
                                  ![a].kept = ~db[a].verified,
                                  ![a].lasting = IF adding /\ ~db[a].verified THEN @ \cup {f} ELSE @]
             /\ certTo' = IF f = Nobody THEN certTo
                          ELSE [certTo EXCEPT ![f] = IF adding THEN a ELSE Nobody]
        ELSE UNCHANGED <<db, certTo>>
     /\ Becomes(u, NotBusy)
     /\ UNCHANGED <<nickTo, skelTo, methodOf, login, listed, accountOps, drift>>

\* NS SENDPASS stores a code for a password reset ...
NsSendpass(u) ==
  /\ Command(u)
  /\ \E a \in AccountIds :
       /\ db[a].verified /\ ~db[a].suspended /\ ~db[a].reset
       /\ db' = [db EXCEPT ![a].reset = TRUE]
  /\ UNCHANGED <<certTo, nickTo, skelTo, methodOf, login, listed, busy, drift>>

\* ... and NS RESETPASS uses it up and goes on to setPassword.
NsResetpass(u) ==
  /\ Command(u)
  /\ \E a \in AccountIds :
       /\ db[a].verified /\ ~db[a].suspended /\ db[a].reset
       /\ db' = [db EXCEPT ![a].reset = FALSE]
       /\ Becomes(u, [at |-> "write", a |-> a, old |-> Creds(a),
                      new |-> [Creds(a) EXCEPT !.pass = TRUE], cert |-> Nobody])
  /\ UNCHANGED <<certTo, nickTo, skelTo, methodOf, login, listed, drift>>

-----------------------------------------------------------------------------
(* Logins and suspensions. *)

\* checkPassphrase and checkCertOrCookieAuth both end so.
MayLogin(a) == db[a].verified /\ ~db[a].suspended

\* NS IDENTIFY, SASL or a server password.
AuthenticateByPassphrase(u) ==
  /\ Command(u) /\ login[u] = Nobody
  /\ \E a \in AccountIds : db[a].pass /\ MayLogin(a) /\ Becomes(u, [at |-> "login", a |-> a])
  /\ UNCHANGED <<db, certTo, nickTo, skelTo, methodOf, login, listed, drift>>

\* The account is the one that the index of fingerprints names.
AuthenticateByCertificate(u) ==
  /\ Command(u) /\ login[u] = Nobody
  /\ \E f \in Certs : /\ certTo[f] # Nobody /\ MayLogin(certTo[f])
                      /\ Becomes(u, [at |-> "login", a |-> certTo[f]])
  /\ UNCHANGED <<db, certTo, nickTo, skelTo, methodOf, login, listed, drift>>

\* am.Login: client.Login first ...
Login(u) ==
  /\ busy[u].at = "login"
  /\ login' = [login EXCEPT ![u] = busy[u].a]
  /\ Becomes(u, [at |-> "list", a |-> busy[u].a])
  /\ UNCHANGED <<db, certTo, nickTo, skelTo, methodOf, listed, accountOps, drift>>

\* ... and the list of the account's clients afterwards.  The account may have
\* been suspended or deleted since it was loaded.
LoginList(u) ==
  LET a == login[u]
  IN /\ busy[u].at = "list"
     /\ listed' = IF a = Nobody THEN listed ELSE [listed EXCEPT ![a] = @ \cup {u}]
     /\ drift' = IF a = Nobody \/ MayLogin(a) THEN drift ELSE [drift EXCEPT !.logins = @ \cup {u}]
     /\ Becomes(u, NotBusy)
     /\ UNCHANGED <<db, certTo, nickTo, skelTo, methodOf, login, accountOps>>

\* am.Logout, by destroy or a failed nick change, perhaps before the client is
\* listed: a list of one is then deleted although it names somebody else.
Logout(u) ==
  LET a == login[u]
  IN /\ a # Nobody
     /\ login' = [login EXCEPT ![u] = Nobody]
     /\ listed' = [listed EXCEPT ![a] = IF Cardinality(@) <= 1 THEN {} ELSE @ \ {u}]
     /\ drift' = [drift EXCEPT !.logins =
                 (@ \ {u}) \cup (IF Cardinality(listed[a]) = 1 THEN listed[a] \ {u} ELSE {})]
     /\ UNCHANGED <<db, certTo, nickTo, skelTo, methodOf, busy, accountOps>>

\* NS SUSPEND ADD: the suspension is stored ...
nsSuspendAddHandler(u) ==
  /\ Command(u)
  /\ \E a \in AccountIds :
       /\ db[a].exists
       /\ db' = [db EXCEPT ![a].suspended = TRUE]
       /\ Becomes(u, [at |-> "suspend", a |-> a])
  /\ UNCHANGED <<certTo, nickTo, skelTo, methodOf, login, listed, drift>>

\* What if: the clients that are logged in are left alone.
SuspendedClients_None(a) == {}
SuspendedClients(a) == listed[a]

\* ... and the account's clients are taken off the list and killed.
Suspend(u) ==
  LET a == busy[u].a
  IN /\ busy[u].at = "suspend"
     /\ Becomes(u, [at |-> "kill", who |-> SuspendedClients(a)])
     /\ listed' = [listed EXCEPT ![a] = {}]
     /\ UNCHANGED <<db, certTo, nickTo, skelTo, methodOf, login, accountOps, drift>>

nsSuspendRemoveHandler(u) ==
  /\ Command(u)
  /\ \E a \in AccountIds : db[a].suspended /\ db' = [db EXCEPT ![a].suspended = FALSE]
  /\ UNCHANGED <<certTo, nickTo, skelTo, methodOf, login, listed, busy, drift>>

-----------------------------------------------------------------------------
AccountsNext ==
  \/ buildNickToAccountIndex
  \/ \E a \in AccountIds : ExpireUnverified(a)
  \/ \E u \in Users :
       \/ nsRegisterHandler(u) \/ nsSaregisterHandler(u) \/ loadWithAutocreation(u)
       \/ dispatchCallback(u) \/ SARegister(u)
       \/ nsVerifyHandler(u) \/ nsSaverifyHandler(u) \/ nsUnregisterHandler(u) \/ KillClients(u)
       \/ nsGroupHandler(u) \/ nsDropHandler(u) \/ NsSadrop(u) \/ Rename(u)
       \/ NsSetEnforce(u) \/ SetEnforcementStatus(u)
       \/ nsPasswdHandler(u) \/ nsCertHandler(u) \/ WriteCreds(u) \/ NsSendpass(u) \/ NsResetpass(u)
       \/ AuthenticateByPassphrase(u) \/ AuthenticateByCertificate(u)
       \/ Login(u) \/ LoginList(u) \/ Logout(u)
       \/ nsSuspendAddHandler(u) \/ Suspend(u) \/ nsSuspendRemoveHandler(u)

AccountsSpec == AccountsInit /\ [][AccountsNext]_accountVars

-----------------------------------------------------------------------------
(* Properties. *)

Agrees(cached, claims) == IF claims = {} THEN cached = Nobody ELSE cached \in claims

\* "The cache is in sync with the DB": every nick and every skeleton is reserved
\* for an account to which the datastore gives it, and for nobody if it gives it to
\* nobody; an account's enforcement is the stored one.  Whatever registrations,
\* verifications, groupings and deletions of confusable names are interleaved; left
\* out are the keys that SADROP, RENAME, an ERASE of somebody else's nick, the
\* deletion of an unverified or of a differently cased name, a grouping after the
\* account's deletion and the drop of one of two nicks that fold alike put out of
\* step (`drift`), with the nicks that such an account still has when it is
\* registered again.
ReservationsMatchDb ==
  /\ \A k \in AccountIds \ drift.keys : Agrees(nickTo[k], NickClaims(k))
  /\ \A k \in Skels \ drift.keys : Agrees(skelTo[k], SkelClaims(k))
  /\ \A a \in AccountIds \ drift.methods :
       db[a].exists /\ (\A u \in Users : busy[u].at # "method") => methodOf[a] = db[a].strict

\* A fingerprint leads to the account whose credentials list it, and to no other:
\* registration, verification, deletion and the compare-and-swap of NS CERT and NS
\* PASSWD keep the two in step.  Left out are fingerprints that an operator gave to
\* an account that then expired unverified.
CertIndexExact ==
  \A f \in Certs \ drift.certs, a \in AccountIds : certTo[f] = a <=> f \in db[a].certs

\* A client that is logged in, with no suspension or deletion still at its list of
\* clients to kill, is logged into a verified account that is not suspended.  Left
\* out are clients whose login overtook a suspension or deletion, or whose entry in
\* the list was removed by another client's logout.
LoggedInIsAllowed == \A u \in Users :
  /\ login[u] # Nobody /\ busy[u].at # "list" /\ u \notin drift.logins
  /\ \A v \in Users : busy[v].at \notin {"suspend", "kill"}
  => MayLogin(login[u])

=============================================================================
