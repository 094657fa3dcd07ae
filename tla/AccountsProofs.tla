--------------------------- MODULE AccountsProofs ---------------------------
(***************************************************************************)
(* Proofs about the account manager (Accounts): whose a nick and its       *)
(* skeleton are, which fingerprint leads to which account, and who may     *)
(* stay logged in; and about Bans, for any connections, operators,         *)
(* networks, masks and number of commands.                                 *)
(***************************************************************************)
EXTENDS Accounts, Bans, FiniteSetTheorems, TLAPS

-----------------------------------------------------------------------------
(* Types. *)

AccountKeys ==
  [exists : BOOLEAN, name : Names \cup {Nobody}, verified : BOOLEAN, code : BOOLEAN,
   pass : BOOLEAN, certs : SUBSET Certs, nicks : SUBSET Names, strict : BOOLEAN,
   suspended : BOOLEAN, reset : BOOLEAN, gone : Names \cup {Nobody},
   kept : BOOLEAN, lasting : SUBSET Certs]

Drifts == [keys : SUBSET (AccountIds \cup Skels), certs : SUBSET Certs,
           methods : SUBSET AccountIds, logins : SUBSET Users]

Owning == AccountIds \cup {Nobody}

(* What setPassword and addRemoveCertfp write differs from what they read  *)
(* in the one fingerprint that they also enter in the index.               *)
Writes(b) ==
  /\ b.cert \in Certs \cup {Nobody}
  /\ b.old.certs \in SUBSET Certs /\ b.new.pass \in BOOLEAN
  /\ \/ b.cert = Nobody /\ b.new.certs = b.old.certs
     \/ b.cert \in b.old.certs /\ b.new.certs = b.old.certs \ {b.cert}
     \/ b.cert \in Certs \ b.old.certs /\ b.new.certs = b.old.certs \cup {b.cert}

BusyOK(b) ==
  /\ b.at \in {"callback", "verify", "login", "method", "write", "suspend"} => b.a \in AccountIds
  /\ b.at = "kill" => b.who \in SUBSET Users
  /\ b.at = "method" => b.v \in BOOLEAN
  /\ b.at = "write" => Writes(b)

AccountsType ==
  /\ db \in [AccountIds -> AccountKeys]
  /\ certTo \in [Certs -> Owning]
  /\ nickTo \in [AccountIds -> Owning] /\ skelTo \in [Skels -> Owning]
  /\ methodOf \in [AccountIds -> BOOLEAN]
  /\ login \in [Users -> Owning]
  /\ listed \in [AccountIds -> SUBSET Users]
  /\ busy = [u \in Users |-> busy[u]]
  /\ \A u \in Users : BusyOK(busy[u])
  /\ drift \in Drifts

-----------------------------------------------------------------------------
(* The inductive invariant. *)

(* An account that does not exist has only fingerprints that an operator's *)
(* write made lasting before the account expired.                          *)
CertInv ==
  /\ CertIndexExact
  /\ \A a \in AccountIds : ~db[a].exists => db[a].certs \subseteq drift.certs

(* A client that is logged in is in its account's list and the account     *)
(* allows it or is just being suspended, or somebody has taken it off the  *)
(* list and is about to kill it.                                           *)
Watched(u) ==
  \/ /\ u \in listed[login[u]]
     /\ \/ MayLogin(login[u])
        \/ \E v \in Users : busy[v].at = "suspend" /\ busy[v].a = login[u]
  \/ \E v \in Users : busy[v].at = "kill" /\ u \in busy[v].who

LoginInv ==
  /\ \A a \in AccountIds : IsFiniteSet(listed[a])
  /\ \A u \in Users : login[u] # Nobody /\ busy[u].at # "list" /\ u \notin drift.logins => Watched(u)

(* Of two names that claim the same nick or skeleton one is in drift.keys, *)
(* so that forgetting a name never takes a key away from somebody else.    *)
KeysMatch ==
  /\ \A k \in AccountIds \ drift.keys : Agrees(nickTo[k], NickClaims(k))
  /\ \A k \in Skels \ drift.keys : Agrees(skelTo[k], SkelClaims(k))

NickUnique == \A a, b \in AccountIds, n, m \in Names :
  Fold[n] = Fold[m] /\ Fold[n] \notin drift.keys /\ Named(a, n) /\ Named(b, m) => a = b /\ n = m

SkelUnique == \A a, b \in AccountIds, n, m \in Names :
  Skel[n] = Skel[m] /\ Skel[n] \notin drift.keys /\ Holds(a, n) /\ Holds(b, m) => a = b /\ n = m

StrandedKnown == \A a \in AccountIds, n \in Names :
  n \in db[a].nicks /\ (~db[a].verified \/ Fold[n] = a) => Fold[n] \in drift.keys /\ Skel[n] \in drift.keys

NamesOK == \A a \in AccountIds :
  /\ db[a].exists => db[a].gone = Nobody /\ db[a].name \in Names /\ Fold[db[a].name] = a
  /\ db[a].gone # Nobody => Fold[db[a].gone] = a
  /\ db[a].verified => db[a].exists

ReservationInv == KeysMatch /\ NickUnique /\ SkelUnique /\ StrandedKnown /\ NamesOK

(* What the enforcement cache says is stored, or about to be corrected.    *)
MethodInv == \A a \in AccountIds :
  /\ ~db[a].verified => ~db[a].strict
  /\ \/ a \in drift.methods
     \/ methodOf[a] = db[a].strict
     \/ \E u \in Users : busy[u].at = "method" /\ busy[u].a = a

AccountsInv == AccountsType /\ CertInv /\ LoginInv /\ ReservationInv /\ MethodInv
-----------------------------------------------------------------------------
(* What an action must leave alone to leave a part of the invariant alone. *)

CertFrame ==
  /\ certTo' = certTo /\ drift'.certs = drift.certs
  /\ \A a \in AccountIds : db'[a].certs = db[a].certs /\ (db[a].exists => db'[a].exists)

LoginFrame ==
  /\ login' = login /\ listed' = listed /\ drift'.logins = drift.logins
  /\ \A a \in AccountIds : db[a].verified /\ ~db[a].suspended => db'[a].verified /\ ~db'[a].suspended
  /\ \A v \in Users : busy'[v] = busy[v] \/ busy[v].at \notin {"list", "suspend", "kill"}

KeyFrame ==
  /\ nickTo' = nickTo /\ skelTo' = skelTo /\ drift'.keys = drift.keys
  /\ \A a \in AccountIds : /\ db'[a].exists = db[a].exists /\ db'[a].verified = db[a].verified
                           /\ db'[a].name = db[a].name /\ db'[a].nicks = db[a].nicks
                           /\ db'[a].gone = db[a].gone

MethodFrame ==
  /\ methodOf' = methodOf /\ drift'.methods = drift.methods
  /\ \A a \in AccountIds : db'[a].strict = db[a].strict /\ (db[a].verified => db'[a].verified)
  /\ \A v \in Users : busy'[v] = busy[v] \/ busy[v].at # "method"

(* The certificate index does not change.                                  *)
LEMMA CertFramed == ASSUME CertInv, CertFrame PROVE CertInv'
  BY DEF CertInv, CertIndexExact, CertFrame

(* Who is logged in does not change.                                       *)
LEMMA LoginFramed == ASSUME AccountsType, LoginInv, LoginFrame PROVE LoginInv'
<1>1. \A a \in AccountIds : IsFiniteSet(listed'[a])
  BY DEF LoginInv, LoginFrame
<1>2. ASSUME NEW u \in Users, login'[u] # Nobody, busy'[u].at # "list", u \notin drift'.logins
      PROVE  Watched(u)'
  <2>1. login[u] = login'[u] /\ login[u] \in AccountIds /\ u \notin drift.logins /\ busy[u].at # "list"
    BY <1>2 DEF LoginFrame, AccountsType, Owning
  <2>2. Watched(u)
    BY <1>2, <2>1 DEF LoginInv
  <2>3. \A v \in Users : busy[v].at \in {"suspend", "kill"} => busy'[v] = busy[v]
    BY DEF LoginFrame
  <2> QED BY <2>1, <2>2, <2>3 DEF Watched, MayLogin, LoginFrame
<1> QED BY <1>1, <1>2 DEF LoginInv

(* No reservation changes.                                                 *)
LEMMA KeyFramed == ASSUME ReservationInv, KeyFrame PROVE ReservationInv'
<1>1. \A a \in AccountIds, n \in Names : Holds(a, n)' = Holds(a, n) /\ Named(a, n)' = Named(a, n)
  BY DEF KeyFrame, Holds, Named
<1>2. \A k : NickClaims(k)' = NickClaims(k) /\ SkelClaims(k)' = SkelClaims(k)
  BY <1>1 DEF NickClaims, SkelClaims
<1>3. KeysMatch'
  BY <1>2 DEF ReservationInv, KeysMatch, KeyFrame, Agrees
<1>4. NickUnique' /\ SkelUnique'
  BY <1>1 DEF ReservationInv, NickUnique, SkelUnique, KeyFrame
<1>5. StrandedKnown' /\ NamesOK'
  BY DEF ReservationInv, StrandedKnown, NamesOK, KeyFrame
<1> QED BY <1>3, <1>4, <1>5 DEF ReservationInv

(* The enforcement settings do not change.                                 *)
LEMMA MethodFramed == ASSUME MethodInv, MethodFrame PROVE MethodInv'
<1> SUFFICES ASSUME NEW a \in AccountIds
             PROVE  /\ ~db'[a].verified => ~db'[a].strict
                    /\ \/ a \in drift'.methods
                       \/ methodOf'[a] = db'[a].strict
                       \/ \E u \in Users : busy'[u].at = "method" /\ busy'[u].a = a
  BY DEF MethodInv
<1>1. \A v \in Users : busy[v].at = "method" => busy'[v] = busy[v]
  BY DEF MethodFrame
<1> QED BY <1>1 DEF MethodFrame, MethodInv

-----------------------------------------------------------------------------
(* Facts about the constants and the records. *)

(* Nobody is no name, no account and no certificate.                       *)
LEMMA Ids ==
  /\ Nobody \notin AccountIds /\ Nobody \notin Certs /\ Nobody \notin Names
  /\ \A n \in Names : Fold[n] \in AccountIds /\ Skel[n] \in Skels
  /\ \A a \in AccountIds : a \in Names /\ Fold[a] = a
  BY AccountsAssumption DEF AccountIds, Skels

(* The values of an account that does not exist.                           *)
LEMMA NoAccountKeys == NoAccount \in AccountKeys
  BY DEF NoAccount, AccountKeys

(* Only `busy` of the user whose goroutine takes the step changes.         *)
LEMMA BusyStep ==
    ASSUME AccountsType, NEW u \in Users, NEW b, BusyOK(b), Becomes(u, b)
    PROVE  /\ busy' = [v \in Users |-> busy'[v]]
           /\ \A v \in Users : BusyOK(busy'[v])
           /\ busy'[u] = b /\ \A v \in Users \ {u} : busy'[v] = busy[v]
<1>1. busy' = [busy EXCEPT ![u] = b]
  BY DEF Becomes
<1>2. DOMAIN busy = Users
  BY DEF AccountsType
<1>3. busy'[u] = b /\ \A v \in Users \ {u} : busy'[v] = busy[v]
  BY <1>1, <1>2
<1>4. busy' = [v \in Users |-> busy'[v]]
  BY <1>1, <1>2
<1> QED BY <1>3, <1>4 DEF AccountsType

(* A goroutine between two operations.                                     *)
LEMMA NotBusyOK == BusyOK(NotBusy) /\ NotBusy.at = "rest"
  BY DEF BusyOK, NotBusy

-----------------------------------------------------------------------------
(* Registration and verification. *)

(* Register.                                                               *)
LEMMA RegisterInv ==
    ASSUME AccountsInv, NEW u \in Users, NEW n \in Names, NEW pass \in BOOLEAN,
           NEW f \in Certs \cup {Nobody}, NEW then, busy[u].at = "rest", Register(u, n, pass, f, then)
    PROVE  AccountsInv'
<1> DEFINE a == Fold[n]
           new == [NoAccount EXCEPT !.exists = TRUE, !.name = n, !.pass = pass,
                                    !.certs = {f} \ {Nobody}, !.nicks = db[a].nicks,
                                    !.code = db[a].code]
<1>1. a \in AccountIds /\ Skel[n] \in Skels
  BY Ids
<1>2. db[a] \in AccountKeys
  BY <1>1 DEF AccountsInv, AccountsType
<1>3. new \in AccountKeys
  BY <1>2, NoAccountKeys DEF AccountKeys
<1>4. /\ new.exists = TRUE /\ new.name = n /\ new.certs = {f} \ {Nobody} /\ new.nicks = db[a].nicks
      /\ new.verified = FALSE /\ new.strict = FALSE /\ new.gone = Nobody
  BY DEF NoAccount
<1>5. /\ NickToAccount(n) = Nobody /\ db[a].gone = Nobody /\ ~db[a].exists
      /\ f # Nobody => certTo[f] = Nobody
      /\ db' = [db EXCEPT ![a] = new]
      /\ certTo' = [g \in Certs |-> IF g = f THEN a ELSE certTo[g]]
      /\ Becomes(u, [at |-> "callback", a |-> a, then |-> then])
      /\ UNCHANGED <<nickTo, skelTo, methodOf, login, listed, drift>>
  BY DEF Register
<1> HIDE DEF new
<1>6. db'[a] = new /\ \A b \in AccountIds \ {a} : db'[b] = db[b]
  BY <1>1, <1>5 DEF AccountsInv, AccountsType
<1>7. BusyOK([at |-> "callback", a |-> a, then |-> then])
  BY <1>1 DEF BusyOK
<1>8. AccountsType'
  <2>1. db' \in [AccountIds -> AccountKeys]
    BY <1>1, <1>3, <1>5 DEF AccountsInv, AccountsType
  <2>2. certTo' \in [Certs -> Owning]
    BY <1>1, <1>5 DEF AccountsInv, AccountsType, Owning
  <2> QED BY <1>5, <1>7, <2>1, <2>2, BusyStep DEF AccountsInv, AccountsType
<1>9. \A v \in Users : v # u => busy'[v] = busy[v]
  BY <1>5, <1>7, BusyStep DEF AccountsInv
<1>10. CertInv'
  <2>1. db[a].certs \subseteq drift.certs
    BY <1>1, <1>5 DEF AccountsInv, CertInv
  <2>2. ASSUME NEW g \in Certs \ drift.certs, NEW b \in AccountIds
        PROVE  certTo'[g] = b <=> g \in db'[b].certs
    <3>1. (certTo[g] = b <=> g \in db[b].certs) /\ (g = f => certTo[g] = Nobody) /\ b # Nobody
      BY <1>5, Ids DEF AccountsInv, CertInv, CertIndexExact
    <3> QED BY <1>1, <1>4, <1>5, <1>6, <2>1, <3>1, Ids
  <2> QED BY <1>4, <1>5, <1>6, <2>2 DEF AccountsInv, CertInv, CertIndexExact
<1>11. LoginInv'
  <2>1. ~db[a].verified
    BY <1>1, <1>5 DEF AccountsInv, ReservationInv, NamesOK
  <2>2. LoginFrame
    BY <1>5, <1>6, <1>9, <2>1 DEF LoginFrame
  <2> QED BY <2>2, LoginFramed DEF AccountsInv
<1>12. MethodInv'
  <2>1. ~db[a].verified /\ ~db[a].strict
    BY <1>1, <1>5 DEF AccountsInv, ReservationInv, NamesOK, MethodInv
  <2>2. db[a].strict = FALSE
    BY <1>2, <2>1 DEF AccountKeys
  <2>3. MethodFrame
    BY <1>4, <1>5, <1>6, <1>9, <2>1, <2>2, ZenonT(60) DEF MethodFrame
  <2> QED BY <2>3, MethodFramed DEF AccountsInv
<1>13. ReservationInv'
  <2>1. nickTo[a] = Nobody /\ skelTo[Skel[n]] = Nobody
    BY <1>5 DEF NickToAccount
  <2>2. \A m \in db[a].nicks : Fold[m] \in drift.keys /\ Skel[m] \in drift.keys
    BY <1>1, <1>2, <1>5 DEF AccountsInv, ReservationInv, StrandedKnown, NamesOK, AccountKeys
  <2>3. \A b \in AccountIds, m \in Names : Holds(b, m)' <=> (Holds(b, m) \/ (b = a /\ m \in db[a].nicks))
    BY <1>1, <1>4, <1>5, <1>6, Ids DEF AccountsInv, ReservationInv, NamesOK, Holds
  <2>4. \A b \in AccountIds, m \in Names :
          Named(b, m)' <=> (Named(b, m) \/ (b = a /\ (m = n \/ m \in db[a].nicks)))
    BY <1>1, <1>4, <1>5, <1>6, <2>3, Ids DEF Named
  <2>5. \A k \in AccountIds \ drift.keys : NickClaims(k)' = NickClaims(k)
    BY <2>2, <2>3 DEF NickClaims
  <2>6. \A k \in Skels \ drift.keys : SkelClaims(k)' = SkelClaims(k)
    BY <2>2, <2>3 DEF SkelClaims
  <2>7. KeysMatch'
    BY <1>5, <2>5, <2>6 DEF AccountsInv, ReservationInv, KeysMatch, Agrees
  <2>8. a \notin drift.keys => \A b \in AccountIds, m \in Names : Fold[m] = a => ~Named(b, m)
    <3>1. ASSUME a \notin drift.keys, NEW b \in AccountIds, NEW m \in Names, Fold[m] = a, Named(b, m)
          PROVE  FALSE
      <4>1. NickClaims(a) = {}
        BY <1>1, <2>1, <3>1, Ids DEF AccountsInv, ReservationInv, KeysMatch, Agrees, NickClaims
      <4>2. ~Holds(b, m)
        BY <3>1, <4>1 DEF NickClaims
      <4>3. db[b].exists /\ db[b].name = m
        BY <3>1, <4>2 DEF Named
      <4> QED BY <1>5, <3>1, <4>3 DEF AccountsInv, ReservationInv, NamesOK
    <3> QED BY <3>1
  <2>9. NickUnique'
    BY <1>1, <1>5, <2>2, <2>4, <2>8 DEF AccountsInv, ReservationInv, NickUnique
  <2>10. SkelUnique'
    BY <1>5, <2>2, <2>3 DEF AccountsInv, ReservationInv, SkelUnique
  <2>11. StrandedKnown'
    BY <1>4, <1>5, <1>6, <2>2 DEF AccountsInv, ReservationInv, StrandedKnown
  <2>12. NamesOK'
    BY <1>4, <1>5, <1>6 DEF AccountsInv, ReservationInv, NamesOK
  <2> QED BY <2>7, <2>9, <2>10, <2>11, <2>12 DEF ReservationInv
<1> QED BY <1>8, <1>10, <1>11, <1>12, <1>13 DEF AccountsInv

(* Verify, with the registration of the nick and certificate.              *)
LEMMA VerifyInv ==
    ASSUME AccountsInv, NEW u \in Users, NEW a \in AccountIds, NEW then, BusyOK(then),
           busy[u].at \in {"rest", "verify"}, Verify(u, a, then)
    PROVE  AccountsInv'
<1>0. PICK n : n = db[a].name
  OBVIOUS
<1>1. /\ db[a].exists /\ ~db[a].verified /\ skelTo[Skel[n]] = Nobody
      /\ db' = [db EXCEPT ![a].verified = TRUE, ![a].code = FALSE, ![a].kept = FALSE, ![a].lasting = {}]
      /\ certTo' = [f \in Certs |-> IF f \in db[a].certs THEN a ELSE certTo[f]]
      /\ nickTo' = [nickTo EXCEPT ![a] = a]
      /\ skelTo' = [skelTo EXCEPT ![Skel[n]] = a]
      /\ Becomes(u, then)
      /\ UNCHANGED <<methodOf, login, listed, drift>>
  BY <1>0 DEF Verify, Verifiable
<1>14. db[a].exists /\ ~db[a].verified
  BY <1>1
<1>2. n \in Names /\ Fold[n] = a /\ Skel[n] \in Skels /\ db[a].gone = Nobody
  BY <1>0, <1>1, Ids DEF AccountsInv, ReservationInv, NamesOK
<1>3. db[a] \in AccountKeys
  BY DEF AccountsInv, AccountsType
<1>4. db' \in [AccountIds -> AccountKeys]
  <2>1. [db[a] EXCEPT !.verified = TRUE, !.code = FALSE, !.kept = FALSE, !.lasting = {}] \in AccountKeys
    BY <1>3 DEF AccountKeys
  <2> QED BY <1>1, <2>1 DEF AccountsInv, AccountsType
<1>5. /\ db'[a].verified = TRUE /\ db'[a].exists = db[a].exists /\ db'[a].name = n
      /\ db'[a].nicks = db[a].nicks /\ db'[a].gone = db[a].gone /\ db'[a].certs = db[a].certs
      /\ db'[a].strict = db[a].strict /\ db'[a].suspended = db[a].suspended
  BY <1>0, <1>1, <1>3 DEF AccountsInv, AccountsType, AccountKeys
<1>6. \A b \in AccountIds \ {a} : db'[b] = db[b]
  BY <1>1 DEF AccountsInv, AccountsType
<1>13. \A b \in AccountIds : /\ db'[b].exists = db[b].exists /\ db'[b].name = db[b].name
                             /\ db'[b].nicks = db[b].nicks /\ db'[b].gone = db[b].gone
                             /\ db'[b].certs = db[b].certs
  BY <1>0, <1>5, <1>6
<1>7. AccountsType'
  <2>1. certTo' \in [Certs -> Owning] /\ nickTo' \in [AccountIds -> Owning] /\ skelTo' \in [Skels -> Owning]
    BY <1>1, <1>2 DEF AccountsInv, AccountsType, Owning
  <2> QED BY <1>1, <1>4, <2>1, BusyStep DEF AccountsInv, AccountsType
<1>8. \A v \in Users : v # u => busy'[v] = busy[v]
  BY <1>1, BusyStep DEF AccountsInv
<1>9. CertInv'
  <2>1. ASSUME NEW g \in Certs \ drift.certs, NEW b \in AccountIds
        PROVE  certTo'[g] = b <=> g \in db'[b].certs
    <3>1. (certTo[g] = b <=> g \in db[b].certs) /\ (certTo[g] = a <=> g \in db[a].certs)
      BY DEF AccountsInv, CertInv, CertIndexExact
    <3> QED BY <1>1, <1>5, <1>6, <3>1
  <2>2. \A b \in AccountIds : ~db'[b].exists => db'[b].certs \subseteq drift.certs
    BY <1>13 DEF AccountsInv, CertInv
  <2> QED BY <1>1, <2>1, <2>2 DEF CertInv, CertIndexExact
<1>10. LoginInv'
  <2>1. LoginFrame
    BY <1>1, <1>5, <1>6, <1>8 DEF LoginFrame
  <2> QED BY <2>1, LoginFramed DEF AccountsInv
<1>11. MethodInv'
  <2>1. MethodFrame
    BY <1>1, <1>5, <1>6, <1>8 DEF MethodFrame
  <2> QED BY <2>1, MethodFramed DEF AccountsInv
<1>12. ReservationInv'
  <2>1. \A b \in AccountIds, m \in Names : Holds(b, m)' <=> (Holds(b, m) \/ (b = a /\ m = n))
    BY <1>1, <1>2, <1>5, <1>6, ZenonT(60) DEF Holds
  <2>2. \A b \in AccountIds, m \in Names : Named(b, m)' <=> Named(b, m)
    BY <1>0, <1>2, <1>13, <1>14, <2>1 DEF Named
  <2>3. \A k \in AccountIds \ {a} : NickClaims(k)' = NickClaims(k) /\ nickTo'[k] = nickTo[k]
    BY <1>1, <1>2, <2>1 DEF NickClaims, AccountsInv, AccountsType
  <2>4. \A k \in Skels \ {Skel[n]} : SkelClaims(k)' = SkelClaims(k) /\ skelTo'[k] = skelTo[k]
    BY <1>1, <1>2, <2>1 DEF SkelClaims, AccountsInv, AccountsType
  <2>5. a \in NickClaims(a)' /\ nickTo'[a] = a /\ a \in SkelClaims(Skel[n])' /\ skelTo'[Skel[n]] = a
    BY <1>1, <1>2, <2>1 DEF NickClaims, SkelClaims, AccountsInv, AccountsType
  <2>6. KeysMatch'
    <3>1. ASSUME NEW k \in AccountIds \ drift.keys PROVE Agrees(nickTo[k], NickClaims(k))'
      BY <2>3, <2>5, <3>1 DEF Agrees, AccountsInv, ReservationInv, KeysMatch
    <3>2. ASSUME NEW k \in Skels \ drift.keys PROVE Agrees(skelTo[k], SkelClaims(k))'
      <4>1. CASE k = Skel[n]
        BY <2>5, <4>1 DEF Agrees
      <4>2. CASE k # Skel[n]
        BY <2>4, <3>2, <4>2 DEF Agrees, AccountsInv, ReservationInv, KeysMatch
      <4> QED BY <4>1, <4>2
    <3> QED BY <1>1, <3>1, <3>2 DEF KeysMatch
  <2>7. NickUnique'
    BY <1>1, <2>2 DEF AccountsInv, ReservationInv, NickUnique
  <2>8. Skel[n] \notin drift.keys => \A b \in AccountIds, m \in Names : Skel[m] = Skel[n] => ~Holds(b, m)
    <3>1. Skel[n] \notin drift.keys => SkelClaims(Skel[n]) = {}
      BY <1>1, <1>2, Ids DEF AccountsInv, ReservationInv, KeysMatch, Agrees, SkelClaims
    <3> QED BY <3>1 DEF SkelClaims
  <2>9. SkelUnique'
    BY <1>1, <2>1, <2>8 DEF AccountsInv, ReservationInv, SkelUnique
  <2>10. StrandedKnown'
    BY <1>1, <1>5, <1>6 DEF AccountsInv, ReservationInv, StrandedKnown
  <2>11. NamesOK'
    <3>1. \A b \in AccountIds : db'[b].verified => db'[b].exists
      BY <1>6, <1>13, <1>14 DEF AccountsInv, ReservationInv, NamesOK
    <3> QED BY <1>13, <3>1 DEF AccountsInv, ReservationInv, NamesOK
  <2> QED BY <2>6, <2>7, <2>9, <2>10, <2>11 DEF ReservationInv
<1> QED BY <1>7, <1>9, <1>10, <1>11, <1>12 DEF AccountsInv

-----------------------------------------------------------------------------
(* Deletion. *)

(* Nothing but a protected name remains of what the account held.          *)
LEMMA UnregisterInv ==
    ASSUME AccountsInv, NEW u \in Users, NEW a \in AccountIds, NEW erase \in BOOLEAN,
           erase \/ db[a].exists, busy[u].at \in {"rest", "callback"}, Unregister(u, a, erase)
    PROVE  AccountsInv'
<1>1. PICK name : name = IF db[a].exists THEN db[a].name ELSE db[a].gone
  OBVIOUS
<1>2. PICK protect \in BOOLEAN : protect <=> (~erase /\ db[a].verified)
  <2>1. (~erase /\ db[a].verified) \in BOOLEAN
    OBVIOUS
  <2> QED BY <2>1
<1>3. PICK lost : lost = {Skel[n] : n \in {m \in {name} \ {Nobody} : skelTo[Skel[m]] \notin {a, Nobody}}}
                           \cup {k \in {a} : nickTo[k] \notin {a, Nobody}}
  OBVIOUS
<1>4. PICK odd : odd = {Fold[n] : n \in {m \in db[a].nicks : Fold[m] # m}}
  OBVIOUS
<1>a. PICK gone : gone = IF protect THEN name ELSE IF erase THEN Nobody ELSE db[a].gone
  OBVIOUS
<1>b. PICK new : new = [NoAccount EXCEPT !.gone = gone]
  OBVIOUS
<1>c. db' = [db EXCEPT ![a] = new]
  BY <1>1, <1>2, <1>a, <1>b DEF Unregister
<1>d. /\ db[a] \in AccountKeys
      /\ db[a].exists => db[a].gone = Nobody /\ db[a].name \in Names /\ Fold[db[a].name] = a
      /\ db[a].gone # Nobody => Fold[db[a].gone] = a
      /\ db[a].verified => db[a].exists
  BY DEF AccountsInv, AccountsType, ReservationInv, NamesOK
<1>e. name \in Names \cup {Nobody} /\ (name # Nobody => name \in Names /\ Fold[name] = a)
  BY <1>1, <1>d DEF AccountKeys
<1>f. protect => name # Nobody
  BY <1>1, <1>2, <1>d, Ids
<1>g. gone = IF protect THEN name ELSE Nobody
  BY <1>2, <1>a, <1>d
<1>h. new \in AccountKeys
  BY <1>b, <1>e, <1>g, NoAccountKeys DEF AccountKeys
<1>i. /\ new.exists = FALSE /\ new.verified = FALSE /\ new.strict = FALSE /\ new.nicks = {}
      /\ new.certs = {} /\ new.gone = gone
  BY <1>b DEF NoAccount
<1>j. db' \in [AccountIds -> AccountKeys] /\ db'[a] = new /\ \A b \in AccountIds \ {a} : db'[b] = db[b]
  BY <1>c, <1>h DEF AccountsInv, AccountsType
<1>5. /\ db' \in [AccountIds -> AccountKeys]
      /\ \A b \in AccountIds \ {a} : db'[b] = db[b]
      /\ db'[a].exists = FALSE /\ db'[a].verified = FALSE /\ db'[a].strict = FALSE
      /\ db'[a].nicks = {} /\ db'[a].certs = {}
      /\ db'[a].gone = IF protect THEN name ELSE Nobody
      /\ name # Nobody => name \in Names /\ Fold[name] = a
      /\ protect => name # Nobody
  BY <1>e, <1>f, <1>g, <1>i, <1>j
<1>6. \A b \in AccountIds, m \in Names :
        /\ b # a => (Holds(b, m)' <=> Holds(b, m)) /\ (Named(b, m)' <=> Named(b, m))
        /\ b = a => (Holds(b, m)' <=> protect /\ m = name) /\ (Named(b, m)' <=> protect /\ m = name)
  <2>1. ASSUME NEW b \in AccountIds \ {a}, NEW m \in Names
        PROVE  (Holds(b, m)' <=> Holds(b, m)) /\ (Named(b, m)' <=> Named(b, m))
    BY <1>j, <2>1 DEF Holds, Named
  <2>2. ASSUME NEW m \in Names
        PROVE  (Holds(a, m)' <=> protect /\ m = name) /\ (Named(a, m)' <=> protect /\ m = name)
    BY <1>5, Ids DEF Holds, Named
  <2> QED BY <2>1, <2>2
<1>7. /\ certTo' = DropCerts(a) /\ nickTo' = ForgetNicks(a, protect)
      /\ skelTo' = ForgetSkels(a, name, protect)
      /\ listed' = [listed EXCEPT ![a] = {}]
      /\ Becomes(u, [at |-> "kill", who |-> listed[a]])
      /\ methodOf' = methodOf /\ login' = login
      /\ drift' = [drift EXCEPT !.keys = @ \cup odd \cup (IF protect THEN {} ELSE lost),
                                !.methods = @ \cup {b \in {a} : methodOf[b]}]
  BY <1>1, <1>2, <1>3, <1>4 DEF Unregister
<1>8. db[a] \in AccountKeys /\ drift \in Drifts /\ db[a].nicks \subseteq Names
  BY DEF AccountsInv, AccountsType, AccountKeys
<1>9. odd \subseteq AccountIds /\ lost \subseteq AccountIds \cup Skels
  BY <1>3, <1>4, <1>5, <1>8, Ids
<1>10. /\ drift'.keys = drift.keys \cup odd \cup (IF protect THEN {} ELSE lost)
       /\ drift'.methods = drift.methods \cup {b \in {a} : methodOf[b]}
       /\ drift'.certs = drift.certs /\ drift'.logins = drift.logins
  BY <1>7, <1>8 DEF Drifts
<1>11. drift' \in Drifts
  BY <1>7, <1>8, <1>9 DEF Drifts
<1>12. BusyOK([at |-> "kill", who |-> listed[a]])
  BY DEF BusyOK, AccountsInv, AccountsType
<1>13. AccountsType'
  <2>1. certTo' \in [Certs -> Owning]
    BY <1>7 DEF DropCerts, AccountsInv, AccountsType, Owning
  <2>2. nickTo' \in [AccountIds -> Owning] /\ skelTo' \in [Skels -> Owning]
    BY <1>7 DEF ForgetNicks, ForgetSkels, AccountsInv, AccountsType, Owning
  <2> QED BY <1>5, <1>7, <1>11, <1>12, <2>1, <2>2, BusyStep DEF AccountsInv, AccountsType
<1>14. busy'[u] = [at |-> "kill", who |-> listed[a]] /\ \A v \in Users : v # u => busy'[v] = busy[v]
  BY <1>7, <1>12, BusyStep DEF AccountsInv
<1>15. CertInv'
  <2>1. ASSUME NEW g \in Certs \ drift.certs, NEW b \in AccountIds
        PROVE  certTo'[g] = b <=> g \in db'[b].certs
    <3>1. (certTo[g] = b <=> g \in db[b].certs) /\ (certTo[g] = a <=> g \in db[a].certs) /\ b # Nobody
      BY Ids DEF AccountsInv, CertInv, CertIndexExact
    <3>2. certTo'[g] = IF g \in db[a].certs /\ certTo[g] = a THEN Nobody ELSE certTo[g]
      BY <1>7 DEF DropCerts
    <3> QED BY <1>5, <3>1, <3>2
  <2>2. \A b \in AccountIds : ~db'[b].exists => db'[b].certs \subseteq drift.certs
    BY <1>5 DEF AccountsInv, CertInv
  <2> QED BY <1>10, <2>1, <2>2 DEF CertInv, CertIndexExact
<1>16. LoginInv'
  <2>1. listed'[a] = {} /\ \A b \in AccountIds \ {a} : listed'[b] = listed[b]
    BY <1>7 DEF AccountsInv, AccountsType
  <2>2. \A b \in AccountIds : IsFiniteSet(listed'[b])
    BY <2>1, FS_EmptySet DEF AccountsInv, LoginInv
  <2>3. ASSUME NEW v \in Users, login'[v] # Nobody, busy'[v].at # "list", v \notin drift'.logins
        PROVE  Watched(v)'
    <3>1. login[v] \in AccountIds /\ login'[v] = login[v] /\ busy[v].at # "list" /\ v \notin drift.logins
      BY <1>7, <1>10, <1>14, <2>3 DEF AccountsInv, AccountsType, Owning
    <3>2. Watched(v)
      BY <2>3, <3>1 DEF AccountsInv, LoginInv, Owning
    <3>3. CASE login[v] = a /\ v \in listed[a]
      BY <1>14, <3>1, <3>3 DEF Watched
    <3>4. CASE login[v] # a
      <4>1. db'[login[v]] = db[login[v]] /\ listed'[login[v]] = listed[login[v]]
        BY <1>5, <2>1, <3>1, <3>4
      <4> QED BY <1>14, <3>1, <3>2, <4>1 DEF Watched, MayLogin
    <3>5. CASE \E w \in Users : busy[w].at = "kill" /\ v \in busy[w].who
      BY <1>14, <3>5 DEF Watched
    <3> QED BY <3>2, <3>3, <3>4, <3>5 DEF Watched
  <2> QED BY <2>2, <2>3 DEF LoginInv
<1>17. MethodInv'
  <2>1. \A b \in AccountIds \ {a} : db'[b] = db[b] /\ methodOf'[b] = methodOf[b] /\ methodOf[a] \in BOOLEAN
    BY <1>5, <1>7 DEF AccountsInv, AccountsType
  <2>2. \A v \in Users : busy[v].at = "method" => busy'[v] = busy[v]
    BY <1>14
  <2>3. a \in drift'.methods \/ methodOf'[a] = db'[a].strict
    <3>1. methodOf[a] \in BOOLEAN
      BY DEF AccountsInv, AccountsType
    <3> QED BY <1>5, <1>7, <1>10, <3>1
  <2>4. ASSUME NEW b \in AccountIds \ {a}
        PROVE  /\ ~db'[b].verified => ~db'[b].strict
               /\ \/ b \in drift'.methods
                  \/ methodOf'[b] = db'[b].strict
                  \/ \E v \in Users : busy'[v].at = "method" /\ busy'[v].a = b
    BY <1>10, <2>1, <2>2, <2>4 DEF AccountsInv, MethodInv
  <2> QED BY <1>5, <2>3, <2>4 DEF MethodInv
<1>18. ReservationInv'
  <2>1. /\ \A b \in AccountIds, m \in Names : Holds(b, m)' => Holds(b, m)
        /\ \A b \in AccountIds, m \in Names : Named(b, m)' => Named(b, m)
    BY <1>1, <1>2, <1>5, <1>6 DEF Holds, Named, AccountsInv, ReservationInv, NamesOK
  <2>2. drift.keys \subseteq drift'.keys
    BY <1>10
  <2>3. NickUnique' /\ SkelUnique'
    BY <2>1, <2>2 DEF AccountsInv, ReservationInv, NickUnique, SkelUnique
  <2>4. StrandedKnown'
    BY <1>5, <2>2 DEF AccountsInv, ReservationInv, StrandedKnown
  <2>5. NamesOK'
    BY <1>5, Ids DEF AccountsInv, ReservationInv, NamesOK
  <2>6. \A n \in db[a].nicks : Fold[n] \notin drift.keys \/ Skel[n] \notin drift.keys =>
          db[a].exists /\ Holds(a, n) /\ Named(a, n) /\ Fold[n] # a
    BY <1>8 DEF Holds, Named, AccountsInv, ReservationInv, StrandedKnown, NamesOK
  <2>7. ASSUME NEW k \in AccountIds \ drift'.keys PROVE Agrees(nickTo[k], NickClaims(k))'
    <3>0. k \notin drift.keys /\ k \notin odd /\ (protect \/ k \notin lost)
      BY <1>10, <2>7
    <3>1. nickTo'[k] = IF (k = a /\ ~protect) \/ k \in db[a].nicks THEN Nobody ELSE nickTo[k]
      BY <1>7 DEF ForgetNicks
    <3>2. CASE k \in db[a].nicks
      <4>1. Fold[k] = k /\ k \in Names /\ Named(a, k) /\ k # a
        BY <2>6, <3>0, <3>2, Ids
      <4>2. ASSUME NEW b \in AccountIds, NEW m \in Names, Fold[m] = k, Holds(b, m)' PROVE FALSE
        <5>1. Named(b, m)
          BY <2>1, <4>2 DEF Named
        <5>2. b = a /\ m = k
          BY <3>0, <4>1, <4>2, <5>1 DEF AccountsInv, ReservationInv, NickUnique
        <5> QED BY <1>5, <1>6, <4>1, <4>2, <5>2
      <4>3. NickClaims(k)' = {}
        BY <4>2 DEF NickClaims
      <4> QED BY <3>1, <3>2, <4>3 DEF Agrees
    <3>3. CASE k = a /\ ~protect
      <4>1. nickTo[a] \in {a, Nobody}
        BY <1>3, <3>0, <3>3
      <4>2. ASSUME NEW b \in AccountIds, NEW m \in Names, Fold[m] = k, Holds(b, m)' PROVE FALSE
        <5>1. b # a /\ Holds(b, m) /\ Named(b, m)
          BY <1>6, <3>3, <4>2 DEF Named
        <5>2. b \in NickClaims(a)
          BY <3>3, <4>2, <5>1 DEF NickClaims
        <5>3. nickTo[a] \in NickClaims(a) /\ nickTo[a] # Nobody
          BY <3>0, <3>3, <5>2, Ids DEF AccountsInv, ReservationInv, KeysMatch, Agrees, NickClaims
        <5>4. PICK n \in Names : Fold[n] = a /\ Holds(a, n)
          BY <4>1, <5>3 DEF NickClaims
        <5> QED BY <3>0, <3>3, <4>2, <5>1, <5>4 DEF Named, AccountsInv, ReservationInv, NickUnique
      <4>3. NickClaims(k)' = {}
        BY <4>2 DEF NickClaims
      <4> QED BY <3>1, <3>3, <4>3 DEF Agrees
    <3>4. CASE k \notin db[a].nicks /\ ~(k = a /\ ~protect)
      <4>1. ASSUME NEW m \in Names, Fold[m] = k, Holds(a, m) PROVE Holds(a, m)'
        <5>1. m \notin db[a].nicks
          BY <1>4, <3>0, <3>4, <4>1
        <5>2. k = a
          BY <1>1, <1>8, <4>1, <5>1, Ids DEF Holds, AccountsInv, ReservationInv, NamesOK
        <5>3. protect /\ m = name
          BY <1>1, <1>2, <3>4, <4>1, <5>1, <5>2, Ids DEF Holds, AccountsInv, ReservationInv, NamesOK
        <5> QED BY <1>6, <5>3
      <4>2. NickClaims(k)' = NickClaims(k)
        BY <1>6, <2>1, <4>1 DEF NickClaims
      <4> QED BY <3>0, <3>1, <3>4, <4>2 DEF Agrees, AccountsInv, ReservationInv, KeysMatch
    <3> QED BY <3>2, <3>3, <3>4
  <2>8. ASSUME NEW k \in Skels \ drift'.keys PROVE Agrees(skelTo[k], SkelClaims(k))'
    <3>0. k \notin drift.keys /\ (protect \/ k \notin lost)
      BY <1>10, <2>8
    <3>1. skelTo'[k] = IF \/ ~protect /\ name # Nobody /\ k = Skel[name]
                          \/ \E n \in db[a].nicks : k = Skel[n]
                       THEN Nobody ELSE skelTo[k]
      BY <1>7 DEF ForgetSkels
    <3>2. CASE \E n \in db[a].nicks : k = Skel[n]
      <4>0. PICK n \in db[a].nicks : k = Skel[n]
        BY <3>2
      <4>1. n \in Names /\ Holds(a, n) /\ Fold[n] # a
        BY <1>8, <2>6, <3>0, <4>0
      <4>2. ASSUME NEW b \in AccountIds, NEW m \in Names, Skel[m] = k, Holds(b, m)' PROVE FALSE
        <5>1. b = a /\ m = n
          BY <2>1, <3>0, <4>0, <4>1, <4>2 DEF AccountsInv, ReservationInv, SkelUnique
        <5> QED BY <1>5, <1>6, <4>1, <4>2, <5>1
      <4>3. SkelClaims(k)' = {}
        BY <4>2 DEF SkelClaims
      <4> QED BY <3>1, <3>2, <4>3 DEF Agrees
    <3>3. CASE ~protect /\ name # Nobody /\ k = Skel[name]
      <4>1. skelTo[k] \in {a, Nobody}
        BY <1>3, <3>0, <3>3
      <4>2. ASSUME NEW b \in AccountIds, NEW m \in Names, Skel[m] = k, Holds(b, m)' PROVE FALSE
        <5>1. b # a /\ Holds(b, m)
          BY <1>6, <3>3, <4>2
        <5>2. b \in SkelClaims(k)
          BY <4>2, <5>1 DEF SkelClaims
        <5>3. skelTo[k] \in SkelClaims(k) /\ skelTo[k] # Nobody
          BY <3>0, <5>2, Ids DEF AccountsInv, ReservationInv, KeysMatch, Agrees, SkelClaims
        <5>4. PICK n \in Names : Skel[n] = k /\ Holds(a, n)
          BY <4>1, <5>3 DEF SkelClaims
        <5> QED BY <3>0, <4>2, <5>1, <5>4 DEF AccountsInv, ReservationInv, SkelUnique
      <4>3. SkelClaims(k)' = {}
        BY <4>2 DEF SkelClaims
      <4> QED BY <3>1, <3>3, <4>3 DEF Agrees
    <3>4. CASE /\ ~(\E n \in db[a].nicks : k = Skel[n])
               /\ ~(~protect /\ name # Nobody /\ k = Skel[name])
      <4>1. ASSUME NEW m \in Names, Skel[m] = k, Holds(a, m) PROVE Holds(a, m)'
        <5>1. m \notin db[a].nicks
          BY <3>4, <4>1
        <5>2. m = name
          BY <1>1, <4>1, <5>1, Ids DEF Holds, AccountsInv, ReservationInv, NamesOK
        <5>3. protect
          BY <3>4, <4>1, <5>2, Ids
        <5> QED BY <1>6, <5>2, <5>3
      <4>2. SkelClaims(k)' = SkelClaims(k)
        BY <1>6, <2>1, <4>1 DEF SkelClaims
      <4> QED BY <3>0, <3>1, <3>4, <4>2 DEF Agrees, AccountsInv, ReservationInv, KeysMatch
    <3> QED BY <3>2, <3>3, <3>4
  <2>9. KeysMatch'
    BY <2>7, <2>8 DEF KeysMatch
  <2> QED BY <2>3, <2>4, <2>5, <2>9 DEF ReservationInv
<1> QED BY <1>13, <1>15, <1>16, <1>17, <1>18 DEF AccountsInv

(* An unverified registration expires.                                     *)
LEMMA ExpireInv ==
    ASSUME AccountsInv, NEW a \in AccountIds, ExpireUnverified(a)
    PROVE  AccountsInv'
<1>1. PICK left : left = [NoAccount EXCEPT !.gone = db[a].gone, !.nicks = db[a].nicks]
  OBVIOUS
<1>2. PICK new : new = IF db[a].kept THEN [left EXCEPT !.pass = db[a].pass, !.certs = db[a].certs] ELSE left
  OBVIOUS
<1>3. /\ db[a].exists /\ ~db[a].verified
      /\ db' = [db EXCEPT ![a] = new]
      /\ certTo' = [f \in Certs |-> IF f \in db[a].certs \ db[a].lasting /\ certTo[f] = a
                                    THEN Nobody ELSE certTo[f]]
      /\ drift' = [drift EXCEPT !.certs = @ \cup db[a].lasting \cup (IF db[a].kept THEN db[a].certs ELSE {})]
      /\ UNCHANGED <<nickTo, skelTo, methodOf, login, listed, busy, accountOps>>
  BY <1>1, <1>2 DEF ExpireUnverified
<1>4. db[a] \in AccountKeys /\ drift \in Drifts
  BY DEF AccountsInv, AccountsType
<1>5. left \in AccountKeys
  BY <1>1, <1>4, NoAccountKeys DEF AccountKeys
<1>6. new \in AccountKeys
  BY <1>2, <1>4, <1>5 DEF AccountKeys
<1>7. /\ left.exists = FALSE /\ left.verified = FALSE /\ left.strict = FALSE /\ left.certs = {}
      /\ left.nicks = db[a].nicks /\ left.gone = db[a].gone
  BY <1>1 DEF NoAccount
<1>8. /\ new.exists = FALSE /\ new.verified = FALSE /\ new.strict = FALSE
      /\ new.certs = IF db[a].kept THEN db[a].certs ELSE {}
      /\ new.nicks = db[a].nicks /\ new.gone = db[a].gone
  BY <1>2, <1>5, <1>7 DEF AccountKeys
<1>9. db' \in [AccountIds -> AccountKeys] /\ db'[a] = new /\ \A b \in AccountIds \ {a} : db'[b] = db[b]
  BY <1>3, <1>6 DEF AccountsInv, AccountsType
<1>10. /\ drift' \in Drifts /\ drift'.keys = drift.keys /\ drift'.logins = drift.logins
       /\ drift'.methods = drift.methods
       /\ drift'.certs = drift.certs \cup db[a].lasting \cup (IF db[a].kept THEN db[a].certs ELSE {})
  BY <1>3, <1>4 DEF Drifts, AccountKeys
<1>11. AccountsType'
  <2>1. certTo' \in [Certs -> Owning]
    BY <1>3 DEF AccountsInv, AccountsType, Owning
  <2> QED BY <1>3, <1>9, <1>10, <2>1 DEF AccountsInv, AccountsType
<1>12. CertInv'
  <2>1. ASSUME NEW g \in Certs \ drift'.certs, NEW b \in AccountIds
        PROVE  certTo'[g] = b <=> g \in db'[b].certs
    <3>1. g \notin drift.certs /\ g \notin db[a].lasting /\ (db[a].kept => g \notin db[a].certs)
      BY <1>10, <2>1
    <3>2. (certTo[g] = b <=> g \in db[b].certs) /\ (certTo[g] = a <=> g \in db[a].certs) /\ b # Nobody
      BY <3>1, Ids DEF AccountsInv, CertInv, CertIndexExact
    <3>3. certTo'[g] = IF g \in db[a].certs THEN Nobody ELSE certTo[g]
      BY <1>3, <3>1, <3>2
    <3> QED BY <1>8, <1>9, <3>1, <3>2, <3>3
  <2>2. \A b \in AccountIds : ~db'[b].exists => db'[b].certs \subseteq drift'.certs
    BY <1>8, <1>9, <1>10 DEF AccountsInv, CertInv
  <2> QED BY <2>1, <2>2 DEF CertInv, CertIndexExact
<1>13. LoginInv'
  <2>1. LoginFrame
    BY <1>3, <1>9, <1>10 DEF LoginFrame
  <2> QED BY <2>1, LoginFramed DEF AccountsInv
<1>14. MethodInv'
  <2>1. db[a].strict = FALSE
    BY <1>3, <1>4 DEF AccountsInv, MethodInv, AccountKeys
  <2>2. MethodFrame
    BY <1>3, <1>8, <1>9, <1>10, <2>1 DEF MethodFrame
  <2> QED BY <2>2, MethodFramed DEF AccountsInv
<1>15. ReservationInv'
  <2>1. db[a].gone = Nobody /\ \A m \in db[a].nicks : Fold[m] \in drift.keys /\ Skel[m] \in drift.keys
    BY <1>3, <1>4 DEF AccountsInv, ReservationInv, StrandedKnown, NamesOK, AccountKeys
  <2>2. \A b \in AccountIds, m \in Names : Holds(b, m)' <=> Holds(b, m) /\ b # a
    BY <1>8, <1>9, <2>1, Ids DEF Holds
  <2>3. \A b \in AccountIds, m \in Names : Named(b, m)' => Named(b, m)
    BY <1>8, <1>9, <2>2 DEF Named
  <2>4. \A m \in Names : Holds(a, m) => Fold[m] \in drift.keys /\ Skel[m] \in drift.keys
    BY <1>3, <2>1, Ids DEF Holds
  <2>5. \A k \in AccountIds \ drift.keys : NickClaims(k)' = NickClaims(k)
    BY <2>2, <2>4 DEF NickClaims
  <2>6. \A k \in Skels \ drift.keys : SkelClaims(k)' = SkelClaims(k)
    BY <2>2, <2>4 DEF SkelClaims
  <2>7. KeysMatch'
    BY <1>3, <1>10, <2>5, <2>6 DEF AccountsInv, ReservationInv, KeysMatch, Agrees
  <2>8. NickUnique' /\ SkelUnique'
    BY <1>10, <2>2, <2>3 DEF AccountsInv, ReservationInv, NickUnique, SkelUnique
  <2>9. StrandedKnown'
    BY <1>8, <1>9, <1>10, <2>1 DEF AccountsInv, ReservationInv, StrandedKnown
  <2>10. NamesOK'
    BY <1>8, <1>9, <2>1 DEF AccountsInv, ReservationInv, NamesOK
  <2> QED BY <2>7, <2>8, <2>9, <2>10 DEF ReservationInv
<1> QED BY <1>11, <1>12, <1>13, <1>14, <1>15 DEF AccountsInv

-----------------------------------------------------------------------------
(* The caches are built anew. *)

(* A key that nobody disputes has one claim: a restart cannot mix two up.  *)
LEMMA DisputedKnown ==
  /\ \A a, b \in AccountIds, n, m \in Names :
       Fold[n] = Fold[m] /\ Fold[n] \notin Disputed /\ Named(a, n) /\ Named(b, m) => a = b /\ n = m
  /\ \A a, b \in AccountIds, n, m \in Names :
       Skel[n] = Skel[m] /\ Skel[n] \notin Disputed /\ Holds(a, n) /\ Holds(b, m) => a = b /\ n = m
<1>1. ASSUME NEW a \in AccountIds, NEW b \in AccountIds, NEW n \in Names, NEW m \in Names,
             Fold[n] = Fold[m], Named(a, n), Named(b, m), ~(a = b /\ n = m)
      PROVE  Fold[n] \in Disputed
  <2>1. <<a, n>> \in AccountIds \X Names /\ <<b, m>> \in AccountIds \X Names /\ <<a, n>> # <<b, m>>
    BY <1>1
  <2>2. Fold[n] \in AccountIds
    BY Ids
  <2>3. \E h, g \in AccountIds \X Names : /\ h # g /\ Fold[h[2]] = Fold[n] /\ Fold[g[2]] = Fold[n]
                                          /\ Named(h[1], h[2]) /\ Named(g[1], g[2])
    <3>1. <<a, n>>[1] = a /\ <<a, n>>[2] = n /\ <<b, m>>[1] = b /\ <<b, m>>[2] = m
      OBVIOUS
    <3> WITNESS <<a, n>> \in AccountIds \X Names, <<b, m>> \in AccountIds \X Names
    <3> QED BY <1>1, <2>1, <3>1
  <2> QED BY <2>2, <2>3 DEF Disputed
<1>2. ASSUME NEW a \in AccountIds, NEW b \in AccountIds, NEW n \in Names, NEW m \in Names,
             Skel[n] = Skel[m], Holds(a, n), Holds(b, m), ~(a = b /\ n = m)
      PROVE  Skel[n] \in Disputed
  <2>1. <<a, n>> \in AccountIds \X Names /\ <<b, m>> \in AccountIds \X Names /\ <<a, n>> # <<b, m>>
    BY <1>2
  <2>2. Skel[n] \in Skels
    BY Ids
  <2>3. \E h, g \in AccountIds \X Names : /\ h # g /\ Skel[h[2]] = Skel[n] /\ Skel[g[2]] = Skel[n]
                                          /\ Holds(h[1], h[2]) /\ Holds(g[1], g[2])
    <3>1. <<a, n>>[1] = a /\ <<a, n>>[2] = n /\ <<b, m>>[1] = b /\ <<b, m>>[2] = m
      OBVIOUS
    <3> WITNESS <<a, n>> \in AccountIds \X Names, <<b, m>> \in AccountIds \X Names
    <3> QED BY <1>2, <2>1, <3>1
  <2> QED BY <2>2, <2>3 DEF Disputed
<1> QED BY <1>1, <1>2

(* A restart rebuilds the index from the database.                         *)
LEMMA RestartInv ==
    ASSUME AccountsInv, buildNickToAccountIndex
    PROVE  AccountsInv'
<1>1. /\ nickTo' = [k \in AccountIds |-> IF NickClaims(k) = {} THEN Nobody ELSE CHOOSE a \in NickClaims(k) : TRUE]
      /\ skelTo' = [k \in Skels |-> IF SkelClaims(k) = {} THEN Nobody ELSE CHOOSE a \in SkelClaims(k) : TRUE]
      /\ methodOf' = [a \in AccountIds |-> db[a].exists /\ db[a].strict]
      /\ login' = [u \in Users |-> Nobody] /\ listed' = [a \in AccountIds |-> {}]
      /\ busy' = [u \in Users |-> NotBusy]
      /\ drift' = [NoDrift EXCEPT !.certs = drift.certs, !.keys = Disputed \cup Stranded]
      /\ UNCHANGED <<db, certTo>>
  BY DEF buildNickToAccountIndex
<1>2. /\ drift'.certs = drift.certs /\ drift'.keys = Disputed \cup Stranded
      /\ drift'.methods = {} /\ drift'.logins = {}
  BY <1>1 DEF NoDrift
<1>3. drift' \in Drifts
  <2>1. Disputed \subseteq AccountIds \cup Skels
    BY DEF Disputed
  <2>2. Stranded \subseteq AccountIds \cup Skels
    BY Ids DEF Stranded, KeysOf
  <2>3. drift.certs \subseteq Certs
    BY DEF AccountsInv, AccountsType, Drifts
  <2> QED BY <1>1, <2>1, <2>2, <2>3 DEF NoDrift, Drifts
<1>4. \A k : NickClaims(k) \subseteq AccountIds /\ SkelClaims(k) \subseteq AccountIds
  BY DEF NickClaims, SkelClaims
<1>5. /\ \A k \in AccountIds : IF NickClaims(k) = {} THEN nickTo'[k] = Nobody ELSE nickTo'[k] \in NickClaims(k)
      /\ \A k \in Skels : IF SkelClaims(k) = {} THEN skelTo'[k] = Nobody ELSE skelTo'[k] \in SkelClaims(k)
  BY <1>1
<1>6. nickTo' \in [AccountIds -> Owning] /\ skelTo' \in [Skels -> Owning]
  <2>1. \A k \in AccountIds : nickTo'[k] \in Owning
    BY <1>4, <1>5 DEF Owning
  <2>2. \A k \in Skels : skelTo'[k] \in Owning
    BY <1>4, <1>5 DEF Owning
  <2> QED BY <1>1, <2>1, <2>2
<1>7. AccountsType'
  <2>1. methodOf' \in [AccountIds -> BOOLEAN]
    BY <1>1
  <2>2. login' \in [Users -> Owning] /\ listed' \in [AccountIds -> SUBSET Users]
    BY <1>1 DEF Owning
  <2>3. busy' = [u \in Users |-> busy'[u]] /\ \A u \in Users : BusyOK(busy'[u])
    BY <1>1, NotBusyOK
  <2> QED BY <1>1, <1>3, <1>6, <2>1, <2>2, <2>3 DEF AccountsInv, AccountsType
<1>8. CertInv'
  <2>1. CertFrame
    BY <1>1, <1>2 DEF CertFrame
  <2> QED BY <2>1, CertFramed DEF AccountsInv
<1>9. LoginInv'
  BY <1>1, FS_EmptySet DEF LoginInv
<1>10. MethodInv'
  <2>1. ASSUME NEW a \in AccountIds
        PROVE  (~db[a].verified => ~db[a].strict) /\ methodOf'[a] = db[a].strict
    <3>1. /\ db[a] \in AccountKeys /\ (~db[a].verified => ~db[a].strict) /\ (db[a].verified => db[a].exists)
      BY DEF AccountsInv, AccountsType, MethodInv, ReservationInv, NamesOK
    <3>2. db[a].strict \in BOOLEAN /\ db[a].exists \in BOOLEAN
      BY <3>1 DEF AccountKeys
    <3>3. methodOf'[a] = (db[a].exists /\ db[a].strict)
      BY <1>1
    <3> QED BY <3>1, <3>2, <3>3
  <2> QED BY <1>1, <2>1 DEF MethodInv
<1>11. ReservationInv'
  <2>1. \A b, m : (Holds(b, m)' <=> Holds(b, m)) /\ (Named(b, m)' <=> Named(b, m))
    BY <1>1 DEF Holds, Named
  <2>2. \A k : NickClaims(k)' = NickClaims(k) /\ SkelClaims(k)' = SkelClaims(k)
    BY <2>1 DEF NickClaims, SkelClaims
  <2>3. KeysMatch'
    BY <1>5, <2>2 DEF KeysMatch, Agrees
  <2>4. NickUnique' /\ SkelUnique'
    BY <1>2, <2>1, DisputedKnown DEF NickUnique, SkelUnique
  <2>5. StrandedKnown'
    <3>1. ASSUME NEW a \in AccountIds, NEW n \in Names, n \in db[a].nicks, ~db[a].verified \/ Fold[n] = a
          PROVE  Fold[n] \in Stranded /\ Skel[n] \in Stranded
      BY <3>1 DEF Stranded, KeysOf
    <3> QED BY <1>1, <1>2, <3>1 DEF StrandedKnown
  <2>6. NamesOK'
    BY <1>1 DEF AccountsInv, ReservationInv, NamesOK
  <2> QED BY <2>3, <2>4, <2>5, <2>6 DEF ReservationInv
<1> QED BY <1>7, <1>8, <1>9, <1>10, <1>11 DEF AccountsInv

-----------------------------------------------------------------------------
(* Grouped nicks and renaming. *)

(* A nick or skeleton that the index gives to nobody is claimed by nobody. *)
LEMMA FreeKeys ==
    ASSUME AccountsInv, NEW n \in Names, nickTo[Fold[n]] = Nobody, skelTo[Skel[n]] = Nobody,
           ~db[Fold[n]].exists
    PROVE  /\ Fold[n] \notin drift.keys => \A b \in AccountIds, m \in Names : Fold[m] = Fold[n] => ~Named(b, m)
           /\ Skel[n] \notin drift.keys => \A b \in AccountIds, m \in Names : Skel[m] = Skel[n] => ~Holds(b, m)
<1>1. Fold[n] \in AccountIds /\ Skel[n] \in Skels
  BY Ids
<1>2. Fold[n] \notin drift.keys => NickClaims(Fold[n]) = {}
  BY <1>1, Ids DEF AccountsInv, ReservationInv, KeysMatch, Agrees, NickClaims
<1>3. Skel[n] \notin drift.keys => SkelClaims(Skel[n]) = {}
  BY <1>1, Ids DEF AccountsInv, ReservationInv, KeysMatch, Agrees, SkelClaims
<1>4. ASSUME Fold[n] \notin drift.keys, NEW b \in AccountIds, NEW m \in Names, Fold[m] = Fold[n], Named(b, m)
      PROVE  FALSE
  <2>1. ~Holds(b, m)
    BY <1>2, <1>4 DEF NickClaims
  <2>2. db[b].exists /\ db[b].name = m
    BY <1>4, <2>1 DEF Named
  <2> QED BY <1>4, <2>2 DEF AccountsInv, ReservationInv, NamesOK
<1>5. ASSUME Skel[n] \notin drift.keys, NEW b \in AccountIds, NEW m \in Names, Skel[m] = Skel[n], Holds(b, m)
      PROVE  FALSE
  BY <1>3, <1>5 DEF SkelClaims
<1> QED BY <1>4, <1>5

(* SetNickReserved with reserve: grouping a nick.                          *)
LEMMA GroupInv ==
    ASSUME AccountsInv, NEW u \in Users, nsGroupHandler(u)
    PROVE  AccountsInv'
<1>1. PICK a : a = login[u]
  OBVIOUS
<1>2. PICK n \in Names :
        /\ nickTo[Fold[n]] = Nobody /\ skelTo[Skel[n]] = Nobody /\ ~db[Fold[n]].exists
        /\ db' = [db EXCEPT ![a].nicks = @ \cup {n}]
        /\ nickTo' = [nickTo EXCEPT ![Fold[n]] = a]
        /\ skelTo' = [skelTo EXCEPT ![Skel[n]] = a]
        /\ drift' = IF db[a].verified THEN drift ELSE [drift EXCEPT !.keys = @ \cup {Fold[n], Skel[n]}]
  BY <1>1 DEF nsGroupHandler
<1>3. a # Nobody /\ UNCHANGED <<certTo, methodOf, login, listed, busy>>
  BY <1>1 DEF nsGroupHandler
<1>4. a \in AccountIds /\ Fold[n] \in AccountIds /\ Skel[n] \in Skels
  BY <1>1, <1>3, Ids DEF AccountsInv, AccountsType, Owning
<1>5. db[a] \in AccountKeys /\ drift \in Drifts
  BY <1>4 DEF AccountsInv, AccountsType
<1>6. PICK new : new = [db[a] EXCEPT !.nicks = @ \cup {n}]
  OBVIOUS
<1>7. new \in AccountKeys
  BY <1>5, <1>6 DEF AccountKeys
<1>8. /\ new.exists = db[a].exists /\ new.verified = db[a].verified /\ new.name = db[a].name
      /\ new.gone = db[a].gone /\ new.certs = db[a].certs /\ new.strict = db[a].strict
      /\ new.suspended = db[a].suspended /\ new.nicks = db[a].nicks \cup {n}
  BY <1>5, <1>6 DEF AccountKeys
<1>9. db' = [db EXCEPT ![a] = new]
  BY <1>2, <1>4, <1>6 DEF AccountsInv, AccountsType
<1>10. db' \in [AccountIds -> AccountKeys] /\ db'[a] = new /\ \A b \in AccountIds \ {a} : db'[b] = db[b]
  BY <1>4, <1>7, <1>9 DEF AccountsInv, AccountsType
<1>11. /\ drift' \in Drifts /\ drift'.certs = drift.certs /\ drift'.methods = drift.methods
       /\ drift'.logins = drift.logins
       /\ drift'.keys = IF db[a].verified THEN drift.keys ELSE drift.keys \cup {Fold[n], Skel[n]}
  BY <1>2, <1>4, <1>5 DEF Drifts
<1>12. AccountsType'
  <2>1. nickTo' \in [AccountIds -> Owning] /\ skelTo' \in [Skels -> Owning]
    BY <1>2, <1>4 DEF AccountsInv, AccountsType, Owning
  <2> QED BY <1>3, <1>10, <1>11, <2>1 DEF AccountsInv, AccountsType
<1>13. CertInv'
  <2>1. CertFrame
    BY <1>3, <1>8, <1>10, <1>11 DEF CertFrame
  <2> QED BY <2>1, CertFramed DEF AccountsInv
<1>14. LoginInv'
  <2>1. LoginFrame
    BY <1>3, <1>8, <1>10, <1>11 DEF LoginFrame
  <2> QED BY <2>1, LoginFramed DEF AccountsInv
<1>15. MethodInv'
  <2>1. MethodFrame
    BY <1>3, <1>8, <1>10, <1>11 DEF MethodFrame
  <2> QED BY <2>1, MethodFramed DEF AccountsInv
<1>16. ReservationInv'
  <2>1. /\ Fold[n] \notin drift.keys => \A b \in AccountIds, m \in Names : Fold[m] = Fold[n] => ~Named(b, m)
        /\ Skel[n] \notin drift.keys => \A b \in AccountIds, m \in Names : Skel[m] = Skel[n] => ~Holds(b, m)
    BY <1>2, FreeKeys
  <2>2. \A b \in AccountIds, m \in Names : Holds(b, m)' <=> Holds(b, m) \/ (b = a /\ m = n /\ db[a].exists)
    BY <1>8, <1>10 DEF Holds
  <2>3. \A b \in AccountIds, m \in Names : Named(b, m)' <=> Named(b, m) \/ (b = a /\ m = n /\ db[a].exists)
    BY <1>8, <1>10, <2>2 DEF Named
  <2>4. drift.keys \subseteq drift'.keys /\ (~db[a].verified => Fold[n] \in drift'.keys /\ Skel[n] \in drift'.keys)
    BY <1>11
  <2>5. db[a].verified => db[a].exists
    BY <1>4 DEF AccountsInv, ReservationInv, NamesOK
  <2>6. ASSUME NEW k \in AccountIds \ drift'.keys PROVE Agrees(nickTo[k], NickClaims(k))'
    <3>1. CASE k = Fold[n]
      <4>1. db[a].exists /\ a \in NickClaims(k)'
        BY <1>4, <2>2, <2>4, <2>5, <2>6, <3>1 DEF NickClaims
      <4>2. nickTo'[k] = a
        BY <1>2, <1>4, <3>1 DEF AccountsInv, AccountsType
      <4> QED BY <4>1, <4>2 DEF Agrees
    <3>2. CASE k # Fold[n]
      <4>1. nickTo'[k] = nickTo[k] /\ k \notin drift.keys
        BY <1>2, <1>4, <2>4, <2>6, <3>2 DEF AccountsInv, AccountsType
      <4>2. NickClaims(k)' = NickClaims(k)
        BY <2>2, <3>2 DEF NickClaims
      <4> QED BY <4>1, <4>2 DEF Agrees, AccountsInv, ReservationInv, KeysMatch
    <3> QED BY <3>1, <3>2
  <2>7. ASSUME NEW k \in Skels \ drift'.keys PROVE Agrees(skelTo[k], SkelClaims(k))'
    <3>1. CASE k = Skel[n]
      <4>1. db[a].exists /\ a \in SkelClaims(k)'
        BY <1>4, <2>2, <2>4, <2>5, <2>7, <3>1 DEF SkelClaims
      <4>2. skelTo'[k] = a
        BY <1>2, <1>4, <3>1 DEF AccountsInv, AccountsType
      <4> QED BY <4>1, <4>2 DEF Agrees
    <3>2. CASE k # Skel[n]
      <4>1. skelTo'[k] = skelTo[k] /\ k \notin drift.keys
        BY <1>2, <1>4, <2>4, <2>7, <3>2 DEF AccountsInv, AccountsType
      <4>2. SkelClaims(k)' = SkelClaims(k)
        BY <2>2, <3>2 DEF SkelClaims
      <4> QED BY <4>1, <4>2 DEF Agrees, AccountsInv, ReservationInv, KeysMatch
    <3> QED BY <3>1, <3>2
  <2>8. KeysMatch'
    BY <2>6, <2>7 DEF KeysMatch
  <2>9. NickUnique'
    BY <2>1, <2>3, <2>4 DEF AccountsInv, ReservationInv, NickUnique
  <2>10. SkelUnique'
    BY <2>1, <2>2, <2>4 DEF AccountsInv, ReservationInv, SkelUnique
  <2>11. StrandedKnown'
    <3>1. ASSUME NEW b \in AccountIds, NEW m \in Names, m \in db'[b].nicks, ~db'[b].verified \/ Fold[m] = b
          PROVE  Fold[m] \in drift'.keys /\ Skel[m] \in drift'.keys
      <4>1. CASE m \in db[b].nicks
        BY <1>8, <1>10, <2>4, <3>1, <4>1 DEF AccountsInv, ReservationInv, StrandedKnown
      <4>2. CASE m \notin db[b].nicks
        <5>1. b = a /\ m = n
          BY <1>8, <1>10, <3>1, <4>2
        <5>2. ~db[a].verified
          BY <1>2, <1>8, <1>10, <2>5, <3>1, <5>1
        <5> QED BY <2>4, <5>1, <5>2
      <4> QED BY <4>1, <4>2
    <3> QED BY <3>1 DEF StrandedKnown
  <2>12. NamesOK'
    BY <1>8, <1>10 DEF AccountsInv, ReservationInv, NamesOK
  <2> QED BY <2>8, <2>9, <2>10, <2>11, <2>12 DEF ReservationInv
<1> QED BY <1>12, <1>13, <1>14, <1>15, <1>16 DEF AccountsInv

(* SetNickReserved without reserve: dropping a nick.                       *)
LEMMA DropInv ==
    ASSUME AccountsInv, NEW u \in Users, login[u] # Nobody, NEW n \in Names, DropNick(u, n)
    PROVE  AccountsInv'
<1>1. PICK a : a = login[u]
  OBVIOUS
<1>2. PICK mine : mine = {m \in db[a].nicks : Fold[m] = Fold[n]}
  OBVIOUS
<1>3. PICK skel : skel = IF mine = {} THEN Skel[n] ELSE Skel[CHOOSE m \in mine : TRUE]
  OBVIOUS
<1>4. /\ Fold[n] # a
      /\ db' = [db EXCEPT ![a].nicks = @ \ mine]
      /\ nickTo' = [nickTo EXCEPT ![Fold[n]] = Nobody]
      /\ skelTo' = [skelTo EXCEPT ![skel] = Nobody]
      /\ drift' = [drift EXCEPT !.keys = @ \cup
                     IF mine = {} THEN {Fold[n], skel} ELSE {Skel[m] : m \in mine} \ {skel}]
      /\ UNCHANGED <<certTo, methodOf, login, listed, busy>>
  BY <1>1, <1>2, <1>3 DEF DropNick
<1>5. a \in AccountIds /\ Fold[n] \in AccountIds
  BY <1>1, Ids DEF AccountsInv, AccountsType, Owning
<1>6. db[a] \in AccountKeys /\ drift \in Drifts
  BY <1>5 DEF AccountsInv, AccountsType
<1>7. mine \subseteq Names /\ \A m \in mine : m \in db[a].nicks /\ Fold[m] = Fold[n]
  BY <1>2, <1>6 DEF AccountKeys
<1>8. IF mine = {} THEN skel = Skel[n] ELSE \E m \in mine : skel = Skel[m]
  BY <1>3
<1>9. skel \in Skels
  BY <1>7, <1>8, Ids
<1>10. PICK new : new = [db[a] EXCEPT !.nicks = @ \ mine]
  OBVIOUS
<1>11. new \in AccountKeys
  BY <1>6, <1>10 DEF AccountKeys
<1>12. /\ new.exists = db[a].exists /\ new.verified = db[a].verified /\ new.name = db[a].name
       /\ new.gone = db[a].gone /\ new.certs = db[a].certs /\ new.strict = db[a].strict
       /\ new.suspended = db[a].suspended /\ new.nicks = db[a].nicks \ mine
  BY <1>6, <1>10 DEF AccountKeys
<1>13. db' = [db EXCEPT ![a] = new]
  BY <1>4, <1>5, <1>10 DEF AccountsInv, AccountsType
<1>14. db' \in [AccountIds -> AccountKeys] /\ db'[a] = new /\ \A b \in AccountIds \ {a} : db'[b] = db[b]
  BY <1>5, <1>11, <1>13 DEF AccountsInv, AccountsType
<1>15. /\ drift'.certs = drift.certs /\ drift'.methods = drift.methods
       /\ drift'.logins = drift.logins
       /\ drift'.keys = drift.keys \cup IF mine = {} THEN {Fold[n], skel} ELSE {Skel[m] : m \in mine} \ {skel}
  BY <1>4, <1>6 DEF Drifts
<1>16. drift' \in Drifts
  <2>1. {Skel[m] : m \in mine} \subseteq Skels
    BY <1>7, Ids
  <2> QED BY <1>4, <1>5, <1>6, <1>9, <2>1 DEF Drifts
<1>17. AccountsType'
  <2>1. nickTo' \in [AccountIds -> Owning] /\ skelTo' \in [Skels -> Owning]
    BY <1>4 DEF AccountsInv, AccountsType, Owning
  <2> QED BY <1>4, <1>14, <1>16, <2>1 DEF AccountsInv, AccountsType
<1>18. CertInv'
  <2>1. CertFrame
    BY <1>4, <1>12, <1>14, <1>15 DEF CertFrame
  <2> QED BY <2>1, CertFramed DEF AccountsInv
<1>19. LoginInv'
  <2>1. LoginFrame
    BY <1>4, <1>12, <1>14, <1>15 DEF LoginFrame
  <2> QED BY <2>1, LoginFramed DEF AccountsInv
<1>20. MethodInv'
  <2>1. MethodFrame
    BY <1>4, <1>12, <1>14, <1>15 DEF MethodFrame
  <2> QED BY <2>1, MethodFramed DEF AccountsInv
<1>21. ReservationInv'
  <2>1. \A m \in mine : (db[a].exists => m # db[a].name) /\ m # db[a].gone
    BY <1>4, <1>5, <1>7, Ids DEF AccountsInv, ReservationInv, NamesOK
  <2>2. \A b \in AccountIds, m \in Names : Holds(b, m)' <=> Holds(b, m) /\ ~(b = a /\ m \in mine)
    <3>1. db[a].verified => db[a].exists
      BY <1>5 DEF AccountsInv, ReservationInv, NamesOK
    <3> QED BY <1>12, <1>14, <2>1, <3>1 DEF Holds
  <2>3. \A b \in AccountIds, m \in Names : Named(b, m)' <=> Named(b, m) /\ ~(b = a /\ m \in mine)
    BY <1>12, <1>14, <2>1, <2>2 DEF Named
  <2>4. drift.keys \subseteq drift'.keys
    BY <1>15
  <2>5. \A m \in mine : \/ Fold[m] \in drift.keys /\ Skel[m] \in drift.keys
                        \/ Holds(a, m) /\ Named(a, m)
    BY <1>5, <1>7 DEF Holds, Named, AccountsInv, ReservationInv, StrandedKnown, NamesOK
  <2>6. ASSUME NEW k \in AccountIds \ drift'.keys PROVE Agrees(nickTo[k], NickClaims(k))'
    <3>1. CASE k = Fold[n]
      <4>1. nickTo'[k] = Nobody
        BY <1>4, <1>5, <3>1 DEF AccountsInv, AccountsType
      <4>2. PICK m0 \in mine : TRUE
        BY <1>15, <2>6, <3>1
      <4>3. m0 \in Names /\ Fold[m0] = k /\ Named(a, m0)
        BY <1>7, <2>4, <2>5, <2>6, <3>1, <4>2
      <4>4. ASSUME NEW b \in AccountIds, NEW m \in Names, Fold[m] = k, Holds(b, m)' PROVE FALSE
        <5>1. Named(b, m) /\ ~(b = a /\ m \in mine)
          BY <2>2, <4>4 DEF Named
        <5>2. b = a /\ m = m0
          BY <1>5, <2>4, <2>6, <4>3, <4>4, <5>1 DEF AccountsInv, ReservationInv, NickUnique
        <5> QED BY <4>2, <5>1, <5>2
      <4>5. NickClaims(k)' = {}
        BY <4>4 DEF NickClaims
      <4> QED BY <4>1, <4>5 DEF Agrees
    <3>2. CASE k # Fold[n]
      <4>1. nickTo'[k] = nickTo[k] /\ k \notin drift.keys
        BY <1>4, <1>5, <2>4, <2>6, <3>2 DEF AccountsInv, AccountsType
      <4>2. NickClaims(k)' = NickClaims(k)
        BY <1>7, <2>2, <3>2 DEF NickClaims
      <4> QED BY <4>1, <4>2 DEF Agrees, AccountsInv, ReservationInv, KeysMatch
    <3> QED BY <3>1, <3>2
  <2>7. ASSUME NEW k \in Skels \ drift'.keys PROVE Agrees(skelTo[k], SkelClaims(k))'
    <3>1. CASE k = skel
      <4>1. skelTo'[k] = Nobody /\ mine # {}
        BY <1>4, <1>9, <1>15, <2>7, <3>1 DEF AccountsInv, AccountsType
      <4>2. PICK m0 \in mine : k = Skel[m0]
        BY <1>8, <3>1, <4>1
      <4>3. m0 \in Names /\ Holds(a, m0)
        BY <1>7, <2>4, <2>5, <2>7, <4>2
      <4>4. ASSUME NEW b \in AccountIds, NEW m \in Names, Skel[m] = k, Holds(b, m)' PROVE FALSE
        <5>1. Holds(b, m) /\ ~(b = a /\ m \in mine)
          BY <2>2, <4>4
        <5>2. b = a /\ m = m0
          BY <1>5, <2>4, <2>7, <4>2, <4>3, <4>4, <5>1 DEF AccountsInv, ReservationInv, SkelUnique
        <5> QED BY <4>2, <5>1, <5>2
      <4>5. SkelClaims(k)' = {}
        BY <4>4 DEF SkelClaims
      <4> QED BY <4>1, <4>5 DEF Agrees
    <3>2. CASE k # skel
      <4>1. skelTo'[k] = skelTo[k] /\ k \notin drift.keys
        BY <1>4, <1>9, <2>4, <2>7, <3>2 DEF AccountsInv, AccountsType
      <4>2. \A m \in mine : Skel[m] # k
        BY <1>15, <2>7, <3>2
      <4>3. SkelClaims(k)' = SkelClaims(k)
        BY <2>2, <4>2 DEF SkelClaims
      <4> QED BY <4>1, <4>3 DEF Agrees, AccountsInv, ReservationInv, KeysMatch
    <3> QED BY <3>1, <3>2
  <2>8. KeysMatch'
    BY <2>6, <2>7 DEF KeysMatch
  <2>9. NickUnique' /\ SkelUnique'
    BY <2>2, <2>3, <2>4 DEF AccountsInv, ReservationInv, NickUnique, SkelUnique
  <2>10. StrandedKnown'
    BY <1>12, <1>14, <2>4 DEF AccountsInv, ReservationInv, StrandedKnown
  <2>11. NamesOK'
    BY <1>12, <1>14 DEF AccountsInv, ReservationInv, NamesOK
  <2> QED BY <2>8, <2>9, <2>10, <2>11 DEF ReservationInv
<1> QED BY <1>17, <1>18, <1>19, <1>20, <1>21 DEF AccountsInv

(* Rename.                                                                 *)
LEMMA RenameInv ==
    ASSUME AccountsInv, NEW u \in Users, Rename(u)
    PROVE  AccountsInv'
<1>1. PICK n \in Names :
        /\ db[Fold[n]].exists /\ db[Fold[n]].name # n
        /\ db' = [db EXCEPT ![Fold[n]].name = n]
        /\ drift' = IF db[Fold[n]].verified
                    THEN [drift EXCEPT !.keys = @ \cup {Skel[n], Skel[db[Fold[n]].name]}] ELSE drift
  BY DEF Rename
<1>2. UNCHANGED <<certTo, nickTo, skelTo, methodOf, login, listed, busy>>
  BY DEF Rename
<1>3. PICK a : a = Fold[n]
  OBVIOUS
<1>4. PICK old : old = db[a].name
  OBVIOUS
<1>5. a \in AccountIds /\ Fold[n] = a /\ Skel[n] \in Skels
  BY <1>3, Ids
<1>6. /\ db[a] \in AccountKeys /\ drift \in Drifts /\ db[a].exists /\ db[a].gone = Nobody
      /\ old \in Names /\ Fold[old] = a /\ Skel[old] \in Skels /\ n # old
  BY <1>1, <1>3, <1>4, <1>5, Ids DEF AccountsInv, AccountsType, ReservationInv, NamesOK
<1>7. PICK new : new = [db[a] EXCEPT !.name = n]
  OBVIOUS
<1>8. new \in AccountKeys
  BY <1>6, <1>7 DEF AccountKeys
<1>9. /\ new.exists = db[a].exists /\ new.verified = db[a].verified /\ new.name = n
      /\ new.gone = db[a].gone /\ new.certs = db[a].certs /\ new.strict = db[a].strict
      /\ new.suspended = db[a].suspended /\ new.nicks = db[a].nicks
  BY <1>6, <1>7 DEF AccountKeys
<1>10. db' = [db EXCEPT ![a] = new]
  BY <1>1, <1>3, <1>5, <1>7 DEF AccountsInv, AccountsType
<1>11. db' \in [AccountIds -> AccountKeys] /\ db'[a] = new /\ \A b \in AccountIds \ {a} : db'[b] = db[b]
  BY <1>5, <1>8, <1>10 DEF AccountsInv, AccountsType
<1>12. /\ drift' \in Drifts /\ drift'.certs = drift.certs /\ drift'.methods = drift.methods
       /\ drift'.logins = drift.logins
       /\ drift'.keys = IF db[a].verified THEN drift.keys \cup {Skel[n], Skel[old]} ELSE drift.keys
  BY <1>1, <1>3, <1>4, <1>5, <1>6 DEF Drifts
<1>13. AccountsType'
  BY <1>2, <1>11, <1>12 DEF AccountsInv, AccountsType
<1>14. CertInv'
  <2>1. CertFrame
    BY <1>2, <1>9, <1>11, <1>12 DEF CertFrame
  <2> QED BY <2>1, CertFramed DEF AccountsInv
<1>15. LoginInv'
  <2>1. LoginFrame
    BY <1>2, <1>9, <1>11, <1>12 DEF LoginFrame
  <2> QED BY <2>1, LoginFramed DEF AccountsInv
<1>16. MethodInv'
  <2>1. MethodFrame
    BY <1>2, <1>9, <1>11, <1>12 DEF MethodFrame
  <2> QED BY <2>1, MethodFramed DEF AccountsInv
<1>17. ReservationInv'
  <2>1. drift.keys \subseteq drift'.keys
    BY <1>12
  <2>2. \A b \in AccountIds \ {a}, m \in Names : (Holds(b, m)' <=> Holds(b, m)) /\ (Named(b, m)' <=> Named(b, m))
    BY <1>11 DEF Holds, Named
  <2>3. \A m \in Names : /\ Holds(a, m) <=> (db[a].verified /\ m = old) \/ m \in db[a].nicks
                         /\ Named(a, m) <=> m = old \/ m \in db[a].nicks
    BY <1>4, <1>6, Ids DEF Holds, Named
  <2>4. \A m \in Names : /\ Holds(a, m)' <=> (db[a].verified /\ m = n) \/ m \in db[a].nicks
                         /\ Named(a, m)' <=> m = n \/ m \in db[a].nicks
    BY <1>6, <1>9, <1>11, Ids, ZenonT(60) DEF Holds, Named
  <2>5. \A k : NickClaims(k)' = NickClaims(k)
    <3>1. \A k : a \in NickClaims(k)' <=> a \in NickClaims(k)
      BY <1>5, <1>6, <2>3, <2>4 DEF NickClaims
    <3>2. \A k : \A b \in AccountIds \ {a} : b \in NickClaims(k)' <=> b \in NickClaims(k)
      BY <2>2 DEF NickClaims
    <3>3. \A k : NickClaims(k) \subseteq AccountIds /\ NickClaims(k)' \subseteq AccountIds
      BY DEF NickClaims
    <3> QED BY <3>1, <3>2, <3>3
  <2>6. \A k \in Skels \ drift'.keys : SkelClaims(k)' = SkelClaims(k)
    BY <1>12, <2>2, <2>3, <2>4 DEF SkelClaims
  <2>7. KeysMatch'
    BY <1>2, <2>1, <2>5, <2>6 DEF AccountsInv, ReservationInv, KeysMatch, Agrees
  <2>8. NickUnique'
    <3>1. \A m \in db[a].nicks : m \in Names /\ (Fold[m] = a => Fold[m] \in drift.keys)
      BY <1>5, <1>6 DEF AccountsInv, ReservationInv, StrandedKnown, AccountKeys
    <3>2. a \notin drift.keys => \A b \in AccountIds, m \in Names : Fold[m] = a /\ Named(b, m)' => b = a /\ m = n
      <4>1. ASSUME a \notin drift.keys, NEW b \in AccountIds, NEW m \in Names, Fold[m] = a, Named(b, m)'
            PROVE  b = a /\ m = n
        <5>1. Named(a, old)
          BY <1>6, <2>3
        <5>2. CASE b # a
          <6>1. Named(b, m)
            BY <2>2, <4>1, <5>2
          <6> QED BY <1>5, <1>6, <4>1, <5>1, <5>2, <6>1 DEF AccountsInv, ReservationInv, NickUnique
        <5>3. CASE b = a
          BY <2>4, <3>1, <4>1, <5>3
        <5> QED BY <5>2, <5>3
      <4> QED BY <4>1
    <3>3. \A b \in AccountIds, m \in Names : Fold[m] # a => (Named(b, m)' <=> Named(b, m))
      BY <1>5, <1>6, <2>2, <2>3, <2>4
    <3> QED BY <2>1, <3>2, <3>3 DEF AccountsInv, ReservationInv, NickUnique
  <2>9. SkelUnique'
    <3>1. \A b \in AccountIds, m \in Names : Skel[m] \notin drift'.keys => (Holds(b, m)' <=> Holds(b, m))
      BY <1>12, <2>2, <2>3, <2>4
    <3> QED BY <2>1, <3>1 DEF AccountsInv, ReservationInv, SkelUnique
  <2>10. StrandedKnown'
    BY <1>9, <1>11, <2>1 DEF AccountsInv, ReservationInv, StrandedKnown
  <2>11. NamesOK'
    <3>1. \A b \in AccountIds \ {a} :
            /\ db'[b].exists => db'[b].gone = Nobody /\ db'[b].name \in Names /\ Fold[db'[b].name] = b
            /\ db'[b].gone # Nobody => Fold[db'[b].gone] = b
            /\ db'[b].verified => db'[b].exists
      BY <1>11 DEF AccountsInv, ReservationInv, NamesOK
    <3>2. db'[a].exists /\ db'[a].gone = Nobody /\ db'[a].name \in Names /\ Fold[db'[a].name] = a
      BY <1>5, <1>6, <1>9, <1>11
    <3> QED BY <3>1, <3>2 DEF NamesOK
  <2> QED BY <2>7, <2>8, <2>9, <2>10, <2>11 DEF ReservationInv
<1> QED BY <1>13, <1>14, <1>15, <1>16, <1>17 DEF AccountsInv

-----------------------------------------------------------------------------
(* Steps that change only what a goroutine is doing, or keys of an account *)
(* that the invariant does not speak of.                                   *)

(* A step that only changes what one goroutine is doing.                   *)
LEMMA BusyOnly ==
    ASSUME AccountsInv, NEW u \in Users, NEW b, BusyOK(b), Becomes(u, b),
           busy[u].at \notin {"list", "suspend", "kill", "method"},
           UNCHANGED <<db, certTo, nickTo, skelTo, methodOf, login, listed, drift>>
    PROVE  AccountsInv'
<1>1. /\ busy' = [v \in Users |-> busy'[v]]
      /\ \A v \in Users : BusyOK(busy'[v])
      /\ \A v \in Users \ {u} : busy'[v] = busy[v]
  BY BusyStep DEF AccountsInv
<1>2. AccountsType'
  BY <1>1 DEF AccountsInv, AccountsType
<1>3. CertFrame /\ LoginFrame /\ KeyFrame /\ MethodFrame
  BY <1>1 DEF CertFrame, LoginFrame, KeyFrame, MethodFrame
<1> QED BY <1>2, <1>3, CertFramed, LoginFramed, KeyFramed, MethodFramed DEF AccountsInv

(* An account changes in what no index depends on.                         *)
LEMMA OtherKeys ==
    ASSUME AccountsInv, NEW a \in AccountIds, NEW new \in AccountKeys, db' = [db EXCEPT ![a] = new],
           /\ new.exists = db[a].exists /\ new.verified = db[a].verified /\ new.name = db[a].name
           /\ new.gone = db[a].gone /\ new.certs = db[a].certs /\ new.strict = db[a].strict
           /\ new.nicks = db[a].nicks /\ (~db[a].suspended => ~new.suspended),
           busy' = [v \in Users |-> busy'[v]], \A v \in Users : BusyOK(busy'[v]),
           \A v \in Users : busy'[v] = busy[v] \/ busy[v].at \notin {"list", "suspend", "kill", "method"},
           UNCHANGED <<certTo, nickTo, skelTo, methodOf, login, listed, drift>>
    PROVE  AccountsInv'
<1>1. db' \in [AccountIds -> AccountKeys] /\ db'[a] = new /\ \A b \in AccountIds \ {a} : db'[b] = db[b]
  BY DEF AccountsInv, AccountsType
<1>2. AccountsType'
  BY <1>1 DEF AccountsInv, AccountsType
<1>3. CertFrame
  BY <1>1 DEF CertFrame
<1>4. LoginFrame
  BY <1>1 DEF LoginFrame
<1>5. KeyFrame
  BY <1>1 DEF KeyFrame
<1>6. MethodFrame
  BY <1>1 DEF MethodFrame
<1> QED BY <1>2, <1>3, <1>4, <1>5, <1>6, CertFramed, LoginFramed, KeyFramed, MethodFramed DEF AccountsInv

(* The e-mail callback of a registration.                                  *)
LEMMA CallbackInv ==
    ASSUME AccountsInv, NEW u \in Users, dispatchCallback(u)
    PROVE  AccountsInv'
<1>1. PICK a : a = busy[u].a
  OBVIOUS
<1>2. busy[u].at = "callback" /\ BusyOK(busy[u])
  BY DEF dispatchCallback, AccountsInv, AccountsType
<1>3. a \in AccountIds
  BY <1>1, <1>2 DEF BusyOK
<1>4. CASE Unregister(u, a, TRUE)
  BY <1>2, <1>3, <1>4, UnregisterInv
<1>5. CASE /\ db' = [db EXCEPT ![a].code = TRUE]
           /\ Becomes(u, IF busy[u].then = "code" THEN NotBusy
                         ELSE [at |-> "verify", a |-> a, then |-> busy[u].then])
           /\ UNCHANGED <<certTo, nickTo, skelTo, methodOf, login, listed, drift>>
  <2>1. PICK b : b = IF busy[u].then = "code" THEN NotBusy
                     ELSE [at |-> "verify", a |-> a, then |-> busy[u].then]
    OBVIOUS
  <2>2. BusyOK([at |-> "verify", a |-> a, then |-> busy[u].then])
    BY <1>3 DEF BusyOK
  <2>3. BusyOK(b) /\ Becomes(u, b)
    BY <1>5, <2>1, <2>2, NotBusyOK
  <2>4. /\ busy' = [v \in Users |-> busy'[v]]
        /\ \A v \in Users : BusyOK(busy'[v])
        /\ \A v \in Users \ {u} : busy'[v] = busy[v]
    BY <2>3, BusyStep DEF AccountsInv
  <2>5. db[a] \in AccountKeys
    BY <1>3 DEF AccountsInv, AccountsType
  <2>6. PICK new : new = [db[a] EXCEPT !.code = TRUE]
    OBVIOUS
  <2>7. new \in AccountKeys
    BY <2>5, <2>6 DEF AccountKeys
  <2>8. /\ new.exists = db[a].exists /\ new.verified = db[a].verified /\ new.name = db[a].name
        /\ new.gone = db[a].gone /\ new.certs = db[a].certs /\ new.strict = db[a].strict
        /\ new.nicks = db[a].nicks /\ new.suspended = db[a].suspended
    BY <2>5, <2>6 DEF AccountKeys
  <2>9. db' = [db EXCEPT ![a] = new]
    BY <1>3, <1>5, <2>6 DEF AccountsInv, AccountsType
  <2>10. UNCHANGED <<certTo, nickTo, skelTo, methodOf, login, listed, drift>>
    BY <1>5
  <2> QED BY <1>2, <1>3, <2>4, <2>7, <2>8, <2>9, <2>10, OtherKeys
<1> QED BY <1>1, <1>4, <1>5 DEF dispatchCallback

-----------------------------------------------------------------------------
(* Enforcement. *)

(* NS SET ENFORCE writes the setting ...                                   *)
LEMMA EnforceInv ==
    ASSUME AccountsInv, NEW u \in Users, NsSetEnforce(u)
    PROVE  AccountsInv'
<1>1. PICK a \in AccountIds, v \in BOOLEAN :
        /\ db[a].verified /\ db' = [db EXCEPT ![a].strict = v]
        /\ Becomes(u, [at |-> "method", a |-> a, v |-> v])
  BY DEF NsSetEnforce
<1>2. busy[u].at = "rest" /\ UNCHANGED <<certTo, nickTo, skelTo, methodOf, login, listed, drift>>
  BY DEF NsSetEnforce, Command
<1>3. BusyOK([at |-> "method", a |-> a, v |-> v])
  BY DEF BusyOK
<1>4. /\ busy' = [w \in Users |-> busy'[w]]
      /\ \A w \in Users : BusyOK(busy'[w])
      /\ busy'[u] = [at |-> "method", a |-> a, v |-> v] /\ \A w \in Users \ {u} : busy'[w] = busy[w]
  BY <1>1, <1>3, BusyStep DEF AccountsInv
<1>5. db[a] \in AccountKeys
  BY DEF AccountsInv, AccountsType
<1>6. PICK new : new = [db[a] EXCEPT !.strict = v]
  OBVIOUS
<1>7. new \in AccountKeys
  BY <1>5, <1>6 DEF AccountKeys
<1>8. /\ new.exists = db[a].exists /\ new.verified = db[a].verified /\ new.name = db[a].name
      /\ new.gone = db[a].gone /\ new.certs = db[a].certs
      /\ new.nicks = db[a].nicks /\ new.suspended = db[a].suspended
  BY <1>5, <1>6 DEF AccountKeys
<1>9. db' = [db EXCEPT ![a] = new]
  BY <1>1, <1>6 DEF AccountsInv, AccountsType
<1>10. db' \in [AccountIds -> AccountKeys] /\ db'[a] = new /\ \A b \in AccountIds \ {a} : db'[b] = db[b]
  BY <1>7, <1>9 DEF AccountsInv, AccountsType
<1>11. AccountsType'
  BY <1>2, <1>4, <1>10 DEF AccountsInv, AccountsType
<1>12. CertFrame
  BY <1>2, <1>8, <1>10 DEF CertFrame
<1>13. LoginFrame
  BY <1>2, <1>4, <1>8, <1>10 DEF LoginFrame
<1>14. KeyFrame
  BY <1>2, <1>8, <1>10 DEF KeyFrame
<1>15. MethodInv'
  <2>1. ASSUME NEW b \in AccountIds
        PROVE  /\ ~db'[b].verified => ~db'[b].strict
               /\ \/ b \in drift'.methods
                  \/ methodOf'[b] = db'[b].strict
                  \/ \E w \in Users : busy'[w].at = "method" /\ busy'[w].a = b
    <3>1. CASE b = a
      <4>1. busy'[u].at = "method" /\ busy'[u].a = a /\ db'[a].verified
        BY <1>1, <1>4, <1>8, <1>10
      <4> QED BY <3>1, <4>1
    <3>2. CASE b # a
      <4>1. \A w \in Users : busy[w].at = "method" => busy'[w] = busy[w]
        BY <1>2, <1>4
      <4>2. db'[b] = db[b]
        BY <1>10, <3>2
      <4> QED BY <1>2, <4>1, <4>2 DEF AccountsInv, MethodInv
    <3> QED BY <3>1, <3>2
  <2> QED BY <2>1 DEF MethodInv
<1> QED BY <1>11, <1>12, <1>13, <1>14, <1>15, CertFramed, LoginFramed, KeyFramed DEF AccountsInv

(* ... and the method that is in force follows it.                         *)
LEMMA EnforcementInv ==
    ASSUME AccountsInv, NEW u \in Users, SetEnforcementStatus(u)
    PROVE  AccountsInv'
<1>1. PICK a : a = busy[u].a
  OBVIOUS
<1>2. PICK v : v = busy[u].v
  OBVIOUS
<1>3. /\ busy[u].at = "method"
      /\ methodOf' = [methodOf EXCEPT ![a] = v]
      /\ drift' = [drift EXCEPT !.methods = IF db[a].strict = v THEN @ \ {a} ELSE @ \cup {a}]
      /\ Becomes(u, NotBusy)
      /\ UNCHANGED <<db, certTo, nickTo, skelTo, login, listed>>
  BY <1>1, <1>2 DEF SetEnforcementStatus
<1>4. a \in AccountIds /\ v \in BOOLEAN
  BY <1>1, <1>2, <1>3 DEF BusyOK, AccountsInv, AccountsType
<1>5. /\ busy' = [w \in Users |-> busy'[w]]
      /\ \A w \in Users : BusyOK(busy'[w])
      /\ \A w \in Users \ {u} : busy'[w] = busy[w]
  BY <1>3, NotBusyOK, BusyStep DEF AccountsInv
<1>6. drift \in Drifts
  BY DEF AccountsInv, AccountsType
<1>7. /\ drift' \in Drifts /\ drift'.keys = drift.keys /\ drift'.certs = drift.certs
      /\ drift'.logins = drift.logins
      /\ drift'.methods = IF db[a].strict = v THEN drift.methods \ {a} ELSE drift.methods \cup {a}
  BY <1>3, <1>4, <1>6 DEF Drifts
<1>8. AccountsType'
  <2>1. methodOf' \in [AccountIds -> BOOLEAN]
    BY <1>3, <1>4 DEF AccountsInv, AccountsType
  <2> QED BY <1>3, <1>5, <1>7, <2>1 DEF AccountsInv, AccountsType
<1>9. CertFrame /\ LoginFrame /\ KeyFrame
  BY <1>3, <1>5, <1>7 DEF CertFrame, LoginFrame, KeyFrame
<1>10. MethodInv'
  <2>1. ASSUME NEW b \in AccountIds
        PROVE  \/ b \in drift'.methods
               \/ methodOf'[b] = db[b].strict
               \/ \E w \in Users : busy'[w].at = "method" /\ busy'[w].a = b
    <3>1. CASE b = a
      <4>1. methodOf'[a] = v
        BY <1>3, <1>4 DEF AccountsInv, AccountsType
      <4> QED BY <1>7, <3>1, <4>1
    <3>2. CASE b # a
      <4>1. methodOf'[b] = methodOf[b] /\ (b \in drift'.methods <=> b \in drift.methods)
        BY <1>3, <1>4, <1>7, <3>2 DEF AccountsInv, AccountsType
      <4>2. \A w \in Users : busy[w].at = "method" /\ busy[w].a = b => busy'[w] = busy[w]
        BY <1>1, <1>5, <3>2
      <4> QED BY <4>1, <4>2 DEF AccountsInv, MethodInv
    <3> QED BY <3>1, <3>2
  <2> QED BY <1>3, <2>1 DEF AccountsInv, MethodInv
<1> QED BY <1>8, <1>9, <1>10, CertFramed, LoginFramed, KeyFramed DEF AccountsInv

-----------------------------------------------------------------------------
(* Credentials. *)

(* The credentials are read before they are changed.                       *)
LEMMA ReadCredsInv ==
    ASSUME AccountsInv, NEW u \in Users, NEW a \in AccountIds, NEW privileged \in BOOLEAN, NEW new,
           NEW cert \in Certs \cup {Nobody}, new.pass \in BOOLEAN,
           \/ cert = Nobody /\ new.certs = db[a].certs
           \/ cert \in db[a].certs /\ new.certs = db[a].certs \ {cert}
           \/ cert \in Certs \ db[a].certs /\ new.certs = db[a].certs \cup {cert},
           busy[u].at = "rest", ReadCreds(u, a, privileged, new, cert)
    PROVE  AccountsInv'
<1>1. PICK b : b = [at |-> "write", a |-> a, old |-> Creds(a), new |-> new, cert |-> cert]
  OBVIOUS
<1>2. Becomes(u, b) /\ UNCHANGED <<db, certTo, nickTo, skelTo, methodOf, login, listed, drift>>
  BY <1>1 DEF ReadCreds
<1>3. b.at = "write" /\ b.a = a /\ b.old = Creds(a) /\ b.new = new /\ b.cert = cert
  BY <1>1
<1>4. Creds(a).certs = db[a].certs /\ db[a].certs \subseteq Certs
  BY DEF Creds, AccountsInv, AccountsType, AccountKeys
<1>5. Writes(b)
  BY <1>3, <1>4 DEF Writes
<1>6. BusyOK(b)
  BY <1>3, <1>5 DEF BusyOK
<1> QED BY <1>2, <1>6, BusyOnly

(* NS PASSWD.                                                              *)
LEMMA PasswdInv ==
    ASSUME AccountsInv, NEW u \in Users, nsPasswdHandler(u)
    PROVE  AccountsInv'
<1>1. PICK a \in AccountIds, privileged \in BOOLEAN, p \in BOOLEAN :
        ReadCreds(u, a, privileged, [Creds(a) EXCEPT !.pass = p], Nobody)
  BY DEF nsPasswdHandler
<1>2. PICK new : new = [Creds(a) EXCEPT !.pass = p]
  OBVIOUS
<1>3. new.pass = p /\ new.certs = db[a].certs
  BY <1>2 DEF Creds
<1>4. busy[u].at = "rest" /\ ReadCreds(u, a, privileged, new, Nobody)
  BY <1>1, <1>2 DEF nsPasswdHandler, Command
<1> QED BY <1>3, <1>4, ReadCredsInv

(* NS CERT.                                                                *)
LEMMA CertInvStep ==
    ASSUME AccountsInv, NEW u \in Users, nsCertHandler(u)
    PROVE  AccountsInv'
<1>1. PICK a \in AccountIds, privileged \in BOOLEAN, f \in Certs :
        ReadCreds(u, a, privileged,
                  [Creds(a) EXCEPT !.certs = IF f \in @ THEN @ \ {f} ELSE @ \cup {f}], f)
  BY DEF nsCertHandler
<1>2. PICK new : new = [Creds(a) EXCEPT !.certs = IF f \in @ THEN @ \ {f} ELSE @ \cup {f}]
  OBVIOUS
<1>3. new.pass = db[a].pass /\ new.certs = IF f \in db[a].certs THEN db[a].certs \ {f} ELSE db[a].certs \cup {f}
  BY <1>2 DEF Creds
<1>4. db[a].pass \in BOOLEAN
  BY DEF AccountsInv, AccountsType, AccountKeys
<1>5. busy[u].at = "rest" /\ ReadCreds(u, a, privileged, new, f)
  BY <1>1, <1>2 DEF nsCertHandler, Command
<1> QED BY <1>3, <1>4, <1>5, ReadCredsInv

(* The compare-and-swap of the credentials.                                *)
LEMMA WriteCredsInv ==
    ASSUME AccountsInv, NEW u \in Users, WriteCreds(u)
    PROVE  AccountsInv'
<1>1. PICK a : a = busy[u].a
  OBVIOUS
<1>2. PICK f : f = busy[u].cert
  OBVIOUS
<1>3. PICK certs : certs = busy[u].new.certs
  OBVIOUS
<1>4. PICK adding \in BOOLEAN : adding <=> (f # Nobody /\ f \in certs)
  <2>1. (f # Nobody /\ f \in certs) \in BOOLEAN
    OBVIOUS
  <2> QED BY <2>1
<1>5. busy[u].at = "write" /\ Becomes(u, NotBusy) /\ UNCHANGED <<nickTo, skelTo, methodOf, login, listed, drift>>
  BY DEF WriteCreds
<1>6. CASE UNCHANGED <<db, certTo>>
  BY <1>5, <1>6, NotBusyOK, BusyOnly
<1>7. CASE /\ Unchanged(u) /\ (adding => certTo[f] = Nobody)
           /\ db' = [db EXCEPT ![a].pass = busy[u].new.pass, ![a].certs = certs,
                                ![a].kept = ~db[a].verified,
                                ![a].lasting = IF adding /\ ~db[a].verified THEN @ \cup {f} ELSE @]
           /\ certTo' = IF f = Nobody THEN certTo
                        ELSE [certTo EXCEPT ![f] = IF adding THEN a ELSE Nobody]
  <2>1. BusyOK(busy[u])
    BY DEF AccountsInv, AccountsType
  <2>2. a \in AccountIds /\ f \in Certs \cup {Nobody} /\ busy[u].new.pass \in BOOLEAN
    BY <1>1, <1>2, <1>5, <2>1 DEF BusyOK, Writes
  <2>3. db[a] \in AccountKeys /\ db[a].exists /\ db[a].certs = busy[u].old.certs
    BY <1>1, <1>7, <2>2 DEF Unchanged, Creds, AccountsInv, AccountsType
  <2>4. \/ f = Nobody /\ certs = db[a].certs
        \/ f \in db[a].certs /\ certs = db[a].certs \ {f}
        \/ f \in Certs \ db[a].certs /\ certs = db[a].certs \cup {f}
    BY <1>2, <1>3, <1>5, <2>1, <2>3 DEF BusyOK, Writes
  <2>5. db[a].certs \subseteq Certs /\ db[a].lasting \subseteq Certs
    BY <2>3 DEF AccountKeys
  <2>6. certs \subseteq Certs /\ (adding => f \in Certs)
    BY <1>4, <2>2, <2>4, <2>5
  <2>7. PICK new : new = [db[a] EXCEPT !.pass = busy[u].new.pass, !.certs = certs, !.kept = ~db[a].verified,
                                       !.lasting = IF adding /\ ~db[a].verified THEN @ \cup {f} ELSE @]
    OBVIOUS
  <2>8. new \in AccountKeys
    BY <2>2, <2>3, <2>5, <2>6, <2>7, ZenonT(60) DEF AccountKeys
  <2>9. /\ new.exists = db[a].exists /\ new.verified = db[a].verified /\ new.name = db[a].name
        /\ new.gone = db[a].gone /\ new.certs = certs /\ new.strict = db[a].strict
        /\ new.nicks = db[a].nicks /\ new.suspended = db[a].suspended
    BY <2>3, <2>7 DEF AccountKeys
  <2>10. db' = [db EXCEPT ![a] = new]
    BY <1>7, <2>2, <2>7 DEF AccountsInv, AccountsType
  <2>11. db' \in [AccountIds -> AccountKeys] /\ db'[a] = new /\ \A b \in AccountIds \ {a} : db'[b] = db[b]
    BY <2>2, <2>8, <2>10 DEF AccountsInv, AccountsType
  <2>12. /\ busy' = [w \in Users |-> busy'[w]]
         /\ \A w \in Users : BusyOK(busy'[w])
         /\ \A w \in Users \ {u} : busy'[w] = busy[w]
    BY <1>5, NotBusyOK, BusyStep DEF AccountsInv
  <2>13. certTo' \in [Certs -> Owning]
    BY <1>7, <2>2 DEF AccountsInv, AccountsType, Owning
  <2>14. AccountsType'
    BY <1>5, <2>11, <2>12, <2>13 DEF AccountsInv, AccountsType
  <2>15. CertInv'
    <3>1. ASSUME NEW g \in Certs \ drift.certs, NEW b \in AccountIds
          PROVE  certTo'[g] = b <=> g \in db'[b].certs
      <4>1. (certTo[g] = b <=> g \in db[b].certs) /\ (certTo[g] = a <=> g \in db[a].certs) /\ b # Nobody /\ a # Nobody
        BY <2>2, Ids DEF AccountsInv, CertInv, CertIndexExact
      <4>2. CASE g # f
        <5>1. certTo'[g] = certTo[g]
          BY <1>7, <4>2 DEF AccountsInv, AccountsType
        <5>2. g \in certs <=> g \in db[a].certs
          BY <2>4, <4>2
        <5> QED BY <2>9, <2>11, <4>1, <5>1, <5>2
      <4>3. CASE g = f
        <5>1. f # Nobody /\ certTo'[g] = IF adding THEN a ELSE Nobody
          BY <1>7, <4>3, Ids DEF AccountsInv, AccountsType
        <5>2. g \in certs <=> adding
          BY <1>4, <4>3, <5>1
        <5>3. b # a => g \notin db[b].certs
          <6>1. CASE adding
            BY <1>7, <4>1, <4>3, <6>1
          <6>2. CASE ~adding
            BY <1>4, <2>4, <4>1, <4>3, <5>1, <6>2
          <6> QED BY <6>1, <6>2
        <5> QED BY <2>9, <2>11, <4>1, <5>1, <5>2, <5>3
      <4> QED BY <4>2, <4>3
    <3>2. \A b \in AccountIds : ~db'[b].exists => db'[b].certs \subseteq drift.certs
      BY <2>3, <2>9, <2>11 DEF AccountsInv, CertInv
    <3> QED BY <1>5, <3>1, <3>2 DEF CertInv, CertIndexExact
  <2>16. LoginFrame
    BY <1>5, <2>9, <2>11, <2>12 DEF LoginFrame
  <2>17. KeyFrame
    BY <1>5, <2>9, <2>11 DEF KeyFrame
  <2>18. MethodFrame
    BY <1>5, <2>9, <2>11, <2>12 DEF MethodFrame
  <2> QED BY <2>14, <2>15, <2>16, <2>17, <2>18, LoginFramed, KeyFramed, MethodFramed DEF AccountsInv
<1>8. \/ UNCHANGED <<db, certTo>>
      \/ /\ Unchanged(u) /\ (adding => certTo[f] = Nobody)
         /\ db' = [db EXCEPT ![a].pass = busy[u].new.pass, ![a].certs = certs,
                              ![a].kept = ~db[a].verified,
                              ![a].lasting = IF adding /\ ~db[a].verified THEN @ \cup {f} ELSE @]
         /\ certTo' = IF f = Nobody THEN certTo
                      ELSE [certTo EXCEPT ![f] = IF adding THEN a ELSE Nobody]
  BY <1>1, <1>2, <1>3, <1>4 DEF WriteCreds
<1> QED BY <1>6, <1>7, <1>8

(* NS SENDPASS.                                                            *)
LEMMA SendpassInv ==
    ASSUME AccountsInv, NEW u \in Users, NsSendpass(u)
    PROVE  AccountsInv'
<1>1. PICK a \in AccountIds : db' = [db EXCEPT ![a].reset = TRUE]
  BY DEF NsSendpass
<1>2. UNCHANGED <<certTo, nickTo, skelTo, methodOf, login, listed, busy, drift>>
  BY DEF NsSendpass
<1>3. db[a] \in AccountKeys
  BY DEF AccountsInv, AccountsType
<1>4. PICK new : new = [db[a] EXCEPT !.reset = TRUE]
  OBVIOUS
<1>5. new \in AccountKeys
  BY <1>3, <1>4 DEF AccountKeys
<1>6. /\ new.exists = db[a].exists /\ new.verified = db[a].verified /\ new.name = db[a].name
      /\ new.gone = db[a].gone /\ new.certs = db[a].certs /\ new.strict = db[a].strict
      /\ new.nicks = db[a].nicks /\ new.suspended = db[a].suspended
  BY <1>3, <1>4 DEF AccountKeys
<1>7. db' = [db EXCEPT ![a] = new]
  BY <1>1, <1>4 DEF AccountsInv, AccountsType
<1>8. busy' = [v \in Users |-> busy'[v]] /\ \A v \in Users : BusyOK(busy'[v]) /\ busy'[v] = busy[v]
  BY <1>2 DEF AccountsInv, AccountsType
<1> QED BY <1>2, <1>5, <1>6, <1>7, <1>8, OtherKeys

(* NS RESETPASS.                                                           *)
LEMMA ResetpassInv ==
    ASSUME AccountsInv, NEW u \in Users, NsResetpass(u)
    PROVE  AccountsInv'
<1>1. PICK a \in AccountIds :
        /\ db' = [db EXCEPT ![a].reset = FALSE]
        /\ Becomes(u, [at |-> "write", a |-> a, old |-> Creds(a),
                       new |-> [Creds(a) EXCEPT !.pass = TRUE], cert |-> Nobody])
  BY DEF NsResetpass
<1>2. busy[u].at = "rest" /\ UNCHANGED <<certTo, nickTo, skelTo, methodOf, login, listed, drift>>
  BY DEF NsResetpass, Command
<1>3. db[a] \in AccountKeys
  BY DEF AccountsInv, AccountsType
<1>4. PICK new : new = [db[a] EXCEPT !.reset = FALSE]
  OBVIOUS
<1>5. new \in AccountKeys
  BY <1>3, <1>4 DEF AccountKeys
<1>6. /\ new.exists = db[a].exists /\ new.verified = db[a].verified /\ new.name = db[a].name
      /\ new.gone = db[a].gone /\ new.certs = db[a].certs /\ new.strict = db[a].strict
      /\ new.nicks = db[a].nicks /\ new.suspended = db[a].suspended
  BY <1>3, <1>4 DEF AccountKeys
<1>7. db' = [db EXCEPT ![a] = new]
  BY <1>1, <1>4 DEF AccountsInv, AccountsType
<1>8. PICK b : b = [at |-> "write", a |-> a, old |-> Creds(a),
                    new |-> [Creds(a) EXCEPT !.pass = TRUE], cert |-> Nobody]
  OBVIOUS
<1>9. BusyOK(b)
  <2>1. /\ b.at = "write" /\ b.a = a /\ b.cert = Nobody /\ b.old.certs = db[a].certs
        /\ b.new.certs = db[a].certs /\ b.new.pass = TRUE
    BY <1>8 DEF Creds
  <2>2. db[a].certs \subseteq Certs
    BY <1>3 DEF AccountKeys
  <2>3. Writes(b)
    BY <2>1, <2>2 DEF Writes
  <2> QED BY <2>1, <2>3 DEF BusyOK
<1>10. /\ busy' = [v \in Users |-> busy'[v]]
       /\ \A v \in Users : BusyOK(busy'[v])
       /\ \A v \in Users \ {u} : busy'[v] = busy[v]
  BY <1>1, <1>8, <1>9, BusyStep DEF AccountsInv
<1> QED BY <1>2, <1>5, <1>6, <1>7, <1>10, OtherKeys

-----------------------------------------------------------------------------
(* Logins and suspensions. *)

(* A client proves who it is.                                              *)
LEMMA AuthenticateInv ==
    ASSUME AccountsInv, NEW u \in Users, AuthenticateByPassphrase(u) \/ AuthenticateByCertificate(u)
    PROVE  AccountsInv'
<1>1. busy[u].at = "rest" /\ UNCHANGED <<db, certTo, nickTo, skelTo, methodOf, login, listed, drift>>
  BY DEF AuthenticateByPassphrase, AuthenticateByCertificate, Command
<1>2. \E a \in AccountIds : Becomes(u, [at |-> "login", a |-> a])
  BY DEF AuthenticateByPassphrase, AuthenticateByCertificate, AccountsInv, AccountsType, Owning
<1>3. PICK a \in AccountIds : Becomes(u, [at |-> "login", a |-> a])
  BY <1>2
<1>4. BusyOK([at |-> "login", a |-> a])
  BY DEF BusyOK
<1> QED BY <1>1, <1>3, <1>4, BusyOnly

(* Only the logins, the lists and the goroutines change.                   *)
LEMMA LoginStep ==
    ASSUME AccountsInv, LoginInv', busy' = [v \in Users |-> busy'[v]], \A v \in Users : BusyOK(busy'[v]),
           login' \in [Users -> Owning], listed' \in [AccountIds -> SUBSET Users], drift' \in Drifts,
           drift'.keys = drift.keys, drift'.certs = drift.certs, drift'.methods = drift.methods,
           \A v \in Users : busy'[v] = busy[v] \/ busy[v].at # "method",
           UNCHANGED <<db, certTo, nickTo, skelTo, methodOf>>
    PROVE  AccountsInv'
<1>1. AccountsType'
  BY DEF AccountsInv, AccountsType
<1>2. CertFrame /\ KeyFrame /\ MethodFrame
  BY DEF CertFrame, KeyFrame, MethodFrame
<1> QED BY <1>1, <1>2, CertFramed, KeyFramed, MethodFramed DEF AccountsInv

(* The login that follows.                                                 *)
LEMMA LoginActionInv ==
    ASSUME AccountsInv, NEW u \in Users, Login(u)
    PROVE  AccountsInv'
<1>1. PICK a : a = busy[u].a
  OBVIOUS
<1>2. /\ busy[u].at = "login" /\ login' = [login EXCEPT ![u] = a]
      /\ Becomes(u, [at |-> "list", a |-> a])
      /\ UNCHANGED <<db, certTo, nickTo, skelTo, methodOf, listed, drift>>
  BY <1>1 DEF Login
<1>3. a \in AccountIds
  BY <1>1, <1>2 DEF BusyOK, AccountsInv, AccountsType
<1>4. BusyOK([at |-> "list", a |-> a])
  BY DEF BusyOK
<1>5. /\ busy' = [v \in Users |-> busy'[v]]
      /\ \A v \in Users : BusyOK(busy'[v])
      /\ busy'[u] = [at |-> "list", a |-> a] /\ \A v \in Users \ {u} : busy'[v] = busy[v]
  BY <1>2, <1>4, BusyStep DEF AccountsInv
<1>6. login' \in [Users -> Owning] /\ \A v \in Users \ {u} : login'[v] = login[v]
  BY <1>2, <1>3 DEF AccountsInv, AccountsType, Owning
<1>7. LoginInv'
  <2>1. ASSUME NEW v \in Users, login'[v] # Nobody, busy'[v].at # "list", v \notin drift'.logins
        PROVE  Watched(v)'
    <3>1. v # u /\ login'[v] = login[v] /\ busy'[v] = busy[v] /\ v \notin drift.logins
      BY <1>2, <1>5, <1>6, <2>1
    <3>2. Watched(v)
      BY <2>1, <3>1 DEF AccountsInv, LoginInv
    <3>3. \A w \in Users : busy[w].at \in {"suspend", "kill"} => busy'[w] = busy[w]
      BY <1>2, <1>5
    <3> QED BY <1>2, <3>1, <3>2, <3>3 DEF Watched, MayLogin
  <2> QED BY <1>2, <2>1 DEF AccountsInv, LoginInv
<1>8. listed' \in [AccountIds -> SUBSET Users] /\ drift' \in Drifts
  BY <1>2 DEF AccountsInv, AccountsType
<1> QED BY <1>2, <1>5, <1>6, <1>7, <1>8, LoginStep

(* The client is entered in the account's list.                            *)
LEMMA LoginListInv ==
    ASSUME AccountsInv, NEW u \in Users, LoginList(u)
    PROVE  AccountsInv'
<1>1. PICK a : a = login[u]
  OBVIOUS
<1>2. /\ busy[u].at = "list"
      /\ listed' = IF a = Nobody THEN listed ELSE [listed EXCEPT ![a] = @ \cup {u}]
      /\ drift' = IF a = Nobody \/ MayLogin(a) THEN drift ELSE [drift EXCEPT !.logins = @ \cup {u}]
      /\ Becomes(u, NotBusy)
      /\ UNCHANGED <<db, certTo, nickTo, skelTo, methodOf, login>>
  BY <1>1 DEF LoginList
<1>3. a \in AccountIds \cup {Nobody}
  BY <1>1 DEF AccountsInv, AccountsType, Owning
<1>4. /\ busy' = [v \in Users |-> busy'[v]]
      /\ \A v \in Users : BusyOK(busy'[v])
      /\ \A v \in Users \ {u} : busy'[v] = busy[v]
  BY <1>2, NotBusyOK, BusyStep DEF AccountsInv
<1>5. drift \in Drifts /\ listed \in [AccountIds -> SUBSET Users]
  BY DEF AccountsInv, AccountsType
<1>6. /\ drift' \in Drifts /\ drift'.keys = drift.keys /\ drift'.certs = drift.certs
      /\ drift'.methods = drift.methods /\ drift.logins \subseteq drift'.logins
      /\ a # Nobody /\ ~MayLogin(a) => u \in drift'.logins
  BY <1>2, <1>5 DEF Drifts
<1>7. /\ listed' \in [AccountIds -> SUBSET Users] /\ \A b \in AccountIds : listed[b] \subseteq listed'[b]
      /\ \A b \in AccountIds : listed'[b] = listed[b] \/ listed'[b] = listed[b] \cup {u}
      /\ a # Nobody => u \in listed'[a]
  BY <1>2, <1>3, <1>5
<1>8. LoginInv'
  <2>1. \A b \in AccountIds : IsFiniteSet(listed'[b])
    BY <1>7, FS_AddElement, SMTT(30) DEF AccountsInv, LoginInv
  <2>2. ASSUME NEW v \in Users, login'[v] # Nobody, busy'[v].at # "list", v \notin drift'.logins
        PROVE  Watched(v)'
    <3>1. login'[v] = login[v] /\ login[v] \in AccountIds /\ v \notin drift.logins
      BY <1>2, <1>6, <2>2 DEF AccountsInv, AccountsType, Owning
    <3>2. CASE v = u
      BY <1>1, <1>2, <1>6, <1>7, <2>2, <3>1, <3>2 DEF Watched, MayLogin
    <3>3. CASE v # u
      <4>1. Watched(v)
        BY <1>4, <2>2, <3>1, <3>3 DEF AccountsInv, LoginInv
      <4>2. \A w \in Users : busy[w].at \in {"suspend", "kill"} => busy'[w] = busy[w]
        BY <1>2, <1>4
      <4> QED BY <1>2, <1>7, <3>1, <4>1, <4>2 DEF Watched, MayLogin
    <3> QED BY <3>2, <3>3
  <2> QED BY <2>1, <2>2 DEF LoginInv
<1>9. login' \in [Users -> Owning]
  BY <1>2 DEF AccountsInv, AccountsType
<1> QED BY <1>2, <1>4, <1>6, <1>7, <1>8, <1>9, LoginStep

(* Logout.                                                                 *)
LEMMA LogoutInv ==
    ASSUME AccountsInv, NEW u \in Users, Logout(u)
    PROVE  AccountsInv'
<1>1. PICK a : a = login[u]
  OBVIOUS
<1>2. /\ a # Nobody /\ login' = [login EXCEPT ![u] = Nobody]
      /\ listed' = [listed EXCEPT ![a] = IF Cardinality(@) <= 1 THEN {} ELSE @ \ {u}]
      /\ drift' = [drift EXCEPT !.logins =
                  (@ \ {u}) \cup (IF Cardinality(listed[a]) = 1 THEN listed[a] \ {u} ELSE {})]
      /\ UNCHANGED <<db, certTo, nickTo, skelTo, methodOf, busy>>
  BY <1>1 DEF Logout
<1>3. a \in AccountIds
  BY <1>1, <1>2 DEF AccountsInv, AccountsType, Owning
<1>4. drift \in Drifts /\ listed \in [AccountIds -> SUBSET Users] /\ IsFiniteSet(listed[a])
  BY <1>3 DEF AccountsInv, AccountsType, LoginInv
<1>5. /\ drift' \in Drifts /\ drift'.keys = drift.keys /\ drift'.certs = drift.certs
      /\ drift'.methods = drift.methods
      /\ drift'.logins = (drift.logins \ {u}) \cup (IF Cardinality(listed[a]) = 1 THEN listed[a] \ {u} ELSE {})
  BY <1>2, <1>3, <1>4 DEF Drifts
<1>6. /\ listed'[a] = IF Cardinality(listed[a]) <= 1 THEN {} ELSE listed[a] \ {u}
      /\ \A b \in AccountIds \ {a} : listed'[b] = listed[b]
      /\ listed' \in [AccountIds -> SUBSET Users]
  BY <1>2, <1>3, <1>4
<1>7. \A v \in listed[a] : v # u => v \in listed'[a] \/ v \in drift'.logins
  <2>1. ASSUME NEW v \in listed[a] PROVE Cardinality(listed[a]) \in Nat /\ Cardinality(listed[a]) # 0
    BY <1>4, <2>1, FS_CardinalityType, FS_EmptySet
  <2>2. ASSUME NEW v \in listed[a], v # u, v \notin listed'[a] PROVE Cardinality(listed[a]) = 1
    BY <1>6, <2>1, <2>2
  <2> QED BY <1>5, <2>2
<1>8. LoginInv'
  <2>1. \A b \in AccountIds : IsFiniteSet(listed'[b])
    <3>1. IsFiniteSet(listed[a] \ {u}) /\ IsFiniteSet({})
      BY <1>4, FS_RemoveElement, FS_EmptySet
    <3> QED BY <1>6, <3>1 DEF AccountsInv, LoginInv
  <2>2. ASSUME NEW v \in Users, login'[v] # Nobody, busy'[v].at # "list", v \notin drift'.logins
        PROVE  Watched(v)'
    <3>1. v # u /\ login'[v] = login[v] /\ login[v] \in AccountIds /\ v \notin drift.logins
      BY <1>2, <1>5, <2>2 DEF AccountsInv, AccountsType, Owning
    <3>2. Watched(v)
      BY <1>2, <2>2, <3>1 DEF AccountsInv, LoginInv
    <3>3. v \in listed[login[v]] => v \in listed'[login[v]]
      BY <1>6, <1>7, <2>2, <3>1
    <3> QED BY <1>2, <3>1, <3>2, <3>3 DEF Watched, MayLogin
  <2> QED BY <2>1, <2>2 DEF LoginInv
<1>9. login' \in [Users -> Owning]
  BY <1>2 DEF AccountsInv, AccountsType, Owning
<1>10. busy' = [v \in Users |-> busy'[v]] /\ \A v \in Users : BusyOK(busy'[v]) /\ busy'[v] = busy[v]
  BY <1>2 DEF AccountsInv, AccountsType
<1> QED BY <1>2, <1>5, <1>6, <1>8, <1>9, <1>10, LoginStep

(* An account's clients are removed one by one.                            *)
LEMMA KillInv ==
    ASSUME AccountsInv, NEW u \in Users, KillClients(u)
    PROVE  AccountsInv'
<1>1. /\ busy[u].at = "kill"
      /\ login' = [v \in Users |-> IF v \in busy[u].who THEN Nobody ELSE login[v]]
      /\ Becomes(u, NotBusy)
      /\ UNCHANGED <<db, certTo, nickTo, skelTo, methodOf, listed, drift>>
  BY DEF KillClients
<1>2. /\ busy' = [v \in Users |-> busy'[v]]
      /\ \A v \in Users : BusyOK(busy'[v])
      /\ busy'[u] = NotBusy /\ \A v \in Users \ {u} : busy'[v] = busy[v]
  BY <1>1, NotBusyOK, BusyStep DEF AccountsInv
<1>3. login' \in [Users -> Owning]
  BY <1>1 DEF AccountsInv, AccountsType, Owning
<1>4. LoginInv'
  <2>1. ASSUME NEW v \in Users, login'[v] # Nobody, busy'[v].at # "list", v \notin drift'.logins
        PROVE  Watched(v)'
    <3>1. v \notin busy[u].who /\ login'[v] = login[v] /\ v \notin drift.logins /\ busy[v].at # "list"
      BY <1>1, <1>2, <2>1
    <3>2. Watched(v)
      BY <2>1, <3>1 DEF AccountsInv, LoginInv
    <3>3. CASE \E w \in Users : busy[w].at = "kill" /\ v \in busy[w].who
      BY <1>2, <3>1, <3>3 DEF Watched
    <3>4. CASE ~(\E w \in Users : busy[w].at = "kill" /\ v \in busy[w].who)
      <4>1. \A w \in Users : busy[w].at = "suspend" => busy'[w] = busy[w]
        BY <1>1, <1>2
      <4> QED BY <1>1, <3>1, <3>2, <3>4, <4>1 DEF Watched, MayLogin
    <3> QED BY <3>3, <3>4
  <2> QED BY <1>1, <2>1 DEF AccountsInv, LoginInv
<1>5. listed' \in [AccountIds -> SUBSET Users] /\ drift' \in Drifts
  BY <1>1 DEF AccountsInv, AccountsType
<1> QED BY <1>1, <1>2, <1>3, <1>4, <1>5, LoginStep

(* Suspend collects the clients to be logged out.                          *)
LEMMA SuspendInv ==
    ASSUME AccountsInv, NEW u \in Users, Suspend(u)
    PROVE  AccountsInv'
<1>1. PICK a : a = busy[u].a
  OBVIOUS
<1>2. /\ busy[u].at = "suspend" /\ Becomes(u, [at |-> "kill", who |-> listed[a]])
      /\ listed' = [listed EXCEPT ![a] = {}]
      /\ UNCHANGED <<db, certTo, nickTo, skelTo, methodOf, login, drift>>
  BY <1>1 DEF Suspend, SuspendedClients
<1>3. a \in AccountIds
  BY <1>1, <1>2 DEF BusyOK, AccountsInv, AccountsType
<1>4. BusyOK([at |-> "kill", who |-> listed[a]])
  BY <1>3 DEF BusyOK, AccountsInv, AccountsType
<1>5. /\ busy' = [v \in Users |-> busy'[v]]
      /\ \A v \in Users : BusyOK(busy'[v])
      /\ busy'[u] = [at |-> "kill", who |-> listed[a]] /\ \A v \in Users \ {u} : busy'[v] = busy[v]
  BY <1>2, <1>4, BusyStep DEF AccountsInv
<1>6. listed'[a] = {} /\ (\A b \in AccountIds \ {a} : listed'[b] = listed[b]) /\ listed' \in [AccountIds -> SUBSET Users]
  BY <1>2, <1>3 DEF AccountsInv, AccountsType
<1>7. LoginInv'
  <2>1. \A b \in AccountIds : IsFiniteSet(listed'[b])
    BY <1>6, FS_EmptySet DEF AccountsInv, LoginInv
  <2>2. ASSUME NEW v \in Users, login'[v] # Nobody, busy'[v].at # "list", v \notin drift'.logins
        PROVE  Watched(v)'
    <3>1. login'[v] = login[v] /\ login[v] \in AccountIds /\ v \notin drift.logins /\ busy[v].at # "list"
      BY <1>2, <1>5, <2>2 DEF AccountsInv, AccountsType, Owning
    <3>2. Watched(v)
      BY <2>2, <3>1 DEF AccountsInv, LoginInv, Owning
    <3>3. CASE login[v] = a /\ v \in listed[a]
      BY <1>5, <3>3 DEF Watched
    <3>4. CASE \E w \in Users : busy[w].at = "kill" /\ v \in busy[w].who
      BY <1>2, <1>5, <3>4 DEF Watched
    <3>5. CASE login[v] # a /\ ~(\E w \in Users : busy[w].at = "kill" /\ v \in busy[w].who)
      <4>1. \A w \in Users : busy[w].at = "suspend" /\ busy[w].a = login[v] => busy'[w] = busy[w]
        BY <1>1, <1>5, <3>5
      <4> QED BY <1>2, <1>6, <3>1, <3>2, <3>5, <4>1 DEF Watched, MayLogin
    <3> QED BY <3>2, <3>3, <3>4, <3>5 DEF Watched
  <2> QED BY <2>1, <2>2 DEF LoginInv
<1>8. login' \in [Users -> Owning] /\ drift' \in Drifts
  BY <1>2 DEF AccountsInv, AccountsType
<1> QED BY <1>2, <1>5, <1>6, <1>7, <1>8, LoginStep

(* The suspension is written first.                                        *)
LEMMA SuspendAddInv ==
    ASSUME AccountsInv, NEW u \in Users, nsSuspendAddHandler(u)
    PROVE  AccountsInv'
<1>1. PICK a \in AccountIds :
        db[a].exists /\ db' = [db EXCEPT ![a].suspended = TRUE] /\ Becomes(u, [at |-> "suspend", a |-> a])
  BY DEF nsSuspendAddHandler
<1>2. busy[u].at = "rest" /\ UNCHANGED <<certTo, nickTo, skelTo, methodOf, login, listed, drift>>
  BY DEF nsSuspendAddHandler, Command
<1>3. BusyOK([at |-> "suspend", a |-> a])
  BY DEF BusyOK
<1>4. /\ busy' = [v \in Users |-> busy'[v]]
      /\ \A v \in Users : BusyOK(busy'[v])
      /\ busy'[u] = [at |-> "suspend", a |-> a] /\ \A v \in Users \ {u} : busy'[v] = busy[v]
  BY <1>1, <1>3, BusyStep DEF AccountsInv
<1>5. db[a] \in AccountKeys
  BY DEF AccountsInv, AccountsType
<1>6. PICK new : new = [db[a] EXCEPT !.suspended = TRUE]
  OBVIOUS
<1>7. new \in AccountKeys
  BY <1>5, <1>6 DEF AccountKeys
<1>8. /\ new.exists = db[a].exists /\ new.verified = db[a].verified /\ new.name = db[a].name
      /\ new.gone = db[a].gone /\ new.certs = db[a].certs
      /\ new.nicks = db[a].nicks /\ new.strict = db[a].strict
  BY <1>5, <1>6 DEF AccountKeys
<1>9. db' = [db EXCEPT ![a] = new]
  BY <1>1, <1>6 DEF AccountsInv, AccountsType
<1>10. db' \in [AccountIds -> AccountKeys] /\ db'[a] = new /\ \A b \in AccountIds \ {a} : db'[b] = db[b]
  BY <1>7, <1>9 DEF AccountsInv, AccountsType
<1>11. AccountsType'
  BY <1>2, <1>4, <1>10 DEF AccountsInv, AccountsType
<1>12. CertFrame
  BY <1>2, <1>8, <1>10 DEF CertFrame
<1>13. KeyFrame
  BY <1>2, <1>8, <1>10 DEF KeyFrame
<1>14. MethodFrame
  BY <1>2, <1>4, <1>8, <1>10 DEF MethodFrame
<1>15. LoginInv'
  <2>1. ASSUME NEW v \in Users, login'[v] # Nobody, busy'[v].at # "list", v \notin drift'.logins
        PROVE  Watched(v)'
    <3>1. login'[v] = login[v] /\ login[v] \in AccountIds /\ v \notin drift.logins /\ busy[v].at # "list"
      BY <1>2, <1>4, <2>1 DEF AccountsInv, AccountsType, Owning
    <3>2. Watched(v)
      BY <2>1, <3>1 DEF AccountsInv, LoginInv, Owning
    <3>3. \A w \in Users : busy[w].at \in {"suspend", "kill"} => busy'[w] = busy[w]
      BY <1>2, <1>4
    <3>4. CASE login[v] = a /\ v \in listed[a]
      <4>1. busy'[u].at = "suspend" /\ busy'[u].a = login'[v] /\ v \in listed'[login'[v]]
        BY <1>2, <1>4, <3>1, <3>4
      <4> QED BY <4>1 DEF Watched
    <3>5. CASE \E w \in Users : busy[w].at = "kill" /\ v \in busy[w].who
      BY <3>3, <3>5 DEF Watched
    <3>6. CASE login[v] # a
      <4>1. db'[login[v]] = db[login[v]]
        BY <1>10, <3>1, <3>6
      <4> QED BY <1>2, <3>1, <3>2, <3>3, <4>1 DEF Watched, MayLogin
    <3> QED BY <3>2, <3>4, <3>5, <3>6 DEF Watched
  <2> QED BY <1>2, <2>1 DEF AccountsInv, LoginInv
<1> QED BY <1>11, <1>12, <1>13, <1>14, <1>15, CertFramed, KeyFramed, MethodFramed DEF AccountsInv

(* NS SUSPEND DEL.                                                         *)
LEMMA SuspendRemoveInv ==
    ASSUME AccountsInv, NEW u \in Users, nsSuspendRemoveHandler(u)
    PROVE  AccountsInv'
<1>1. PICK a \in AccountIds : db' = [db EXCEPT ![a].suspended = FALSE]
  BY DEF nsSuspendRemoveHandler
<1>2. UNCHANGED <<certTo, nickTo, skelTo, methodOf, login, listed, busy, drift>>
  BY DEF nsSuspendRemoveHandler
<1>3. db[a] \in AccountKeys
  BY DEF AccountsInv, AccountsType
<1>4. PICK new : new = [db[a] EXCEPT !.suspended = FALSE]
  OBVIOUS
<1>5. new \in AccountKeys
  BY <1>3, <1>4 DEF AccountKeys
<1>6. /\ new.exists = db[a].exists /\ new.verified = db[a].verified /\ new.name = db[a].name
      /\ new.gone = db[a].gone /\ new.certs = db[a].certs /\ new.strict = db[a].strict
      /\ new.nicks = db[a].nicks /\ ~new.suspended
  BY <1>3, <1>4 DEF AccountKeys
<1>7. db' = [db EXCEPT ![a] = new]
  BY <1>1, <1>4 DEF AccountsInv, AccountsType
<1>8. busy' = [v \in Users |-> busy'[v]] /\ \A v \in Users : BusyOK(busy'[v]) /\ busy'[v] = busy[v]
  BY <1>2 DEF AccountsInv, AccountsType
<1> QED BY <1>2, <1>5, <1>6, <1>7, <1>8, OtherKeys

(* NS SAREGISTER.                                                          *)
LEMMA SARegisterInv ==
    ASSUME AccountsInv, NEW u \in Users, SARegister(u)
    PROVE  AccountsInv'
<1>1. PICK a : a = busy[u].a
  OBVIOUS
<1>2. busy[u].at = "verify"
  BY DEF SARegister
<1>3. a \in AccountIds
  BY <1>1, <1>2 DEF BusyOK, AccountsInv, AccountsType
<1>4. PICK then : then = IF busy[u].then = "login" THEN [at |-> "login", a |-> a] ELSE NotBusy
  OBVIOUS
<1>5. BusyOK([at |-> "login", a |-> a])
  BY <1>3 DEF BusyOK
<1>6. BusyOK(then)
  BY <1>4, <1>5, NotBusyOK
<1>7. \/ Verify(u, a, then)
      \/ Becomes(u, NotBusy) /\ UNCHANGED <<db, certTo, nickTo, skelTo, methodOf, login, listed, drift>>
  BY <1>1, <1>4 DEF SARegister
<1>8. CASE Verify(u, a, then)
  BY <1>2, <1>3, <1>6, <1>8, VerifyInv
<1>9. CASE Becomes(u, NotBusy) /\ UNCHANGED <<db, certTo, nickTo, skelTo, methodOf, login, listed, drift>>
  BY <1>2, <1>9, NotBusyOK, BusyOnly
<1> QED BY <1>7, <1>8, <1>9

-----------------------------------------------------------------------------
(* The invariant of the whole specification. *)

(* The invariant holds at startup.                                         *)
LEMMA AccountsStart == AccountsInit => AccountsInv
<1> SUFFICES ASSUME AccountsInit PROVE AccountsInv
  OBVIOUS
<1>1. /\ NoAccount.exists = FALSE /\ NoAccount.verified = FALSE /\ NoAccount.certs = {} /\ NoAccount.nicks = {}
      /\ NoAccount.gone = Nobody /\ NoAccount.strict = FALSE
  BY DEF NoAccount
<1>2. drift \in Drifts /\ drift.keys = {} /\ drift.certs = {} /\ drift.methods = {} /\ drift.logins = {}
  BY DEF AccountsInit, NoDrift, Drifts
<1>3. \A a \in AccountIds : db[a] = NoAccount
  BY DEF AccountsInit
<1>4. AccountsType
  <2>1. busy = [u \in Users |-> busy[u]] /\ \A u \in Users : BusyOK(busy[u])
    BY NotBusyOK DEF AccountsInit
  <2> QED BY <1>2, <2>1, NoAccountKeys DEF AccountsInit, AccountsType, Owning
<1>5. CertInv
  BY <1>1, <1>3, Ids DEF AccountsInit, CertInv, CertIndexExact
<1>6. LoginInv
  BY FS_EmptySet DEF AccountsInit, LoginInv
<1>7. \A a \in AccountIds, n \in Names : ~Holds(a, n) /\ ~Named(a, n)
  BY <1>1, <1>3, Ids DEF Holds, Named
<1>8. KeysMatch
  <2>1. \A k : NickClaims(k) = {} /\ SkelClaims(k) = {}
    BY <1>7 DEF NickClaims, SkelClaims
  <2> QED BY <2>1 DEF KeysMatch, Agrees, AccountsInit
<1>9. NickUnique /\ SkelUnique
  BY <1>7 DEF NickUnique, SkelUnique
<1>10. StrandedKnown /\ NamesOK
  BY <1>1, <1>3 DEF StrandedKnown, NamesOK
<1>11. MethodInv
  BY <1>1, <1>3 DEF AccountsInit, MethodInv
<1> QED BY <1>4, <1>5, <1>6, <1>8, <1>9, <1>10, <1>11 DEF AccountsInv, ReservationInv

(* Every step keeps the invariant.                                         *)
LEMMA AccountsStep == AccountsInv /\ [AccountsNext]_accountVars => AccountsInv'
<1> SUFFICES ASSUME AccountsInv, [AccountsNext]_accountVars PROVE AccountsInv'
  OBVIOUS
<1>1. CASE UNCHANGED accountVars
  <2>1. /\ db' = db /\ certTo' = certTo /\ nickTo' = nickTo /\ skelTo' = skelTo /\ methodOf' = methodOf
        /\ login' = login /\ listed' = listed /\ busy' = busy /\ drift' = drift
    BY <1>1 DEF accountVars
  <2>2. AccountsType'
    BY <2>1 DEF AccountsInv, AccountsType
  <2>3. CertFrame /\ LoginFrame /\ KeyFrame /\ MethodFrame
    BY <2>1 DEF CertFrame, LoginFrame, KeyFrame, MethodFrame
  <2> QED BY <2>2, <2>3, CertFramed, LoginFramed, KeyFramed, MethodFramed DEF AccountsInv
<1>2. CASE buildNickToAccountIndex
  BY <1>2, RestartInv
<1>3. CASE \E a \in AccountIds : ExpireUnverified(a)
  BY <1>3, ExpireInv
<1>4. ASSUME NEW u \in Users, nsRegisterHandler(u) PROVE AccountsInv'
  <2>1. PICK n \in Names, f \in Certs \cup {Nobody}, then \in {"code", "login"} : Register(u, n, f = Nobody, f, then)
    BY <1>4 DEF nsRegisterHandler
  <2>2. PICK pass \in BOOLEAN : pass = (f = Nobody)
    OBVIOUS
  <2>3. busy[u].at = "rest" /\ Register(u, n, pass, f, then)
    BY <1>4, <2>1, <2>2 DEF nsRegisterHandler, Command
  <2> QED BY <2>3, RegisterInv
<1>5. ASSUME NEW u \in Users, nsSaregisterHandler(u) \/ loadWithAutocreation(u) PROVE AccountsInv'
  <2>1. busy[u].at = "rest"
    BY <1>5 DEF nsSaregisterHandler, loadWithAutocreation, Command
  <2>2. PICK n \in Names, pass \in BOOLEAN, then \in {"rest", "login"} : Register(u, n, pass, Nobody, then)
    BY <1>5 DEF nsSaregisterHandler, loadWithAutocreation
  <2> QED BY <2>1, <2>2, RegisterInv
<1>6. ASSUME NEW u \in Users, nsVerifyHandler(u) PROVE AccountsInv'
  <2>1. busy[u].at = "rest"
    BY <1>6 DEF nsVerifyHandler, Command
  <2>2. PICK a \in AccountIds : Verify(u, a, [at |-> "login", a |-> a])
    BY <1>6 DEF nsVerifyHandler
  <2>3. BusyOK([at |-> "login", a |-> a])
    BY DEF BusyOK
  <2> QED BY <2>1, <2>2, <2>3, VerifyInv
<1>7. ASSUME NEW u \in Users, nsSaverifyHandler(u) PROVE AccountsInv'
  BY <1>7, NotBusyOK, VerifyInv DEF nsSaverifyHandler, Command
<1>8. ASSUME NEW u \in Users, nsUnregisterHandler(u) PROVE AccountsInv'
  BY <1>8, UnregisterInv DEF nsUnregisterHandler, Command
<1>9. ASSUME NEW u \in Users, nsDropHandler(u) \/ NsSadrop(u) PROVE AccountsInv'
  BY <1>9, DropInv DEF nsDropHandler, NsSadrop
<1>10. ASSUME NEW u \in Users,
              \/ dispatchCallback(u) \/ SARegister(u) \/ KillClients(u) \/ nsGroupHandler(u) \/ Rename(u)
              \/ NsSetEnforce(u) \/ SetEnforcementStatus(u)
              \/ nsPasswdHandler(u) \/ nsCertHandler(u) \/ WriteCreds(u) \/ NsSendpass(u) \/ NsResetpass(u)
       PROVE  AccountsInv'
  BY <1>10, CallbackInv, SARegisterInv, KillInv, GroupInv, RenameInv, EnforceInv, EnforcementInv,
     PasswdInv, CertInvStep, WriteCredsInv, SendpassInv, ResetpassInv
<1>11. ASSUME NEW u \in Users,
              \/ AuthenticateByPassphrase(u) \/ AuthenticateByCertificate(u)
              \/ Login(u) \/ LoginList(u) \/ Logout(u)
              \/ nsSuspendAddHandler(u) \/ Suspend(u) \/ nsSuspendRemoveHandler(u)
       PROVE  AccountsInv'
  BY <1>11, AuthenticateInv, LoginActionInv, LoginListInv, LogoutInv, SuspendAddInv, SuspendInv, SuspendRemoveInv
<1> QED BY <1>1, <1>2, <1>3, <1>4, <1>5, <1>6, <1>7, <1>8, <1>9, <1>10, <1>11 DEF AccountsNext

(* Types, the certificate index, who may be logged in, the reservations of *)
(* nicks and the enforcement methods: the inductive invariant the three    *)
(* theorems below follow from (accounts.go).                               *)
THEOREM AccountsInvariant == AccountsSpec => []AccountsInv
  BY AccountsStart, AccountsStep, PTL DEF AccountsSpec

(* For any number of names, users and commands: Register, Verify,          *)
(* Unregister, SetNickReserved and the rebuild at startup leave the index  *)
(* of nicks and skeletons, and the enforcement methods, in step with the   *)
(* datastore, but for the keys in `drift`.                                 *)
THEOREM IndexMatchesDb == AccountsSpec => []ReservationsMatchDb
<1>1. AccountsInv => ReservationsMatchDb
  <2> SUFFICES ASSUME AccountsInv PROVE ReservationsMatchDb
    OBVIOUS
  <2>1. KeysMatch
    BY DEF AccountsInv, ReservationInv
  <2>2. \A a \in AccountIds \ drift.methods :
          db[a].exists /\ (\A u \in Users : busy[u].at # "method") => methodOf[a] = db[a].strict
    BY DEF AccountsInv, MethodInv
  <2> QED BY <2>1, <2>2 DEF KeysMatch, ReservationsMatchDb
<1> QED BY <1>1, AccountsInvariant, PTL

(* A fingerprint leads to the account that lists it and to no other,       *)
(* whatever compare-and-swaps of NS CERT and NS PASSWD, registrations,     *)
(* verifications, deletions and expiries are interleaved.                  *)
THEOREM FingerprintsExact == AccountsSpec => []CertIndexExact
<1>1. AccountsInv => CertIndexExact
  BY DEF AccountsInv, CertInv
<1> QED BY <1>1, AccountsInvariant, PTL

(* Who is logged in, with no suspension or deletion under way, is allowed  *)
(* to be, for any number of clients that log in, log out, suspend and      *)
(* delete at the same time (am.Login, am.Logout, Suspend, Unregister).     *)
THEOREM OnlyAllowedLoggedIn == AccountsSpec => []LoggedInIsAllowed
<1>1. AccountsInv => LoggedInIsAllowed
  <2> SUFFICES ASSUME AccountsInv, NEW u \in Users, login[u] # Nobody, busy[u].at # "list",
                      u \notin drift.logins, \A v \in Users : busy[v].at \notin {"suspend", "kill"}
               PROVE  MayLogin(login[u])
    BY DEF LoggedInIsAllowed
  <2>1. Watched(u)
    BY DEF AccountsInv, LoginInv
  <2> QED BY <2>1 DEF Watched
<1> QED BY <1>1, AccountsInvariant, PTL

-----------------------------------------------------------------------------
(* Bans *)

BanInfos == {NoBan} \cup [sort : {"soft", "hard"}, made : Nat \ {0}, temp : BOOLEAN]

ConnStates == [st : {"none", "hand", "nicked", "in", "gone"}, soft : BOOLEAN,
               acct : {"none", "user", "alwayson"}]

BanType ==
  /\ bans \in [BanKeys -> BanInfos] /\ banRows \in [BanKeys -> BanInfos]
  /\ timers \subseteq BanKeys \X Nat /\ firing \subseteq BanKeys \X Nat
  /\ task = [a \in BanAgents |-> task[a]]
  /\ conn \in [BanConns -> ConnStates]
  /\ banOps \in Nat
  /\ swept \in [BanKeys -> {"nobody", "any", "shown"}]
  /\ excused \in [rows : SUBSET BanKeys, conns : SUBSET BanConns]

(* What a goroutine that collects or removes clients does it for.          *)
SweepOf(t) == t.k \in BanKeys /\ t.whom \in {"any", "shown"} /\ (t.k \in Nets => t.whom = "any")

(* What may follow the write of a row.                                     *)
ThenInv(t) == t.at \in {"rest", "sweep", "script"} /\ (t.at = "sweep" => SweepOf(t))

(* What the goroutines carry with them.  No ban is newer than the last     *)
(* command, so the next command's ban is a new one.                        *)
TaskInv == \A a \in BanAgents :
  /\ task[a].at = "persist" =>
       /\ task[a].k \in BanKeys /\ task[a].info \in BanInfos \ {NoBan}
       /\ task[a].info.made <= banOps /\ ThenInv(task[a].then)
  /\ task[a].at = "unpersist" => task[a].k \in BanKeys
  /\ task[a].at = "sweep" => SweepOf(task[a])
  /\ task[a].at = "destroy" =>
       /\ SweepOf(task[a]) /\ task[a].info \in BanInfos /\ task[a].info.made <= banOps
       /\ task[a].targets \subseteq BanConns

MadeInv ==
  /\ \A k \in BanKeys : bans[k].made <= banOps /\ banRows[k].made <= banOps
  /\ \A t \in timers \cup firing : t[2] \in 1..banOps

(* A temporary ban has a timer, set or fired; and a timer whose time is    *)
(* that of the ban belongs to a temporary ban.                             *)
TimerInv ==
  /\ \A k \in BanKeys : bans[k].temp => <<k, bans[k].made>> \in timers \cup firing
  /\ \A t \in timers \cup firing : bans[t[1]].made = t[2] => bans[t[1]].temp

(* Whoever is about to write a row has what is in the table, unless that   *)
(* has expired.                                                            *)
WriterInv == \A a \in BanAgents :
  /\ task[a].at = "persist" =>
       \/ bans[task[a].k] = task[a].info
       \/ bans[task[a].k] = NoBan /\ task[a].info.temp
  /\ task[a].at = "unpersist" => bans[task[a].k] = NoBan

Agreed(k) ==
  \/ bans[k] = banRows[k]
  \/ bans[k] = NoBan /\ banRows[k].temp
  \/ banRows[k] = NoBan /\ bans[k].temp /\ <<k, bans[k].made>> \in firing

(* A table and a datastore that disagree have a writer on its way.         *)
RowInv == \A k \in BanKeys :
  (\E a \in BanAgents : Writing(a) /\ task[a].k = k) \/ k \in excused.rows \/ Agreed(k)

-----------------------------------------------------------------------------
(* A ban on a network that has removed whom it matches, `spared` apart:    *)
(* who is past checkBans since then has met it.                            *)
NetClear(k, spared) ==
  /\ bans[k].sort \in {"soft", "hard"}
  /\ \A c \in ConnsIn[k] \cap BanConns :
       c \in spared \/ c \in excused.conns \/ conn[c].st \in {"none", "gone"}
         \/ /\ bans[k].sort = "soft"
            /\ IF conn[c].st = "hand" THEN conn[c].soft ELSE conn[c].acct # "none"

(* A ban on a mask that has removed whom it matches: who is not through    *)
(* CheckKlines will meet it there.                                         *)
MaskClear(k, matched, spared) ==
  /\ bans[k].sort \in {"soft", "hard"}
  /\ \A c \in matched \cap BanConns :
       c \in spared \/ conn[c].st # "in" \/ conn[c].acct = "alwayson"
         \/ (bans[k].sort = "soft" /\ conn[c].acct # "none")

Clear(k, whom, spared) ==
  CASE k \in Nets -> NetClear(k, spared)
    [] k \notin Nets /\ whom = "any" -> MaskClear(k, MatchedBy[k], spared)
    [] OTHER -> MaskClear(k, ShownBy[k], spared)

SweptInv == \A k \in BanKeys :
  /\ k \in Nets => swept[k] # "shown"
  /\ swept[k] # "nobody" => Clear(k, swept[k], {})

(* Between the collection of the targets and their removal.                *)
DestroyInv == \A a \in BanAgents :
  task[a].at = "destroy" /\ task[a].info # NoBan /\ bans[task[a].k] = task[a].info
    => Clear(task[a].k, task[a].whom, task[a].targets)

BansInv == BanType /\ TaskInv /\ MadeInv /\ TimerInv /\ WriterInv /\ RowInv /\ SweptInv /\ DestroyInv

-----------------------------------------------------------------------------
(* The commands are made of a few steps.                                   *)

(* A command, or a connection's check script, sets a ban.                  *)
Adds(a, k, info, then) ==
  /\ a \in BanAgents /\ k \in BanKeys /\ info \in BanInfos \ {NoBan} /\ info.made = banOps + 1
  /\ ThenInv(then) /\ task[a] = NoTask /\ banOps' = banOps + 1
  /\ addNetworkInternal(a, k, info, then)

Removes(o, k) ==
  /\ o \in BanAgents /\ k \in BanKeys /\ task[o] = NoTask /\ banOps' = banOps + 1
  /\ RemoveNetwork(o, k)

(* checkBans without a ban of the check script.                            *)
Checks(c) ==
  /\ conn[c].st = "none" /\ UNCHANGED <<bans, banRows, timers, firing, task, banOps, swept>>
  /\ IF CheckIP(c) # {}
     THEN \E k \in CheckIP(c) :
            /\ conn' = [conn EXCEPT ![c] = IF bans[k].sort = "hard" THEN [@ EXCEPT !.st = "gone"]
                                           ELSE [@ EXCEPT !.st = "hand", !.soft = TRUE]]
            /\ excused' = IF \E j \in CheckIP(c) : bans[j].sort # bans[k].sort
                          THEN [excused EXCEPT !.conns = @ \cup {c}] ELSE excused
     ELSE conn' = [conn EXCEPT ![c].st = "hand"] /\ UNCHANGED excused

BansStep ==
  \/ TimerFires \/ RowExpires \/ processExpiration \/ loadFromDatastore
  \/ \E a, k, info, then : Adds(a, k, info, then)
  \/ \E o, k : Removes(o, k)
  \/ \E a \in BanAgents : \/ task[a].at = "persist" /\ Persist(a)
                          \/ task[a].at = "unpersist" /\ Unpersist(a)
                          \/ sessionsForCIDR(a) \/ DestroyTargets(a)
  \/ \E c \in BanConns : Checks(c) \/ IPCheckScript(c) \/ Authenticate(c) \/ tryRegister(c) \/ CheckKlines(c)

(* A ban set by an operator.                                               *)
LEMMA OperatorAdds ==
  ASSUME BanType, NEW o \in BanOpers, Order(o), NEW k \in BanKeys, NEW soft \in BOOLEAN,
         NEW then, ThenInv(then), AddNetwork(o, k, soft, then)
  PROVE  \E a, j, info, t : Adds(a, j, info, t)
<1>1. PICK temp \in BOOLEAN :
        addNetworkInternal(o, k, [sort |-> IF soft THEN "soft" ELSE "hard", made |-> banOps + 1, temp |-> temp], then)
  BY DEF AddNetwork
<1> DEFINE info == [sort |-> IF soft THEN "soft" ELSE "hard", made |-> banOps + 1, temp |-> temp]
<1>2. info \in BanInfos \ {NoBan} /\ info.made = banOps + 1
  BY DEF BanType, BanInfos, NoBan
<1>3. Adds(o, k, info, then)
  BY <1>1, <1>2 DEF Adds, Order, BanAgents
<1> QED BY <1>3

(* Every step is of one of the kinds the invariant tells apart.            *)
LEMMA Steps ==
  ASSUME BanType, BansNext PROVE BansStep
<1> USE DEF BanKeys, BanAgents
<1>1. ThenInv(NoTask)
  BY DEF ThenInv, NoTask
<1>2. \A k \in BanKeys : ThenInv(Sweep(k, "any"))
  BY DEF ThenInv, Sweep, SweepOf
<1>3. \A k \in Masks : ThenInv(Sweep(k, "shown"))
  BY BansAssumption DEF ThenInv, Sweep, SweepOf
<1>4. ASSUME NEW o \in BanOpers, dlineHandler(o) \/ klineHandler(o) PROVE BansStep
  <2>1. PICK k \in BanKeys, kill \in BOOLEAN :
          Order(o) /\ AddNetwork(o, k, FALSE, IF kill THEN Sweep(k, "any") ELSE NoTask)
    BY <1>4 DEF dlineHandler, klineHandler, AddMask
  <2>2. ThenInv(IF kill THEN Sweep(k, "any") ELSE NoTask)
    BY <1>1, <1>2
  <2> QED BY <2>1, <2>2, OperatorAdds DEF BansStep
<1>5. ASSUME NEW o \in BanOpers, ubanAddCIDR(o) PROVE BansStep
  <2>1. PICK k \in BanKeys, soft \in BOOLEAN : Order(o) /\ AddNetwork(o, k, soft, Sweep(k, "any"))
    BY <1>5 DEF ubanAddCIDR
  <2> QED BY <1>2, <2>1, OperatorAdds DEF BansStep
<1>6. ASSUME NEW o \in BanOpers, ubanAddNickmask(o) PROVE BansStep
  <2>1. PICK k \in Masks, soft \in BOOLEAN : Order(o) /\ AddNetwork(o, k, soft, Sweep(k, "shown"))
    BY <1>6 DEF ubanAddNickmask, AddMask
  <2> QED BY <1>3, <2>1, OperatorAdds DEF BansStep
<1>7. ASSUME NEW o \in BanOpers, unDLineHandler(o) \/ unKLineHandler(o) \/ ubanDelHandler(o) PROVE BansStep
  <2>1. PICK k \in BanKeys : Removes(o, k)
    BY <1>7 DEF unDLineHandler, unKLineHandler, ubanDelHandler, RemoveMask, Removes, Order
  <2> QED BY <2>1 DEF BansStep
<1>8. ASSUME NEW c \in BanConns, checkBans(c) PROVE BansStep
  <2>1. CASE Checks(c)
    BY <2>1 DEF BansStep
  <2>2. CASE ~Checks(c)
    <3>1. PICK k \in Nets, sort \in {"soft", "hard"} :
            /\ task[c] = NoTask /\ banOps' = banOps + 1
            /\ addNetworkInternal(c, k, [sort |-> sort, made |-> banOps + 1, temp |-> TRUE], [at |-> "script", sort |-> sort])
      BY <1>8, <2>2 DEF checkBans, Checks
    <3> DEFINE info == [sort |-> sort, made |-> banOps + 1, temp |-> TRUE]
               then == [at |-> "script", sort |-> sort]
    <3>2. info \in BanInfos \ {NoBan} /\ info.made = banOps + 1 /\ ThenInv(then)
      BY DEF BanType, BanInfos, NoBan, ThenInv
    <3>3. Adds(c, k, info, then)
      BY <3>1, <3>2 DEF Adds
    <3> QED BY <3>3 DEF BansStep
  <2> QED BY <2>1, <2>2
<1>9. ASSUME NEW a \in BanAgents,
             \/ persistDline(a) \/ persistKLine(a) \/ unpersistDline(a) \/ unpersistKLine(a)
             \/ sessionsForCIDR(a) \/ DestroyTargets(a)
      PROVE  BansStep
  BY <1>9 DEF BansStep, persistDline, persistKLine, unpersistDline, unpersistKLine
<1> QED BY <1>4, <1>5, <1>6, <1>7, <1>8, <1>9 DEF BansNext, BansStep

-----------------------------------------------------------------------------
(* Types, and what the goroutines carry.                                   *)
LEMMA InitBans == BansInit => BansInv
<1> SUFFICES ASSUME BansInit PROVE BansInv
  OBVIOUS
<1>1. BanType
  BY DEF BansInit, BanType, BanInfos, NoBan, ConnStates
<1>2. TaskInv /\ WriterInv /\ DestroyInv
  BY DEF BansInit, TaskInv, WriterInv, DestroyInv, NoTask
<1>3. MadeInv /\ TimerInv /\ RowInv /\ SweptInv
  BY DEF BansInit, MadeInv, TimerInv, RowInv, Agreed, SweptInv, NoBan, BanKeys
<1> QED BY <1>1, <1>2, <1>3 DEF BansInv

(* A ban was made by a command; NoBan by none.                             *)
LEMMA InfoMade == /\ \A i \in BanInfos : i.made \in Nat
                  /\ \A i \in BanInfos \ {NoBan} : i.made > 0 /\ i.sort \in {"soft", "hard"}
                  /\ \A i \in BanInfos : i.temp => i # NoBan
                  /\ NoBan \in BanInfos /\ NoBan.made = 0 /\ ~NoBan.temp
BY DEF BanInfos, NoBan

(* Every step keeps the types.                                             *)
LEMMA NextType ==
  ASSUME BanType, TaskInv, MadeInv, BansStep PROVE BanType' /\ TaskInv' /\ MadeInv'
<1>1. ASSUME NEW a, NEW k, NEW info, NEW then, Adds(a, k, info, then)
      PROVE  BanType' /\ TaskInv' /\ MadeInv'
  <2> USE <1>1 DEF Adds, addNetworkInternal, Turn
  <2>1. banOps' = banOps + 1 /\ banOps' \in Nat /\ info.made \in 1..banOps' /\ info.made \in Nat
    BY DEF BanType
  <2>2. bans' \in [BanKeys -> BanInfos] /\ swept' \in [BanKeys -> {"nobody", "any", "shown"}]
    BY DEF BanType
  <2>3. timers' \subseteq BanKeys \X Nat /\ \A t \in timers' : t \in timers \/ t = <<k, info.made>>
    BY <2>1 DEF BanType
  <2>4. task' = [b \in BanAgents |-> task'[b]]
    BY DEF BanType
  <2>5. BanType'
    BY <2>1, <2>2, <2>3, <2>4 DEF BanType
  <2>6. TaskInv'
    <3> SUFFICES ASSUME NEW b \in BanAgents PROVE TaskInv!(b)'
      BY DEF TaskInv
    <3>1. CASE b = a
      BY <2>1, <3>1, InfoMade DEF BanType
    <3>2. CASE b # a
      <4>1. task'[b] = task[b] /\ \A i \in BanInfos : i.made <= banOps => i.made <= banOps'
        BY <2>1, <3>2, InfoMade DEF BanType
      <4> QED BY <4>1 DEF TaskInv, ThenInv, SweepOf
    <3> QED BY <3>1, <3>2
  <2>7. \A j \in BanKeys : bans'[j].made <= banOps' /\ banRows'[j].made <= banOps'
    BY <2>1 DEF BanType, MadeInv, BanInfos, NoBan
  <2>8. \A t \in timers' \cup firing' : t[2] \in 1..banOps'
    BY <2>1, <2>3 DEF BanType, MadeInv
  <2> QED BY <2>5, <2>6, <2>7, <2>8 DEF MadeInv
<1>2. ASSUME NEW o, NEW k, Removes(o, k) PROVE BanType' /\ TaskInv' /\ MadeInv'
  <2> USE <1>2 DEF Removes, RemoveNetwork, Turn
  <2>1. banOps' = banOps + 1 /\ banOps' \in Nat /\ NoBan \in BanInfos /\ NoBan.made = 0
    BY DEF BanType, BanInfos, NoBan
  <2>2. bans' \in [BanKeys -> BanInfos] /\ swept' \in [BanKeys -> {"nobody", "any", "shown"}]
    BY <2>1 DEF BanType
  <2>3. task' = [b \in BanAgents |-> task'[b]]
    BY DEF BanType
  <2>4. BanType'
    BY <2>1, <2>2, <2>3 DEF BanType
  <2>5. TaskInv'
    BY <2>1 DEF BanType, TaskInv, ThenInv, SweepOf, BanInfos, NoBan
  <2>6. MadeInv'
    BY <2>1 DEF BanType, MadeInv, BanInfos
  <2> QED BY <2>4, <2>5, <2>6
<1>3. ASSUME NEW a \in BanAgents, task[a].at = "persist", Persist(a) PROVE BanType' /\ TaskInv' /\ MadeInv'
  <2> USE <1>3 DEF Persist, Turn
  <2>1. task[a].k \in BanKeys /\ task[a].info \in BanInfos \ {NoBan} /\ task[a].info.made <= banOps
        /\ ThenInv(task[a].then) /\ ThenInv(NoTask)
    BY DEF TaskInv, ThenInv, NoTask
  <2>2. PICK t : ThenInv(t) /\ task' = [task EXCEPT ![a] = t]
    BY <2>1
  <2>3. banRows' \in [BanKeys -> BanInfos] /\ excused' \in [rows : SUBSET BanKeys, conns : SUBSET BanConns]
    BY <2>1 DEF BanType
  <2>4. task' = [b \in BanAgents |-> task'[b]]
    BY <2>2 DEF BanType
  <2>5. BanType'
    BY <2>3, <2>4 DEF BanType
  <2>6. TaskInv'
    BY <2>2 DEF BanType, TaskInv, ThenInv, SweepOf
  <2>7. MadeInv'
    BY <2>1 DEF BanType, MadeInv
  <2> QED BY <2>5, <2>6, <2>7
<1>4. ASSUME NEW a \in BanAgents, task[a].at = "unpersist", Unpersist(a) PROVE BanType' /\ TaskInv' /\ MadeInv'
  <2> USE <1>4 DEF Unpersist, Turn
  <2>1. task[a].k \in BanKeys /\ NoBan \in BanInfos /\ NoBan.made = 0
    BY DEF TaskInv, BanInfos, NoBan
  <2>2. BanType'
    BY <2>1 DEF BanType
  <2>3. TaskInv'
    BY DEF BanType, TaskInv, ThenInv, SweepOf, NoTask
  <2>4. MadeInv'
    BY <2>1 DEF BanType, MadeInv
  <2> QED BY <2>2, <2>3, <2>4
<1>5. ASSUME NEW a \in BanAgents, sessionsForCIDR(a) PROVE BanType' /\ TaskInv' /\ MadeInv'
  <2> USE <1>5 DEF sessionsForCIDR, Turn
  <2>1. SweepOf(task[a]) /\ bans[task[a].k] \in BanInfos /\ bans[task[a].k].made <= banOps
    BY DEF TaskInv, SweepOf, BanType, MadeInv
  <2>2. PICK targets : /\ targets \subseteq BanConns
                       /\ task' = [task EXCEPT ![a] = [at |-> "destroy", k |-> task[a].k, whom |-> task[a].whom,
                                                       info |-> bans[task[a].k], targets |-> targets]]
    BY <2>1 DEF AllClients, SweepOf
  <2>3. BanType'
    BY <2>2 DEF BanType
  <2>4. TaskInv'
    BY <2>1, <2>2 DEF BanType, TaskInv, SweepOf
  <2> QED BY <2>3, <2>4 DEF MadeInv
<1>6. ASSUME NEW a \in BanAgents, DestroyTargets(a) PROVE BanType' /\ TaskInv' /\ MadeInv'
  <2> USE <1>6 DEF DestroyTargets, Turn
  <2>1. SweepOf(task[a])
    BY DEF TaskInv
  <2>2. conn' \in [BanConns -> ConnStates]
    BY DEF BanType, ConnStates
  <2>3. swept' \in [BanKeys -> {"nobody", "any", "shown"}]
    BY <2>1 DEF BanType, SweepOf
  <2>4. BanType'
    BY <2>2, <2>3 DEF BanType
  <2>5. TaskInv'
    BY DEF BanType, TaskInv, NoTask
  <2> QED BY <2>4, <2>5 DEF MadeInv
<1>7. ASSUME NEW c \in BanConns,
             Checks(c) \/ IPCheckScript(c) \/ Authenticate(c) \/ tryRegister(c) \/ CheckKlines(c)
      PROVE  BanType' /\ TaskInv' /\ MadeInv'
  <2>1. /\ UNCHANGED <<bans, banRows, timers, firing, banOps, swept>>
        /\ task' = task \/ task' = [task EXCEPT ![c] = NoTask]
    BY <1>7 DEF Checks, IPCheckScript, Authenticate, tryRegister, CheckKlines, Turn
  <2>2. excused' \in [rows : SUBSET BanKeys, conns : SUBSET BanConns]
    BY <1>7 DEF BanType, Checks, IPCheckScript, Authenticate, tryRegister, CheckKlines
  <2>3. conn' \in [BanConns -> ConnStates]
    <3>1. conn[c] \in ConnStates
      BY DEF BanType
    <3>2. CASE Checks(c)
      <4>1. \/ conn' = [conn EXCEPT ![c] = [@ EXCEPT !.st = "gone"]]
            \/ conn' = [conn EXCEPT ![c] = [@ EXCEPT !.st = "hand", !.soft = TRUE]]
            \/ conn' = [conn EXCEPT ![c].st = "hand"]
        BY <3>2 DEF Checks
      <4>2. /\ [conn[c] EXCEPT !.st = "gone"] \in ConnStates
            /\ [conn[c] EXCEPT !.st = "hand", !.soft = TRUE] \in ConnStates
            /\ [conn[c] EXCEPT !.st = "hand"] \in ConnStates
        BY <3>1 DEF ConnStates
      <4> QED BY <4>1, <4>2 DEF BanType
    <3>3. CASE IPCheckScript(c)
      BY <3>1, <3>3 DEF IPCheckScript, BanType, ConnStates
    <3>4. CASE Authenticate(c)
      BY <3>1, <3>4 DEF Authenticate, BanType, ConnStates
    <3>5. CASE tryRegister(c)
      BY <3>1, <3>5 DEF tryRegister, BanType, ConnStates
    <3>6. CASE CheckKlines(c)
      BY <3>1, <3>6 DEF CheckKlines, BanType, ConnStates
    <3> QED BY <1>7, <3>2, <3>3, <3>4, <3>5, <3>6
  <2>4. BanType'
    BY <2>1, <2>2, <2>3 DEF BanType
  <2>5. TaskInv'
    <3>1. \A b \in BanAgents : task'[b] = task[b] \/ task'[b].at = "rest"
      BY <2>1 DEF BanType, NoTask
    <3> QED BY <2>1, <3>1 DEF TaskInv, SweepOf, ThenInv
  <2> QED BY <2>1, <2>4, <2>5 DEF MadeInv
<1>8. CASE TimerFires
  BY <1>8 DEF TimerFires, BanType, TaskInv, MadeInv
<1>9. CASE RowExpires
  <2>1. NoBan \in BanInfos /\ NoBan.made = 0
    BY DEF BanInfos, NoBan
  <2>2. BanType' /\ TaskInv'
    BY <1>9, <2>1 DEF RowExpires, BanType, TaskInv
  <2>3. MadeInv'
    BY <1>9, <2>1 DEF RowExpires, BanType, MadeInv
  <2> QED BY <2>2, <2>3
<1>10. CASE processExpiration
  <2>1. NoBan \in BanInfos /\ NoBan.made = 0
    BY DEF BanInfos, NoBan
  <2>2. PICK t \in firing : firing' = firing \ {t}
          /\ \/ /\ bans' = [bans EXCEPT ![t[1]] = NoBan]
                /\ swept' = [swept EXCEPT ![t[1]] = "nobody"]
                /\ timers' = {u \in timers : u[1] # t[1]}
             \/ UNCHANGED <<bans, swept, timers>>
    BY <1>10 DEF processExpiration
  <2>3. UNCHANGED <<banRows, task, conn, banOps, excused>>
    BY <1>10 DEF processExpiration
  <2>4. BanType' /\ TaskInv'
    BY <2>1, <2>2, <2>3 DEF BanType, TaskInv
  <2>5. MadeInv'
    BY <2>1, <2>2, <2>3 DEF BanType, MadeInv
  <2> QED BY <2>4, <2>5
<1>11. CASE loadFromDatastore
  <2>1. NoBan \in BanInfos /\ NoBan.made = 0 /\ \A b \in BanInfos : b.temp => b.made \in Nat \ {0}
    BY DEF BanInfos, NoBan
  <2>2. PICK due \in SUBSET {k \in BanKeys : banRows[k].temp} :
       /\ bans' = [k \in BanKeys |-> IF k \in due THEN NoBan ELSE banRows[k]]
       /\ timers' = {<<k, banRows[k].made>> : k \in {j \in BanKeys \ due : banRows[j].temp}}
    BY <1>11 DEF loadFromDatastore
  <2>3. banOps' = banOps + 1 /\ UNCHANGED banRows /\ firing' = {}
        /\ task' = [a \in BanAgents |-> NoTask] /\ swept' = [k \in BanKeys |-> "nobody"]
        /\ excused' = [rows |-> {}, conns |-> {}]
        /\ conn' = [c \in BanConns |-> [st |-> "none", soft |-> FALSE, acct |-> "none"]]
    BY <1>11 DEF loadFromDatastore
  <2>4. BanType'
    BY <2>1, <2>2, <2>3 DEF BanType, ConnStates
  <2>5. TaskInv'
    BY <2>3 DEF TaskInv, NoTask
  <2>6. \A k \in BanKeys : bans'[k].made <= banOps' /\ banRows'[k].made <= banOps'
    BY <2>2, <2>3, InfoMade DEF BanType, MadeInv
  <2>7. \A t \in timers' \cup firing' : t[2] \in 1..banOps'
    BY <2>1, <2>2, <2>3, InfoMade DEF BanType, MadeInv
  <2> QED BY <2>4, <2>5, <2>6, <2>7 DEF MadeInv
<1> QED BY <1>1, <1>2, <1>3, <1>4, <1>5, <1>6, <1>7, <1>8, <1>9, <1>10, <1>11 DEF BansStep

-----------------------------------------------------------------------------
(* The timers belong to the bans they were set for.                        *)
LEMMA NextTimer ==
  ASSUME BanType, TaskInv, MadeInv, TimerInv, BansStep PROVE TimerInv'
<1>1. ASSUME NEW a, NEW k, NEW info, NEW then, Adds(a, k, info, then) PROVE TimerInv'
  <2> USE <1>1 DEF Adds, addNetworkInternal
  <2>1. \A t \in timers \cup firing : t[2] # info.made
    BY DEF MadeInv, BanType
  <2>2. \A j \in BanKeys : bans'[j] = IF j = k THEN info ELSE bans[j]
    BY DEF BanType
  <2>3. \A t \in timers \cup firing : t[1] \in BanKeys
    BY DEF BanType
  <2> QED BY <2>1, <2>2, <2>3 DEF TimerInv
<1>2. ASSUME NEW o, NEW k, Removes(o, k) PROVE TimerInv'
  <2> USE <1>2 DEF Removes, RemoveNetwork
  <2>1. \A j \in BanKeys : bans'[j] = IF j = k THEN NoBan ELSE bans[j]
    BY DEF BanType
  <2>2. \A t \in timers \cup firing : t[1] \in BanKeys /\ t[2] # 0
    BY DEF BanType, MadeInv
  <2> QED BY <2>1, <2>2, InfoMade DEF TimerInv
<1>3. CASE TimerFires
  BY <1>3 DEF TimerFires, TimerInv
<1>4. CASE processExpiration
  <2>1. PICK t \in firing :
          /\ firing' = firing \ {t}
          /\ IF bans[t[1]].made = t[2]
             THEN /\ bans' = [bans EXCEPT ![t[1]] = NoBan]
                  /\ timers' = {u \in timers : u[1] # t[1]}
             ELSE UNCHANGED <<bans, timers>>
    BY <1>4 DEF processExpiration, Expired
  <2>2. t[1] \in BanKeys /\ t = <<t[1], t[2]>>
    BY DEF BanType
  <2>3. CASE bans[t[1]].made = t[2]
    <3>1. \A j \in BanKeys : bans'[j] = IF j = t[1] THEN NoBan ELSE bans[j]
      BY <2>1, <2>2, <2>3 DEF BanType
    <3>2. \A u \in timers \cup firing : u[1] \in BanKeys /\ u[2] # 0
      BY DEF BanType, MadeInv
    <3> QED BY <2>1, <2>3, <3>1, <3>2, InfoMade DEF TimerInv
  <2>4. CASE bans[t[1]].made # t[2]
    BY <2>1, <2>2, <2>4 DEF TimerInv
  <2> QED BY <2>3, <2>4
<1>5. CASE loadFromDatastore
  <2>1. PICK due \in SUBSET {k \in BanKeys : banRows[k].temp} :
       /\ bans' = [k \in BanKeys |-> IF k \in due THEN NoBan ELSE banRows[k]]
       /\ timers' = {<<k, banRows[k].made>> : k \in {j \in BanKeys \ due : banRows[j].temp}}
    BY <1>5 DEF loadFromDatastore
  <2>2. firing' = {}
    BY <1>5 DEF loadFromDatastore
  <2> QED BY <2>1, <2>2, InfoMade DEF TimerInv
<1>6. ASSUME UNCHANGED <<bans, timers, firing>> PROVE TimerInv'
  BY <1>6 DEF TimerInv
<1> QED BY <1>1, <1>2, <1>3, <1>4, <1>5, <1>6
        DEF BansStep, RowExpires, Persist, Unpersist, sessionsForCIDR, DestroyTargets,
            Checks, IPCheckScript, Authenticate, tryRegister, CheckKlines

(* A writer has what is in the table: the mutex keeps other commands out,  *)
(* and only the ban's own timer can take it away.                          *)
LEMMA NextWriter ==
  ASSUME BanType, TaskInv, MadeInv, TimerInv, WriterInv, BansStep PROVE WriterInv'
<1>1. ASSUME NEW a, NEW k, NEW info, NEW then, Adds(a, k, info, then) PROVE WriterInv'
  <2> USE <1>1 DEF Adds, addNetworkInternal, Turn
  <2>1. \A b \in BanAgents : Writing(b) => task[b].k # k
    BY DEF MutexFree
  <2>2. \A b \in BanAgents : task'[b] = IF b = a THEN [at |-> "persist", k |-> k, info |-> info, then |-> then] ELSE task[b]
    BY DEF BanType
  <2>3. \A j \in BanKeys : bans'[j] = IF j = k THEN info ELSE bans[j]
    BY DEF BanType
  <2> QED BY <2>1, <2>2, <2>3 DEF WriterInv, TaskInv, Writing
<1>2. ASSUME NEW o, NEW k, Removes(o, k) PROVE WriterInv'
  <2> USE <1>2 DEF Removes, RemoveNetwork, Turn
  <2>1. \A b \in BanAgents : Writing(b) => task[b].k # k
    BY DEF MutexFree
  <2>2. \A b \in BanAgents : task'[b] = task[b] \/ task'[b] = [at |-> "unpersist", k |-> k]
    BY DEF BanType
  <2>3. \A j \in BanKeys : bans'[j] = IF j = k THEN NoBan ELSE bans[j]
    BY DEF BanType
  <2> QED BY <2>1, <2>2, <2>3 DEF WriterInv, TaskInv, Writing
<1>3. CASE processExpiration
  <2>1. PICK t \in firing : bans' = bans \/ (bans' = [bans EXCEPT ![t[1]] = NoBan] /\ bans[t[1]].made = t[2])
    BY <1>3 DEF processExpiration, Expired
  <2>2. t[1] \in BanKeys /\ task' = task
    BY <1>3 DEF BanType, processExpiration
  <2>3. \A j \in BanKeys : bans'[j] = bans[j] \/ (bans'[j] = NoBan /\ bans[j].temp)
    BY <2>1, <2>2 DEF BanType, TimerInv
  <2> QED BY <2>2, <2>3, InfoMade DEF WriterInv, TaskInv
<1>4. CASE loadFromDatastore
  BY <1>4 DEF loadFromDatastore, WriterInv, NoTask
<1>5. ASSUME UNCHANGED bans,
             \A b \in BanAgents : task'[b] = task[b] \/ task'[b].at \notin {"persist", "unpersist"}
      PROVE  WriterInv'
  BY <1>5 DEF WriterInv
<1>6. ASSUME NEW a \in BanAgents,
             \/ task[a].at = "persist" /\ Persist(a)
             \/ task[a].at = "unpersist" /\ Unpersist(a)
             \/ sessionsForCIDR(a) \/ DestroyTargets(a)
      PROVE  WriterInv'
  <2>1. PICK t : task' = [task EXCEPT ![a] = t] /\ t.at \notin {"persist", "unpersist"}
    BY <1>6, ZenonT(60) DEF Persist, Unpersist, sessionsForCIDR, DestroyTargets, Turn, NoTask, TaskInv, ThenInv
  <2>2. UNCHANGED bans
    BY <1>6 DEF Persist, Unpersist, sessionsForCIDR, DestroyTargets
  <2> QED BY <1>5, <2>1, <2>2 DEF BanType
<1>7. ASSUME NEW c \in BanConns, IPCheckScript(c) PROVE WriterInv'
  BY <1>5, <1>7 DEF IPCheckScript, Turn, NoTask, BanType
<1> QED BY <1>1, <1>2, <1>3, <1>4, <1>5, <1>6, <1>7
        DEF BansStep, TimerFires, RowExpires, Checks, Authenticate, tryRegister, CheckKlines

(* A table and a datastore that disagree about a ban have a writer.        *)
LEMMA NextRow ==
  ASSUME BanType, TaskInv, MadeInv, TimerInv, WriterInv, RowInv, BansStep PROVE RowInv'
<1>1. ASSUME NEW a, NEW k, NEW info, NEW then, Adds(a, k, info, then) PROVE RowInv'
  <2> USE <1>1 DEF Adds, addNetworkInternal, Turn
  <2>1. \A b \in BanAgents : task'[b] = IF b = a THEN [at |-> "persist", k |-> k, info |-> info, then |-> then] ELSE task[b]
    BY DEF BanType
  <2>2. \A j \in BanKeys : j # k => bans'[j] = bans[j]
    BY DEF BanType
  <2>3. ~Writing(a) /\ Writing(a)' /\ task'[a].k = k
    BY <2>1 DEF Writing, NoTask
  <2>4. \A b \in BanAgents : Writing(b) => Writing(b)' /\ task'[b].k = task[b].k
    BY <2>1, <2>3 DEF Writing
  <2>5. \A j \in BanKeys : j # k /\ Agreed(j) => Agreed(j)'
    BY <2>2 DEF Agreed
  <2> QED BY <2>3, <2>4, <2>5 DEF RowInv
<1>2. ASSUME NEW o, NEW k, Removes(o, k) PROVE RowInv'
  <2> USE <1>2 DEF Removes, RemoveNetwork, Turn
  <2>1. \A j \in BanKeys : bans'[j] = IF j = k THEN NoBan ELSE bans[j]
    BY DEF BanType
  <2>2. \A j \in BanKeys : j # k /\ Agreed(j) => Agreed(j)'
    BY <2>1 DEF Agreed
  <2>3. \A b \in BanAgents : Writing(b) => task[b].k # k
    BY DEF MutexFree
  <2>4. CASE bans[k] = NoBan
    <3>1. \A j \in BanKeys : Agreed(j) => Agreed(j)'
      BY <2>1, <2>4 DEF Agreed
    <3> QED BY <2>4, <3>1 DEF RowInv, Writing
  <2>5. CASE bans[k] # NoBan
    <3>1. \A b \in BanAgents : task'[b] = IF b = o THEN [at |-> "unpersist", k |-> k] ELSE task[b]
      BY <2>5 DEF BanType
    <3>2. ~Writing(o) /\ Writing(o)' /\ task'[o].k = k
      BY <3>1 DEF Writing, NoTask
    <3>3. \A b \in BanAgents : Writing(b) => Writing(b)' /\ task'[b].k = task[b].k
      BY <3>1, <3>2 DEF Writing
    <3> QED BY <2>2, <3>2, <3>3 DEF RowInv
  <2> QED BY <2>4, <2>5
<1>3. ASSUME NEW a \in BanAgents, task[a].at = "persist", Persist(a) PROVE RowInv'
  <2> USE <1>3 DEF Persist, Turn
  <2>1. \A b \in BanAgents : b # a => task'[b] = task[b]
    BY DEF BanType
  <2>2. PICK k \in BanKeys : k = task[a].k
    BY DEF TaskInv
  <2>3. ASSUME NEW j \in BanKeys, j # k PROVE RowInv!(j)'
    <3>1. banRows'[j] = banRows[j] /\ bans' = bans /\ firing' = firing /\ (j \in excused.rows => j \in excused'.rows)
      BY <2>2, <2>3 DEF BanType
    <3>2. Agreed(j) => Agreed(j)'
      BY <3>1 DEF Agreed
    <3>3. \A b \in BanAgents : Writing(b) /\ task[b].k = j => Writing(b)' /\ task'[b].k = j
      BY <2>1, <2>2, <2>3 DEF Writing
    <3> QED BY <3>1, <3>2, <3>3 DEF RowInv
  <2>4. RowInv!(k)'
    <3>1. CASE k \in excused'.rows
      BY <3>1
    <3>2. CASE banRows' = [banRows EXCEPT ![k] = task[a].info]
      <4>1. banRows'[k] = task[a].info
        BY <2>2, <3>2 DEF BanType
      <4>2. Agreed(k)'
        BY <2>2, <4>1 DEF Agreed, WriterInv
      <4> QED BY <4>2
    <3> QED BY <2>2, <3>1, <3>2 DEF BanType
  <2> QED BY <2>3, <2>4 DEF RowInv
<1>4. ASSUME NEW a \in BanAgents, task[a].at = "unpersist", Unpersist(a) PROVE RowInv'
  <2> USE <1>4 DEF Unpersist, Turn
  <2>1. \A b \in BanAgents : b # a => task'[b] = task[b]
    BY DEF BanType
  <2>2. PICK k \in BanKeys : k = task[a].k
    BY DEF TaskInv
  <2>3. ASSUME NEW j \in BanKeys, j # k PROVE RowInv!(j)'
    <3>1. banRows'[j] = banRows[j] /\ bans' = bans /\ firing' = firing /\ (j \in excused.rows => j \in excused'.rows)
      BY <2>2, <2>3 DEF BanType
    <3>2. Agreed(j) => Agreed(j)'
      BY <3>1 DEF Agreed
    <3>3. \A b \in BanAgents : Writing(b) /\ task[b].k = j => Writing(b)' /\ task'[b].k = j
      BY <2>1, <2>2, <2>3 DEF Writing
    <3> QED BY <3>1, <3>2, <3>3 DEF RowInv
  <2>4. Agreed(k)'
    BY <2>2 DEF Agreed, WriterInv, BanType
  <2> QED BY <2>3, <2>4 DEF RowInv
<1>5. CASE RowExpires
  <2>1. PICK k \in BanKeys : /\ banRows[k].temp /\ <<k, banRows[k].made>> \notin timers
                             /\ banRows' = [banRows EXCEPT ![k] = NoBan]
    BY <1>5 DEF RowExpires
  <2>2. UNCHANGED <<bans, firing, task, excused>>
    BY <1>5 DEF RowExpires
  <2>3. ASSUME NEW j \in BanKeys, Agreed(j) PROVE Agreed(j)'
    <3>1. CASE j # k
      BY <2>1, <2>2, <2>3, <3>1 DEF Agreed, BanType
    <3>2. CASE j = k
      <4>1. banRows'[k] = NoBan
        BY <2>1 DEF BanType
      <4>2. bans[k] = banRows[k] \/ bans[k] = NoBan
        BY <2>1, <2>3, <3>2, InfoMade DEF Agreed
      <4>3. bans[k] = banRows[k] => <<k, bans[k].made>> \in firing /\ bans[k].temp
        BY <2>1 DEF TimerInv
      <4> QED BY <2>2, <3>2, <4>1, <4>2, <4>3 DEF Agreed
    <3> QED BY <3>1, <3>2
  <2> QED BY <2>2, <2>3 DEF RowInv, Writing
<1>6. CASE processExpiration
  <2>1. PICK t \in firing :
          /\ firing' = firing \ {t}
          /\ IF bans[t[1]].made = t[2] THEN bans' = [bans EXCEPT ![t[1]] = NoBan] ELSE bans' = bans
    BY <1>6 DEF processExpiration, Expired
  <2>2. UNCHANGED <<banRows, task, excused>>
    BY <1>6 DEF processExpiration
  <2>3. t[1] \in BanKeys /\ t = <<t[1], t[2]>>
    BY DEF BanType
  <2>4. ASSUME NEW j \in BanKeys, Agreed(j) PROVE Agreed(j)'
    <3>1. CASE bans[t[1]].made = t[2] /\ j = t[1]
      <4>1. bans'[j] = NoBan /\ bans[j].temp
        BY <2>1, <2>3, <3>1 DEF BanType, TimerInv
      <4> QED BY <2>2, <2>4, <4>1, InfoMade DEF Agreed
    <3>2. CASE ~(bans[t[1]].made = t[2] /\ j = t[1])
      <4>1. bans'[j] = bans[j]
        BY <2>1, <2>3, <3>2 DEF BanType
      <4>2. t # <<j, bans[j].made>>
        BY <3>2
      <4> QED BY <2>1, <2>2, <2>4, <4>1, <4>2 DEF Agreed
    <3> QED BY <3>1, <3>2
  <2> QED BY <2>2, <2>4 DEF RowInv, Writing
<1>7. CASE loadFromDatastore
  <2>1. PICK due \in SUBSET {k \in BanKeys : banRows[k].temp} :
          bans' = [k \in BanKeys |-> IF k \in due THEN NoBan ELSE banRows[k]]
    BY <1>7 DEF loadFromDatastore
  <2>2. \A j \in BanKeys : Agreed(j)'
    BY <1>7, <2>1 DEF Agreed, loadFromDatastore
  <2> QED BY <2>2 DEF RowInv
<1>8. ASSUME UNCHANGED <<bans, banRows>>, firing \subseteq firing', excused.rows \subseteq excused'.rows,
             \A b \in BanAgents : Writing(b) => task'[b] = task[b]
      PROVE  RowInv'
  <2>1. \A j \in BanKeys : Agreed(j) => Agreed(j)'
    BY <1>8 DEF Agreed
  <2> QED BY <1>8, <2>1 DEF RowInv, Writing
<1>9. CASE TimerFires
  BY <1>8, <1>9 DEF TimerFires
<1>10. ASSUME NEW a \in BanAgents, sessionsForCIDR(a) \/ DestroyTargets(a) PROVE RowInv'
  BY <1>8, <1>10 DEF sessionsForCIDR, DestroyTargets, Turn, Writing, BanType
<1>11. ASSUME NEW c \in BanConns,
              Checks(c) \/ IPCheckScript(c) \/ Authenticate(c) \/ tryRegister(c) \/ CheckKlines(c)
       PROVE  RowInv'
  BY <1>8, <1>11 DEF Checks, IPCheckScript, Authenticate, tryRegister, CheckKlines, Turn, Writing, BanType
<1> QED BY <1>1, <1>2, <1>3, <1>4, <1>5, <1>6, <1>7, <1>9, <1>10, <1>11 DEF BansStep

(* The datastore has the bans that are enforced, whenever nobody is        *)
(* writing: a restart brings them back (AddNetwork, RemoveNetwork, their   *)
(* counterparts for masks, processExpiration, loadFromDatastore).          *)
LEMMA RowsAgree == RowInv => BansSurviveRestart
BY DEF RowInv, BansSurviveRestart, MutexFree, Agreed

-----------------------------------------------------------------------------
(* Who goes, and who is excused, does no harm; nor does it to forget whom  *)
(* the removal still had to reach, once it has.                            *)
LEMMA ClearMono ==
  ASSUME BanType, NEW k \in BanKeys, NEW whom, NEW spared, NEW left, Clear(k, whom, spared),
         bans'[k] = bans[k], excused.conns \subseteq excused'.conns,
         \A c \in BanConns : conn'[c] = conn[c] \/ conn'[c].st = "gone",
         \A c \in BanConns \cap spared : c \in left \/ conn'[c].st = "gone"
  PROVE  Clear(k, whom, left)'
<1>1. CASE k \in Nets
  <2>1. NetClear(k, spared)
    BY <1>1 DEF Clear
  <2>2. NetClear(k, left)'
    BY <2>1 DEF NetClear
  <2> QED BY <1>1, <2>2 DEF Clear
<1>2. ASSUME NEW matched, MaskClear(k, matched, spared) PROVE MaskClear(k, matched, left)'
  BY <1>2 DEF MaskClear
<1>3. CASE k \notin Nets /\ whom = "any"
  BY <1>2, <1>3 DEF Clear
<1>4. CASE k \notin Nets /\ whom # "any"
  BY <1>2, <1>4 DEF Clear
<1> QED BY <1>1, <1>3, <1>4

(* A connection on its way in: while the ban is in force it does not come  *)
(* past the place that looks at it.                                        *)
LEMMA ConnKeepsClear ==
  ASSUME BanType, NEW c \in BanConns,
         Checks(c) \/ IPCheckScript(c) \/ Authenticate(c) \/ tryRegister(c) \/ CheckKlines(c),
         NEW k \in BanKeys, NEW whom, NEW spared, Clear(k, whom, spared)
  PROVE  Clear(k, whom, spared)'
<1>1. bans' = bans /\ excused.conns \subseteq excused'.conns /\ \A d \in BanConns : d # c => conn'[d] = conn[d]
  BY DEF Checks, IPCheckScript, Authenticate, tryRegister, CheckKlines, BanType
<1>2. bans[k].sort \in {"soft", "hard"}
  BY DEF Clear, NetClear, MaskClear
<1>3. conn[c] \in ConnStates
  BY DEF BanType
<1>4. ASSUME NetClear(k, spared), k \in Nets PROVE NetClear(k, spared)'
  <2>1. SUFFICES ASSUME c \in ConnsIn[k], c \notin spared, c \notin excused'.conns,
                        conn'[c].st \notin {"none", "gone"}
                 PROVE  /\ bans[k].sort = "soft"
                        /\ IF conn'[c].st = "hand" THEN conn'[c].soft ELSE conn'[c].acct # "none"
    BY <1>1, <1>4 DEF NetClear
  <2>2. CASE Checks(c)
    <3>1. k \in CheckIP(c)
      BY <1>2, <1>4, <2>1 DEF CheckIP
    <3>2. PICK j \in CheckIP(c) :
            /\ conn' = [conn EXCEPT ![c] = IF bans[j].sort = "hard" THEN [@ EXCEPT !.st = "gone"]
                                           ELSE [@ EXCEPT !.st = "hand", !.soft = TRUE]]
            /\ excused' = IF \E i \in CheckIP(c) : bans[i].sort # bans[j].sort
                          THEN [excused EXCEPT !.conns = @ \cup {c}] ELSE excused
      BY <2>2, <3>1 DEF Checks
    <3>3. bans[j].sort = bans[k].sort
      BY <2>1, <3>1, <3>2 DEF BanType
    <3>4. bans[j].sort # "hard"
      BY <1>3, <2>1, <3>2 DEF BanType, ConnStates
    <3> QED BY <1>2, <1>3, <3>2, <3>3, <3>4 DEF BanType, ConnStates
  <2>3. CASE IPCheckScript(c)
    BY <2>1, <2>3 DEF IPCheckScript, BanType
  <2>4. CASE Authenticate(c)
    <3>1. conn[c].st = "hand" /\ conn'[c].st = "hand" /\ conn'[c].soft = conn[c].soft /\ excused' = excused
      BY <1>3, <2>4 DEF Authenticate, BanType, ConnStates
    <3> QED BY <1>4, <2>1, <3>1 DEF NetClear
  <2>5. CASE tryRegister(c)
    <3>1. /\ conn[c].st = "hand" /\ conn'[c].soft = conn[c].soft /\ conn'[c].acct = conn[c].acct /\ excused' = excused
          /\ conn'[c].st # "hand" /\ (conn[c].soft /\ conn[c].acct = "none" => conn'[c].st = "gone")
      BY <1>3, <2>5 DEF tryRegister, BanType, ConnStates
    <3> QED BY <1>4, <2>1, <3>1 DEF NetClear
  <2>6. CASE CheckKlines(c)
    <3>1. conn[c].st = "nicked" /\ conn'[c].st \in {"in", "gone"} /\ conn'[c].acct = conn[c].acct /\ excused' = excused
      BY <1>3, <2>6 DEF CheckKlines, BanType, ConnStates
    <3> QED BY <1>4, <2>1, <3>1 DEF NetClear
  <2> QED BY <2>2, <2>3, <2>4, <2>5, <2>6
<1>5. ASSUME NEW matched, MaskClear(k, matched, spared), k \in Masks, matched \subseteq MatchedBy[k]
      PROVE  MaskClear(k, matched, spared)'
  <2>1. SUFFICES ASSUME c \in matched, c \notin spared, conn'[c].st = "in", conn'[c].acct # "alwayson"
                 PROVE  bans[k].sort = "soft" /\ conn'[c].acct # "none"
    BY <1>1, <1>5 DEF MaskClear
  <2>2. CASE Checks(c) \/ IPCheckScript(c) \/ Authenticate(c)
    <3>1. CASE Checks(c)
      <4>1. \/ conn' = [conn EXCEPT ![c] = [@ EXCEPT !.st = "gone"]]
            \/ conn' = [conn EXCEPT ![c] = [@ EXCEPT !.st = "hand", !.soft = TRUE]]
            \/ conn' = [conn EXCEPT ![c].st = "hand"]
        BY <3>1 DEF Checks
      <4>2. /\ [conn[c] EXCEPT !.st = "gone"].st = "gone"
            /\ [conn[c] EXCEPT !.st = "hand", !.soft = TRUE].st = "hand"
            /\ [conn[c] EXCEPT !.st = "hand"].st = "hand"
        BY <1>3 DEF ConnStates
      <4>3. conn'[c].st \in {"hand", "gone"}
        BY <4>1, <4>2 DEF BanType
      <4> QED BY <2>1, <4>3
    <3>2. CASE IPCheckScript(c)
      <4>1. \/ conn' = [conn EXCEPT ![c] = [@ EXCEPT !.st = "gone"]]
            \/ conn' = [conn EXCEPT ![c] = [@ EXCEPT !.st = "hand", !.soft = TRUE]]
        BY <3>2 DEF IPCheckScript
      <4>2. /\ [conn[c] EXCEPT !.st = "gone"].st = "gone"
            /\ [conn[c] EXCEPT !.st = "hand", !.soft = TRUE].st = "hand"
        BY <1>3 DEF ConnStates
      <4>3. conn'[c].st \in {"hand", "gone"}
        BY <4>1, <4>2 DEF BanType
      <4> QED BY <2>1, <4>3
    <3>3. CASE Authenticate(c)
      <4>1. conn'[c].st = "hand"
        BY <1>3, <3>3 DEF Authenticate, BanType, ConnStates
      <4> QED BY <2>1, <4>1
    <3> QED BY <2>2, <3>1, <3>2, <3>3
  <2>3. CASE tryRegister(c)
    BY <1>3, <2>1, <2>3 DEF tryRegister, BanType, ConnStates
  <2>4. CASE CheckKlines(c)
    <3>1. conn'[c].acct = conn[c].acct
      BY <1>3, <2>4 DEF CheckKlines, BanType, ConnStates
    <3>2. conn'[c].st = CASE CheckMasks(c) = "hard" -> "gone"
                          [] CheckMasks(c) = "soft" -> (IF conn[c].acct = "none" THEN "gone" ELSE "in")
                          [] OTHER -> "in"
      BY <1>3, <2>4 DEF CheckKlines, BanType, ConnStates
    <3>3. bans[k].sort \in {bans[m].sort : m \in {n \in Masks : c \in MatchedBy[n]}}
      BY <1>5, <2>1
    <3>4. CheckMasks(c) = "hard" \/ (CheckMasks(c) = "soft" /\ bans[k].sort = "soft")
      BY <1>2, <3>3 DEF CheckMasks
    <3> QED BY <2>1, <3>1, <3>2, <3>4
  <2> QED BY <2>2, <2>3, <2>4
<1>6. CASE k \in Nets
  BY <1>4, <1>6 DEF Clear
<1>7. CASE k \notin Nets /\ whom = "any"
  <2>1. k \in Masks /\ MatchedBy[k] \subseteq MatchedBy[k]
    BY <1>7 DEF BanKeys
  <2> QED BY <1>5, <1>7, <2>1 DEF Clear
<1>8. CASE k \notin Nets /\ whom # "any"
  <2>1. k \in Masks /\ ShownBy[k] \subseteq MatchedBy[k]
    BY <1>8, BansAssumption DEF BanKeys
  <2> QED BY <1>5, <1>8, <2>1 DEF Clear
<1> QED BY <1>6, <1>7, <1>8

(* The bans that have been swept for, and those that are being swept for.  *)
LEMMA NextSwept ==
  ASSUME BanType, TaskInv, MadeInv, SweptInv, DestroyInv, BansStep PROVE SweptInv' /\ DestroyInv'
<1>1. ASSUME NEW k \in BanKeys, NEW whom, NEW spared, Clear(k, whom, spared), bans'[k] = bans[k],
             excused.conns \subseteq excused'.conns, conn' = conn
      PROVE  Clear(k, whom, spared)'
  BY <1>1, ClearMono
(* The tables change, and with them one ban at most.                       *)
<1>2. ASSUME NEW k \in BanKeys, excused.conns \subseteq excused'.conns, conn' = conn,
             \A j \in BanKeys : j # k => bans'[j] = bans[j] /\ swept'[j] = swept[j],
             (bans'[k] = bans[k] /\ swept'[k] = swept[k]) \/ swept'[k] = "nobody",
             \A a \in BanAgents : task'[a] = task[a] \/ task'[a].at # "destroy",
             \A a \in BanAgents : task[a].at = "destroy" /\ task[a].info # NoBan /\ task[a].k = k
                                    => bans'[k] = bans[k] \/ bans'[k] # task[a].info
      PROVE  SweptInv' /\ DestroyInv'
  <2>1. SweptInv'
    <3> SUFFICES ASSUME NEW j \in BanKeys PROVE SweptInv!(j)'
      BY DEF SweptInv
    <3>1. CASE swept'[j] = "nobody"
      BY <3>1
    <3>2. CASE swept'[j] # "nobody"
      <4>1. bans'[j] = bans[j] /\ swept'[j] = swept[j]
        BY <1>2, <3>2
      <4>2. PICK w : w = swept[j]
        OBVIOUS
      <4>3. Clear(j, w, {})
        BY <3>2, <4>1, <4>2 DEF SweptInv
      <4>4. Clear(j, w, {})'
        BY <1>1, <1>2, <4>1, <4>3
      <4> QED BY <4>1, <4>2, <4>4 DEF SweptInv
    <3> QED BY <3>1, <3>2
  <2>2. DestroyInv'
    <3> SUFFICES ASSUME NEW a \in BanAgents, task'[a].at = "destroy", task'[a].info # NoBan,
                        bans'[task'[a].k] = task'[a].info
                 PROVE  Clear(task[a].k, task[a].whom, task[a].targets)'
      BY DEF DestroyInv
    <3>1. task'[a] = task[a]
      BY <1>2
    <3>2. PICK j, w, t : j \in BanKeys /\ j = task[a].k /\ w = task[a].whom /\ t = task[a].targets
      BY <3>1 DEF TaskInv, SweepOf
    <3>3. bans'[j] = bans[j]
      BY <1>2, <3>1, <3>2
    <3>4. Clear(j, w, t)
      BY <3>1, <3>2, <3>3 DEF DestroyInv
    <3>5. Clear(j, w, t)'
      BY <1>1, <1>2, <3>2, <3>3, <3>4
    <3> QED BY <3>1, <3>2, <3>5
  <2> QED BY <2>1, <2>2
<1>3. ASSUME NEW a, NEW k, NEW info, NEW then, Adds(a, k, info, then) PROVE SweptInv' /\ DestroyInv'
  <2> USE <1>3 DEF Adds, addNetworkInternal, Turn
  <2>1. \A b \in BanAgents : task'[b] = task[b] \/ task'[b].at # "destroy"
    BY DEF BanType
  <2>2. \A j \in BanKeys : j # k => bans'[j] = bans[j] /\ swept'[j] = swept[j]
    BY DEF BanType
  <2>3. bans'[k] = info /\ swept'[k] = "nobody" /\ conn' = conn /\ excused' = excused
    BY DEF BanType
  <2>4. \A b \in BanAgents : task[b].at = "destroy" => task[b].info # info
    BY InfoMade DEF TaskInv, BanType
  <2> QED BY <1>2, <2>1, <2>2, <2>3, <2>4
<1>4. ASSUME NEW o, NEW k, Removes(o, k) PROVE SweptInv' /\ DestroyInv'
  <2> USE <1>4 DEF Removes, RemoveNetwork, Turn
  <2>1. \A b \in BanAgents : task'[b] = task[b] \/ task'[b].at # "destroy"
    BY DEF BanType
  <2>2. \A j \in BanKeys : j # k => bans'[j] = bans[j] /\ swept'[j] = swept[j]
    BY DEF BanType
  <2>3. bans'[k] = NoBan /\ swept'[k] = "nobody" /\ conn' = conn /\ excused' = excused
    BY DEF BanType
  <2> QED BY <1>2, <2>1, <2>2, <2>3
<1>5. CASE processExpiration
  <2>1. PICK k \in BanKeys :
          \/ bans' = [bans EXCEPT ![k] = NoBan] /\ swept' = [swept EXCEPT ![k] = "nobody"]
          \/ UNCHANGED <<bans, swept>>
    <3>1. PICK t \in firing :
            \/ bans' = [bans EXCEPT ![t[1]] = NoBan] /\ swept' = [swept EXCEPT ![t[1]] = "nobody"]
            \/ UNCHANGED <<bans, swept>>
      BY <1>5 DEF processExpiration
    <3>2. t[1] \in BanKeys
      BY DEF BanType
    <3> QED BY <3>1, <3>2
  <2>2. UNCHANGED <<task, conn, excused>>
    BY <1>5 DEF processExpiration
  <2>3. \A j \in BanKeys : j # k => bans'[j] = bans[j] /\ swept'[j] = swept[j]
    BY <2>1 DEF BanType
  <2>4. \/ bans'[k] = NoBan /\ swept'[k] = "nobody"
        \/ bans'[k] = bans[k] /\ swept'[k] = swept[k]
    <3>1. CASE bans' = [bans EXCEPT ![k] = NoBan] /\ swept' = [swept EXCEPT ![k] = "nobody"]
      BY <3>1 DEF BanType
    <3>2. CASE UNCHANGED <<bans, swept>>
      BY <3>2
    <3> QED BY <2>1, <3>1, <3>2
  <2>5. \A a \in BanAgents : task'[a] = task[a]
    BY <2>2
  <2> QED BY <1>2, <2>2, <2>3, <2>4, <2>5
<1>6. CASE loadFromDatastore
  BY <1>6 DEF loadFromDatastore, SweptInv, DestroyInv, NoTask
<1>7. ASSUME UNCHANGED <<bans, swept, conn>>, excused.conns \subseteq excused'.conns,
             \A a \in BanAgents : task'[a] = task[a] \/ task'[a].at # "destroy"
      PROVE  SweptInv' /\ DestroyInv'
  <2>1. CASE BanKeys = {}
    BY <1>7, <2>1 DEF SweptInv, DestroyInv, TaskInv, SweepOf
  <2>2. CASE BanKeys # {}
    BY <1>2, <1>7, <2>2
  <2> QED BY <2>1, <2>2
<1>8. CASE TimerFires \/ RowExpires
  BY <1>7, <1>8 DEF TimerFires, RowExpires
<1>9. ASSUME NEW a \in BanAgents,
             \/ task[a].at = "persist" /\ Persist(a)
             \/ task[a].at = "unpersist" /\ Unpersist(a)
      PROVE  SweptInv' /\ DestroyInv'
  <2>1. /\ task[a].at = "persist" => task[a].then.at # "destroy"
        /\ NoTask.at # "destroy"
    BY DEF TaskInv, ThenInv, NoTask
  <2>2. PICK t : task' = [task EXCEPT ![a] = t] /\ t.at # "destroy"
    <3>1. CASE task[a].at = "persist" /\ Persist(a)
      BY <2>1, <3>1 DEF Persist, Turn
    <3>2. CASE task[a].at = "unpersist" /\ Unpersist(a)
      BY <2>1, <3>2 DEF Unpersist, Turn
    <3> QED BY <1>9, <3>1, <3>2
  <2>3. UNCHANGED <<bans, swept, conn>> /\ excused'.conns = excused.conns
    BY <1>9 DEF Persist, Unpersist, BanType
  <2>4. \A b \in BanAgents : task'[b] = task[b] \/ task'[b].at # "destroy"
    BY <2>2 DEF BanType
  <2> QED BY <1>7, <2>3, <2>4
<1>10. ASSUME NEW a \in BanAgents, sessionsForCIDR(a) PROVE SweptInv' /\ DestroyInv'
  <2>1. PICK k \in BanKeys, whom \in {"any", "shown"} :
          task[a].k = k /\ task[a].whom = whom /\ (k \in Nets => whom = "any") /\ task[a].at = "sweep"
    BY <1>10 DEF sessionsForCIDR, TaskInv, SweepOf
  <2> DEFINE targets == CASE k \in Nets     -> {c \in AllClients \cap ConnsIn[k] : bans[k].sort = "soft" => conn[c].acct = "none"}
                          [] k \notin Nets /\ whom = "any"   -> AllClients \cap MatchedBy[k]
                          [] k \notin Nets /\ whom = "shown" -> {c \in AllClients \cap ShownBy[k] : conn[c].acct # "alwayson"}
  <2>2. /\ task' = [task EXCEPT ![a] = [at |-> "destroy", k |-> k, whom |-> whom, info |-> bans[k], targets |-> targets]]
        /\ excused' = [excused EXCEPT !.conns = @ \cup {c \in BanConns : k \in Nets /\ conn[c].st = "hand"}]
        /\ UNCHANGED <<bans, swept, conn>>
    BY <1>10, <2>1 DEF sessionsForCIDR, Turn
  <2>3. PICK t : t = targets
    OBVIOUS
  <2>4. ASSUME bans[k] # NoBan PROVE Clear(k, whom, t)'
    <3>1. bans[k].sort \in {"soft", "hard"}
      BY <2>4, InfoMade DEF BanType
    <3>2. CASE k \in Nets
      <4>1. \A c \in AllClients \cap ConnsIn[k] : c \notin t => bans[k].sort = "soft" /\ conn[c].acct # "none"
        BY <2>3, <3>2
      <4>2. \A c \in BanConns : conn[c].st = "hand" => c \in excused'.conns
        BY <2>2, <3>2 DEF BanType
      <4>3. NetClear(k, t)'
        BY <2>2, <3>1, <4>1, <4>2 DEF NetClear, AllClients, BanType, ConnStates
      <4> QED BY <3>2, <4>3 DEF Clear
    <3>3. CASE k \notin Nets /\ whom = "any"
      <4>1. t = AllClients \cap MatchedBy[k]
        BY <2>3, <3>3
      <4>2. MaskClear(k, MatchedBy[k], t)'
        BY <2>2, <3>1, <4>1 DEF MaskClear, AllClients
      <4> QED BY <3>3, <4>2 DEF Clear
    <3>4. CASE k \notin Nets /\ whom = "shown"
      <4>1. t = {c \in AllClients \cap ShownBy[k] : conn[c].acct # "alwayson"}
        BY <2>3, <3>4
      <4>2. MaskClear(k, ShownBy[k], t)'
        BY <2>2, <3>1, <4>1 DEF MaskClear, AllClients
      <4> QED BY <3>4, <4>2 DEF Clear
    <3> QED BY <3>2, <3>3, <3>4
  <2>5. excused.conns \subseteq excused'.conns
    BY <2>2 DEF BanType
  <2>6. SweptInv'
    <3> SUFFICES ASSUME NEW j \in BanKeys, swept'[j] # "nobody" PROVE Clear(j, swept[j], {})'
      BY <2>2 DEF SweptInv
    <3>1. PICK w : w = swept[j]
      OBVIOUS
    <3>2. Clear(j, w, {})'
      BY <1>1, <2>2, <2>5, <3>1 DEF SweptInv
    <3> QED BY <2>2, <3>1, <3>2
  <2>7. DestroyInv'
    <3> SUFFICES ASSUME NEW b \in BanAgents, task'[b].at = "destroy", task'[b].info # NoBan,
                        bans'[task'[b].k] = task'[b].info
                 PROVE  Clear(task[b].k, task[b].whom, task[b].targets)'
      BY DEF DestroyInv
    <3>1. CASE b = a
      <4>1. task'[a].k = k /\ task'[a].whom = whom /\ task'[a].targets = t /\ task'[a].info = bans[k]
        BY <2>2, <2>3 DEF BanType
      <4> QED BY <2>4, <3>1, <4>1
    <3>2. CASE b # a
      <4>1. task'[b] = task[b]
        BY <2>2, <3>2 DEF BanType
      <4>2. PICK j, w, u : j \in BanKeys /\ j = task[b].k /\ w = task[b].whom /\ u = task[b].targets
        BY <4>1 DEF TaskInv, SweepOf
      <4>3. Clear(j, w, u)
        BY <2>2, <4>1, <4>2 DEF DestroyInv
      <4>4. Clear(j, w, u)'
        BY <1>1, <2>2, <2>5, <4>2, <4>3
      <4> QED BY <4>1, <4>2, <4>4
    <3> QED BY <3>1, <3>2
  <2> QED BY <2>6, <2>7
<1>11. ASSUME NEW a \in BanAgents, DestroyTargets(a) PROVE SweptInv' /\ DestroyInv'
  <2>1. PICK k, whom, t, info :
          /\ k \in BanKeys /\ whom \in {"any", "shown"}
          /\ task[a].k = k /\ task[a].whom = whom /\ (k \in Nets => whom = "any") /\ task[a].at = "destroy"
          /\ task[a].targets = t /\ task[a].info = info
    BY <1>11 DEF DestroyTargets, TaskInv, SweepOf
  <2>2. /\ task' = [task EXCEPT ![a] = NoTask]
        /\ conn' = [c \in BanConns |-> IF c \in t THEN [conn[c] EXCEPT !.st = "gone"] ELSE conn[c]]
        /\ swept' = IF info # NoBan /\ bans[k] = info THEN [swept EXCEPT ![k] = whom] ELSE swept
        /\ UNCHANGED <<bans, excused>>
    BY <1>11, <2>1 DEF DestroyTargets, Turn
  <2>3. /\ \A c \in BanConns : conn'[c] = conn[c] \/ conn'[c].st = "gone"
        /\ \A c \in BanConns \cap t : conn'[c].st = "gone"
    BY <2>2 DEF BanType, ConnStates
  <2>4. SweptInv'
    <3> SUFFICES ASSUME NEW j \in BanKeys PROVE SweptInv!(j)'
      BY DEF SweptInv
    <3>1. CASE j = k /\ info # NoBan /\ bans[k] = info
      <4>1. swept'[k] = whom
        BY <2>2, <3>1 DEF BanType
      <4>2. Clear(k, whom, t)
        BY <2>1, <3>1 DEF DestroyInv
      <4>3. Clear(k, whom, {})'
        BY <2>1, <2>2, <2>3, <4>2, ClearMono
      <4> QED BY <2>1, <3>1, <4>1, <4>3
    <3>2. CASE ~(j = k /\ info # NoBan /\ bans[k] = info)
      <4>1. swept'[j] = swept[j]
        BY <2>2, <3>2 DEF BanType
      <4>2. PICK w : w = swept[j]
        OBVIOUS
      <4>3. w # "nobody" => Clear(j, w, {})'
        BY <2>2, <2>3, <4>2, ClearMono DEF SweptInv
      <4> QED BY <4>1, <4>2, <4>3 DEF SweptInv
    <3> QED BY <3>1, <3>2
  <2>5. DestroyInv'
    <3> SUFFICES ASSUME NEW b \in BanAgents, task'[b].at = "destroy", task'[b].info # NoBan,
                        bans'[task'[b].k] = task'[b].info
                 PROVE  Clear(task[b].k, task[b].whom, task[b].targets)'
      BY DEF DestroyInv
    <3>1. b # a /\ task'[b] = task[b]
      BY <2>2 DEF BanType, NoTask
    <3>2. PICK j, w, u : j \in BanKeys /\ j = task[b].k /\ w = task[b].whom /\ u = task[b].targets
      BY <3>1 DEF TaskInv, SweepOf
    <3>3. Clear(j, w, u)
      BY <2>2, <3>1, <3>2 DEF DestroyInv
    <3>4. Clear(j, w, u)'
      BY <2>2, <2>3, <3>2, <3>3, ClearMono
    <3> QED BY <3>1, <3>2, <3>4
  <2> QED BY <2>4, <2>5
<1>12. ASSUME NEW c \in BanConns,
              Checks(c) \/ IPCheckScript(c) \/ Authenticate(c) \/ tryRegister(c) \/ CheckKlines(c)
       PROVE  SweptInv' /\ DestroyInv'
  <2>1. /\ UNCHANGED <<bans, swept>>
        /\ \A b \in BanAgents : task'[b] = task[b] \/ task'[b].at # "destroy"
    BY <1>12 DEF Checks, IPCheckScript, Authenticate, tryRegister, CheckKlines, Turn, NoTask, BanType
  <2>2. SweptInv'
    <3> SUFFICES ASSUME NEW j \in BanKeys, swept'[j] # "nobody" PROVE Clear(j, swept[j], {})'
      BY <2>1 DEF SweptInv
    <3>1. PICK w : w = swept[j]
      OBVIOUS
    <3>2. Clear(j, w, {})'
      BY <1>12, <2>1, <3>1, ConnKeepsClear DEF SweptInv
    <3> QED BY <2>1, <3>1, <3>2
  <2>3. DestroyInv'
    <3> SUFFICES ASSUME NEW b \in BanAgents, task'[b].at = "destroy", task'[b].info # NoBan,
                        bans'[task'[b].k] = task'[b].info
                 PROVE  Clear(task[b].k, task[b].whom, task[b].targets)'
      BY DEF DestroyInv
    <3>1. task'[b] = task[b]
      BY <2>1
    <3>2. PICK j, w, u : j \in BanKeys /\ j = task[b].k /\ w = task[b].whom /\ u = task[b].targets
      BY <3>1 DEF TaskInv, SweepOf
    <3>3. Clear(j, w, u)
      BY <2>1, <3>1, <3>2 DEF DestroyInv
    <3>4. Clear(j, w, u)'
      BY <1>12, <3>2, <3>3, ConnKeepsClear
    <3> QED BY <3>1, <3>2, <3>4
  <2> QED BY <2>2, <2>3
<1>13. ASSUME NEW a \in BanAgents,
              \/ task[a].at = "persist" /\ Persist(a)
              \/ task[a].at = "unpersist" /\ Unpersist(a)
              \/ sessionsForCIDR(a) \/ DestroyTargets(a)
       PROVE  SweptInv' /\ DestroyInv'
  BY <1>9, <1>10, <1>11, <1>13
<1> QED BY <1>3, <1>4, <1>5, <1>6, <1>8, <1>12, <1>13 DEF BansStep

-----------------------------------------------------------------------------
(* Every step keeps the invariant.                                         *)
LEMMA NextBans == BansInv /\ [BansNext]_banVars => BansInv'
<1>1. ASSUME BansInv, BansNext PROVE BansInv'
  <2>1. BanType /\ TaskInv /\ MadeInv /\ TimerInv /\ WriterInv /\ RowInv /\ SweptInv /\ DestroyInv
    BY <1>1 DEF BansInv
  <2>2. BansStep
    BY <1>1, <2>1, Steps
  <2>3. BanType' /\ TaskInv' /\ MadeInv' /\ TimerInv' /\ WriterInv'
    BY <2>1, <2>2, NextType, NextTimer, NextWriter
  <2>4. RowInv' /\ SweptInv' /\ DestroyInv'
    BY <2>1, <2>2, NextRow, NextSwept
  <2> QED BY <2>3, <2>4 DEF BansInv
<1>2. ASSUME BansInv, UNCHANGED banVars PROVE BansInv'
  <2> USE <1>2 DEF banVars, BansInv
  <2>1. BanType' /\ TaskInv' /\ MadeInv'
    BY DEF BanType, TaskInv, MadeInv
  <2>2. TimerInv' /\ WriterInv' /\ RowInv'
    BY DEF TimerInv, WriterInv, RowInv, Agreed, Writing
  <2>3. SweptInv' /\ DestroyInv'
    BY DEF SweptInv, DestroyInv, Clear, NetClear, MaskClear
  <2> QED BY <2>1, <2>2, <2>3
<1> QED BY <1>1, <1>2

(* What the goroutines of a ban command, its timers and the sweep know of  *)
(* each other is invariant (dline.go, kline.go, uban.go).                  *)
THEOREM BansInvariant == BansSpec => []BansInv
BY InitBans, NextBans, PTL DEF BansSpec

(* Whenever nobody is writing, the datastore has the bans in force, but    *)
(* for a temporary one whose time is up: commands and timers change the    *)
(* table and the row in two steps, in any order (dline.go, kline.go).      *)
THEOREM RestartKeepsBans == BansSpec => []BansSurviveRestart
<1>1. BansInv => BansSurviveRestart
  BY RowsAgree DEF BansInv
<1> QED BY <1>1, BansInvariant, PTL

(* The invariant says of the clients that were collected what the property *)
(* says.                                                                   *)
LEMMA SweptOut == ASSUME BanType, SweptInv PROVE SweptAreOut
<1> SUFFICES ASSUME NEW k \in BanKeys, NEW c \in BanConns,
                    conn[c].st = "in", conn[c].acct # "alwayson", c \notin excused.conns,
                    \/ k \in Nets /\ swept[k] = "any" /\ c \in ConnsIn[k]
                    \/ k \in Masks /\ swept[k] = "any" /\ c \in MatchedBy[k]
                    \/ k \in Masks /\ swept[k] = "shown" /\ c \in ShownBy[k]
             PROVE  bans[k].sort = "soft" /\ conn[c].acct # "none"
  BY DEF SweptAreOut
<1>1. Clear(k, swept[k], {})
  BY DEF SweptInv
<1>2. CASE k \in Nets
  <2>1. NetClear(k, {}) /\ c \in ConnsIn[k]
    BY <1>1, <1>2, BansAssumption DEF Clear
  <2> QED BY <2>1 DEF NetClear
<1>3. CASE k \notin Nets
  <2>1. PICK matched : MaskClear(k, matched, {}) /\ c \in matched
    BY <1>1, <1>3 DEF Clear
  <2> QED BY <2>1 DEF MaskClear
<1> QED BY <1>2, <1>3

(* Nobody whom a ban matches is on the server once the command that set it *)
(* is done, the excused apart, although clients register while it runs     *)
(* (uban.go, checkBans, tryRegister).                                      *)
THEOREM SweptStayOut == BansSpec => []SweptAreOut
<1>1. BansInv => SweptAreOut
  BY SweptOut DEF BansInv
<1> QED BY <1>1, BansInvariant, PTL
=============================================================================
