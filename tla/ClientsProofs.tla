--------------------------- MODULE ClientsProofs ---------------------------
(***************************************************************************)
(* Proofs about clients and sessions (Clients): the tables of the client   *)
(* manager, what destroy leaves behind, and the counters.                  *)
(***************************************************************************)
EXTENDS Clients, FiniteSetTheorems, TLAPS

-----------------------------------------------------------------------------
(* Types. *)

ClientRecord ==
  [made : BOOLEAN, registered : BOOLEAN, destroyed : BOOLEAN, nick : Nicks \cup {None},
   account : {None, Account}, alwaysOn : BOOLEAN, sessions : SUBSET Conns, timer : BOOLEAN]

SessionRecord ==
  [client : ClientIds \cup {None}, open : BOOLEAN, proxied : BOOLEAN, commands : Nat]

Ghosts == [twice : SUBSET Conns, uncounted : Nat, orphans : SUBSET ClientIds, stale : SUBSET ClientIds]

ClientsType ==
  /\ cl \in [ClientIds -> ClientRecord]
  /\ ses \in [Conns -> SessionRecord]
  /\ byNick \in [Nicks -> ClientIds \cup {None}]
  /\ bySkeleton \in [Skeletons -> ClientIds \cup {None}]
  /\ limiter \in [Addrs -> Nat]
  /\ stats \in [unknown : Int, total : Int]
  /\ alwaysOnSetting \in BOOLEAN
  /\ th = [t \in Threads |-> th[t]]
  /\ ghost \in Ghosts

-----------------------------------------------------------------------------
(* What a goroutine that is under way knows. *)

(* The places where the goroutine of a connection still serves a client.   *)
Serving == {"run", "proxyAdded", "proxyMoved", "setnick", "count", "fixup"}
Destroying == {"sessions", "remove", "logout"}

Alive(s) == th[<<s, "run">>].at \in Serving

(* A SetNick between its two halves.                                       *)
SetNickOK(t) ==
  LET p == th[t]
  IN /\ p.c \in ClientIds /\ cl[p.c].made /\ p.nick \in Nicks /\ p.account \in {None, Account}
     /\ p.registered \in BOOLEAN /\ p.then \in {"nick", "fixup"}
     /\ t[2] = "run" => p.s = t[1] /\ p.c = ses[t[1]].client
     /\ t[2] = "other" => p.s = None /\ p.then = "nick" /\ cl[p.c].registered
     /\ ~p.registered => ~cl[p.c].registered /\ th[<<t[1], "old">>].at = "rest"
     /\ p.then = "fixup" => p.registered /\ p.nick = Account
     /\ ForceNickEqualsAccount /\ p.account # None => p.nick = Account

(* A goroutine that will call destroy or is inside it.                     *)
DestroyOK(t) ==
  /\ th[t].c \in ClientIds /\ cl[th[t].c].made
  /\ th[t].at = "sessions" =>
       /\ th[t] \in [at : {"sessions"}, c : ClientIds, todo : SUBSET Conns, registered : BOOLEAN,
                     decrement : BOOLEAN, die : BOOLEAN]
       /\ th[t].die => cl[th[t].c].destroyed
  /\ th[t].at \in {"remove", "logout"} =>
       th[t] \in [at : {"remove", "logout"}, c : ClientIds] /\ cl[th[t].c].destroyed

ThreadOK(t) ==
  /\ t[2] = "run" => th[t].at \in {"rest", "done"} \cup Serving \cup Destroying
  /\ t[2] = "old" => th[t].at \in {"rest", "done", "left"} \cup Destroying
  /\ t[2] = "other" => th[t].at \in {"rest", "setnick", "condemn"} \cup Destroying
  /\ th[t].at = "setnick" => SetNickOK(t)
  /\ th[t].at \in {"left", "condemn"} \cup Destroying => DestroyOK(t)
  /\ th[t].at = "condemn" => th[t].s \in Conns \cup {None}
  /\ th[t].at = "fixup" => cl[ses[t[1]].client].registered

ThreadInv == \A t \in Threads : ThreadOK(t)

(* Each session belongs to its own client until it is reattached, once, to *)
(* a registered one.                                                       *)
SessionInv == \A s \in Conns :
  /\ th[<<s, "run">>].at = "rest" => ses[s] = NoSession /\ cl[s] = NoClient
  /\ Alive(s) => ses[s].client \in ClientIds
  /\ ses[s].client # None => cl[ses[s].client].made
  /\ ses[s].client = None => ~ses[s].open
  /\ ses[s].client \in {None, s} \/ cl[ses[s].client].registered
  /\ th[<<s, "old">>].at # "rest" => ses[s].client # None /\ cl[ses[s].client].registered

ClientInv == \A c \in ClientIds :
  /\ ~cl[c].made => cl[c] = NoClient
  /\ cl[c].registered <=> cl[c].nick \in Nicks
  /\ cl[c].alwaysOn => cl[c].account # None
  /\ cl[c].destroyed => cl[c].sessions = {}
  /\ cl[c].made /\ ~cl[c].registered /\ ~cl[c].destroyed => cl[c].sessions # {}

(* An open session is in its client's list or in the hands of a destroy.   *)
AttachedInv == \A s \in Conns : ses[s].open =>
  \/ s \in cl[ses[s].client].sessions
  \/ \E t \in Threads : th[t].at = "sessions" /\ th[t].c = ses[s].client /\ s \in th[t].todo

NickInv ==
  /\ NickMapsAgree
  /\ \A k \in Skeletons : bySkeleton[k] # None => cl[bySkeleton[k]].registered

(* A nick that leads to a destroyed client is about to be removed.         *)
ForgetInv == \A n \in Nicks : byNick[n] # None /\ cl[byNick[n]].destroyed =>
  \E t \in Threads : /\ th[t].at \in {"sessions", "remove"} /\ th[t].c = byNick[n]
                     /\ th[t].at = "sessions" => th[t].die

(* A client without sessions that is not always-on will be destroyed by    *)
(* whoever logged it out or by a goroutine that still serves it.           *)
OrphanInv == \A c \in ClientIds :
  cl[c].registered /\ ~cl[c].destroyed /\ cl[c].sessions = {} /\ ~cl[c].alwaysOn =>
    \/ c \in ghost.orphans
    \/ \E t \in Threads : th[t].at = "condemn" /\ th[t].c = c
    \/ \E s \in Conns : Alive(s) /\ ses[s].client = c

FixupInv == ForceNickEqualsAccount => \A c \in ClientIds :
  IsAlwaysOn(c) /\ ~cl[c].destroyed =>
    \/ cl[c].nick = Account \/ c \in ghost.stale
    \/ \E s \in Conns : /\ ses[s].client = c
                        /\ \/ th[<<s, "run">>].at = "fixup"
                           \/ th[<<s, "run">>].at = "setnick" /\ th[<<s, "run">>].then = "fixup"

-----------------------------------------------------------------------------
(* The limiter. *)

Proxying(s) == th[<<s, "run">>].at \in {"proxyAdded", "proxyMoved"}

(* One of the two races with the registration timer has happened.          *)
Muddled == ghost.twice # {} \/ \E s \in Conns : Proxying(s) /\ ~ses[s].open

AtGateway == {s \in Conns : ses[s].open /\ ~ses[s].proxied /\ th[<<s, "run">>].at # "proxyMoved"}
AtHome == {s \in Conns : ses[s].open /\ (ses[s].proxied \/ Proxying(s))}

(* Who removes a session from the limiter is decided when it leaves its    *)
(* client's list.                                                          *)
HandedOver == \A s \in Conns :
  /\ \A c \in ClientIds : s \in cl[c].sessions => c \in {s, ses[s].client} /\ ses[s].client # None
  /\ \A t \in Threads : th[t].at = "sessions" /\ s \in th[t].todo =>
       th[t].c \in {s, ses[s].client} /\ ses[s].client # None
  /\ ghost.twice = {} =>
       /\ ses[s].client # None /\ s \in cl[ses[s].client].sessions => ses[s].open
       /\ \A t \in Threads : th[t].at = "sessions" /\ s \in th[t].todo /\ th[t].c = ses[s].client =>
            /\ ses[s].open /\ s \notin cl[ses[s].client].sessions
            /\ \A u \in Threads : th[u].at = "sessions" /\ s \in th[u].todo /\ th[u].c = ses[s].client => u = t

LimiterInv ==
  /\ HandedOver
  /\ \A s \in Conns : Proxying(s) => ~ses[s].proxied
  /\ IsFiniteSet({s \in Conns : ses[s].open})
  /\ ~Muddled => limiter[Gateway] = Cardinality(AtGateway) /\ limiter[Home] = Cardinality(AtHome)

-----------------------------------------------------------------------------
(* The statistics. *)

Unregistered == {c \in ClientIds : cl[c].made /\ ~cl[c].registered /\ ~cl[c].destroyed}
Present == {c \in ClientIds : cl[c].registered /\ ~cl[c].destroyed /\ cl[c].sessions # {}}

(* Threads that still have to tell the statistics what they did.           *)
ToCount == {t \in Threads : th[t].at = "count"}
TotalToDrop == {t \in Threads : th[t].at = "sessions" /\ th[t].decrement /\ th[t].registered}
UnknownToDrop == {t \in Threads : th[t].at = "sessions" /\ th[t].decrement /\ ~th[t].registered}

StatsInv ==
  /\ IsFiniteSet(Unregistered) /\ IsFiniteSet(Present)
  /\ IsFiniteSet(ToCount) /\ IsFiniteSet(TotalToDrop) /\ IsFiniteSet(UnknownToDrop)
  /\ stats.unknown = Cardinality(Unregistered) + Cardinality(ToCount) + Cardinality(UnknownToDrop)
  /\ stats.total + ghost.uncounted + Cardinality(ToCount) = Cardinality(Present) + Cardinality(TotalToDrop)

CoreInv ==
  /\ ClientsType /\ ThreadInv /\ SessionInv /\ ClientInv /\ AttachedInv
  /\ NickInv /\ ForgetInv /\ OrphanInv /\ FixupInv

ClientsInv == CoreInv /\ LimiterInv /\ StatsInv

-----------------------------------------------------------------------------
(* Lemmas. *)

(* The names of the goroutines.                                            *)
LEMMA ThreadNames ==
  /\ \A t \in Threads : /\ t[2] \in {"run", "old", "other"} /\ t = <<t[1], t[2]>>
                        /\ t[2] # "other" => t[1] \in Conns
  /\ \A s \in Conns : <<s, "run">> \in Threads /\ <<s, "old">> \in Threads
  /\ Conns \X {"run", "old"} \subseteq Threads /\ Others \X {"other"} \subseteq Threads
  BY DEF Threads

(* The invariant holds at startup.                                         *)
LEMMA CoreStart == Init => CoreInv
  <1> SUFFICES ASSUME Init PROVE CoreInv
    OBVIOUS
  <1> USE ClientsAssumption
  <1>0. /\ \A t \in Threads : th[t] = Rest
        /\ \A s \in Conns : ses[s] = NoSession
        /\ \A c \in Conns : cl[c] = NoClient
        /\ cl[Resident] = AddAlwaysOnClient
        /\ Resident \in ClientIds
        /\ \A n \in Nicks : byNick[n] = IF n = Account THEN Resident ELSE None
        /\ \A k \in Skeletons : bySkeleton[k] = IF k = Skeleton[Account] THEN Resident ELSE None
    BY DEF Init, ClientIds
  <1>1. NoClient \in ClientRecord /\ AddAlwaysOnClient \in ClientRecord /\ NoSession \in SessionRecord
    BY DEF NoClient, AddAlwaysOnClient, ClientRecord, NoSession, SessionRecord
  <1>2. ClientsType
    <2>1. cl \in [ClientIds -> ClientRecord] /\ ses \in [Conns -> SessionRecord]
      BY <1>1 DEF Init
    <2>2. byNick \in [Nicks -> ClientIds \cup {None}] /\ bySkeleton \in [Skeletons -> ClientIds \cup {None}]
      BY DEF Init, ClientIds
    <2>3. limiter \in [Addrs -> Nat] /\ stats \in [unknown : Int, total : Int] /\ alwaysOnSetting \in BOOLEAN
      BY DEF Init
    <2>4. th = [t \in Threads |-> th[t]] /\ ghost \in Ghosts
      BY DEF Init, Ghosts
    <2> QED
      BY <2>1, <2>2, <2>3, <2>4 DEF ClientsType
  <1>n. /\ ~NoClient.registered /\ ~NoClient.destroyed /\ ~NoClient.made /\ NoClient.nick = None
        /\ ~NoClient.alwaysOn /\ NoSession.client = None /\ ~NoSession.open
    BY DEF NoClient, NoSession
  <1>a. /\ \A c \in Conns : cl[c] = NoClient /\ ~cl[c].registered /\ ~cl[c].destroyed /\ ~cl[c].made
                            /\ cl[c].nick = None /\ ~cl[c].alwaysOn
    BY <1>0, <1>n
  <1>b. LET r == cl[Resident]
        IN r.made /\ r.registered /\ ~r.destroyed /\ r.nick = Account /\ r.account = Account /\ r.alwaysOn
    BY <1>0 DEF NoClient, AddAlwaysOnClient
  <1>c. \A t \in Threads : th[t].at = "rest"
    BY <1>0 DEF Rest
  <1>d. \A s \in Conns : ses[s] = NoSession /\ ses[s].client = None /\ ~ses[s].open
    BY <1>0, <1>n
  <1>e. \A c \in ClientIds : c = Resident \/ c \in Conns
    BY DEF ClientIds
  <1>f. \A n \in Nicks : /\ byNick[n] = None \/ byNick[n] = Resident
                         /\ byNick[n] = Resident <=> n = Account
    BY <1>0, <1>e DEF ClientIds
  <1>g. \A k \in Skeletons : /\ bySkeleton[k] = None \/ bySkeleton[k] = Resident
                             /\ bySkeleton[k] = Resident <=> k = Skeleton[Account]
    BY <1>0, <1>e DEF ClientIds
  <1>3. ThreadInv
    <2> SUFFICES ASSUME NEW t \in Threads PROVE ThreadOK(t)
      BY DEF ThreadInv
    <2> QED
      BY <1>c DEF ThreadOK, Destroying
  <1>4. SessionInv
    <2> SUFFICES ASSUME NEW s \in Conns PROVE SessionInv!(s)
      BY DEF SessionInv
    <2>1. th[<<s, "run">>].at = "rest" /\ th[<<s, "old">>].at = "rest"
      BY <1>c, ThreadNames
    <2> QED
      BY <2>1, <1>d, <1>a DEF Alive, Serving
  <1>5. ClientInv
    BY <1>a, <1>b, <1>e DEF ClientInv
  <1>6. AttachedInv
    BY <1>d DEF AttachedInv
  <1>7. NickInv
    <2>1. \A n \in Nicks : byNick[n] # None =>
            cl[byNick[n]].nick = n /\ bySkeleton[Skeleton[n]] = byNick[n]
      BY <1>f, <1>g, <1>b DEF Skeletons
    <2>2. \A k \in Skeletons : bySkeleton[k] # None =>
            /\ Skeleton[cl[bySkeleton[k]].nick] = k /\ byNick[cl[bySkeleton[k]].nick] = bySkeleton[k]
            /\ cl[bySkeleton[k]].registered
      BY <1>f, <1>g, <1>b
    <2>3. \A c \in ClientIds : cl[c].registered /\ ~cl[c].destroyed => byNick[cl[c].nick] = c
      BY <1>f, <1>a, <1>b, <1>e
    <2> QED
      BY <2>1, <2>2, <2>3 DEF NickInv, NickMapsAgree
  <1>8. ForgetInv
    BY <1>f, <1>b DEF ForgetInv
  <1>9. OrphanInv
    BY <1>a, <1>b, <1>e DEF OrphanInv
  <1>10. FixupInv
    BY <1>a, <1>b, <1>e DEF FixupInv, IsAlwaysOn
  <1> QED
    BY <1>2, <1>3, <1>4, <1>5, <1>6, <1>7, <1>8, <1>9, <1>10 DEF CoreInv

-----------------------------------------------------------------------------
(* What a step leaves alone.  Most steps move one goroutine.               *)

Moved(t) ==
  /\ th' = [u \in Threads |-> th'[u]]
  /\ \A u \in Threads \ {t} : th'[u] = th[u]

(* The goroutine of a connection goes on serving, or begins to destroy; it *)
(* never starts again.                                                     *)
Onward(t) ==
  /\ t[2] = "run" => th'[t].at # "rest" /\ (th'[t].at \in Serving => th[t].at \in Serving)
  /\ t[2] = "old" => th[t].at # "rest"

ClientsKept == \A c \in ClientIds :
  /\ cl[c].made => cl'[c].made
  /\ cl[c].destroyed => cl'[c].destroyed
  /\ cl[c].registered => cl'[c].registered

(* A client that does not exist is not changed.                            *)
NoneMade == \A c \in ClientIds : ~cl[c].made => cl'[c] = cl[c]

SessionsKept == \A s \in Conns :
  /\ ses'[s].client = ses[s].client
  /\ ses'[s].open => ses[s].open
  /\ ses[s].client = None => ses'[s] = ses[s]

(* The goroutine is about to delete its client's nick from the tables.     *)
Forgetting(t) == th[t].at \in {"sessions", "remove"} /\ (th[t].at = "sessions" => th[t].die)

(* The goroutine is about to give the client its account's name.           *)
AtFixup(t) == th[t].at = "fixup" \/ (th[t].at = "setnick" /\ th[t].then = "fixup")

(* The other goroutines know what they knew.                               *)
LEMMA ThreadFrame ==
  ASSUME ClientsType, ThreadInv, SessionInv, NEW t \in Threads, Moved(t), Onward(t), ClientsKept,
         \A s \in Conns : <<s, "run">> # t => ses'[s].client = ses[s].client,
         \A u \in Threads \ {t} : th[u].at = "setnick" /\ ~th[u].registered => ~cl'[th[u].c].registered,
         ThreadOK(t)'
  PROVE  ThreadInv'
  <1> SUFFICES ASSUME NEW u \in Threads, u # t PROVE ThreadOK(u)'
    BY DEF ThreadInv
  <1>1. th'[u] = th[u] /\ ThreadOK(u)
    BY DEF Moved, ThreadInv
  <1>2. u[2] \in {"run", "old", "other"} /\ u = <<u[1], u[2]>> /\ (u[2] # "other" => u[1] \in Conns)
    BY ThreadNames
  <1>3. ASSUME th[u].at = "setnick" PROVE SetNickOK(u)'
    <2>1. SetNickOK(u)
      BY <1>1, <1>3 DEF ThreadOK
    <2>2. u[2] \in {"run", "other"}
      BY <1>1, <1>2, <1>3 DEF ThreadOK, Destroying
    <2>3. th[u].c \in ClientIds /\ cl'[th[u].c].made /\ (cl[th[u].c].registered => cl'[th[u].c].registered)
      BY <2>1 DEF SetNickOK, ClientsKept
    <2>4. u[2] = "run" => ses'[u[1]].client = ses[u[1]].client
      BY <1>2
    <2>5. ASSUME ~th[u].registered PROVE th'[<<u[1], "old">>].at = "rest" /\ ~cl'[th[u].c].registered
      <3>1. u[2] = "run" /\ u[1] \in Conns /\ th[<<u[1], "old">>].at = "rest"
        BY <2>1, <2>2, <2>5, <1>2 DEF SetNickOK
      <3>2. <<u[1], "old">> \in Threads /\ <<u[1], "old">> # t
        BY <3>1, ThreadNames DEF Onward
      <3> QED
        BY <3>1, <3>2, <1>3, <2>5 DEF Moved
    <2> QED
      BY <2>1, <2>3, <2>4, <2>5, <1>1 DEF SetNickOK
  <1>4. ASSUME th[u].at \in {"left", "condemn"} \cup Destroying PROVE DestroyOK(u)'
    <2>1. DestroyOK(u)
      BY <1>1, <1>4 DEF ThreadOK
    <2>2. /\ th[u].c \in ClientIds /\ cl'[th[u].c].made
          /\ cl[th[u].c].destroyed => cl'[th[u].c].destroyed
      BY <2>1 DEF DestroyOK, ClientsKept
    <2> QED
      BY <2>1, <2>2, <1>1 DEF DestroyOK
  <1>5. ASSUME th[u].at = "fixup" PROVE cl'[ses'[u[1]].client].registered
    <2>1. u[1] \in Conns /\ u = <<u[1], "run">>
      BY <1>1, <1>2, <1>5 DEF ThreadOK, Destroying
    <2>2. ses[u[1]].client \in ClientIds
      BY <2>1, <1>5 DEF SessionInv, Alive, Serving
    <2> QED
      BY <2>1, <2>2, <1>1, <1>5 DEF ThreadOK, ClientsKept
  <1> QED
    BY <1>1, <1>3, <1>4, <1>5 DEF ThreadOK

(* Nor does their step change which client a session belongs to.           *)
LEMMA SessionFrame ==
  ASSUME ClientsType, SessionInv, NEW t \in Threads, Moved(t), Onward(t), ClientsKept, NoneMade, SessionsKept
  PROVE  SessionInv'
  <1> SUFFICES ASSUME NEW s \in Conns PROVE SessionInv!(s)'
    BY DEF SessionInv
  <1>1. <<s, "run">> \in Threads /\ <<s, "old">> \in Threads /\ s \in ClientIds
    BY ThreadNames DEF ClientIds
  <1>2. SessionInv!(s)
    BY DEF SessionInv
  <1>3. th'[<<s, "run">>].at = "rest" => th[<<s, "run">>].at = "rest"
    BY <1>1 DEF Moved, Onward
  <1>4. Alive(s)' => Alive(s)
    BY <1>1 DEF Moved, Onward, Alive
  <1>5. th'[<<s, "old">>].at # "rest" => th[<<s, "old">>].at # "rest"
    BY <1>1 DEF Moved, Onward
  <1>6. ses[s].client \in ClientIds \cup {None} /\ ~NoClient.made /\ NoSession.client = None
    BY DEF ClientsType, SessionRecord, NoClient, NoSession
  <1> QED
    BY <1>1, <1>2, <1>3, <1>4, <1>5, <1>6 DEF ClientsKept, NoneMade, SessionsKept

(* An open session stays in its list, or in the hands of its destroy.      *)
LEMMA AttachedFrame ==
  ASSUME ClientsType, AttachedInv, SessionInv, NEW t \in Threads, Moved(t), SessionsKept,
         th[t].at = "sessions" => th[t].todo = {},
         \A c \in ClientIds : cl'[c].sessions = cl[c].sessions
  PROVE  AttachedInv'
  <1> SUFFICES ASSUME NEW s \in Conns, ses'[s].open PROVE AttachedInv!(s)!2'
    BY DEF AttachedInv
  <1>1. ses[s].open /\ ses'[s].client = ses[s].client /\ ses[s].client \in ClientIds
    BY DEF SessionsKept, SessionInv, ClientsType, SessionRecord
  <1>2. AttachedInv!(s)!2
    BY <1>1 DEF AttachedInv
  <1>3. CASE s \in cl[ses[s].client].sessions
    BY <1>1, <1>3
  <1>4. ASSUME NEW u \in Threads, th[u].at = "sessions" /\ th[u].c = ses[s].client /\ s \in th[u].todo
        PROVE  AttachedInv!(s)!2'
    <2>1. th'[u] = th[u]
      BY <1>4 DEF Moved
    <2> QED
      BY <2>1, <1>4, <1>1
  <1> QED
    BY <1>2, <1>3, <1>4

(* The tables agree as long as no client changes its nick.                 *)
LEMMA NickFrame ==
  ASSUME ClientsType, NickInv, byNick' = byNick, bySkeleton' = bySkeleton,
         \A c \in ClientIds : /\ cl'[c].nick = cl[c].nick /\ (cl'[c].registered <=> cl[c].registered)
                              /\ cl[c].destroyed => cl'[c].destroyed
  PROVE  NickInv'
  <1>1. /\ \A n \in Nicks : byNick[n] \in ClientIds \cup {None}
        /\ \A k \in Skeletons : bySkeleton[k] \in ClientIds \cup {None}
    BY DEF ClientsType
  <1>2. \A n \in Nicks : byNick'[n] # None =>
          cl'[byNick'[n]].nick = n /\ bySkeleton'[Skeleton[n]] = byNick'[n]
    BY <1>1 DEF NickInv, NickMapsAgree
  <1>3. \A k \in Skeletons : bySkeleton'[k] # None =>
          /\ Skeleton[cl'[bySkeleton'[k]].nick] = k /\ byNick'[cl'[bySkeleton'[k]].nick] = bySkeleton'[k]
          /\ cl'[bySkeleton'[k]].registered
    BY <1>1 DEF NickInv, NickMapsAgree
  <1>4. \A c \in ClientIds : cl'[c].registered /\ ~cl'[c].destroyed => byNick'[cl'[c].nick] = c
    BY DEF NickInv, NickMapsAgree
  <1> QED
    BY <1>2, <1>3, <1>4 DEF NickInv, NickMapsAgree

(* What removes a destroyed client's nick goes on.                         *)
LEMMA ForgetFrame ==
  ASSUME ClientsType, ForgetInv, NEW t \in Threads, Moved(t), byNick' = byNick,
         Forgetting(t) => Forgetting(t)' /\ th'[t].c = th[t].c,
         \A c \in ClientIds : cl'[c].destroyed => cl[c].destroyed \/ (Forgetting(t)' /\ th'[t].c = c)
  PROVE  ForgetInv'
  <1> SUFFICES ASSUME NEW n \in Nicks, byNick[n] # None, cl'[byNick[n]].destroyed
               PROVE  \E u \in Threads : Forgetting(u)' /\ th'[u].c = byNick[n]
    BY DEF ForgetInv, Forgetting
  <1>1. byNick[n] \in ClientIds
    BY DEF ClientsType
  <1>2. CASE Forgetting(t)' /\ th'[t].c = byNick[n]
    BY <1>2
  <1>3. CASE cl[byNick[n]].destroyed
    <2>1. PICK u \in Threads : Forgetting(u) /\ th[u].c = byNick[n]
      BY <1>3 DEF ForgetInv, Forgetting
    <2>2. CASE u = t
      BY <2>1, <2>2
    <2>3. CASE u # t
      BY <2>1, <2>3 DEF Moved, Forgetting
    <2> QED
      BY <2>2, <2>3
  <1> QED
    BY <1>1, <1>2, <1>3

(* What will destroy a client without sessions goes on.                    *)
LEMMA OrphanFrame ==
  ASSUME ClientsType, OrphanInv, NEW t \in Threads, Moved(t),
         \A s \in Conns : Alive(s) /\ <<s, "run">> # t => ses'[s].client = ses[s].client,
         ghost.orphans \subseteq ghost'.orphans,
         \A c \in ClientIds :
           cl'[c].registered /\ ~cl'[c].destroyed /\ cl'[c].sessions = {} /\ ~cl'[c].alwaysOn =>
             \/ c \in ghost'.orphans
             \/ th'[t].at = "condemn" /\ th'[t].c = c
             \/ t[2] = "run" /\ th'[t].at \in Serving /\ ses'[t[1]].client = c
             \/ /\ cl[c].registered /\ ~cl[c].destroyed /\ cl[c].sessions = {} /\ ~cl[c].alwaysOn
                /\ ~(th[t].at = "condemn" /\ th[t].c = c)
                /\ ~(t[2] = "run" /\ th[t].at \in Serving /\ ses[t[1]].client = c)
  PROVE  OrphanInv'
  <1> SUFFICES ASSUME NEW c \in ClientIds, cl'[c].registered, ~cl'[c].destroyed,
                      cl'[c].sessions = {}, ~cl'[c].alwaysOn
               PROVE  OrphanInv!(c)!2'
    BY DEF OrphanInv
  <1>n. /\ t[2] \in {"run", "old", "other"} /\ t = <<t[1], t[2]>> /\ (t[2] # "other" => t[1] \in Conns)
        /\ \A s \in Conns : <<s, "run">> \in Threads
    BY ThreadNames
  <1>0. CASE \/ c \in ghost'.orphans
             \/ th'[t].at = "condemn" /\ th'[t].c = c
    BY <1>0
  <1>1. CASE t[2] = "run" /\ th'[t].at \in Serving /\ ses'[t[1]].client = c
    <2>1. Alive(t[1])' /\ t[1] \in Conns
      BY <1>1, <1>n DEF Alive
    <2> QED
      BY <2>1, <1>1
  <1>2. CASE /\ cl[c].registered /\ ~cl[c].destroyed /\ cl[c].sessions = {} /\ ~cl[c].alwaysOn
             /\ ~(th[t].at = "condemn" /\ th[t].c = c)
             /\ ~(t[2] = "run" /\ th[t].at \in Serving /\ ses[t[1]].client = c)
    <2>1. OrphanInv!(c)!2
      BY <1>2 DEF OrphanInv
    <2>2. ASSUME NEW u \in Threads, th[u].at = "condemn" /\ th[u].c = c PROVE OrphanInv!(c)!2'
      BY <2>2, <1>2 DEF Moved
    <2>3. ASSUME NEW s \in Conns, Alive(s) /\ ses[s].client = c PROVE OrphanInv!(c)!2'
      <3>1. <<s, "run">> \in Threads /\ <<s, "run">> # t
        BY <1>n, <1>2, <2>3 DEF Alive
      <3>2. Alive(s)' /\ ses'[s].client = c
        BY <2>3, <3>1 DEF Alive, Moved
      <3> QED
        BY <3>2
    <2> QED
      BY <2>1, <2>2, <2>3
  <1> QED
    BY <1>0, <1>1, <1>2

(* What will rename an always-on client goes on.                           *)
LEMMA FixupFrame ==
  ASSUME ClientsType, FixupInv, NEW t \in Threads, Moved(t),
         \A s \in Conns : AtFixup(<<s, "run">>) /\ <<s, "run">> # t => ses'[s].client = ses[s].client,
         ForceNickEqualsAccount => \A c \in ClientIds :
           cl'[c].registered /\ cl'[c].alwaysOn /\ ~cl'[c].destroyed /\ cl'[c].nick # Account
           /\ c \notin ghost'.stale =>
              \/ t[2] = "run" /\ AtFixup(t)' /\ ses'[t[1]].client = c
              \/ /\ cl[c].registered /\ cl[c].alwaysOn /\ ~cl[c].destroyed
                 /\ cl[c].nick # Account /\ c \notin ghost.stale
                 /\ ~(t[2] = "run" /\ AtFixup(t) /\ ses[t[1]].client = c)
  PROVE  FixupInv'
  <1> SUFFICES ASSUME ForceNickEqualsAccount, NEW c \in ClientIds, IsAlwaysOn(c)', ~cl'[c].destroyed,
                      cl'[c].nick # Account, c \notin ghost'.stale
               PROVE  \E s \in Conns : ses'[s].client = c /\ AtFixup(<<s, "run">>)'
    BY DEF FixupInv, AtFixup
  <1>n. /\ t[2] \in {"run", "old", "other"} /\ t = <<t[1], t[2]>> /\ (t[2] # "other" => t[1] \in Conns)
        /\ \A s \in Conns : <<s, "run">> \in Threads
    BY ThreadNames
  <1>0. CASE t[2] = "run" /\ AtFixup(t)' /\ ses'[t[1]].client = c
    <2>1. t[1] \in Conns /\ t = <<t[1], "run">>
      BY <1>0, <1>n
    <2>2. PICK s \in Conns : s = t[1] /\ t = <<s, "run">>
      BY <2>1
    <2> QED
      BY <2>2, <1>0
  <1>1. CASE /\ cl[c].registered /\ cl[c].alwaysOn /\ ~cl[c].destroyed
             /\ cl[c].nick # Account /\ c \notin ghost.stale
             /\ ~(t[2] = "run" /\ AtFixup(t) /\ ses[t[1]].client = c)
    <2>1. PICK s \in Conns : ses[s].client = c /\ AtFixup(<<s, "run">>)
      BY <1>1 DEF FixupInv, AtFixup, IsAlwaysOn
    <2>2. <<s, "run">> \in Threads /\ <<s, "run">> # t
      BY <1>n, <1>1, <2>1
    <2>3. AtFixup(<<s, "run">>)' /\ ses'[s].client = c
      BY <2>1, <2>2 DEF Moved, AtFixup
    <2> QED
      BY <2>3
  <1> QED
    BY <1>0, <1>1 DEF IsAlwaysOn

(* A step of one goroutine that touches no client, no nick and no list.    *)
LEMMA OneGoroutine ==
  ASSUME CoreInv, ClientsType', NEW t \in Threads, Moved(t), Onward(t), SessionsKept,
         cl' = cl, byNick' = byNick, bySkeleton' = bySkeleton,
         ghost'.orphans = ghost.orphans, ghost'.stale = ghost.stale,
         th[t].at \notin {"sessions", "remove", "condemn"},
         t[2] = "run" /\ th[t].at \in Serving => th'[t].at \in Serving,
         t[2] = "run" /\ AtFixup(t) => AtFixup(t)',
         ThreadOK(t)'
  PROVE  CoreInv'
  <1>1. /\ ClientsType /\ ThreadInv /\ SessionInv /\ ClientInv /\ AttachedInv
        /\ NickInv /\ ForgetInv /\ OrphanInv /\ FixupInv
    BY DEF CoreInv
  <1>2. ClientsKept /\ NoneMade /\ \A s \in Conns : ses'[s].client = ses[s].client
    BY DEF ClientsKept, NoneMade, SessionsKept
  <1>u. \A u \in Threads \ {t} : th[u].at = "setnick" /\ ~th[u].registered => ~cl'[th[u].c].registered
    BY <1>1 DEF ThreadInv, ThreadOK, SetNickOK
  <1>3. ThreadInv'
    BY <1>1, <1>2, <1>u, ThreadFrame
  <1>4. SessionInv'
    BY <1>1, <1>2, SessionFrame
  <1>5. ClientInv'
    BY <1>1 DEF ClientInv
  <1>6. AttachedInv'
    BY <1>1, AttachedFrame
  <1>7. NickInv'
    BY <1>1, NickFrame
  <1>8. ForgetInv'
    BY <1>1, ForgetFrame DEF Forgetting
  <1>t. t[2] = "run" => t[1] \in Conns
    BY ThreadNames
  <1>9. OrphanInv'
    <2>1. \A c \in ClientIds :
             cl'[c].registered /\ ~cl'[c].destroyed /\ cl'[c].sessions = {} /\ ~cl'[c].alwaysOn =>
             \/ c \in ghost'.orphans
             \/ th'[t].at = "condemn" /\ th'[t].c = c
             \/ t[2] = "run" /\ th'[t].at \in Serving /\ ses'[t[1]].client = c
             \/ /\ cl[c].registered /\ ~cl[c].destroyed /\ cl[c].sessions = {} /\ ~cl[c].alwaysOn
                /\ ~(th[t].at = "condemn" /\ th[t].c = c)
                /\ ~(t[2] = "run" /\ th[t].at \in Serving /\ ses[t[1]].client = c)
      BY <1>2, <1>t
    <2>2. ghost.orphans \subseteq ghost'.orphans
      OBVIOUS
    <2> QED
      BY <1>1, <1>2, <2>1, <2>2, OrphanFrame
  <1>10. FixupInv'
    <2>1. ForceNickEqualsAccount => \A c \in ClientIds :
           cl'[c].registered /\ cl'[c].alwaysOn /\ ~cl'[c].destroyed /\ cl'[c].nick # Account
           /\ c \notin ghost'.stale =>
              \/ t[2] = "run" /\ AtFixup(t)' /\ ses'[t[1]].client = c
              \/ /\ cl[c].registered /\ cl[c].alwaysOn /\ ~cl[c].destroyed
                 /\ cl[c].nick # Account /\ c \notin ghost.stale
                 /\ ~(t[2] = "run" /\ AtFixup(t) /\ ses[t[1]].client = c)
      BY <1>2, <1>t
    <2> QED
      BY <1>1, <1>2, <2>1, FixupFrame
  <1> QED
    BY <1>3, <1>4, <1>5, <1>6, <1>7, <1>8, <1>9, <1>10 DEF CoreInv

(* Reading a line changes nothing but the count of lines.                  *)
LEMMA LineRead ==
  ASSUME ClientsType, SessionInv, NEW t \in Threads, ReadLine(t)
  PROVE  /\ t[1] \in Conns /\ t = <<t[1], "run">> /\ th[t].at = "run"
         /\ ClientOf(t) \in ClientIds /\ cl[ClientOf(t)].made /\ ClientOf(t) = ses[t[1]].client
         /\ ses' \in [Conns -> SessionRecord] /\ SessionsKept
         /\ \A s \in Conns : (ses'[s].proxied <=> ses[s].proxied) /\ (ses'[s].open <=> ses[s].open)
  <1>1. t[2] = "run" /\ t[1] \in Conns /\ t = <<t[1], "run">> /\ th[t].at = "run"
    BY ThreadNames DEF ReadLine, IsRunning
  <1>2. ses[t[1]].client \in ClientIds /\ cl[ses[t[1]].client].made
    <2>1. Alive(t[1])
      BY <1>1 DEF Alive, Serving
    <2> QED
      BY <2>1, <1>1, ClientsAssumption DEF SessionInv, ClientIds
  <1>3. PICK new : new = [ses[t[1]] EXCEPT !.commands = @ + 1]
    OBVIOUS
  <1>4. ses[t[1]] \in SessionRecord
    BY <1>1 DEF ClientsType
  <1>5. new \in SessionRecord /\ new.client = ses[t[1]].client /\ new.open = ses[t[1]].open
        /\ new.proxied = ses[t[1]].proxied
    BY <1>3, <1>4 DEF SessionRecord
  <1>6. ses' = [ses EXCEPT ![t[1]] = new]
    BY <1>3 DEF ReadLine
  <1>7. ses'[t[1]] = new /\ \A s \in Conns \ {t[1]} : ses'[s] = ses[s]
    BY <1>6, <1>1 DEF ClientsType
  <1>8. ses' \in [Conns -> SessionRecord]
    BY <1>6, <1>5, <1>1 DEF ClientsType
  <1>9. SessionsKept
    BY <1>7, <1>5, <1>2, ClientsAssumption DEF SessionsKept, ClientIds
  <1> QED
    BY <1>1, <1>2, <1>5, <1>7, <1>8, <1>9 DEF ClientOf

(* What SetNick has read is what its second half needs.                    *)
LEMMA SetNickReadOK ==
  ASSUME ClientsType, ClientsType', NEW t \in Threads, NEW c \in ClientIds, NEW s, NEW n \in Nicks, NEW then,
         cl' = cl, th'[t] = SetNickRead(c, s, n, then), cl[c].made,
         \/ /\ t[2] = "run" /\ s = t[1] /\ c = ses'[t[1]].client
            /\ cl[c].registered \/ th'[<<t[1], "old">>].at = "rest"
         \/ t[2] = "other" /\ s = None /\ cl[c].registered /\ then = "nick",
         then = "nick" \/ (then = "fixup" /\ cl[c].registered /\ n = Account)
  PROVE  ThreadOK(t)' /\ th'[t].at = "setnick" /\ th'[t].then = then /\ th'[t].c = c
  <1>1. PICK useAccount \in BOOLEAN :
          useAccount <=> (cl[c].account # None /\ (alwaysOnSetting \/ ForceNickEqualsAccount))
    OBVIOUS
  <1>2. PICK nick : nick = IF useAccount THEN Account ELSE n
    OBVIOUS
  <1>3. nick \in Nicks /\ (then = "fixup" => nick = Account)
        /\ (ForceNickEqualsAccount /\ cl[c].account # None => nick = Account)
    BY <1>1, <1>2, ClientsAssumption
  <1>4. LET p == th'[t]
        IN p.at = "setnick" /\ p.c = c /\ p.s = s /\ p.nick = nick /\ p.account = cl[c].account
           /\ p.registered = cl[c].registered /\ p.then = then
    BY <1>1, <1>2 DEF SetNickRead
  <1>5. cl[c].account \in {None, Account} /\ cl[c].registered \in BOOLEAN
    BY DEF ClientsType, ClientRecord
  <1>6. SetNickOK(t)'
    BY <1>3, <1>4, <1>5 DEF SetNickOK
  <1> QED
    BY <1>4, <1>6 DEF ThreadOK, Serving, Destroying

-----------------------------------------------------------------------------
(* The steps that move one goroutine. *)

(* The goroutine t is set to a new state.                                  *)
LEMMA MovedTo ==
  ASSUME ClientsType, NEW t \in Threads, NEW new, th' = [th EXCEPT ![t] = new]
  PROVE  Moved(t) /\ th'[t] = new
  BY DEF ClientsType, Moved

(* The first half of SetNick for tryRegister and NICK.                     *)
LEMMA NickAskedKeeps ==
  ASSUME CoreInv, NEW t \in Threads, TryRegister(t) \/ NickCommand(t)
  PROVE  CoreInv'
  <1>0. ClientsType /\ ThreadInv /\ SessionInv
    BY DEF CoreInv
  <1>1. /\ ReadLine(t)
        /\ UNCHANGED <<cl, byNick, bySkeleton, limiter, stats, alwaysOnSetting, outside, ghost>>
    BY DEF TryRegister, NickCommand
  <1>2. PICK n \in Nicks : th' = [th EXCEPT ![t] = SetNickRead(ClientOf(t), t[1], n, "nick")]
    BY DEF TryRegister, NickCommand
  <1>3. /\ t[1] \in Conns /\ t = <<t[1], "run">> /\ th[t].at = "run"
        /\ ClientOf(t) \in ClientIds /\ cl[ClientOf(t)].made /\ ClientOf(t) = ses[t[1]].client
        /\ ses' \in [Conns -> SessionRecord] /\ SessionsKept
    BY <1>0, <1>1, LineRead
  <1>4. Moved(t) /\ th'[t] = SetNickRead(ClientOf(t), t[1], n, "nick")
    BY <1>0, <1>2, MovedTo
  <1>5. ClientsType'
    BY <1>0, <1>1, <1>3, <1>4 DEF ClientsType, Moved
  <1>6. cl[ClientOf(t)].registered \/ th'[<<t[1], "old">>].at = "rest"
    BY <1>0, <1>3, <1>4, ThreadNames DEF SessionInv, Moved
  <1>7. ThreadOK(t)' /\ th'[t].at = "setnick"
    <2>1. t[2] = "run" /\ ses'[t[1]].client = ClientOf(t)
      BY <1>3 DEF SessionsKept
    <2> QED
      BY <2>1, <1>0, <1>1, <1>3, <1>4, <1>5, <1>6, SetNickReadOK
  <1>8. Onward(t) /\ th'[t].at \in Serving /\ ~AtFixup(t)
    BY <1>3, <1>7 DEF Onward, Serving, AtFixup
  <1> QED
    BY <1>1, <1>3, <1>4, <1>5, <1>7, <1>8, OneGoroutine

(* The first half of SetNick for SANICK.                                   *)
LEMMA SanickKeeps ==
  ASSUME CoreInv, NEW t \in Threads, Sanick(t)
  PROVE  CoreInv'
  <1>0. ClientsType /\ ThreadInv /\ SessionInv /\ NickInv /\ ClientInv
    BY DEF CoreInv
  <1>1. /\ t[2] = "other" /\ th[t].at = "rest"
        /\ UNCHANGED <<cl, ses, byNick, bySkeleton, limiter, stats, alwaysOnSetting, ghost>>
    BY DEF Sanick, Start
  <1>2. PICK c \in ClientIds, n \in Nicks :
          /\ \E m \in Nicks : byNick[m] = c
          /\ th' = [th EXCEPT ![t] = SetNickRead(c, None, n, "nick")]
    BY DEF Sanick
  <1>3. cl[c].registered /\ cl[c].made
    <2>1. PICK m \in Nicks : byNick[m] = c /\ c # None
      BY <1>2, ClientsAssumption DEF ClientIds
    <2>2. cl[c].nick = m
      BY <2>1, <1>0 DEF NickInv, NickMapsAgree
    <2>3. NoClient.nick = None
      BY DEF NoClient
    <2> QED
      BY <2>2, <2>3, <1>0, ClientsAssumption DEF ClientInv
  <1>4. Moved(t) /\ th'[t] = SetNickRead(c, None, n, "nick")
    BY <1>0, <1>2, MovedTo
  <1>5. ClientsType'
    BY <1>0, <1>1, <1>4 DEF ClientsType, Moved
  <1>6. cl' = cl /\ c \in ClientIds /\ n \in Nicks /\ t[2] = "other"
    BY <1>1
  <1>7. ThreadOK(t)' /\ th'[t].at = "setnick"
    BY <1>0, <1>3, <1>4, <1>5, <1>6, SetNickReadOK, Zenon
  <1>8. Onward(t) /\ SessionsKept
    BY <1>1 DEF Onward, SessionsKept
  <1> QED
    BY <1>1, <1>4, <1>5, <1>7, <1>8, OneGoroutine

(* The first half of SetNick for fixupNickEqualsAccount.                   *)
LEMMA FixupKeeps ==
  ASSUME CoreInv, NEW t \in Threads, Fixup(t)
  PROVE  CoreInv'
  <1>0. ClientsType /\ ThreadInv /\ SessionInv /\ ClientInv
    BY DEF CoreInv
  <1>1. /\ th[t].at = "fixup"
        /\ UNCHANGED <<cl, ses, byNick, bySkeleton, limiter, stats, alwaysOnSetting, outside, ghost>>
    BY DEF Fixup
  <1>2. t[2] = "run" /\ t[1] \in Conns /\ t = <<t[1], "run">>
    BY <1>0, <1>1, ThreadNames DEF ThreadInv, ThreadOK, Destroying
  <1>3. ClientOf(t) \in ClientIds /\ cl[ClientOf(t)].registered /\ cl[ClientOf(t)].made
        /\ ClientOf(t) = ses[t[1]].client
    <2>1. Alive(t[1])
      BY <1>1, <1>2 DEF Alive, Serving
    <2> QED
      BY <2>1, <1>0, <1>1, <1>2, ClientsAssumption DEF SessionInv, ThreadInv, ThreadOK, ClientOf, ClientIds
  <1>4. Moved(t) /\ th'[t] = SetNickRead(ClientOf(t), t[1], Account, "fixup")
    BY <1>0, MovedTo DEF Fixup
  <1>5. ClientsType'
    BY <1>0, <1>1, <1>4 DEF ClientsType, Moved
  <1>6. cl' = cl /\ ClientOf(t) = ses'[t[1]].client /\ Account \in Nicks
    BY <1>1, <1>3, ClientsAssumption
  <1>7. ThreadOK(t)' /\ th'[t].at = "setnick" /\ th'[t].then = "fixup"
    BY <1>0, <1>2, <1>3, <1>4, <1>5, <1>6, SetNickReadOK, Zenon
  <1>8. Onward(t) /\ th'[t].at \in Serving /\ AtFixup(t)' /\ SessionsKept
    BY <1>1, <1>2, <1>7 DEF Onward, Serving, AtFixup, SessionsKept
  <1> QED
    BY <1>1, <1>4, <1>5, <1>7, <1>8, OneGoroutine

(* ApplyProxiedIP and stats.Register change no client.                     *)
LEMMA ProxyKeeps ==
  ASSUME CoreInv, NEW t \in Threads, ApplyProxiedIP(t) \/ ProxyMove(t) \/ ProxyDone(t) \/ Register(t)
  PROVE  CoreInv'
  <1>0. ClientsType /\ ThreadInv /\ SessionInv /\ ClientInv
    BY DEF CoreInv
  <1>a. /\ cl' = cl /\ byNick' = byNick /\ bySkeleton' = bySkeleton
        /\ ghost'.orphans = ghost.orphans /\ ghost'.stale = ghost.stale
        /\ alwaysOnSetting' = alwaysOnSetting /\ ghost' \in Ghosts
    <2>1. CASE ProxyDone(t)
      <3>1. PICK w \in SUBSET Conns : ghost' = [ghost EXCEPT !.twice = w]
        <4>1. t[1] \in Conns
          BY <1>0, <2>1, ThreadNames DEF ProxyDone, ThreadInv, ThreadOK, Destroying
        <4> QED
          BY <4>1, <1>0, <2>1 DEF ProxyDone, ClientsType, Ghosts
      <3> QED
        BY <3>1, <2>1, <1>0 DEF ProxyDone, ClientsType, Ghosts
    <2> QED
      BY <2>1, <1>0 DEF ApplyProxiedIP, ProxyMove, Register, ClientsType
  <1>b. th[t].at \in {"run", "proxyAdded", "proxyMoved", "count"}
    BY DEF ApplyProxiedIP, ProxyMove, ProxyDone, Register, ReadLine, IsRunning
  <1>c. t[2] = "run" /\ t[1] \in Conns /\ t = <<t[1], "run">>
    BY <1>0, <1>b, ThreadNames DEF ThreadInv, ThreadOK, Destroying
  <1>d. Alive(t[1]) /\ ses[t[1]].client \in ClientIds
    BY <1>0, <1>b, <1>c DEF Alive, Serving, SessionInv
  <1>e. PICK new \in {[at |-> "proxyAdded"], [at |-> "proxyMoved"], Running} : th' = [th EXCEPT ![t] = new]
    BY DEF ApplyProxiedIP, ProxyMove, ProxyDone, Register
  <1>f. Moved(t) /\ th'[t] = new /\ th'[t].at \in {"proxyAdded", "proxyMoved", "run"}
    <2>1. new.at \in {"proxyAdded", "proxyMoved", "run"}
      BY <1>e DEF Running
    <2> QED
      BY <2>1, <1>0, <1>e, MovedTo
  <1>g. ses' \in [Conns -> SessionRecord] /\ SessionsKept
    <2>1. CASE ApplyProxiedIP(t)
      BY <2>1, <1>0, LineRead DEF ApplyProxiedIP
    <2>2. CASE ProxyMove(t) \/ Register(t)
      BY <2>2, <1>0 DEF ProxyMove, Register, SessionsKept, ClientsType
    <2>3. CASE ProxyDone(t)
      <3>1. PICK snew : snew = [ses[t[1]] EXCEPT !.proxied = TRUE]
        OBVIOUS
      <3>2. snew \in SessionRecord /\ snew.client = ses[t[1]].client /\ snew.open = ses[t[1]].open
        BY <3>1, <1>0, <1>c, ZenonT(60) DEF ClientsType, SessionRecord
      <3>3. ses' = [ses EXCEPT ![t[1]] = snew]
        BY <3>1, <2>3 DEF ProxyDone
      <3>4. ses'[t[1]] = snew /\ \A s \in Conns \ {t[1]} : ses'[s] = ses[s]
        BY <3>3, <1>0, <1>c DEF ClientsType
      <3>5. ses' \in [Conns -> SessionRecord]
        BY <3>2, <3>3, <1>0, <1>c DEF ClientsType
      <3> QED
        BY <3>2, <3>4, <3>5, <1>d, ClientsAssumption DEF SessionsKept, ClientIds
    <2> QED
      BY <2>1, <2>2, <2>3
  <1>h. limiter' \in [Addrs -> Nat] /\ stats' \in [unknown : Int, total : Int]
    <2>1. limiter' \in [Addrs -> Nat]
      BY <1>0 DEF ApplyProxiedIP, ProxyMove, ProxyDone, Register, LimiterAdd, LimiterRemove, ClientsType, Addrs
    <2>2. stats' \in [unknown : Int, total : Int]
      BY <1>0 DEF ApplyProxiedIP, ProxyMove, ProxyDone, Register, StatsRegister, ClientsType
    <2> QED
      BY <2>1, <2>2
  <1>5. ClientsType'
    BY <1>0, <1>a, <1>f, <1>g, <1>h DEF ClientsType, Moved
  <1>6. ThreadOK(t)'
    BY <1>c, <1>f DEF ThreadOK, Serving, Destroying
  <1>7. Onward(t) /\ th'[t].at \in Serving /\ ~AtFixup(t)
    BY <1>b, <1>c, <1>f DEF Onward, Serving, AtFixup
  <1> QED
    BY <1>a, <1>b, <1>f, <1>g, <1>5, <1>6, <1>7, OneGoroutine

(* A goroutine looks up a client it will destroy.                          *)
LEMMA CondemnKeeps ==
  ASSUME CoreInv, NEW t \in Threads, Kill(t) \/ Ghost(t) \/ ExpireAlwaysOn(t) \/ ClientsLogout(t) \/ IdleTimeout(t)
  PROVE  CoreInv'
  <1>0. ClientsType /\ ThreadInv /\ SessionInv /\ NickInv /\ ClientInv
    BY DEF CoreInv
  <1>1. /\ t[2] = "other" /\ th[t].at = "rest"
        /\ UNCHANGED <<cl, ses, byNick, bySkeleton, limiter, stats, alwaysOnSetting, ghost>>
    BY DEF Kill, Ghost, ExpireAlwaysOn, Condemn, ClientsLogout, IdleTimeout, Start
  <1>2. PICK c \in ClientIds, s \in Conns \cup {None} :
          cl[c].made /\ th' = [th EXCEPT ![t] = [at |-> "condemn", c |-> c, s |-> s]]
    <2>n. \A c \in ClientIds : ~cl[c].made => ~cl[c].registered /\ cl[c].sessions = {} /\ cl[c].nick = None
      BY <1>0 DEF ClientInv, NoClient
    <2>1. CASE Kill(t) \/ Ghost(t) \/ ExpireAlwaysOn(t)
      <3>1. PICK n \in Nicks : byNick[n] \in ClientIds
                              /\ th' = [th EXCEPT ![t] = [at |-> "condemn", c |-> byNick[n], s |-> None]]
        BY <2>1 DEF Kill, Ghost, ExpireAlwaysOn, Condemn
      <3>2. cl[byNick[n]].made
        BY <3>1, <2>n, <1>0, ClientsAssumption DEF NickInv, NickMapsAgree, ClientIds
      <3> QED
        BY <3>1, <3>2
    <2>2. CASE ClientsLogout(t)
      <3>1. PICK c \in ClientIds : \E s \in cl[c].sessions :
              th' = [th EXCEPT ![t] = [at |-> "condemn", c |-> c, s |-> s]]
        BY <2>2 DEF ClientsLogout
      <3>2. cl[c].made /\ cl[c].sessions \in SUBSET Conns
        BY <3>1, <2>n, <1>0 DEF ClientsType, ClientRecord
      <3> QED
        BY <3>1, <3>2
    <2>3. CASE IdleTimeout(t)
      <3>1. PICK s \in Conns : ses[s].open
              /\ th' = [th EXCEPT ![t] = [at |-> "condemn", c |-> ses[s].client, s |-> s]]
        BY <2>3 DEF IdleTimeout
      <3>2. ses[s].client \in ClientIds /\ cl[ses[s].client].made
        BY <3>1, <1>0 DEF SessionInv, ClientsType, SessionRecord
      <3> QED
        BY <3>1, <3>2
    <2> QED
      BY <2>1, <2>2, <2>3
  <1>4. Moved(t) /\ th'[t] = [at |-> "condemn", c |-> c, s |-> s]
    BY <1>0, <1>2, MovedTo
  <1>5. ClientsType'
    BY <1>0, <1>1, <1>4 DEF ClientsType, Moved
  <1>7. ThreadOK(t)'
    BY <1>1, <1>2, <1>4 DEF ThreadOK, DestroyOK
  <1>8. Onward(t) /\ SessionsKept
    BY <1>1 DEF Onward, SessionsKept
  <1> QED
    BY <1>1, <1>4, <1>5, <1>7, <1>8, OneGoroutine

-----------------------------------------------------------------------------
(* The steps that change a client. *)

(* One client object is changed.                                           *)
LEMMA ClientSet ==
  ASSUME ClientsType, NEW c \in ClientIds, NEW new \in ClientRecord, cl' = [cl EXCEPT ![c] = new]
  PROVE  /\ cl' \in [ClientIds -> ClientRecord] /\ cl'[c] = new
         /\ \A d \in ClientIds \ {c} : cl'[d] = cl[d]
  BY DEF ClientsType

(* As long as nobody registers, no SetNick under way is surprised.         *)
LEMMA Uncontested ==
  ASSUME ThreadInv, NEW t \in Threads, \A c \in ClientIds : cl'[c].registered => cl[c].registered
  PROVE  \A u \in Threads \ {t} : th[u].at = "setnick" /\ ~th[u].registered => ~cl'[th[u].c].registered
  BY DEF ThreadInv, ThreadOK, SetNickOK

(* What logging out changes.                                               *)
LEMMA LoggedOutClient ==
  ASSUME NEW old \in ClientRecord
  PROVE  LET new == LoggedOut(old)
         IN /\ new \in ClientRecord /\ new.made = old.made /\ new.registered = old.registered
            /\ new.destroyed = old.destroyed /\ new.nick = old.nick /\ new.account = None
            /\ new.alwaysOn = FALSE /\ new.sessions = old.sessions /\ new.timer = old.timer
  BY DEF LoggedOut, ClientRecord

(* Logged out or freed from its timer, a client keeps its place.           *)
Demoted(c) ==
  LET old == cl[c]  new == cl'[c]
  IN /\ new \in ClientRecord /\ new.made = old.made /\ new.registered = old.registered
     /\ new.destroyed = old.destroyed /\ new.nick = old.nick /\ new.sessions = old.sessions
     /\ new.account = old.account \/ ~new.alwaysOn
     /\ new.alwaysOn => old.alwaysOn
     /\ old.made

(* A client loses its account or its always-on mark.                       *)
LEMMA DemotedKeeps ==
  ASSUME CoreInv, ClientsType', NEW t \in Threads, NEW c \in ClientIds, Demoted(c),
         \A d \in ClientIds \ {c} : cl'[d] = cl[d],
         ses' = ses, byNick' = byNick, bySkeleton' = bySkeleton, ghost' = ghost,
         Moved(t), Onward(t), ThreadOK(t)', th[t].at \notin {"sessions", "remove", "condemn"},
         \/ cl'[c].alwaysOn = cl[c].alwaysOn
         \/ cl[c].destroyed
         \/ th'[t].at = "condemn" /\ th'[t].c = c
         \/ t[2] = "run" /\ th'[t].at \in Serving /\ ses[t[1]].client = c,
         t[2] = "run" /\ th[t].at \in Serving => th'[t].at \in Serving,
         t[2] = "run" /\ AtFixup(t) => AtFixup(t)' \/ (ses[t[1]].client = c /\ ~cl'[c].alwaysOn)
  PROVE  CoreInv'
  <1>1. /\ ClientsType /\ ThreadInv /\ SessionInv /\ ClientInv /\ AttachedInv
        /\ NickInv /\ ForgetInv /\ OrphanInv /\ FixupInv
    BY DEF CoreInv
  <1>2. \A d \in ClientIds : /\ cl'[d].made = cl[d].made /\ cl'[d].registered = cl[d].registered
                             /\ cl'[d].destroyed = cl[d].destroyed /\ cl'[d].nick = cl[d].nick
                             /\ cl'[d].sessions = cl[d].sessions
                             /\ cl'[d].alwaysOn => cl[d].alwaysOn
                             /\ cl'[d].account = cl[d].account \/ ~cl'[d].alwaysOn
                             /\ ~cl[d].made => cl'[d] = cl[d]
    BY DEF Demoted
  <1>3. ClientsKept /\ NoneMade /\ SessionsKept
    BY <1>2 DEF ClientsKept, NoneMade, SessionsKept
  <1>4. ThreadInv'
    <2>1. \A u \in Threads \ {t} : th[u].at = "setnick" /\ ~th[u].registered => ~cl'[th[u].c].registered
      BY <1>1, <1>2, Uncontested
    <2> QED
      BY <1>1, <1>3, <2>1, ThreadFrame
  <1>5. SessionInv'
    BY <1>1, <1>3, SessionFrame
  <1>6. ClientInv'
    BY <1>1, <1>2 DEF ClientInv
  <1>7. AttachedInv'
    BY <1>1, <1>2, <1>3, AttachedFrame
  <1>8. NickInv'
    BY <1>1, <1>2, NickFrame
  <1>9. ForgetInv'
    BY <1>1, <1>2, ForgetFrame DEF Forgetting
  <1>t. t[2] = "run" => t[1] \in Conns
    BY ThreadNames
  <1>10. OrphanInv'
    <2>1. \A d \in ClientIds :
             cl'[d].registered /\ ~cl'[d].destroyed /\ cl'[d].sessions = {} /\ ~cl'[d].alwaysOn =>
             \/ d \in ghost'.orphans
             \/ th'[t].at = "condemn" /\ th'[t].c = d
             \/ t[2] = "run" /\ th'[t].at \in Serving /\ ses'[t[1]].client = d
             \/ /\ cl[d].registered /\ ~cl[d].destroyed /\ cl[d].sessions = {} /\ ~cl[d].alwaysOn
                /\ ~(th[t].at = "condemn" /\ th[t].c = d)
                /\ ~(t[2] = "run" /\ th[t].at \in Serving /\ ses[t[1]].client = d)
      BY <1>2, <1>t
    <2>2. ghost.orphans \subseteq ghost'.orphans
      OBVIOUS
    <2> QED
      BY <1>1, <2>1, <2>2, OrphanFrame
  <1>11. FixupInv'
    <2>1. ForceNickEqualsAccount => \A d \in ClientIds :
           cl'[d].registered /\ cl'[d].alwaysOn /\ ~cl'[d].destroyed /\ cl'[d].nick # Account
           /\ d \notin ghost'.stale =>
              \/ t[2] = "run" /\ AtFixup(t)' /\ ses'[t[1]].client = d
              \/ /\ cl[d].registered /\ cl[d].alwaysOn /\ ~cl[d].destroyed
                 /\ cl[d].nick # Account /\ d \notin ghost.stale
                 /\ ~(t[2] = "run" /\ AtFixup(t) /\ ses[t[1]].client = d)
      BY <1>2, <1>t
    <2> QED
      BY <1>1, <2>1, FixupFrame
  <1> QED
    BY <1>4, <1>5, <1>6, <1>7, <1>8, <1>9, <1>10, <1>11 DEF CoreInv

(* Suspend, Unregister and killClients.                                    *)
LEMMA CondemnAccountKeeps ==
  ASSUME CoreInv, NEW t \in Threads, CondemnAccount(t)
  PROVE  CoreInv'
  <1>0. ClientsType /\ ClientInv
    BY DEF CoreInv
  <1>1. /\ t[2] = "other" /\ th[t].at = "rest"
        /\ UNCHANGED <<ses, byNick, bySkeleton, limiter, stats, alwaysOnSetting, ghost>>
    BY DEF CondemnAccount, Start
  <1>2. PICK c \in ClientIds : /\ cl[c].account = Account
                               /\ cl' = [cl EXCEPT ![c] = LoggedOut(@)]
                               /\ th' = [th EXCEPT ![t] = [at |-> "condemn", c |-> c, s |-> None]]
    BY DEF CondemnAccount
  <1>3. cl[c].made /\ cl[c] \in ClientRecord
    BY <1>0, <1>2, ClientsAssumption DEF ClientInv, NoClient, ClientsType
  <1>4. PICK new : new = LoggedOut(cl[c])
    OBVIOUS
  <1>5. /\ new \in ClientRecord /\ new.made = cl[c].made /\ new.registered = cl[c].registered
        /\ new.destroyed = cl[c].destroyed /\ new.nick = cl[c].nick /\ new.alwaysOn = FALSE
        /\ new.sessions = cl[c].sessions
    BY <1>3, <1>4, LoggedOutClient
  <1>6. cl' \in [ClientIds -> ClientRecord] /\ cl'[c] = new /\ \A d \in ClientIds \ {c} : cl'[d] = cl[d]
    BY <1>0, <1>2, <1>4, <1>5, ClientSet
  <1>7. Demoted(c)
    BY <1>3, <1>5, <1>6 DEF Demoted
  <1>8. Moved(t) /\ th'[t] = [at |-> "condemn", c |-> c, s |-> None]
    BY <1>0, <1>2, MovedTo
  <1>9. th'[t].at = "condemn" /\ th'[t].c = c /\ th'[t].s = None
    BY <1>8
  <1>10. ClientsType'
    BY <1>0, <1>1, <1>6, <1>8 DEF ClientsType, Moved
  <1>11. ThreadOK(t)' /\ Onward(t)
    BY <1>1, <1>3, <1>5, <1>6, <1>9 DEF ThreadOK, DestroyOK, Onward
  <1> QED
    BY <1>1, <1>6, <1>7, <1>8, <1>9, <1>10, <1>11, DemotedKeeps

(* handleRegisterTimeout.                                                  *)
LEMMA RegisterTimeoutKeeps ==
  ASSUME CoreInv, NEW t \in Threads, RegisterTimeout(t)
  PROVE  CoreInv'
  <1>0. ClientsType /\ ClientInv
    BY DEF CoreInv
  <1>1. /\ t[2] = "other" /\ th[t].at = "rest"
        /\ UNCHANGED <<ses, byNick, bySkeleton, limiter, stats, alwaysOnSetting, ghost>>
    BY DEF RegisterTimeout, Start
  <1>2. PICK c \in Conns : /\ cl[c].timer
                           /\ cl' = [cl EXCEPT ![c].timer = FALSE]
                           /\ th' = [th EXCEPT ![t] = [at |-> "condemn", c |-> c, s |-> None]]
    BY DEF RegisterTimeout
  <1>3. c \in ClientIds /\ cl[c].made /\ cl[c] \in ClientRecord
    BY <1>0, <1>2 DEF ClientInv, NoClient, ClientsType, ClientIds
  <1>4. PICK new : new = [cl[c] EXCEPT !.timer = FALSE]
    OBVIOUS
  <1>5. /\ new \in ClientRecord /\ new.made = cl[c].made /\ new.registered = cl[c].registered
        /\ new.destroyed = cl[c].destroyed /\ new.nick = cl[c].nick /\ new.alwaysOn = cl[c].alwaysOn
        /\ new.sessions = cl[c].sessions /\ new.account = cl[c].account
    BY <1>3, <1>4 DEF ClientRecord
  <1>6. cl' \in [ClientIds -> ClientRecord] /\ cl'[c] = new /\ \A d \in ClientIds \ {c} : cl'[d] = cl[d]
    <2>1. cl' = [cl EXCEPT ![c] = new]
      BY <1>2, <1>4
    <2> QED
      BY <1>0, <1>3, <1>5, <2>1, ClientSet
  <1>7. Demoted(c)
    BY <1>3, <1>5, <1>6 DEF Demoted
  <1>8. Moved(t) /\ th'[t] = [at |-> "condemn", c |-> c, s |-> None]
    BY <1>0, <1>2, MovedTo
  <1>9. th'[t].at = "condemn" /\ th'[t].c = c /\ th'[t].s = None
    BY <1>8
  <1>10. ClientsType'
    BY <1>0, <1>1, <1>6, <1>8 DEF ClientsType, Moved
  <1>11. ThreadOK(t)' /\ Onward(t)
    BY <1>1, <1>3, <1>5, <1>6, <1>9 DEF ThreadOK, DestroyOK, Onward
  <1> QED
    BY <1>1, <1>3, <1>6, <1>7, <1>8, <1>9, <1>10, <1>11, DemotedKeeps

(* The last step of destroy.                                               *)
LEMMA DestroyLogoutKeeps ==
  ASSUME CoreInv, NEW t \in Threads, DestroyLogout(t)
  PROVE  CoreInv'
  <1>0. ClientsType /\ ClientInv /\ ThreadInv
    BY DEF CoreInv
  <1>1. /\ th[t].at = "logout"
        /\ cl' = [cl EXCEPT ![th[t].c] = LoggedOut(@)]
        /\ th' = [th EXCEPT ![t] = AfterDestroy(t)]
        /\ UNCHANGED <<ses, byNick, bySkeleton, limiter, stats, alwaysOnSetting, outside, ghost>>
    BY DEF DestroyLogout
  <1>2. PICK c \in ClientIds : c = th[t].c /\ cl[c].made /\ cl[c].destroyed /\ cl[c] \in ClientRecord
    BY <1>0, <1>1 DEF ThreadInv, ThreadOK, DestroyOK, Destroying, ClientsType
  <1>4. PICK new : new = LoggedOut(cl[c])
    OBVIOUS
  <1>5. /\ new \in ClientRecord /\ new.made = cl[c].made /\ new.registered = cl[c].registered
        /\ new.destroyed = cl[c].destroyed /\ new.nick = cl[c].nick /\ new.alwaysOn = FALSE
        /\ new.sessions = cl[c].sessions
    BY <1>2, <1>4, LoggedOutClient
  <1>6. cl' \in [ClientIds -> ClientRecord] /\ cl'[c] = new /\ \A d \in ClientIds \ {c} : cl'[d] = cl[d]
    BY <1>0, <1>1, <1>2, <1>4, <1>5, ClientSet
  <1>7. Demoted(c)
    BY <1>2, <1>5, <1>6 DEF Demoted
  <1>8. Moved(t) /\ th'[t] = AfterDestroy(t)
    BY <1>0, <1>1, MovedTo
  <1>9. th'[t].at \in {"rest", "done"} /\ (th'[t].at = "rest" <=> t[2] = "other")
    BY <1>8 DEF AfterDestroy, Rest, Finished
  <1>10. ClientsType'
    BY <1>0, <1>1, <1>6, <1>8 DEF ClientsType, Moved
  <1>11. ThreadOK(t)' /\ Onward(t)
    BY <1>1, <1>9 DEF ThreadOK, Onward, Destroying, Serving
  <1>12. th[t].at \notin {"sessions", "remove", "condemn"} /\ th[t].at \notin Serving /\ ~AtFixup(t)
    BY <1>1 DEF Serving, AtFixup
  <1> QED
    BY <1>1, <1>2, <1>6, <1>7, <1>8, <1>10, <1>11, <1>12, DemotedKeeps

(* A login; a registered client must be renamed next.                      *)
LEMMA LoginKeeps ==
  ASSUME CoreInv, NEW t \in Threads, Login(t)
  PROVE  CoreInv'
  <1>1. /\ ClientsType /\ ThreadInv /\ SessionInv /\ ClientInv /\ AttachedInv
        /\ NickInv /\ ForgetInv /\ OrphanInv /\ FixupInv
    BY DEF CoreInv
  <1>a. /\ t[1] \in Conns /\ t = <<t[1], "run">> /\ th[t].at = "run"
        /\ ClientOf(t) \in ClientIds /\ cl[ClientOf(t)].made /\ ClientOf(t) = ses[t[1]].client
        /\ ses' \in [Conns -> SessionRecord] /\ SessionsKept
    BY <1>1, LineRead DEF Login
  <1>b. PICK c \in ClientIds : c = ClientOf(t)
    BY <1>a
  <1>c. /\ cl[c].account = None
        /\ cl' = [cl EXCEPT ![c].account = Account, ![c].alwaysOn = alwaysOnSetting]
        /\ th' = IF cl[c].registered /\ ForceNickEqualsAccount
                 THEN [th EXCEPT ![t] = [at |-> "fixup"]] ELSE th
        /\ UNCHANGED <<byNick, bySkeleton, limiter, stats, alwaysOnSetting, outside, ghost>>
    BY <1>b DEF Login
  <1>d. PICK new : new = [cl[c] EXCEPT !.account = Account, !.alwaysOn = alwaysOnSetting]
    OBVIOUS
  <1>e. /\ new \in ClientRecord /\ new.made = cl[c].made /\ new.registered = cl[c].registered
        /\ new.destroyed = cl[c].destroyed /\ new.nick = cl[c].nick /\ new.account = Account
        /\ new.sessions = cl[c].sessions
    BY <1>1, <1>d, ZenonT(60) DEF ClientsType, ClientRecord
  <1>f. cl' = [cl EXCEPT ![c] = new]
    BY <1>c, <1>d, <1>1 DEF ClientsType
  <1>g. cl' \in [ClientIds -> ClientRecord] /\ cl'[c] = new /\ \A d \in ClientIds \ {c} : cl'[d] = cl[d]
    BY <1>1, <1>e, <1>f, ClientSet
  <1>h. Moved(t) /\ (cl[c].registered /\ ForceNickEqualsAccount => th'[t].at = "fixup")
        /\ (th'[t].at = "fixup" => cl[c].registered)
        /\ (th'[t].at = "fixup" \/ th'[t].at = "run")
    <2>1. CASE cl[c].registered /\ ForceNickEqualsAccount
      <3>1. Moved(t) /\ th'[t] = [at |-> "fixup"]
        BY <1>1, <1>c, <2>1, MovedTo
      <3> QED
        BY <3>1, <2>1
    <2>2. CASE ~(cl[c].registered /\ ForceNickEqualsAccount)
      <3>1. th' = th
        BY <1>c, <2>2
      <3> QED
        BY <3>1, <2>2, <1>1, <1>a DEF Moved, ClientsType
    <2> QED
      BY <2>1, <2>2
  <1>2. ClientsType'
    BY <1>1, <1>a, <1>c, <1>g, <1>h DEF ClientsType, Moved
  <1>3. \A d \in ClientIds : /\ cl'[d].made = cl[d].made /\ cl'[d].registered = cl[d].registered
                             /\ cl'[d].destroyed = cl[d].destroyed /\ cl'[d].nick = cl[d].nick
                             /\ cl'[d].sessions = cl[d].sessions
                             /\ cl[d].alwaysOn => cl'[d].alwaysOn
                             /\ ~cl[d].made => cl'[d] = cl[d]
                             /\ cl'[d].alwaysOn => cl'[d].account # None
    BY <1>1, <1>a, <1>b, <1>c, <1>e, <1>g, ClientsAssumption, ZenonT(60) DEF ClientInv
  <1>k. ClientsKept /\ NoneMade /\ Onward(t)
    BY <1>3, <1>a, <1>h DEF ClientsKept, NoneMade, Onward, Serving
  <1>m. ses'[t[1]].client = c /\ t[2] = "run"
    BY <1>a, <1>b DEF SessionsKept
  <1>4. ThreadInv'
    <2>1. \A u \in Threads \ {t} : th[u].at = "setnick" /\ ~th[u].registered => ~cl'[th[u].c].registered
      BY <1>1, <1>3, Uncontested
    <2>2. ThreadOK(t)'
      BY <1>h, <1>m, <1>e, <1>g DEF ThreadOK, Serving, Destroying
    <2>3. \A s \in Conns : <<s, "run">> # t => ses'[s].client = ses[s].client
      BY <1>a DEF SessionsKept
    <2> QED
      BY <1>1, <1>h, <1>k, <2>1, <2>2, <2>3, ThreadFrame
  <1>5. SessionInv'
    BY <1>1, <1>a, <1>h, <1>k, SessionFrame
  <1>6. ClientInv'
    BY <1>1, <1>3 DEF ClientInv
  <1>7. AttachedInv'
    BY <1>1, <1>a, <1>3, <1>h, AttachedFrame
  <1>8. NickInv'
    BY <1>1, <1>c, <1>3, NickFrame, ZenonT(60)
  <1>9. ForgetInv'
    BY <1>1, <1>a, <1>c, <1>3, <1>h, ForgetFrame DEF Forgetting
  <1>10. OrphanInv'
    <2>1. \A d \in ClientIds :
             cl'[d].registered /\ ~cl'[d].destroyed /\ cl'[d].sessions = {} /\ ~cl'[d].alwaysOn =>
             \/ d \in ghost'.orphans
             \/ th'[t].at = "condemn" /\ th'[t].c = d
             \/ t[2] = "run" /\ th'[t].at \in Serving /\ ses'[t[1]].client = d
             \/ /\ cl[d].registered /\ ~cl[d].destroyed /\ cl[d].sessions = {} /\ ~cl[d].alwaysOn
                /\ ~(th[t].at = "condemn" /\ th[t].c = d)
                /\ ~(t[2] = "run" /\ th[t].at \in Serving /\ ses[t[1]].client = d)
      BY <1>3, <1>a, <1>b, <1>h, <1>m DEF Serving
    <2>2. ghost.orphans \subseteq ghost'.orphans
      BY <1>c
    <2>3. \A s \in Conns : Alive(s) /\ <<s, "run">> # t => ses'[s].client = ses[s].client
      BY <1>a DEF SessionsKept
    <2> QED
      BY <1>1, <1>h, <2>1, <2>2, <2>3, OrphanFrame
  <1>11. FixupInv'
    <2>1. ForceNickEqualsAccount => \A d \in ClientIds :
           cl'[d].registered /\ cl'[d].alwaysOn /\ ~cl'[d].destroyed /\ cl'[d].nick # Account
           /\ d \notin ghost'.stale =>
              \/ t[2] = "run" /\ AtFixup(t)' /\ ses'[t[1]].client = d
              \/ /\ cl[d].registered /\ cl[d].alwaysOn /\ ~cl[d].destroyed
                 /\ cl[d].nick # Account /\ d \notin ghost.stale
                 /\ ~(t[2] = "run" /\ AtFixup(t) /\ ses[t[1]].client = d)
      BY <1>a, <1>c, <1>e, <1>g, <1>h, <1>m DEF AtFixup
    <2>3. \A s \in Conns : AtFixup(<<s, "run">>) /\ <<s, "run">> # t => ses'[s].client = ses[s].client
      BY <1>a DEF SessionsKept
    <2> QED
      BY <1>1, <1>h, <2>1, <2>3, FixupFrame
  <1> QED
    BY <1>2, <1>4, <1>5, <1>6, <1>7, <1>8, <1>9, <1>10, <1>11 DEF CoreInv

(* The always-on setting reaches the account's clients.                    *)
LEMMA SetAlwaysOnKeeps ==
  ASSUME CoreInv, NEW t \in Threads, NEW v \in BOOLEAN, SetAlwaysOn(t, v)
  PROVE  CoreInv'
  <1>1. /\ ClientsType /\ ThreadInv /\ SessionInv /\ ClientInv /\ AttachedInv
        /\ NickInv /\ ForgetInv /\ OrphanInv /\ FixupInv
    BY DEF CoreInv
  <1>a. /\ t[1] \in Conns /\ t = <<t[1], "run">> /\ th[t].at = "run"
        /\ ses' \in [Conns -> SessionRecord] /\ SessionsKept
    BY <1>1, LineRead DEF SetAlwaysOn
  <1> DEFINE in == {c \in ClientIds : cl[c].account = Account /\ cl[c].registered}
             on(c) == v /\ cl[c].nick = Account
             new(c) == [cl[c] EXCEPT !.alwaysOn = on(c)]
  <1>b. /\ cl' = [c \in ClientIds |-> IF c \in in THEN new(c) ELSE cl[c]]
        /\ ghost' = [ghost EXCEPT !.orphans = @ \cup {c \in in : cl[c].sessions = {} /\ ~on(c)}]
        /\ UNCHANGED <<byNick, bySkeleton, limiter, stats, outside, th>>
        /\ alwaysOnSetting' = v
    BY DEF SetAlwaysOn
  <1>c. /\ ghost' \in Ghosts /\ ghost'.stale = ghost.stale
        /\ ghost'.orphans = ghost.orphans \cup {c \in in : cl[c].sessions = {} /\ ~on(c)}
    BY <1>b, <1>1 DEF ClientsType, Ghosts
  <1>d. \A c \in ClientIds : on(c) \in BOOLEAN
    OBVIOUS
  <1>e. \A c \in ClientIds :
          /\ new(c) \in ClientRecord /\ new(c).made = cl[c].made /\ new(c).registered = cl[c].registered
          /\ new(c).destroyed = cl[c].destroyed /\ new(c).nick = cl[c].nick /\ new(c).account = cl[c].account
          /\ new(c).sessions = cl[c].sessions /\ new(c).alwaysOn = on(c)
    <2> SUFFICES ASSUME NEW c \in ClientIds PROVE <1>e!(c)
      OBVIOUS
    <2>1. PICK b \in BOOLEAN : b = on(c)
      BY <1>d
    <2>2. new(c) = [cl[c] EXCEPT !.alwaysOn = b] /\ cl[c] \in ClientRecord
      BY <2>1, <1>1 DEF ClientsType
    <2> HIDE DEF new, on
    <2> QED
      BY <2>1, <2>2 DEF ClientRecord
  <1> HIDE DEF new
  <1>f. \A c \in ClientIds : (c \in in => cl'[c] = new(c)) /\ (c \notin in => cl'[c] = cl[c])
    BY <1>b
  <1>g. cl' \in [ClientIds -> ClientRecord]
    BY <1>b, <1>e, <1>1 DEF ClientsType
  <1>h. Moved(t) /\ th'[t].at = "run"
    BY <1>1, <1>a, <1>b DEF Moved, ClientsType
  <1>2. ClientsType'
    BY <1>1, <1>a, <1>b, <1>c, <1>g DEF ClientsType
  <1>3. \A d \in ClientIds : /\ cl'[d].made = cl[d].made /\ cl'[d].registered = cl[d].registered
                             /\ cl'[d].destroyed = cl[d].destroyed /\ cl'[d].nick = cl[d].nick
                             /\ cl'[d].sessions = cl[d].sessions /\ cl'[d].account = cl[d].account
                             /\ cl'[d] = cl[d] \/ (d \in in /\ cl'[d].alwaysOn = on(d))
    BY <1>e, <1>f
  <1>i. \A d \in in : cl[d].account # None /\ cl[d].registered /\ cl[d].made /\ d \in ClientIds
    BY <1>1, ClientsAssumption DEF ClientInv, NoClient
  <1>k. ClientsKept /\ NoneMade /\ Onward(t)
    BY <1>3, <1>i, <1>a, <1>h DEF ClientsKept, NoneMade, Onward, Serving
  <1>4. ThreadInv'
    <2>1. \A u \in Threads \ {t} : th[u].at = "setnick" /\ ~th[u].registered => ~cl'[th[u].c].registered
      BY <1>1, <1>3, Uncontested
    <2>2. ThreadOK(t)'
      BY <1>a, <1>h DEF ThreadOK, Serving, Destroying
    <2>3. \A s \in Conns : <<s, "run">> # t => ses'[s].client = ses[s].client
      BY <1>a DEF SessionsKept
    <2> QED
      BY <1>1, <1>h, <1>k, <2>1, <2>2, <2>3, ThreadFrame
  <1>5. SessionInv'
    BY <1>1, <1>a, <1>h, <1>k, SessionFrame
  <1>6. ClientInv'
    BY <1>1, <1>3, <1>i DEF ClientInv
  <1>7. AttachedInv'
    BY <1>1, <1>a, <1>3, <1>h, AttachedFrame
  <1>8. NickInv'
    BY <1>1, <1>b, <1>3, NickFrame
  <1>9. ForgetInv'
    BY <1>1, <1>a, <1>b, <1>3, <1>h, ForgetFrame DEF Forgetting
  <1>10. OrphanInv'
    <2>1. \A d \in ClientIds :
             cl'[d].registered /\ ~cl'[d].destroyed /\ cl'[d].sessions = {} /\ ~cl'[d].alwaysOn =>
             \/ d \in ghost'.orphans
             \/ th'[t].at = "condemn" /\ th'[t].c = d
             \/ t[2] = "run" /\ th'[t].at \in Serving /\ ses'[t[1]].client = d
             \/ /\ cl[d].registered /\ ~cl[d].destroyed /\ cl[d].sessions = {} /\ ~cl[d].alwaysOn
                /\ ~(th[t].at = "condemn" /\ th[t].c = d)
                /\ ~(t[2] = "run" /\ th[t].at \in Serving /\ ses[t[1]].client = d)
      BY <1>3, <1>a, <1>c, <1>h DEF Serving, SessionsKept
    <2>2. ghost.orphans \subseteq ghost'.orphans
      BY <1>c
    <2>3. \A s \in Conns : Alive(s) /\ <<s, "run">> # t => ses'[s].client = ses[s].client
      BY <1>a DEF SessionsKept
    <2> QED
      BY <1>1, <1>h, <2>1, <2>2, <2>3, OrphanFrame
  <1>11. FixupInv'
    <2>1. ForceNickEqualsAccount => \A d \in ClientIds :
           cl'[d].registered /\ cl'[d].alwaysOn /\ ~cl'[d].destroyed /\ cl'[d].nick # Account
           /\ d \notin ghost'.stale =>
              \/ t[2] = "run" /\ AtFixup(t)' /\ ses'[t[1]].client = d
              \/ /\ cl[d].registered /\ cl[d].alwaysOn /\ ~cl[d].destroyed
                 /\ cl[d].nick # Account /\ d \notin ghost.stale
                 /\ ~(t[2] = "run" /\ AtFixup(t) /\ ses[t[1]].client = d)
      BY <1>3, <1>a, <1>c, ZenonT(60) DEF AtFixup
    <2>3. \A s \in Conns : AtFixup(<<s, "run">>) /\ <<s, "run">> # t => ses'[s].client = ses[s].client
      BY <1>a DEF SessionsKept
    <2> QED
      BY <1>1, <1>h, <2>1, <2>3, FixupFrame
  <1> QED
    BY <1>2, <1>4, <1>5, <1>6, <1>7, <1>8, <1>9, <1>10, <1>11 DEF CoreInv

(* What the second half of SetNick starts from.                            *)
LEMMA SetNickStart ==
  ASSUME CoreInv, NEW t \in Threads, th[t].at = "setnick"
  PROVE  /\ th[t].c \in ClientIds /\ cl[th[t].c].made /\ th[t].nick \in Nicks
         /\ SetNickOK(t) /\ t[2] \in {"run", "other"}
         /\ t[2] = "run" => t[1] \in Conns /\ t = <<t[1], "run">> /\ th[t].c = ses[t[1]].client
         /\ ~cl[th[t].c].registered => t[2] = "run" /\ th[t].c = t[1]
  <1>1. ClientsType /\ ThreadInv /\ SessionInv
    BY DEF CoreInv
  <1>2. SetNickOK(t) /\ t[2] \in {"run", "other"}
    BY <1>1, ThreadNames DEF ThreadInv, ThreadOK, Destroying
  <1>3. t[2] = "run" => t[1] \in Conns /\ t = <<t[1], "run">>
    BY ThreadNames
  <1>4. th[t].c \in ClientIds /\ cl[th[t].c].made /\ th[t].nick \in Nicks
        /\ (t[2] = "run" => th[t].c = ses[t[1]].client)
    BY <1>2 DEF SetNickOK
  <1>5. ~cl[th[t].c].registered => t[2] = "run" /\ th[t].c = t[1]
    BY <1>1, <1>2, <1>3, <1>4, ClientsAssumption DEF SetNickOK, SessionInv, ClientIds
  <1> QED
    BY <1>2, <1>3, <1>4, <1>5

(* Where the caller of SetNick goes on.                                    *)
Resumed(t) == th' = [th EXCEPT ![t] = IF t[2] = "other" THEN Rest ELSE Running]

(* The caller of SetNick waits again.                                      *)
LEMMA ResumedState ==
  ASSUME CoreInv, NEW t \in Threads, th[t].at = "setnick", Resumed(t)
  PROVE  /\ Moved(t) /\ Onward(t) /\ ThreadOK(t)' /\ ~AtFixup(t)'
         /\ t[2] = "run" => th'[t].at \in Serving
  <1>1. ClientsType /\ t[2] \in {"run", "other"}
    BY SetNickStart DEF CoreInv
  <1>2. Moved(t) /\ th'[t] = IF t[2] = "other" THEN Rest ELSE Running
    BY <1>1, MovedTo DEF Resumed
  <1>3. (t[2] = "other" => th'[t].at = "rest") /\ (t[2] = "run" => th'[t].at = "run")
    BY <1>2 DEF Rest, Running
  <1> QED
    BY <1>1, <1>2, <1>3 DEF Onward, ThreadOK, AtFixup, Serving, Destroying

(* SetNick returns an error.                                               *)
LEMMA SetNickFailedKeeps ==
  ASSUME CoreInv, NEW t \in Threads, th[t].at = "setnick", SetNickFailed(t, th[t])
  PROVE  CoreInv'
  <1>0. ClientsType
    BY DEF CoreInv
  <1>1. Moved(t) /\ Onward(t) /\ ThreadOK(t)' /\ (t[2] = "run" => th'[t].at \in Serving)
    BY ResumedState DEF SetNickFailed, Resumed
  <1>2. UNCHANGED <<ses, byNick, bySkeleton, limiter, stats, alwaysOnSetting, outside, ghost>>
    BY DEF SetNickFailed
  <1>3. CASE th[t].then = "fixup"
    <2>1. PICK c \in ClientIds : /\ c = th[t].c /\ cl[c].made /\ cl[c] \in ClientRecord
                                 /\ t[2] = "run" /\ ses[t[1]].client = c
      BY <1>0, <1>3, SetNickStart DEF ClientsType, SetNickOK
    <2>2. cl' = [cl EXCEPT ![c] = LoggedOut(@)]
      BY <1>3, <2>1 DEF SetNickFailed
    <2>4. PICK new : new = LoggedOut(cl[c])
      OBVIOUS
    <2>5. /\ new \in ClientRecord /\ new.made = cl[c].made /\ new.registered = cl[c].registered
          /\ new.destroyed = cl[c].destroyed /\ new.nick = cl[c].nick /\ new.alwaysOn = FALSE
          /\ new.sessions = cl[c].sessions
      BY <2>1, <2>4, LoggedOutClient
    <2>6. cl' \in [ClientIds -> ClientRecord] /\ cl'[c] = new /\ \A d \in ClientIds \ {c} : cl'[d] = cl[d]
      BY <1>0, <2>2, <2>4, <2>5, ClientSet
    <2>7. Demoted(c) /\ ~cl'[c].alwaysOn
      BY <2>1, <2>5, <2>6 DEF Demoted
    <2>8. ClientsType'
      BY <1>0, <1>1, <1>2, <2>6 DEF ClientsType, Moved
    <2> QED
      BY <1>1, <1>2, <2>1, <2>6, <2>7, <2>8, DemotedKeeps
  <1>4. CASE th[t].then # "fixup"
    <2>1. cl' = cl /\ ~AtFixup(t) /\ SessionsKept
      BY <1>2, <1>4 DEF SetNickFailed, AtFixup, SessionsKept
    <2>2. ClientsType'
      BY <1>0, <1>1, <1>2, <2>1 DEF ClientsType, Moved
    <2> QED
      BY <1>1, <1>2, <2>1, <2>2, OneGoroutine
  <1> QED
    BY <1>3, <1>4

(* The client already has the nick.                                        *)
LEMMA SetNickSameKeeps ==
  ASSUME CoreInv, NEW t \in Threads, th[t].at = "setnick", byNick[th[t].nick] = th[t].c, Resumed(t),
         UNCHANGED <<cl, ses, byNick, bySkeleton, limiter, stats, alwaysOnSetting, outside, ghost>>
  PROVE  CoreInv'
  <1>1. /\ ClientsType /\ ThreadInv /\ SessionInv /\ ClientInv /\ AttachedInv
        /\ NickInv /\ ForgetInv /\ OrphanInv /\ FixupInv
    BY DEF CoreInv
  <1>a. Moved(t) /\ Onward(t) /\ ThreadOK(t)' /\ (t[2] = "run" => th'[t].at \in Serving)
    BY ResumedState
  <1>b. cl' = cl /\ ses' = ses /\ byNick' = byNick /\ bySkeleton' = bySkeleton /\ ghost' = ghost
    OBVIOUS
  <1>2. ClientsType'
    BY <1>1, <1>a DEF ClientsType, Moved
  <1>3. ClientsKept /\ NoneMade /\ SessionsKept
    BY <1>b DEF ClientsKept, NoneMade, SessionsKept
  <1>4. ThreadInv'
    <2>1. \A u \in Threads \ {t} : th[u].at = "setnick" /\ ~th[u].registered => ~cl'[th[u].c].registered
      BY <1>1, <1>b, Uncontested
    <2> QED
      BY <1>1, <1>a, <1>b, <1>3, <2>1, ThreadFrame
  <1>5. SessionInv'
    BY <1>1, <1>a, <1>3, SessionFrame
  <1>6. ClientInv'
    BY <1>1, <1>b DEF ClientInv
  <1>7. AttachedInv'
    BY <1>1, <1>a, <1>b, <1>3, AttachedFrame
  <1>8. NickInv'
    BY <1>1, <1>b, NickFrame
  <1>9. ForgetInv'
    BY <1>1, <1>a, <1>b, ForgetFrame DEF Forgetting
  <1>10. OrphanInv'
    <2>1. \A d \in ClientIds :
             cl'[d].registered /\ ~cl'[d].destroyed /\ cl'[d].sessions = {} /\ ~cl'[d].alwaysOn =>
             \/ d \in ghost'.orphans
             \/ th'[t].at = "condemn" /\ th'[t].c = d
             \/ t[2] = "run" /\ th'[t].at \in Serving /\ ses'[t[1]].client = d
             \/ /\ cl[d].registered /\ ~cl[d].destroyed /\ cl[d].sessions = {} /\ ~cl[d].alwaysOn
                /\ ~(th[t].at = "condemn" /\ th[t].c = d)
                /\ ~(t[2] = "run" /\ th[t].at \in Serving /\ ses[t[1]].client = d)
      BY <1>a, <1>b
    <2>2. ghost.orphans \subseteq ghost'.orphans
      BY <1>b
    <2> QED
      BY <1>1, <1>a, <1>b, <2>1, <2>2, OrphanFrame
  <1>11. FixupInv'
    <2>0. /\ th[t].c \in ClientIds /\ th[t].nick \in Nicks /\ SetNickOK(t)
          /\ t[2] = "run" => th[t].c = ses[t[1]].client
      BY SetNickStart
    <2>1. AtFixup(t) => cl[th[t].c].nick = Account
      BY <2>0, <1>1, ClientsAssumption DEF AtFixup, SetNickOK, NickInv, NickMapsAgree, ClientIds
    <2>2. ForceNickEqualsAccount => \A d \in ClientIds :
           cl'[d].registered /\ cl'[d].alwaysOn /\ ~cl'[d].destroyed /\ cl'[d].nick # Account
           /\ d \notin ghost'.stale =>
              \/ t[2] = "run" /\ AtFixup(t)' /\ ses'[t[1]].client = d
              \/ /\ cl[d].registered /\ cl[d].alwaysOn /\ ~cl[d].destroyed
                 /\ cl[d].nick # Account /\ d \notin ghost.stale
                 /\ ~(t[2] = "run" /\ AtFixup(t) /\ ses[t[1]].client = d)
      BY <1>b, <2>0, <2>1
    <2> QED
      BY <1>1, <1>a, <1>b, <2>2, FixupFrame
  <1> QED
    BY <1>2, <1>4, <1>5, <1>6, <1>7, <1>8, <1>9, <1>10, <1>11 DEF CoreInv

(* The client gets the nick: both tables move with it.                     *)
LEMMA TakeNickKeeps ==
  ASSUME CoreInv, NEW t \in Threads, th[t].at = "setnick", byNick[th[t].nick] = None,
         bySkeleton[Skeleton[th[t].nick]] \in {None, th[t].c}, ~cl[th[t].c].destroyed, TakeNick(t, th[t])
  PROVE  CoreInv'
  <1>1. /\ ClientsType /\ ThreadInv /\ SessionInv /\ ClientInv /\ AttachedInv
        /\ NickInv /\ ForgetInv /\ OrphanInv /\ FixupInv
    BY DEF CoreInv
  <1>a. PICK c \in ClientIds, n \in Nicks : c = th[t].c /\ n = th[t].nick
    BY SetNickStart
  <1>b. /\ cl[c].made /\ SetNickOK(t) /\ t[2] \in {"run", "other"}
        /\ t[2] = "run" => t[1] \in Conns /\ t = <<t[1], "run">> /\ c = ses[t[1]].client
        /\ ~cl[c].registered => t[2] = "run" /\ c = t[1]
    BY <1>a, SetNickStart
  <1>c. /\ byNick[n] = None /\ bySkeleton[Skeleton[n]] \in {None, c} /\ ~cl[c].destroyed
        /\ c # None /\ n # None /\ Skeleton[n] \in Skeletons
    BY <1>a, ClientsAssumption DEF ClientIds, Skeletons
  <1>d. PICK new : new = [cl[c] EXCEPT !.nick = n, !.registered = TRUE, !.timer = FALSE]
    OBVIOUS
  <1>e. /\ new \in ClientRecord /\ new.made = cl[c].made /\ new.registered = TRUE
        /\ new.destroyed = cl[c].destroyed /\ new.nick = n /\ new.account = cl[c].account
        /\ new.sessions = cl[c].sessions /\ new.alwaysOn = cl[c].alwaysOn
    <2>1. PICK x : x = [cl[c] EXCEPT !.nick = n]
      OBVIOUS
    <2>2. PICK y : y = [x EXCEPT !.registered = TRUE]
      OBVIOUS
    <2>3. new = [y EXCEPT !.timer = FALSE]
      BY <1>d, <2>1, <2>2
    <2>4. /\ x \in ClientRecord /\ x.nick = n /\ x.made = cl[c].made /\ x.destroyed = cl[c].destroyed
          /\ x.account = cl[c].account /\ x.sessions = cl[c].sessions /\ x.alwaysOn = cl[c].alwaysOn
      BY <1>1, <2>1 DEF ClientsType, ClientRecord
    <2>5. /\ y \in ClientRecord /\ y.nick = n /\ y.made = cl[c].made /\ y.destroyed = cl[c].destroyed
          /\ y.account = cl[c].account /\ y.sessions = cl[c].sessions /\ y.alwaysOn = cl[c].alwaysOn
          /\ y.registered = TRUE
      BY <2>2, <2>4 DEF ClientRecord
    <2> QED
      BY <2>3, <2>5 DEF ClientRecord
  <1>f. cl' = [cl EXCEPT ![c] = new]
    BY <1>a, <1>d, <1>1 DEF TakeNick, ClientsType
  <1>g. cl' \in [ClientIds -> ClientRecord] /\ cl'[c] = new /\ \A d \in ClientIds \ {c} : cl'[d] = cl[d]
    BY <1>1, <1>e, <1>f, ClientSet
  <1>h. /\ Moved(t)
        /\ t[2] = "other" => th'[t].at = "rest"
        /\ t[2] = "run" => th'[t].at \in {"run", "count"}
    <2>1. PICK q \in {Rest, Running, [at |-> "count"]} :
            /\ th' = [th EXCEPT ![t] = q]
            /\ t[2] = "other" => q = Rest
            /\ t[2] = "run" => q \in {Running, [at |-> "count"]}
      BY <1>a DEF TakeNick
    <2>2. Moved(t) /\ th'[t] = q
      BY <2>1, <1>1, MovedTo
    <2> QED
      BY <2>1, <2>2 DEF Rest, Running
  <1>i. /\ UNCHANGED <<ses, limiter, stats, alwaysOnSetting, outside>>
        /\ ghost' \in Ghosts /\ ghost'.orphans = ghost.orphans
        /\ \A d \in ClientIds \ {c} : d \in ghost'.stale <=> d \in ghost.stale
        /\ c \notin ghost'.stale => th[t].account = cl[c].account
    <2>1. PICK w : w = IF th[t].account # cl[c].account THEN ghost.stale \cup {c} ELSE ghost.stale \ {c}
      OBVIOUS
    <2>2. ghost' = [ghost EXCEPT !.stale = w]
      BY <2>1, <1>a DEF TakeNick
    <2>3. w \in SUBSET ClientIds /\ (c \notin w => th[t].account = cl[c].account)
          /\ (\A d \in ClientIds \ {c} : d \in w <=> d \in ghost.stale)
      BY <2>1, <1>1 DEF ClientsType, Ghosts
    <2>4. ghost' \in Ghosts /\ ghost'.orphans = ghost.orphans /\ ghost'.stale = w
      BY <2>2, <2>3, <1>1 DEF ClientsType, Ghosts
    <2> QED
      BY <2>3, <2>4 DEF TakeNick
  <1>j. /\ byNick' \in [Nicks -> ClientIds \cup {None}]
        /\ byNick'[n] = c
        /\ \A m \in Nicks \ {n} : byNick'[m] = IF byNick[m] = c THEN None ELSE byNick[m]
    <2>1. byNick' = MoveEntry(byNick, cl[c].nick, n, c)
      BY <1>a DEF TakeNick
    <2>2. byNick \in [Nicks -> ClientIds \cup {None}]
      BY <1>1 DEF ClientsType
    <2>3. /\ byNick' = [k \in Nicks |-> byNick'[k]]
          /\ \A k \in Nicks : byNick'[k] = IF k = n THEN c
                              ELSE IF k = cl[c].nick /\ byNick[k] = c THEN None ELSE byNick[k]
      BY <2>1, <2>2 DEF MoveEntry, RemoveEntry
    <2>4. \A m \in Nicks : byNick[m] = c => cl[c].nick = m
      BY <1>1, <1>c DEF NickInv, NickMapsAgree
    <2>5. \A k \in Nicks : byNick'[k] \in ClientIds \cup {None}
      BY <2>2, <2>3
    <2> QED
      BY <2>3, <2>4, <2>5
  <1>k. /\ bySkeleton' \in [Skeletons -> ClientIds \cup {None}]
        /\ bySkeleton'[Skeleton[n]] = c
        /\ \A k \in Skeletons \ {Skeleton[n]} :
             bySkeleton'[k] = IF bySkeleton[k] = c THEN None ELSE bySkeleton[k]
    <2>1. PICK old : /\ old = IF cl[c].nick = None THEN None ELSE Skeleton[cl[c].nick]
                     /\ bySkeleton' = MoveEntry(bySkeleton, old, Skeleton[n], c)
      BY <1>a DEF TakeNick
    <2>2. bySkeleton \in [Skeletons -> ClientIds \cup {None}]
      BY <1>1 DEF ClientsType
    <2>3. /\ bySkeleton' = [k \in Skeletons |-> bySkeleton'[k]]
          /\ \A k \in Skeletons : bySkeleton'[k] = IF k = Skeleton[n] THEN c
                              ELSE IF k = old /\ bySkeleton[k] = c THEN None ELSE bySkeleton[k]
      BY <2>1, <2>2, <1>c DEF MoveEntry, RemoveEntry
    <2>4. \A k \in Skeletons : bySkeleton[k] = c => old = k
      <3> SUFFICES ASSUME NEW k \in Skeletons, bySkeleton[k] = c PROVE old = k
        OBVIOUS
      <3>1. cl[c].registered /\ Skeleton[cl[c].nick] = k
        BY <1>1, <1>c DEF NickInv, NickMapsAgree
      <3>2. cl[c].nick # None
        BY <3>1, <1>1, ClientsAssumption DEF ClientInv
      <3> QED
        BY <3>1, <3>2, <2>1
    <2>5. \A k \in Skeletons : bySkeleton'[k] \in ClientIds \cup {None}
      BY <2>2, <2>3
    <2> QED
      BY <2>3, <2>4, <2>5, <1>c
  <1>2. ClientsType'
    BY <1>1, <1>g, <1>h, <1>i, <1>j, <1>k DEF ClientsType, Moved
  <1>3. \A d \in ClientIds : /\ cl'[d].made = cl[d].made
                             /\ cl[d].registered => cl'[d].registered
                             /\ cl'[d].destroyed = cl[d].destroyed /\ cl'[d].account = cl[d].account
                             /\ cl'[d].sessions = cl[d].sessions /\ cl'[d].alwaysOn = cl[d].alwaysOn
    BY <1>e, <1>g
  <1>l. ClientsKept /\ NoneMade /\ SessionsKept /\ Onward(t)
    <2>1. ClientsKept
      BY <1>e, <1>g DEF ClientsKept
    <2>2. NoneMade /\ SessionsKept
      BY <1>b, <1>g, <1>i DEF NoneMade, SessionsKept
    <2>3. Onward(t)
      BY <1>b, <1>h DEF Onward, Serving
    <2> QED
      BY <2>1, <2>2, <2>3
  <1>4. ThreadInv'
    <2>1. ASSUME NEW u \in Threads \ {t}, th[u].at = "setnick", ~th[u].registered
          PROVE  ~cl'[th[u].c].registered
      <3>1. SetNickOK(u) /\ th[u].c \in ClientIds /\ (u[2] = "run" => u = <<u[1], "run">>)
            /\ (~cl[th[u].c].registered => u[2] = "run" /\ th[u].c = u[1])
        BY <2>1, SetNickStart
      <3>2. ~cl[th[u].c].registered
        BY <3>1, <2>1 DEF SetNickOK
      <3>3. u = <<th[u].c, "run">>
        BY <3>1, <3>2
      <3>4. th[u].c # c
        BY <3>2, <3>3, <1>b, <2>1
      <3> QED
        BY <3>1, <3>2, <3>4, <1>g
    <2>2. ThreadOK(t)'
      BY <1>b, <1>h DEF ThreadOK, Serving, Destroying
    <2>3. \A s \in Conns : <<s, "run">> # t => ses'[s].client = ses[s].client
      BY <1>i
    <2> QED
      BY <1>1, <1>h, <1>l, <2>1, <2>2, <2>3, ThreadFrame
  <1>5. SessionInv'
    BY <1>1, <1>h, <1>l, SessionFrame
  <1>6. ClientInv'
    <2>1. ClientInv!(c)'
      BY <1>1, <1>b, <1>e, <1>g DEF ClientInv
    <2>2. \A d \in ClientIds \ {c} : ClientInv!(d)'
      BY <1>1, <1>g DEF ClientInv
    <2> QED
      BY <2>1, <2>2 DEF ClientInv
  <1>7. AttachedInv'
    BY <1>1, <1>3, <1>h, <1>l, AttachedFrame
  <1>8. NickInv'
    <2>0. /\ \A m \in Nicks : byNick[m] # None =>
               /\ byNick[m] \in ClientIds /\ cl[byNick[m]].nick = m
               /\ bySkeleton[Skeleton[m]] = byNick[m] /\ Skeleton[m] \in Skeletons
          /\ \A k \in Skeletons : bySkeleton[k] # None =>
               LET d == bySkeleton[k]
               IN /\ d \in ClientIds /\ cl[d].registered /\ cl[d].nick \in Nicks
                  /\ Skeleton[cl[d].nick] = k /\ byNick[cl[d].nick] = d
          /\ \A d \in ClientIds : cl[d].registered /\ ~cl[d].destroyed =>
               byNick[cl[d].nick] = d /\ cl[d].nick \in Nicks
      BY <1>1 DEF NickInv, NickMapsAgree, ClientsType, ClientInv, Skeletons
    <2>1. ASSUME NEW m \in Nicks, byNick'[m] # None
          PROVE  cl'[byNick'[m]].nick = m /\ bySkeleton'[Skeleton[m]] = byNick'[m]
      <3>1. CASE m = n
        BY <3>1, <1>e, <1>g, <1>j, <1>k
      <3>2. CASE m # n
        <4>1. byNick'[m] = byNick[m] /\ byNick[m] # c /\ byNick[m] # None
          BY <3>2, <2>1, <1>j
        <4>2. byNick[m] \in ClientIds /\ cl[byNick[m]].nick = m
              /\ bySkeleton[Skeleton[m]] = byNick[m] /\ Skeleton[m] \in Skeletons
          BY <4>1, <2>0
        <4>3. Skeleton[m] # Skeleton[n]
          BY <4>1, <4>2, <1>c
        <4>4. bySkeleton'[Skeleton[m]] = byNick[m]
          BY <4>1, <4>2, <4>3, <1>k
        <4> QED
          BY <4>1, <4>2, <4>4, <1>g
      <3> QED
        BY <3>1, <3>2
    <2>2. ASSUME NEW k \in Skeletons, bySkeleton'[k] # None
          PROVE  /\ Skeleton[cl'[bySkeleton'[k]].nick] = k /\ byNick'[cl'[bySkeleton'[k]].nick] = bySkeleton'[k]
                 /\ cl'[bySkeleton'[k]].registered
      <3>1. CASE k = Skeleton[n]
        BY <3>1, <1>e, <1>g, <1>j, <1>k
      <3>2. CASE k # Skeleton[n]
        <4>1. bySkeleton'[k] = bySkeleton[k] /\ bySkeleton[k] # c /\ bySkeleton[k] # None
          BY <3>2, <2>2, <1>k
        <4>2. PICK d \in ClientIds : /\ d = bySkeleton[k] /\ cl[d].registered /\ cl[d].nick \in Nicks
                                     /\ Skeleton[cl[d].nick] = k /\ byNick[cl[d].nick] = d
          BY <4>1, <2>0
        <4>3. cl'[d] = cl[d] /\ cl[d].nick # n
          BY <4>1, <4>2, <3>2, <1>g
        <4>4. byNick'[cl[d].nick] = d
          BY <4>1, <4>2, <4>3, <1>j
        <4> QED
          BY <4>1, <4>2, <4>3, <4>4
      <3> QED
        BY <3>1, <3>2
    <2>3. ASSUME NEW d \in ClientIds, cl'[d].registered, ~cl'[d].destroyed PROVE byNick'[cl'[d].nick] = d
      <3>1. CASE d = c
        BY <3>1, <1>e, <1>g, <1>j
      <3>2. CASE d # c
        <4>1. cl'[d] = cl[d] /\ byNick[cl[d].nick] = d /\ cl[d].nick \in Nicks
          BY <3>2, <2>3, <2>0, <1>g
        <4>2. d # None
          BY ClientsAssumption DEF ClientIds
        <4>3. cl[d].nick # n
          BY <4>1, <4>2, <1>c
        <4> QED
          BY <4>1, <4>3, <3>2, <1>j
      <3> QED
        BY <3>1, <3>2
    <2> QED
      BY <2>1, <2>2, <2>3 DEF NickInv, NickMapsAgree
  <1>9. ForgetInv'
    <2> SUFFICES ASSUME NEW m \in Nicks, byNick'[m] # None, cl'[byNick'[m]].destroyed
                 PROVE  \E u \in Threads : Forgetting(u)' /\ th'[u].c = byNick'[m]
      BY DEF ForgetInv, Forgetting
    <2>1. m # n
      BY <1>j, <1>g, <1>e, <1>c
    <2>2. byNick'[m] = byNick[m] /\ byNick[m] # None /\ byNick[m] \in ClientIds
      BY <2>1, <1>1, <1>j DEF ClientsType
    <2>3. PICK u \in Threads : Forgetting(u) /\ th[u].c = byNick[m]
      BY <2>2, <1>1, <1>3 DEF ForgetInv, Forgetting
    <2>4. u # t
      BY <2>3 DEF Forgetting
    <2> QED
      BY <2>2, <2>3, <2>4, <1>h DEF Moved, Forgetting
  <1>10. OrphanInv'
    <2>1. \A d \in ClientIds :
             cl'[d].registered /\ ~cl'[d].destroyed /\ cl'[d].sessions = {} /\ ~cl'[d].alwaysOn =>
             \/ d \in ghost'.orphans
             \/ th'[t].at = "condemn" /\ th'[t].c = d
             \/ t[2] = "run" /\ th'[t].at \in Serving /\ ses'[t[1]].client = d
             \/ /\ cl[d].registered /\ ~cl[d].destroyed /\ cl[d].sessions = {} /\ ~cl[d].alwaysOn
                /\ ~(th[t].at = "condemn" /\ th[t].c = d)
                /\ ~(t[2] = "run" /\ th[t].at \in Serving /\ ses[t[1]].client = d)
      <3> SUFFICES ASSUME NEW d \in ClientIds, cl'[d].registered, ~cl'[d].destroyed, cl'[d].sessions = {},
                          ~cl'[d].alwaysOn
                   PROVE  <2>1!(d)!2
        OBVIOUS
      <3>1. cl[d].registered /\ ~cl[d].destroyed /\ cl[d].sessions = {} /\ ~cl[d].alwaysOn
        BY <1>1, <1>3, <1>b, <1>g DEF ClientInv
      <3>2. t[2] = "run" => th'[t].at \in Serving /\ ses'[t[1]].client = ses[t[1]].client
        BY <1>h, <1>i DEF Serving
      <3> QED
        BY <3>1, <3>2
    <2>2. ghost.orphans \subseteq ghost'.orphans
      BY <1>i
    <2> QED
      BY <1>1, <1>h, <1>i, <2>1, <2>2, OrphanFrame
  <1>11. FixupInv'
    <2>2. ForceNickEqualsAccount => \A d \in ClientIds :
           cl'[d].registered /\ cl'[d].alwaysOn /\ ~cl'[d].destroyed /\ cl'[d].nick # Account
           /\ d \notin ghost'.stale =>
              \/ t[2] = "run" /\ AtFixup(t)' /\ ses'[t[1]].client = d
              \/ /\ cl[d].registered /\ cl[d].alwaysOn /\ ~cl[d].destroyed
                 /\ cl[d].nick # Account /\ d \notin ghost.stale
                 /\ ~(t[2] = "run" /\ AtFixup(t) /\ ses[t[1]].client = d)
      <3> SUFFICES ASSUME ForceNickEqualsAccount, NEW d \in ClientIds, cl'[d].registered, cl'[d].alwaysOn,
                          ~cl'[d].destroyed, cl'[d].nick # Account, d \notin ghost'.stale
                   PROVE  <2>2!2!(d)!2
        OBVIOUS
      <3>1. d # c
        <4> SUFFICES ASSUME d = c PROVE FALSE
          OBVIOUS
        <4>1. th[t].account = cl[c].account /\ cl[c].alwaysOn /\ n # Account
          BY <1>e, <1>g, <1>i
        <4>2. cl[c].account # None
          BY <4>1, <1>1 DEF ClientInv
        <4> QED
          BY <4>1, <4>2, <1>a, <1>b DEF SetNickOK
      <3> QED
        BY <3>1, <1>b, <1>g, <1>i
    <2> QED
      BY <1>1, <1>h, <1>i, <2>2, FixupFrame
  <1> QED
    BY <1>2, <1>4, <1>5, <1>6, <1>7, <1>8, <1>9, <1>10, <1>11 DEF CoreInv

(* Two goroutines change: the session's own goes on with the new client,   *)
(* and the one that will destroy the temporary client starts.              *)
LEMMA ReattachKeeps ==
  ASSUME CoreInv, NEW t \in Threads, th[t].at = "setnick",
         byNick[th[t].nick] \notin {None, th[t].c}, CanReattach(th[t], byNick[th[t].nick]),
         Reattach(t, th[t], byNick[th[t].nick])
  PROVE  CoreInv'
  <1>1. /\ ClientsType /\ ThreadInv /\ SessionInv /\ ClientInv /\ AttachedInv
        /\ NickInv /\ ForgetInv /\ OrphanInv /\ FixupInv
    BY DEF CoreInv
  <1>a. PICK h \in ClientIds : h = byNick[th[t].nick]
    BY <1>1, SetNickStart DEF ClientsType
  <1>b. /\ ~th[t].registered /\ ~cl[h].destroyed /\ h # th[t].c
        /\ cl[h].registered /\ cl[h].made
    <2>1. ~th[t].registered /\ ~cl[h].destroyed /\ h # th[t].c
      BY <1>a DEF CanReattach
    <2>2. cl[h].nick = th[t].nick /\ th[t].nick \in Nicks
      BY <1>1, <1>a, SetNickStart, ClientsAssumption DEF NickInv, NickMapsAgree, ClientIds
    <2>3. cl[h].registered
      BY <2>2, <1>1 DEF ClientInv
    <2> QED
      BY <2>1, <2>3, <1>1 DEF ClientInv, NoClient
  <1>c. SetNickOK(t) /\ ~cl[th[t].c].registered
    BY <1>b, SetNickStart DEF SetNickOK
  <1>d. PICK s \in Conns : /\ s = t[1] /\ t = <<s, "run">> /\ s = th[t].s /\ s = th[t].c
                           /\ ses[s].client = s /\ s \in ClientIds /\ cl[s].made /\ ~cl[s].registered
                           /\ th[<<s, "old">>].at = "rest"
    BY <1>b, <1>c, SetNickStart DEF SetNickOK
  <1>o. PICK o \in Threads : o = <<s, "old">> /\ o # t
    BY <1>d, ThreadNames
  <1>p. t = <<s, "run">> /\ o = <<s, "old">>
    BY <1>d, <1>o
  <1>e. /\ ses' = [ses EXCEPT ![s].client = h]
        /\ cl' = [cl EXCEPT ![h].sessions = @ \cup {s}]
        /\ stats' = IF cl[h].sessions = {} THEN StatsAddRegistered ELSE stats
        /\ th' = [th EXCEPT ![t] = Running, ![o] = [at |-> "left", c |-> s]]
        /\ UNCHANGED <<byNick, bySkeleton, limiter, alwaysOnSetting, outside>>
    BY <1>a, <1>d, <1>o DEF Reattach
  <1>f. ghost' \in Ghosts /\ ghost'.orphans = ghost.orphans /\ ghost'.stale = ghost.stale
    <2>1. PICK w \in SUBSET Conns : ghost' = [ghost EXCEPT !.twice = w]
      BY <1>d, <1>1, ZenonT(60) DEF Reattach, ClientsType, Ghosts
    <2> QED
      BY <2>1, <1>1 DEF ClientsType, Ghosts
  <1>g. PICK snew : snew = [ses[s] EXCEPT !.client = h]
    OBVIOUS
  <1>h. snew \in SessionRecord /\ snew.client = h /\ snew.open = ses[s].open
    BY <1>g, <1>1 DEF ClientsType, SessionRecord
  <1>i. ses' \in [Conns -> SessionRecord] /\ ses'[s] = snew /\ \A x \in Conns \ {s} : ses'[x] = ses[x]
    <2>1. ses' = [ses EXCEPT ![s] = snew]
      BY <1>e, <1>g
    <2> QED
      BY <2>1, <1>h, <1>1 DEF ClientsType
  <1>j. PICK new : new = [cl[h] EXCEPT !.sessions = @ \cup {s}]
    OBVIOUS
  <1>k. /\ new \in ClientRecord /\ new.made = cl[h].made /\ new.registered = cl[h].registered
        /\ new.destroyed = cl[h].destroyed /\ new.nick = cl[h].nick /\ new.account = cl[h].account
        /\ new.sessions = cl[h].sessions \cup {s} /\ new.alwaysOn = cl[h].alwaysOn
    BY <1>1, <1>j DEF ClientsType, ClientRecord
  <1>l. cl' \in [ClientIds -> ClientRecord] /\ cl'[h] = new /\ \A d \in ClientIds \ {h} : cl'[d] = cl[d]
    <2>1. cl' = [cl EXCEPT ![h] = new]
      BY <1>e, <1>j
    <2> QED
      BY <2>1, <1>1, <1>k, ClientSet
  <1>m. /\ th' = [u \in Threads |-> th'[u]] /\ th'[t] = Running /\ th'[o] = [at |-> "left", c |-> s]
        /\ \A u \in Threads \ {t, o} : th'[u] = th[u]
    BY <1>e, <1>o, <1>1 DEF ClientsType
  <1>n. th'[t].at = "run" /\ th'[o].at = "left" /\ th'[o].c = s
    BY <1>m DEF Running
  <1>2. ClientsType'
    <2>1. stats' \in [unknown : Int, total : Int]
      BY <1>e, <1>1 DEF StatsAddRegistered, ClientsType
    <2> QED
      BY <2>1, <1>1, <1>e, <1>f, <1>i, <1>l, <1>m DEF ClientsType
  <1>3. \A d \in ClientIds : /\ cl'[d].made = cl[d].made /\ cl'[d].registered = cl[d].registered
                             /\ cl'[d].destroyed = cl[d].destroyed /\ cl'[d].nick = cl[d].nick
                             /\ cl'[d].account = cl[d].account /\ cl'[d].alwaysOn = cl[d].alwaysOn
                             /\ cl[d].sessions \subseteq cl'[d].sessions
                             /\ d # h => cl'[d] = cl[d]
    BY <1>k, <1>l
  <1>4. ThreadInv'
    <2>0. t[2] = "run"
      BY <1>p
    <2>1. ThreadOK(t)'
      BY <2>0, <1>n DEF ThreadOK, Serving, Destroying
    <2>2. ThreadOK(o)'
      BY <1>d, <1>o, <1>n, <1>3 DEF ThreadOK, DestroyOK, Destroying
    <2>3. ASSUME NEW u \in Threads \ {t, o} PROVE ThreadOK(u)'
      <3>1. th'[u] = th[u] /\ ThreadOK(u)
        BY <1>m, <1>1 DEF ThreadInv
      <3>2. u[2] \in {"run", "old", "other"} /\ u = <<u[1], u[2]>> /\ (u[2] # "other" => u[1] \in Conns)
        BY ThreadNames
      <3>3. u[2] = "run" => u[1] # s /\ ses'[u[1]] = ses[u[1]]
        BY <3>2, <1>d, <1>i
      <3>4. ASSUME th[u].at = "setnick" PROVE SetNickOK(u)'
        <4>1. SetNickOK(u) /\ u[2] \in {"run", "other"} /\ th[u].c \in ClientIds
          BY <3>4, SetNickStart
        <4>2. ASSUME ~th[u].registered PROVE th'[<<u[1], "old">>].at = "rest"
          <5>1. th[<<u[1], "old">>].at = "rest" /\ u[2] = "run"
            BY <4>1, <4>2 DEF SetNickOK
          <5>2. <<u[1], "old">> \in Threads /\ <<u[1], "old">> # o /\ <<u[1], "old">> # t
            BY <5>1, <3>2, <3>3, <1>o, <1>d, ThreadNames
          <5> QED
            BY <5>1, <5>2, <1>m
        <4> QED
          BY <4>1, <4>2, <3>1, <3>3, <1>3 DEF SetNickOK
      <3>5. ASSUME th[u].at \in {"left", "condemn"} \cup Destroying PROVE DestroyOK(u)'
        BY <3>1, <3>5, <1>3 DEF ThreadOK, DestroyOK
      <3>6. ASSUME th[u].at = "fixup" PROVE cl'[ses'[u[1]].client].registered
        <4>1. u[2] = "run" /\ u[1] \in Conns /\ u = <<u[1], "run">>
          BY <3>1, <3>2, <3>6 DEF ThreadOK, Destroying
        <4>2. ses[u[1]].client \in ClientIds
          BY <4>1, <3>6, <1>1 DEF SessionInv, Alive, Serving
        <4> QED
          BY <4>1, <4>2, <3>1, <3>3, <3>6, <1>3 DEF ThreadOK
      <3> QED
        BY <3>1, <3>4, <3>5, <3>6 DEF ThreadOK
    <2> QED
      BY <2>1, <2>2, <2>3 DEF ThreadInv
  <1>5. SessionInv'
    <2> SUFFICES ASSUME NEW x \in Conns PROVE SessionInv!(x)'
      BY DEF SessionInv
    <2>1. CASE x = s
      <3>1. th'[<<s, "run">>].at = "run" /\ ses'[s].client = h /\ h # None /\ h \in ClientIds
        BY <1>d, <1>h, <1>i, <1>n, ClientsAssumption DEF ClientIds
      <3>2. cl'[h].made /\ cl'[h].registered
        BY <1>b, <1>3
      <3> QED
        BY <2>1, <3>1, <3>2
    <2>2. CASE x # s
      <3>1. <<x, "run">> \in Threads \ {t, o} /\ <<x, "old">> \in Threads \ {t, o}
        BY <2>2, <1>p, ThreadNames
      <3>2. th'[<<x, "run">>] = th[<<x, "run">>] /\ th'[<<x, "old">>] = th[<<x, "old">>] /\ ses'[x] = ses[x]
        BY <3>1, <2>2, <1>i, <1>m
      <3>3. SessionInv!(x) /\ x \in ClientIds /\ ses[x].client \in ClientIds \cup {None} /\ ~NoClient.made
        BY <1>1 DEF SessionInv, ClientIds, ClientsType, SessionRecord, NoClient
      <3>4. cl[x] = NoClient => x # h
        BY <3>3, <1>b
      <3> QED
        BY <3>2, <3>3, <3>4, <1>3 DEF Alive
    <2> QED
      BY <2>1, <2>2
  <1>6. ClientInv'
    <2>1. ClientInv!(h)'
      BY <1>1, <1>b, <1>k, <1>l DEF ClientInv
    <2>2. \A d \in ClientIds \ {h} : ClientInv!(d)'
      BY <1>1, <1>l DEF ClientInv
    <2> QED
      BY <2>1, <2>2 DEF ClientInv
  <1>7. AttachedInv'
    <2> SUFFICES ASSUME NEW x \in Conns, ses'[x].open PROVE AttachedInv!(x)!2'
      BY DEF AttachedInv
    <2>1. CASE x = s
      BY <2>1, <1>h, <1>i, <1>k, <1>l
    <2>2. CASE x # s
      <3>1. ses'[x] = ses[x] /\ ses[x].client \in ClientIds
        BY <2>2, <1>i, <1>1 DEF SessionInv, ClientsType, SessionRecord
      <3>2. CASE x \in cl[ses[x].client].sessions
        BY <3>1, <3>2, <1>3
      <3>3. ASSUME NEW u \in Threads, th[u].at = "sessions" /\ th[u].c = ses[x].client /\ x \in th[u].todo
            PROVE  AttachedInv!(x)!2'
        <4>1. th'[u] = th[u]
          BY <3>3, <1>d, <1>o, <1>m
        <4> QED
          BY <4>1, <3>1, <3>3
      <3> QED
        BY <3>1, <3>2, <3>3, <1>1 DEF AttachedInv
    <2> QED
      BY <2>1, <2>2
  <1>8. NickInv'
    BY <1>1, <1>e, <1>3, NickFrame
  <1>9. ForgetInv'
    <2>0. byNick' = byNick
      BY <1>e
    <2> SUFFICES ASSUME NEW m \in Nicks, byNick[m] # None, cl'[byNick[m]].destroyed
                 PROVE  \E u \in Threads : Forgetting(u)' /\ th'[u].c = byNick[m]
      BY <2>0 DEF ForgetInv, Forgetting
    <2>1. cl[byNick[m]].destroyed
      BY <1>1, <1>3 DEF ClientsType
    <2>2. PICK u \in Threads : Forgetting(u) /\ th[u].c = byNick[m]
      BY <2>1, <1>1 DEF ForgetInv, Forgetting
    <2>3. th'[u] = th[u]
      BY <2>2, <1>d, <1>o, <1>m DEF Forgetting
    <2> QED
      BY <2>2, <2>3 DEF Forgetting
  <1>10. OrphanInv'
    <2> SUFFICES ASSUME NEW d \in ClientIds, cl'[d].registered, ~cl'[d].destroyed,
                        cl'[d].sessions = {}, ~cl'[d].alwaysOn
                 PROVE  OrphanInv!(d)!2'
      BY DEF OrphanInv
    <2>1. d # h /\ d # s /\ cl'[d] = cl[d]
      BY <1>3, <1>d, <1>k, <1>l
    <2>2. OrphanInv!(d)!2
      BY <2>1, <1>1 DEF OrphanInv
    <2>3. ASSUME NEW u \in Threads, th[u].at = "condemn" /\ th[u].c = d PROVE OrphanInv!(d)!2'
      <3>1. th'[u] = th[u]
        BY <2>3, <1>d, <1>o, <1>m
      <3> QED
        BY <3>1, <2>3
    <2>4. ASSUME NEW x \in Conns, Alive(x) /\ ses[x].client = d PROVE OrphanInv!(d)!2'
      <3>1. x # s
        BY <2>1, <2>4, <1>d
      <3>2. <<x, "run">> \in Threads \ {t, o}
        BY <3>1, <1>d, <1>o, ThreadNames
      <3>3. Alive(x)' /\ ses'[x].client = d
        BY <3>1, <3>2, <2>4, <1>i, <1>m DEF Alive
      <3> QED
        BY <3>3
    <2> QED
      BY <2>2, <2>3, <2>4, <1>f
  <1>11. FixupInv'
    <2> SUFFICES ASSUME ForceNickEqualsAccount, NEW d \in ClientIds, IsAlwaysOn(d)', ~cl'[d].destroyed,
                        cl'[d].nick # Account, d \notin ghost'.stale
                 PROVE  \E x \in Conns : ses'[x].client = d /\ AtFixup(<<x, "run">>)'
      BY DEF FixupInv, AtFixup
    <2>1. IsAlwaysOn(d) /\ ~cl[d].destroyed /\ cl[d].nick # Account /\ d \notin ghost.stale
      BY <1>3, <1>f DEF IsAlwaysOn
    <2>2. PICK x \in Conns : ses[x].client = d /\ AtFixup(<<x, "run">>)
      BY <2>1, <1>1 DEF FixupInv, AtFixup
    <2>3. x # s
      BY <2>1, <2>2, <1>d DEF IsAlwaysOn
    <2>4. <<x, "run">> \in Threads \ {t, o}
      BY <2>3, <1>p, ThreadNames
    <2>5. AtFixup(<<x, "run">>)' /\ ses'[x].client = d
      BY <2>2, <2>3, <2>4, <1>i, <1>m DEF AtFixup
    <2> QED
      BY <2>5
  <1> QED
    BY <1>2, <1>4, <1>5, <1>6, <1>7, <1>8, <1>9, <1>10, <1>11 DEF CoreInv

(* The critical section of SetNick.                                        *)
LEMMA SetNickKeeps ==
  ASSUME CoreInv, NEW t \in Threads, SetNick(t)
  PROVE  CoreInv'
  <1>1. th[t].at = "setnick"
    BY DEF SetNick
  <1>2. CASE SetNickFailed(t, th[t])
    BY <1>1, <1>2, SetNickFailedKeeps
  <1>3. CASE /\ byNick[th[t].nick] \notin {None, th[t].c} /\ CanReattach(th[t], byNick[th[t].nick])
             /\ Reattach(t, th[t], byNick[th[t].nick])
    BY <1>1, <1>3, ReattachKeeps
  <1>4. CASE /\ byNick[th[t].nick] = th[t].c /\ Resumed(t)
             /\ UNCHANGED <<cl, ses, byNick, bySkeleton, limiter, stats, alwaysOnSetting, outside, ghost>>
    BY <1>1, <1>4, SetNickSameKeeps
  <1>5. CASE /\ byNick[th[t].nick] = None /\ bySkeleton[Skeleton[th[t].nick]] \in {None, th[t].c}
             /\ ~cl[th[t].c].destroyed /\ TakeNick(t, th[t])
    BY <1>1, <1>5, TakeNickKeeps
  <1> QED
    BY <1>2, <1>3, <1>4, <1>5 DEF SetNick, Resumed

-----------------------------------------------------------------------------
(* Destroying a client. *)

(* The critical section of destroy in facts about the client: it dies when *)
(* its last session goes and nothing keeps it.                             *)
DestroyEffect(t, c, s, todo, die, decrement, new) ==
  /\ todo = SessionsToDestroy(c, s) /\ todo \subseteq cl[c].sessions
  /\ cl' = [cl EXCEPT ![c] = new]
  /\ new.made = cl[c].made /\ new.registered = cl[c].registered /\ new.nick = cl[c].nick
  /\ new.account = cl[c].account
  /\ new.sessions = cl[c].sessions \ todo
  /\ new.destroyed <=> cl[c].destroyed \/ die
  /\ new.alwaysOn => cl[c].alwaysOn
  /\ die <=> ~cl[c].destroyed /\ new.sessions = {} /\ ~(cl[c].registered /\ new.alwaysOn)
  /\ decrement <=> die \/ (cl[c].registered /\ new.alwaysOn /\ todo # {} /\ new.sessions = {})
  /\ th' = [th EXCEPT ![t] = [at |-> "sessions", c |-> c, todo |-> todo,
                              registered |-> cl[c].registered,
                              decrement |-> decrement, die |-> die]]
  /\ ghost' = [ghost EXCEPT !.uncounted =
                 IF die /\ cl[c].registered /\ todo = {} THEN @ + 1 ELSE @]

(* Destroy has that effect.                                                *)
LEMMA DestroyFacts ==
  ASSUME ClientsType, NEW t \in Threads, NEW c \in ClientIds, NEW s \in Conns \cup {None},
         NEW expired \in BOOLEAN, Destroy(t, c, s, expired)
  PROVE  \E todo \in SUBSET Conns, die \in BOOLEAN, decrement \in BOOLEAN, new \in ClientRecord :
           DestroyEffect(t, c, s, todo, die, decrement, new)
  <1> DEFINE todo == SessionsToDestroy(c, s)
             hitExpiry == expired /\ s = None /\ IsAlwaysOn(c)
             alwaysOn == IsAlwaysOn(c) /\ ~hitExpiry
             die == ShouldDestroy(c, todo, alwaysOn)
             decrement == die \/ (alwaysOn /\ todo # {} /\ cl[c].sessions \ todo = {})
             x == [cl[c] EXCEPT !.sessions = cl[c].sessions \ todo]
             y == [x EXCEPT !.destroyed = cl[c].destroyed \/ die]
             z == [y EXCEPT !.alwaysOn = cl[c].alwaysOn /\ ~hitExpiry]
             new == [z EXCEPT !.timer = FALSE]
  <1>1. cl[c] \in ClientRecord /\ cl[c].sessions \in SUBSET Conns /\ cl[c].destroyed \in BOOLEAN
        /\ cl[c].alwaysOn \in BOOLEAN /\ cl[c].registered \in BOOLEAN
    BY DEF ClientsType, ClientRecord
  <1>2. todo \in SUBSET Conns /\ todo \subseteq cl[c].sessions
    BY <1>1 DEF SessionsToDestroy
  <1>3. die \in BOOLEAN /\ decrement \in BOOLEAN /\ hitExpiry \in BOOLEAN
    BY <1>1 DEF ShouldDestroy, IsAlwaysOn
  <1>4. /\ th' = [th EXCEPT ![t] = [at |-> "sessions", c |-> c, todo |-> todo,
                                    registered |-> cl[c].registered,
                                    decrement |-> decrement, die |-> die]]
        /\ ghost' = [ghost EXCEPT !.uncounted =
                       IF die /\ cl[c].registered /\ todo = {} THEN @ + 1 ELSE @]
    BY DEF Destroy
  <1>5. cl' = [cl EXCEPT ![c] = new]
    BY DEF Destroy, ClientsType
  <1>6. die <=> ~cl[c].destroyed /\ cl[c].sessions \ todo = {} /\ ~(cl[c].registered /\ cl[c].alwaysOn /\ ~hitExpiry)
    BY DEF ShouldDestroy, IsAlwaysOn
  <1>7. decrement <=> die \/ (cl[c].registered /\ cl[c].alwaysOn /\ ~hitExpiry
                              /\ todo # {} /\ cl[c].sessions \ todo = {})
    BY DEF IsAlwaysOn
  <1> HIDE DEF todo, hitExpiry, alwaysOn, die, decrement
  <1>8. /\ x \in ClientRecord /\ x.made = cl[c].made /\ x.registered = cl[c].registered
        /\ x.nick = cl[c].nick /\ x.account = cl[c].account /\ x.sessions = cl[c].sessions \ todo
    BY <1>1, <1>2 DEF ClientRecord
  <1> HIDE DEF x
  <1>9. /\ y \in ClientRecord /\ y.made = cl[c].made /\ y.registered = cl[c].registered
        /\ y.nick = cl[c].nick /\ y.account = cl[c].account /\ y.sessions = cl[c].sessions \ todo
        /\ y.destroyed <=> cl[c].destroyed \/ die
    BY <1>1, <1>3, <1>8 DEF ClientRecord
  <1> HIDE DEF y
  <1>10. /\ z \in ClientRecord /\ z.made = cl[c].made /\ z.registered = cl[c].registered
         /\ z.nick = cl[c].nick /\ z.account = cl[c].account /\ z.sessions = cl[c].sessions \ todo
         /\ z.destroyed <=> cl[c].destroyed \/ die
         /\ z.alwaysOn <=> cl[c].alwaysOn /\ ~hitExpiry
    BY <1>1, <1>3, <1>9 DEF ClientRecord
  <1> HIDE DEF z
  <1>11. /\ new \in ClientRecord /\ new.made = cl[c].made /\ new.registered = cl[c].registered
         /\ new.nick = cl[c].nick /\ new.account = cl[c].account /\ new.sessions = cl[c].sessions \ todo
         /\ new.destroyed <=> cl[c].destroyed \/ die
         /\ new.alwaysOn <=> cl[c].alwaysOn /\ ~hitExpiry
    BY <1>10 DEF ClientRecord
  <1> HIDE DEF new
  <1>12. todo = SessionsToDestroy(c, s)
    BY DEF todo
  <1> USE <1>2, <1>3, <1>11
  <1> WITNESS todo \in SUBSET Conns, die \in BOOLEAN, decrement \in BOOLEAN, new \in ClientRecord
  <1> QED
    BY <1>2, <1>4, <1>5, <1>6, <1>7, <1>11, <1>12 DEF DestroyEffect

(* Who calls destroy, and for which client.                                *)
Destroys(t, c) ==
  /\ th[t].at \in {"run", "left", "condemn"} /\ cl[c].made
  /\ th[t].at = "run" => t[2] = "run" /\ ses[t[1]].client = c
  /\ th[t].at \in {"left", "condemn"} => th[t].c = c
  /\ t[2] = "old" => th[t].at = "left"

(* The critical section of destroy.                                        *)
LEMMA DestroyKeeps ==
  ASSUME CoreInv, NEW t \in Threads, NEW c \in ClientIds, NEW s \in Conns \cup {None},
         NEW expired \in BOOLEAN, Destroy(t, c, s, expired), Destroys(t, c)
  PROVE  CoreInv'
  <1>1. /\ ClientsType /\ ThreadInv /\ SessionInv /\ ClientInv /\ AttachedInv
        /\ NickInv /\ ForgetInv /\ OrphanInv /\ FixupInv
    BY DEF CoreInv
  <1>a. PICK todo \in SUBSET Conns, die \in BOOLEAN, decrement \in BOOLEAN, new \in ClientRecord :
          DestroyEffect(t, c, s, todo, die, decrement, new)
    BY <1>1, DestroyFacts
  <1>b. /\ todo \subseteq cl[c].sessions
        /\ new.made = cl[c].made /\ new.registered = cl[c].registered /\ new.nick = cl[c].nick
        /\ new.account = cl[c].account
        /\ new.sessions = cl[c].sessions \ todo
        /\ new.destroyed <=> cl[c].destroyed \/ die
        /\ new.alwaysOn => cl[c].alwaysOn
        /\ die <=> ~cl[c].destroyed /\ new.sessions = {} /\ ~(cl[c].registered /\ new.alwaysOn)
    BY <1>a DEF DestroyEffect
  <1>c. cl' \in [ClientIds -> ClientRecord] /\ cl'[c] = new /\ \A d \in ClientIds \ {c} : cl'[d] = cl[d]
    BY <1>1, <1>a, ClientSet DEF DestroyEffect
  <1>d. Moved(t) /\ th'[t] = [at |-> "sessions", c |-> c, todo |-> todo, registered |-> cl[c].registered,
                              decrement |-> decrement, die |-> die]
    BY <1>1, <1>a, MovedTo DEF DestroyEffect
  <1>e. /\ th'[t].at = "sessions" /\ th'[t].c = c /\ th'[t].todo = todo /\ th'[t].die = die
        /\ th'[t] \in [at : {"sessions"}, c : ClientIds, todo : SUBSET Conns, registered : BOOLEAN,
                       decrement : BOOLEAN, die : BOOLEAN]
    <2>1. cl[c].registered \in BOOLEAN
      BY <1>1 DEF ClientsType, ClientRecord
    <2> QED
      BY <1>d, <2>1
  <1>f. UNCHANGED <<ses, byNick, bySkeleton, limiter, stats, alwaysOnSetting, outside>>
    BY DEF Destroy
  <1>g. ghost' \in Ghosts /\ ghost'.orphans = ghost.orphans /\ ghost'.stale = ghost.stale
    <2>1. PICK w : w = IF die /\ cl[c].registered /\ todo = {} THEN ghost.uncounted + 1 ELSE ghost.uncounted
      OBVIOUS
    <2>2. ghost' = [ghost EXCEPT !.uncounted = w] /\ w \in Nat
      BY <2>1, <1>a, <1>1 DEF DestroyEffect, ClientsType, Ghosts
    <2> QED
      BY <2>2, <1>1 DEF ClientsType, Ghosts
  <1>2. ClientsType'
    BY <1>1, <1>c, <1>d, <1>f, <1>g DEF ClientsType, Moved
  <1>3. \A d \in ClientIds : /\ cl'[d].made = cl[d].made /\ cl'[d].registered = cl[d].registered
                             /\ cl[d].destroyed => cl'[d].destroyed
                             /\ cl'[d].nick = cl[d].nick
                             /\ cl'[d].account = cl[d].account
                             /\ cl'[d].alwaysOn => cl[d].alwaysOn
                             /\ d # c => cl'[d] = cl[d]
    BY <1>b, <1>c
  <1>k. ClientsKept /\ NoneMade /\ SessionsKept /\ Onward(t)
    <2>1. ClientsKept
      BY <1>3 DEF ClientsKept
    <2>2. NoneMade /\ SessionsKept
      BY <1>3, <1>f DEF NoneMade, SessionsKept, Destroys
    <2>3. Onward(t)
      BY <1>e DEF Onward, Serving, Destroys
    <2> QED
      BY <2>1, <2>2, <2>3
  <1>4. ThreadInv'
    <2>1. \A u \in Threads \ {t} : th[u].at = "setnick" /\ ~th[u].registered => ~cl'[th[u].c].registered
      BY <1>1, <1>3, Uncontested
    <2>2. ThreadOK(t)'
      BY <1>b, <1>c, <1>e, ThreadNames DEF ThreadOK, Destroying, DestroyOK, Destroys
    <2>3. \A x \in Conns : <<x, "run">> # t => ses'[x].client = ses[x].client
      BY <1>f
    <2> QED
      BY <1>1, <1>d, <1>k, <2>1, <2>2, <2>3, ThreadFrame
  <1>5. SessionInv'
    BY <1>1, <1>d, <1>k, SessionFrame
  <1>6. ClientInv'
    <2>1. ClientInv!(c)'
      <3>1. ClientInv!(c) /\ cl[c].made
        BY <1>1 DEF ClientInv, Destroys
      <3> QED
        BY <3>1, <1>b, <1>c
    <2>2. \A d \in ClientIds \ {c} : ClientInv!(d)'
      BY <1>1, <1>c DEF ClientInv
    <2> QED
      BY <2>1, <2>2 DEF ClientInv
  <1>7. AttachedInv'
    <2> SUFFICES ASSUME NEW x \in Conns, ses'[x].open PROVE AttachedInv!(x)!2'
      BY DEF AttachedInv
    <2>1. ses'[x] = ses[x] /\ ses[x].client \in ClientIds
      BY <1>f, <1>1 DEF SessionInv, ClientsType, SessionRecord
    <2>2. CASE x \in cl[ses[x].client].sessions /\ ses[x].client = c
      BY <2>1, <2>2, <1>b, <1>c, <1>e
    <2>3. CASE x \in cl[ses[x].client].sessions /\ ses[x].client # c
      BY <2>1, <2>3, <1>c
    <2>4. ASSUME NEW u \in Threads, th[u].at = "sessions" /\ th[u].c = ses[x].client /\ x \in th[u].todo
          PROVE  AttachedInv!(x)!2'
      <3>1. th'[u] = th[u]
        BY <2>4, <1>d DEF Moved, Destroys
      <3> QED
        BY <3>1, <2>4, <2>1
    <2> QED
      BY <2>1, <2>2, <2>3, <2>4, <1>1 DEF AttachedInv
  <1>8. NickInv'
    BY <1>1, <1>3, <1>f, NickFrame
  <1>9. ForgetInv'
    <2>1. ~Forgetting(t)
      BY DEF Forgetting, Destroys
    <2>2. \A d \in ClientIds : cl'[d].destroyed => cl[d].destroyed \/ (Forgetting(t)' /\ th'[t].c = d)
      BY <1>b, <1>c, <1>e DEF Forgetting
    <2> QED
      BY <1>1, <1>d, <1>f, <2>1, <2>2, ForgetFrame
  <1>10. OrphanInv'
    <2>1. \A d \in ClientIds :
             cl'[d].registered /\ ~cl'[d].destroyed /\ cl'[d].sessions = {} /\ ~cl'[d].alwaysOn =>
             \/ d \in ghost'.orphans
             \/ th'[t].at = "condemn" /\ th'[t].c = d
             \/ t[2] = "run" /\ th'[t].at \in Serving /\ ses'[t[1]].client = d
             \/ /\ cl[d].registered /\ ~cl[d].destroyed /\ cl[d].sessions = {} /\ ~cl[d].alwaysOn
                /\ ~(th[t].at = "condemn" /\ th[t].c = d)
                /\ ~(t[2] = "run" /\ th[t].at \in Serving /\ ses[t[1]].client = d)
      <3> SUFFICES ASSUME NEW d \in ClientIds, cl'[d].registered, ~cl'[d].destroyed, cl'[d].sessions = {},
                          ~cl'[d].alwaysOn
                   PROVE  <2>1!(d)!2
        OBVIOUS
      <3>1. d # c
        BY <1>b, <1>c
      <3>2. cl'[d] = cl[d]
        BY <3>1, <1>c
      <3>3. th[t].at \in Serving => th[t].at = "run"
        BY DEF Destroys, Serving
      <3> QED
        BY <3>1, <3>2, <3>3 DEF Destroys
    <2>2. ghost.orphans \subseteq ghost'.orphans
      BY <1>g
    <2> QED
      BY <1>1, <1>d, <1>f, <2>1, <2>2, OrphanFrame
  <1>11. FixupInv'
    <2>1. ~AtFixup(t)
      BY DEF AtFixup, Destroys
    <2>2. ForceNickEqualsAccount => \A d \in ClientIds :
           cl'[d].registered /\ cl'[d].alwaysOn /\ ~cl'[d].destroyed /\ cl'[d].nick # Account
           /\ d \notin ghost'.stale =>
              \/ t[2] = "run" /\ AtFixup(t)' /\ ses'[t[1]].client = d
              \/ /\ cl[d].registered /\ cl[d].alwaysOn /\ ~cl[d].destroyed
                 /\ cl[d].nick # Account /\ d \notin ghost.stale
                 /\ ~(t[2] = "run" /\ AtFixup(t) /\ ses[t[1]].client = d)
      BY <1>3, <1>g, <2>1
    <2> QED
      BY <1>1, <1>d, <1>f, <2>2, FixupFrame
  <1> QED
    BY <1>2, <1>4, <1>5, <1>6, <1>7, <1>8, <1>9, <1>10, <1>11 DEF CoreInv

(* The three places that call destroy.                                     *)
LEMMA DestroyCalls ==
  ASSUME CoreInv, NEW t \in Threads, Leave(t) \/ LeaveOld(t) \/ Execute(t)
  PROVE  \E c \in ClientIds, s \in Conns \cup {None}, expired \in BOOLEAN :
           Destroy(t, c, s, expired) /\ Destroys(t, c)
  <1>0. ClientsType /\ ThreadInv /\ SessionInv
    BY DEF CoreInv
  <1>n. t[2] \in {"run", "old", "other"} /\ t = <<t[1], t[2]>> /\ (t[2] # "other" => t[1] \in Conns)
    BY ThreadNames
  <1>1. CASE Leave(t)
    <2>1. t[2] = "run" /\ th[t].at = "run" /\ t[1] \in Conns /\ t = <<t[1], "run">>
      BY <1>1, <1>n DEF Leave, IsRunning
    <2>2. ClientOf(t) \in ClientIds /\ cl[ClientOf(t)].made /\ ClientOf(t) = ses[t[1]].client
      BY <1>0, <2>1, ClientsAssumption DEF SessionInv, Alive, Serving, ClientOf, ClientIds
    <2>3. Destroys(t, ClientOf(t))
      BY <2>1, <2>2 DEF Destroys
    <2> QED
      BY <1>1, <2>1, <2>2, <2>3 DEF Leave
  <1>2. CASE LeaveOld(t)
    <2>1. th[t].at = "left" /\ t[2] = "old" /\ t[1] \in Conns
      BY <1>0, <1>2, <1>n DEF LeaveOld, ThreadInv, ThreadOK, Serving, Destroying
    <2>2. th[t].c \in ClientIds /\ Destroys(t, th[t].c)
      BY <1>0, <2>1 DEF ThreadInv, ThreadOK, DestroyOK, Destroys
    <2> QED
      BY <1>2, <2>1, <2>2 DEF LeaveOld
  <1>3. CASE Execute(t)
    <2>1. th[t].at = "condemn" /\ t[2] = "other" /\ th[t].s \in Conns \cup {None}
      BY <1>0, <1>3, <1>n DEF Execute, ThreadInv, ThreadOK, Serving, Destroying
    <2>2. th[t].c \in ClientIds /\ Destroys(t, th[t].c)
      BY <1>0, <2>1 DEF ThreadInv, ThreadOK, DestroyOK, Destroys
    <2> QED
      BY <1>3, <2>1, <2>2 DEF Execute
  <1> QED
    BY <1>1, <1>2, <1>3

(* Every call of destroy.                                                  *)
LEMMA DestroyCallsKeep ==
  ASSUME CoreInv, NEW t \in Threads, Leave(t) \/ LeaveOld(t) \/ Execute(t)
  PROVE  CoreInv'
  BY DestroyCalls, DestroyKeeps

(* A destroy that is under way goes on: it changes no client.              *)
LEMMA DestroyGoesOn ==
  ASSUME CoreInv, ClientsType', NEW t \in Threads, Moved(t), th[t].at \in {"sessions", "remove"},
         ThreadOK(t)', th'[t].at \in Destroying \cup {"rest", "done"}, th'[t].at = "rest" => t[2] = "other",
         cl' = cl, ghost' = ghost, SessionsKept
  PROVE  ThreadInv' /\ SessionInv' /\ ClientInv' /\ OrphanInv' /\ FixupInv'
  <1>1. ClientsType /\ ThreadInv /\ SessionInv /\ ClientInv /\ OrphanInv /\ FixupInv
    BY DEF CoreInv
  <1>2. Onward(t)
    BY DEF Onward, Destroying, Serving
  <1>3. ClientsKept /\ NoneMade
    BY DEF ClientsKept, NoneMade
  <1>4. \A s \in Conns : ses'[s].client = ses[s].client
    BY DEF SessionsKept
  <1>5. ThreadInv'
    <2>1. \A u \in Threads \ {t} : th[u].at = "setnick" /\ ~th[u].registered => ~cl'[th[u].c].registered
      BY <1>1, Uncontested
    <2> QED
      BY <1>1, <1>2, <1>3, <1>4, <2>1, ThreadFrame
  <1>6. SessionInv'
    BY <1>1, <1>2, <1>3, SessionFrame
  <1>7. ClientInv'
    BY <1>1 DEF ClientInv
  <1>8. th[t].at \notin Serving /\ th[t].at # "condemn" /\ ~AtFixup(t)
    BY DEF Serving, AtFixup
  <1>9. OrphanInv'
    <2>1. ghost.orphans \subseteq ghost'.orphans
      OBVIOUS
    <2> QED
      BY <1>1, <1>4, <1>8, <2>1, OrphanFrame
  <1>10. FixupInv'
    BY <1>1, <1>4, <1>8, FixupFrame
  <1> QED
    BY <1>5, <1>6, <1>7, <1>9, <1>10

(* destroy closes one session.                                             *)
LEMMA DestroySessionKeeps ==
  ASSUME CoreInv, NEW t \in Threads, DestroySession(t)
  PROVE  CoreInv'
  <1>1. ClientsType /\ ThreadInv /\ SessionInv /\ AttachedInv /\ NickInv /\ ForgetInv
    BY DEF CoreInv
  <1>a. /\ th[t].at = "sessions"
        /\ UNCHANGED <<cl, byNick, bySkeleton, stats, alwaysOnSetting, outside, ghost>>
    BY DEF DestroySession
  <1>b. ThreadOK(t) /\ DestroyOK(t)
    BY <1>1, <1>a DEF ThreadInv, ThreadOK, Destroying
  <1>c. PICK s \in th[t].todo :
          /\ th' = [th EXCEPT ![t].todo = @ \ {s}]
          /\ IF ses[s].client # th[t].c
             THEN UNCHANGED <<ses, limiter>>
             ELSE /\ ses' = [ses EXCEPT ![s].open = FALSE]
                  /\ limiter' = LimiterRemove(limiter, SessionAddr(s))
    BY DEF DestroySession
  <1>d. s \in Conns
    BY <1>a, <1>b DEF DestroyOK
  <1>e. PICK new : new = [th[t] EXCEPT !.todo = @ \ {s}]
    OBVIOUS
  <1>f. /\ new \in [at : {"sessions"}, c : ClientIds, todo : SUBSET Conns, registered : BOOLEAN,
                    decrement : BOOLEAN, die : BOOLEAN]
        /\ new.at = "sessions" /\ new.c = th[t].c /\ new.todo = th[t].todo \ {s} /\ new.die = th[t].die
        /\ new.registered = th[t].registered /\ new.decrement = th[t].decrement
    BY <1>a, <1>b, <1>e DEF DestroyOK
  <1>g. Moved(t) /\ th'[t] = new
    <2>1. th' = [th EXCEPT ![t] = new]
      BY <1>c, <1>e
    <2> QED
      BY <2>1, <1>1, MovedTo
  <1>h. /\ ses' \in [Conns -> SessionRecord] /\ SessionsKept
        /\ ses[s].client = th[t].c => ~ses'[s].open
        /\ limiter' \in [Addrs -> Nat]
    <2>1. CASE ses[s].client # th[t].c
      BY <2>1, <1>1, <1>c DEF ClientsType, SessionsKept
    <2>2. CASE ses[s].client = th[t].c
      <3>1. PICK snew : snew = [ses[s] EXCEPT !.open = FALSE]
        OBVIOUS
      <3>2. snew \in SessionRecord /\ snew.client = ses[s].client /\ ~snew.open
        BY <3>1, <1>1, <1>d DEF ClientsType, SessionRecord
      <3>3. ses' = [ses EXCEPT ![s] = snew]
        BY <3>1, <2>2, <1>c
      <3>4. ses' \in [Conns -> SessionRecord] /\ ses'[s] = snew /\ \A x \in Conns \ {s} : ses'[x] = ses[x]
        BY <3>2, <3>3, <1>1, <1>d DEF ClientsType
      <3>5. ses[s].client # None
        BY <2>2, <1>a, <1>b, ClientsAssumption DEF DestroyOK, ClientIds
      <3>6. limiter' \in [Addrs -> Nat]
        <4>1. limiter' = LimiterRemove(limiter, SessionAddr(s)) /\ SessionAddr(s) \in Addrs
          BY <2>2, <1>c DEF SessionAddr, Addrs
        <4> QED
          BY <4>1, <1>1 DEF LimiterRemove, ClientsType
      <3> QED
        BY <3>2, <3>4, <3>5, <3>6 DEF SessionsKept
    <2> QED
      BY <2>1, <2>2
  <1>2. ClientsType'
    BY <1>1, <1>a, <1>g, <1>h DEF ClientsType, Moved
  <1>3. ThreadOK(t)'
    BY <1>a, <1>b, <1>f, <1>g DEF ThreadOK, DestroyOK, Destroying
  <1>4. ThreadInv' /\ SessionInv' /\ ClientInv' /\ OrphanInv' /\ FixupInv'
    <2>1. th'[t].at \in Destroying /\ th'[t].at # "rest"
      BY <1>f, <1>g DEF Destroying
    <2> QED
      BY <2>1, <1>a, <1>g, <1>h, <1>2, <1>3, DestroyGoesOn
  <1>5. AttachedInv'
    <2> SUFFICES ASSUME NEW x \in Conns, ses'[x].open PROVE AttachedInv!(x)!2'
      BY DEF AttachedInv
    <2>1. ses[x].open /\ ses'[x].client = ses[x].client /\ ses[x].client \in ClientIds
      BY <1>1, <1>h DEF SessionsKept, SessionInv, ClientsType, SessionRecord
    <2>2. CASE x \in cl[ses[x].client].sessions
      BY <2>1, <2>2, <1>a
    <2>3. ASSUME NEW u \in Threads, th[u].at = "sessions" /\ th[u].c = ses[x].client /\ x \in th[u].todo
          PROVE  AttachedInv!(x)!2'
      <3>1. CASE u = t
        <4>1. x # s
          BY <3>1, <2>3, <1>h
        <4>2. th'[t].at = "sessions" /\ th'[t].c = ses'[x].client /\ x \in th'[t].todo
          BY <4>1, <3>1, <2>1, <2>3, <1>f, <1>g
        <4> QED
          BY <4>2
      <3>2. CASE u # t
        BY <3>2, <2>1, <2>3, <1>g DEF Moved
      <3> QED
        BY <3>1, <3>2
    <2> QED
      BY <2>1, <2>2, <2>3, <1>1 DEF AttachedInv
  <1>6. NickInv'
    BY <1>1, <1>a, NickFrame
  <1>7. ForgetInv'
    <2>1. Forgetting(t) => Forgetting(t)' /\ th'[t].c = th[t].c
      BY <1>a, <1>f, <1>g DEF Forgetting
    <2> QED
      BY <1>1, <1>a, <1>g, <2>1, ForgetFrame
  <1> QED
    BY <1>2, <1>4, <1>5, <1>6, <1>7 DEF CoreInv

(* destroy tells the statistics.                                           *)
LEMMA DestroyStatsKeeps ==
  ASSUME CoreInv, NEW t \in Threads, DestroyStats(t)
  PROVE  CoreInv'
  <1>1. ClientsType /\ ThreadInv /\ SessionInv /\ AttachedInv /\ NickInv /\ ForgetInv
    BY DEF CoreInv
  <1>a. /\ th[t].at = "sessions" /\ th[t].todo = {}
        /\ stats' = IF th[t].decrement THEN StatsRemove(th[t].registered) ELSE stats
        /\ th' = [th EXCEPT ![t] = IF th[t].die THEN [at |-> "remove", c |-> th[t].c] ELSE AfterDestroy(t)]
        /\ UNCHANGED <<cl, ses, byNick, bySkeleton, limiter, alwaysOnSetting, outside, ghost>>
    BY DEF DestroyStats
  <1>b. ThreadOK(t) /\ DestroyOK(t) /\ th[t].c \in ClientIds
    BY <1>1, <1>a DEF ThreadInv, ThreadOK, Destroying, DestroyOK
  <1>c. PICK new : new = IF th[t].die THEN [at |-> "remove", c |-> th[t].c] ELSE AfterDestroy(t)
    OBVIOUS
  <1>d. Moved(t) /\ th'[t] = new
    BY <1>1, <1>a, <1>c, MovedTo
  <1>e. /\ th[t].die => th'[t].at = "remove" /\ th'[t].c = th[t].c
                        /\ th'[t] \in [at : {"remove", "logout"}, c : ClientIds]
        /\ ~th[t].die => th'[t].at \in {"rest", "done"} /\ (th'[t].at = "rest" <=> t[2] = "other")
    BY <1>b, <1>c, <1>d DEF AfterDestroy, Rest, Finished
  <1>2. ClientsType'
    <2>1. stats' \in [unknown : Int, total : Int]
      BY <1>a, <1>1 DEF StatsRemove, ClientsType
    <2> QED
      BY <2>1, <1>1, <1>a, <1>d DEF ClientsType, Moved
  <1>3. ThreadOK(t)'
    BY <1>a, <1>b, <1>e, ThreadNames DEF ThreadOK, DestroyOK, Destroying
  <1>f. SessionsKept
    BY <1>a DEF SessionsKept
  <1>4. ThreadInv' /\ SessionInv' /\ ClientInv' /\ OrphanInv' /\ FixupInv'
    <2>1. th'[t].at \in Destroying \cup {"rest", "done"} /\ (th'[t].at = "rest" => t[2] = "other")
      BY <1>e DEF Destroying
    <2> QED
      BY <2>1, <1>a, <1>d, <1>f, <1>2, <1>3, DestroyGoesOn
  <1>5. AttachedInv'
    BY <1>1, <1>a, <1>d, <1>f, AttachedFrame
  <1>6. NickInv'
    BY <1>1, <1>a, NickFrame
  <1>7. ForgetInv'
    <2>1. Forgetting(t) => Forgetting(t)' /\ th'[t].c = th[t].c
      BY <1>a, <1>e DEF Forgetting
    <2> QED
      BY <1>1, <1>a, <1>d, <2>1, ForgetFrame
  <1> QED
    BY <1>2, <1>4, <1>5, <1>6, <1>7 DEF CoreInv

(* ClientManager.Remove: the tables forget the client.                     *)
LEMMA DestroyRemoveKeeps ==
  ASSUME CoreInv, NEW t \in Threads, DestroyRemove(t)
  PROVE  CoreInv'
  <1>1. ClientsType /\ ThreadInv /\ SessionInv /\ AttachedInv /\ NickInv /\ ForgetInv /\ ClientInv
    BY DEF CoreInv
  <1>a. th[t].at = "remove"
    BY DEF DestroyRemove
  <1>b. ThreadOK(t) /\ DestroyOK(t)
    BY <1>1, <1>a DEF ThreadInv, ThreadOK, Destroying
  <1>c. PICK c \in ClientIds : c = th[t].c /\ cl[c].destroyed /\ c # None /\ cl[c].made
    BY <1>a, <1>b, ClientsAssumption DEF DestroyOK, ClientIds
  <1>d. PICK n : n = cl[c].nick
    OBVIOUS
  <1>e. /\ byNick' = RemoveEntry(byNick, n, c)
        /\ bySkeleton' = IF n = None THEN bySkeleton ELSE RemoveEntry(bySkeleton, Skeleton[n], c)
        /\ th' = [th EXCEPT ![t].at = "logout"]
        /\ UNCHANGED <<cl, ses, limiter, stats, alwaysOnSetting, outside, ghost>>
    BY <1>c, <1>d DEF DestroyRemove
  <1>f. PICK new : new = [th[t] EXCEPT !.at = "logout"]
    OBVIOUS
  <1>g. new \in [at : {"remove", "logout"}, c : ClientIds] /\ new.at = "logout" /\ new.c = c
    BY <1>a, <1>b, <1>c, <1>f DEF DestroyOK
  <1>h. Moved(t) /\ th'[t] = new
    <2>1. th' = [th EXCEPT ![t] = new]
      BY <1>e, <1>f
    <2> QED
      BY <2>1, <1>1, MovedTo
  <1>i. /\ byNick' \in [Nicks -> ClientIds \cup {None}]
        /\ \A m \in Nicks : byNick'[m] = IF byNick[m] = c THEN None ELSE byNick[m]
    <2>1. /\ byNick' = [k \in Nicks |-> byNick'[k]]
          /\ \A m \in Nicks : byNick'[m] = IF m = n /\ byNick[m] = c THEN None ELSE byNick[m]
      BY <1>1, <1>e DEF RemoveEntry, ClientsType
    <2>2. \A m \in Nicks : byNick[m] = c => m = n
      BY <1>1, <1>c, <1>d DEF NickInv, NickMapsAgree
    <2>3. \A m \in Nicks : byNick'[m] \in ClientIds \cup {None}
      BY <2>1, <1>1 DEF ClientsType
    <2> QED
      BY <2>1, <2>2, <2>3
  <1>j. /\ bySkeleton' \in [Skeletons -> ClientIds \cup {None}]
        /\ \A k \in Skeletons : bySkeleton'[k] = IF bySkeleton[k] = c THEN None ELSE bySkeleton[k]
    <2>0. \A k \in Skeletons : bySkeleton[k] = c => k = Skeleton[n] /\ n # None
      BY <1>1, <1>c, <1>d, ClientsAssumption DEF NickInv, NickMapsAgree, ClientInv
    <2>1. CASE n = None
      <3>1. bySkeleton' = bySkeleton
        BY <2>1, <1>e
      <3> QED
        BY <3>1, <2>0, <2>1, <1>1 DEF ClientsType
    <2>2. CASE n # None
      <3>1. /\ bySkeleton' = [k \in Skeletons |-> bySkeleton'[k]]
            /\ \A k \in Skeletons :
                 bySkeleton'[k] = IF k = Skeleton[n] /\ bySkeleton[k] = c THEN None ELSE bySkeleton[k]
        BY <1>1, <1>e, <2>2 DEF RemoveEntry, ClientsType
      <3>3. \A k \in Skeletons : bySkeleton'[k] \in ClientIds \cup {None}
        BY <3>1, <1>1 DEF ClientsType
      <3> QED
        BY <3>1, <3>3, <2>0
    <2> QED
      BY <2>1, <2>2
  <1>2. ClientsType'
    BY <1>1, <1>e, <1>h, <1>i, <1>j DEF ClientsType, Moved
  <1>3. ThreadOK(t)'
    BY <1>a, <1>b, <1>c, <1>e, <1>g, <1>h DEF ThreadOK, DestroyOK, Destroying
  <1>f2. SessionsKept
    BY <1>e DEF SessionsKept
  <1>4. ThreadInv' /\ SessionInv' /\ ClientInv' /\ OrphanInv' /\ FixupInv'
    <2>1. th'[t].at \in Destroying /\ th'[t].at # "rest"
      BY <1>g, <1>h DEF Destroying
    <2> QED
      BY <2>1, <1>a, <1>e, <1>h, <1>f2, <1>2, <1>3, DestroyGoesOn
  <1>5. AttachedInv'
    BY <1>1, <1>a, <1>e, <1>h, <1>f2, AttachedFrame
  <1>6. NickInv'
    <2>0. cl' = cl
      BY <1>e
    <2>1. \A m \in Nicks : byNick'[m] # None =>
            cl'[byNick'[m]].nick = m /\ bySkeleton'[Skeleton[m]] = byNick'[m]
      BY <2>0, <1>1, <1>i, <1>j DEF NickInv, NickMapsAgree, Skeletons
    <2>2. \A k \in Skeletons : bySkeleton'[k] # None =>
            /\ Skeleton[cl'[bySkeleton'[k]].nick] = k /\ byNick'[cl'[bySkeleton'[k]].nick] = bySkeleton'[k]
            /\ cl'[bySkeleton'[k]].registered
      <3> SUFFICES ASSUME NEW k \in Skeletons, bySkeleton'[k] # None PROVE <2>2!(k)!2
        OBVIOUS
      <3>1. bySkeleton'[k] = bySkeleton[k] /\ bySkeleton[k] # c /\ bySkeleton[k] # None
        BY <1>j
      <3>2. PICK d \in ClientIds : /\ d = bySkeleton[k] /\ cl[d].registered
                                   /\ Skeleton[cl[d].nick] = k /\ byNick[cl[d].nick] = d
        BY <3>1, <1>1 DEF NickInv, NickMapsAgree, ClientsType
      <3>3. cl[d].nick \in Nicks
        BY <3>2, <1>1 DEF ClientInv
      <3>4. byNick'[cl[d].nick] = d
        BY <3>1, <3>2, <3>3, <1>i
      <3> QED
        BY <3>1, <3>2, <3>4, <2>0
    <2>3. \A d \in ClientIds : cl'[d].registered /\ ~cl'[d].destroyed => byNick'[cl'[d].nick] = d
      BY <2>0, <1>1, <1>c, <1>i DEF NickInv, NickMapsAgree, ClientInv
    <2> QED
      BY <2>1, <2>2, <2>3 DEF NickInv, NickMapsAgree
  <1>7. ForgetInv'
    <2> SUFFICES ASSUME NEW m \in Nicks, byNick'[m] # None, cl'[byNick'[m]].destroyed
                 PROVE  \E u \in Threads : Forgetting(u)' /\ th'[u].c = byNick'[m]
      BY DEF ForgetInv, Forgetting
    <2>1. byNick'[m] = byNick[m] /\ byNick[m] # c /\ byNick[m] # None /\ cl[byNick[m]].destroyed
      BY <1>i, <1>e
    <2>2. PICK u \in Threads : Forgetting(u) /\ th[u].c = byNick[m]
      BY <2>1, <1>1 DEF ForgetInv, Forgetting
    <2>3. u # t
      BY <2>1, <2>2, <1>c
    <2> QED
      BY <2>1, <2>2, <2>3, <1>h DEF Moved, Forgetting
  <1> QED
    BY <1>2, <1>4, <1>5, <1>6, <1>7 DEF CoreInv

-----------------------------------------------------------------------------
(* A new connection. *)

(* A connection is accepted or refused.                                    *)
LEMMA RunClientKeeps ==
  ASSUME CoreInv, NEW i \in Conns, RunClient(i)
  PROVE  CoreInv'
  <1>1. /\ ClientsType /\ ThreadInv /\ SessionInv /\ ClientInv /\ AttachedInv
        /\ NickInv /\ ForgetInv /\ OrphanInv /\ FixupInv
    BY DEF CoreInv
  <1>a. PICK t \in Threads : t = <<i, "run">> /\ th[t].at = "rest" /\ t[1] = i /\ t[2] = "run"
    BY ThreadNames DEF RunClient
  <1>b. UNCHANGED <<byNick, bySkeleton, alwaysOnSetting, outside, ghost>>
    BY DEF RunClient
  <1>2. CASE limiter[Gateway] >= MaxConcurrent
    <2>1. th' = [th EXCEPT ![t] = Finished] /\ UNCHANGED <<cl, ses, limiter, stats>>
      BY <1>2, <1>a DEF RunClient
    <2>0. Moved(t) /\ th'[t] = Finished
      BY <2>1, <1>1, MovedTo
    <2>2. Moved(t) /\ th'[t].at = "done"
      BY <2>0 DEF Finished
    <2>3. ClientsType'
      BY <1>1, <1>b, <2>1, <2>2 DEF ClientsType, Moved
    <2>4. ThreadOK(t)' /\ Onward(t) /\ SessionsKept /\ ~AtFixup(t) /\ th[t].at \notin Serving
      BY <1>a, <2>1, <2>2 DEF ThreadOK, Destroying, Onward, Serving, SessionsKept, AtFixup
    <2> QED
      BY <1>a, <1>b, <2>1, <2>2, <2>3, <2>4, OneGoroutine
  <1>3. CASE ~(limiter[Gateway] >= MaxConcurrent)
    <2>a. PICK new : new = [NoClient EXCEPT !.made = TRUE, !.sessions = {i}, !.timer = TRUE]
      OBVIOUS
    <2>b. PICK snew : snew = [NoSession EXCEPT !.client = i, !.open = TRUE]
      OBVIOUS
    <2>c. /\ limiter' = LimiterAdd(limiter, Gateway)
          /\ cl' = [cl EXCEPT ![i] = new]
          /\ ses' = [ses EXCEPT ![i] = snew]
          /\ stats' = StatsAdd
          /\ th' = [th EXCEPT ![t] = Running]
      BY <1>3, <1>a, <2>a, <2>b DEF RunClient
    <2>d. /\ new \in ClientRecord /\ new.made /\ ~new.registered /\ ~new.destroyed /\ new.nick = None
          /\ new.account = None /\ ~new.alwaysOn /\ new.sessions = {i}
      BY <2>a DEF NoClient, ClientRecord
    <2>e. snew \in SessionRecord /\ snew.client = i /\ snew.open
      BY <2>b DEF NoSession, SessionRecord, ClientIds
    <2>f. i \in ClientIds /\ i # None /\ ses[i] = NoSession /\ cl[i] = NoClient /\ ~cl[i].made
          /\ cl[i].nick = None /\ ~cl[i].registered /\ ~cl[i].destroyed
          /\ ses[i].client = None /\ ~ses[i].open
      <3>1. i \in ClientIds /\ i # None /\ ses[i] = NoSession /\ cl[i] = NoClient
        BY <1>1, <1>a, ClientsAssumption DEF SessionInv, ClientIds
      <3>2. /\ ~NoClient.made /\ NoClient.nick = None /\ ~NoClient.registered /\ ~NoClient.destroyed
            /\ NoSession.client = None /\ ~NoSession.open
        BY DEF NoClient, NoSession
      <3> QED
        BY <3>1, <3>2
    <2>g. cl' \in [ClientIds -> ClientRecord] /\ cl'[i] = new /\ \A d \in ClientIds \ {i} : cl'[d] = cl[d]
      BY <1>1, <2>c, <2>d, <2>f, ClientSet
    <2>h. ses' \in [Conns -> SessionRecord] /\ ses'[i] = snew /\ \A x \in Conns \ {i} : ses'[x] = ses[x]
      BY <1>1, <2>c, <2>e DEF ClientsType
    <2>o. Moved(t) /\ th'[t] = Running
      BY <2>c, <1>1, MovedTo
    <2>i. Moved(t) /\ th'[t].at = "run"
      BY <2>o DEF Running
    <2>j. th[<<i, "old">>].at = "rest"
      BY <1>1, <2>f DEF SessionInv
    <2>1. ClientsType'
      <3>1. limiter' \in [Addrs -> Nat]
        BY <1>1, <2>c DEF LimiterAdd, ClientsType, Addrs
      <3>2. stats' \in [unknown : Int, total : Int]
        BY <1>1, <2>c DEF StatsAdd, ClientsType
      <3> QED
        BY <1>1, <1>b, <2>g, <2>h, <2>i, <3>1, <3>2 DEF ClientsType, Moved
    <2>2. \A d \in ClientIds : cl[d].made => d # i /\ cl'[d] = cl[d]
      BY <2>f, <2>g
    <2>k. \A d \in ClientIds : /\ cl'[d].nick = cl[d].nick /\ (cl'[d].registered <=> cl[d].registered)
                               /\ cl'[d].destroyed <=> cl[d].destroyed
      BY <2>d, <2>f, <2>g
    <2>l. \A x \in Conns : ses[x].client # None => x # i /\ ses'[x] = ses[x] /\ ses[x].client # i
      BY <1>1, <2>f, <2>h DEF SessionInv
    <2>3. ThreadInv'
      <3> SUFFICES ASSUME NEW u \in Threads PROVE ThreadOK(u)'
        BY DEF ThreadInv
      <3>1. CASE u = t
        BY <3>1, <1>a, <2>i DEF ThreadOK, Serving, Destroying
      <3>2. CASE u # t
        <4>1. th'[u] = th[u] /\ ThreadOK(u)
          BY <3>2, <2>i, <1>1 DEF Moved, ThreadInv
        <4>2. u[2] \in {"run", "old", "other"} /\ u = <<u[1], u[2]>> /\ (u[2] # "other" => u[1] \in Conns)
          BY ThreadNames
        <4>3. u[2] = "run" => u[1] # i /\ ses'[u[1]] = ses[u[1]]
          BY <4>2, <3>2, <1>a, <2>h
        <4>4. ASSUME th[u].at = "setnick" PROVE SetNickOK(u)'
          <5>1. SetNickOK(u) /\ u[2] \in {"run", "other"} /\ th[u].c \in ClientIds /\ cl[th[u].c].made
            BY <4>4, SetNickStart
          <5>2. cl'[th[u].c] = cl[th[u].c]
            BY <5>1, <2>2
          <5>3. ASSUME ~th[u].registered PROVE th'[<<u[1], "old">>].at = "rest"
            <6>1. th[<<u[1], "old">>].at = "rest" /\ u[2] = "run"
              BY <5>1, <5>3 DEF SetNickOK
            <6>2. <<u[1], "old">> \in Threads /\ <<u[1], "old">> # t
              BY <6>1, <4>2, <1>a, ThreadNames
            <6> QED
              BY <6>1, <6>2, <2>i DEF Moved
          <5> QED
            BY <5>1, <5>2, <5>3, <4>1, <4>3 DEF SetNickOK
        <4>5. ASSUME th[u].at \in {"left", "condemn"} \cup Destroying PROVE DestroyOK(u)'
          BY <4>1, <4>5, <2>2 DEF ThreadOK, DestroyOK
        <4>6. ASSUME th[u].at = "fixup" PROVE cl'[ses'[u[1]].client].registered
          <5>1. u[2] = "run" /\ u[1] \in Conns /\ u = <<u[1], "run">>
            BY <4>1, <4>2, <4>6 DEF ThreadOK, Destroying
          <5>2. ses[u[1]].client \in ClientIds
            BY <5>1, <4>6, <1>1 DEF SessionInv, Alive, Serving
          <5> QED
            BY <5>1, <5>2, <4>1, <4>3, <4>6, <2>k DEF ThreadOK
        <4> QED
          BY <4>1, <4>4, <4>5, <4>6 DEF ThreadOK
      <3> QED
        BY <3>1, <3>2
    <2>4. SessionInv'
      <3> SUFFICES ASSUME NEW x \in Conns PROVE SessionInv!(x)'
        BY DEF SessionInv
      <3>1. CASE x = i
        <4>1. th'[<<i, "run">>].at = "run" /\ th'[<<i, "old">>].at = "rest"
          BY <1>a, <2>i, <2>j, ThreadNames DEF Moved
        <4> QED
          BY <3>1, <4>1, <2>d, <2>e, <2>f, <2>g, <2>h
      <3>2. CASE x # i
        <4>1. <<x, "run">> \in Threads \ {t} /\ <<x, "old">> \in Threads \ {t}
          BY <3>2, <1>a, ThreadNames
        <4>2. th'[<<x, "run">>] = th[<<x, "run">>] /\ th'[<<x, "old">>] = th[<<x, "old">>] /\ ses'[x] = ses[x]
          BY <4>1, <3>2, <2>h, <2>i DEF Moved
        <4>3. SessionInv!(x) /\ x \in ClientIds /\ ses[x].client \in ClientIds \cup {None}
          BY <1>1 DEF SessionInv, ClientIds, ClientsType, SessionRecord
        <4>4. cl'[x] = cl[x]
          BY <4>3, <3>2, <2>g
        <4> QED
          BY <4>2, <4>3, <4>4, <2>2 DEF Alive
      <3> QED
        BY <3>1, <3>2
    <2>5. ClientInv'
      <3>1. ClientInv!(i)'
        BY <2>d, <2>g, ClientsAssumption
      <3>2. \A d \in ClientIds \ {i} : ClientInv!(d)'
        BY <1>1, <2>g DEF ClientInv
      <3> QED
        BY <3>1, <3>2 DEF ClientInv
    <2>6. AttachedInv'
      <3> SUFFICES ASSUME NEW x \in Conns, ses'[x].open PROVE AttachedInv!(x)!2'
        BY DEF AttachedInv
      <3>1. CASE x = i
        BY <3>1, <2>d, <2>e, <2>g, <2>h
      <3>2. CASE x # i
        <4>1. ses'[x] = ses[x] /\ ses[x].client \in ClientIds /\ ses[x].client # i
          BY <3>2, <2>h, <2>l, <1>1, ClientsAssumption DEF SessionInv, ClientsType, SessionRecord
        <4>2. CASE x \in cl[ses[x].client].sessions
          BY <4>1, <4>2, <2>g
        <4>3. ASSUME NEW u \in Threads, th[u].at = "sessions" /\ th[u].c = ses[x].client /\ x \in th[u].todo
              PROVE  AttachedInv!(x)!2'
          <5>1. th'[u] = th[u]
            BY <4>3, <1>a, <2>i DEF Moved
          <5> QED
            BY <5>1, <4>1, <4>3
        <4> QED
          BY <4>1, <4>2, <4>3, <1>1 DEF AttachedInv
      <3> QED
        BY <3>1, <3>2
    <2>7. NickInv'
      BY <1>1, <1>b, <2>k, NickFrame
    <2>8. ForgetInv'
      BY <1>1, <1>a, <1>b, <2>i, <2>k, ForgetFrame DEF Forgetting
    <2>9. OrphanInv'
      <3>1. \A d \in ClientIds :
               cl'[d].registered /\ ~cl'[d].destroyed /\ cl'[d].sessions = {} /\ ~cl'[d].alwaysOn =>
               \/ d \in ghost'.orphans
               \/ th'[t].at = "condemn" /\ th'[t].c = d
               \/ t[2] = "run" /\ th'[t].at \in Serving /\ ses'[t[1]].client = d
               \/ /\ cl[d].registered /\ ~cl[d].destroyed /\ cl[d].sessions = {} /\ ~cl[d].alwaysOn
                  /\ ~(th[t].at = "condemn" /\ th[t].c = d)
                  /\ ~(t[2] = "run" /\ th[t].at \in Serving /\ ses[t[1]].client = d)
        BY <2>d, <2>g, <1>a DEF Serving
      <3>2. ghost.orphans \subseteq ghost'.orphans
        BY <1>b
      <3>3. \A x \in Conns : Alive(x) /\ <<x, "run">> # t => ses'[x].client = ses[x].client
        BY <1>a, <2>h
      <3> QED
        BY <1>1, <2>i, <3>1, <3>2, <3>3, OrphanFrame
    <2>10. FixupInv'
      <3>1. ForceNickEqualsAccount => \A d \in ClientIds :
             cl'[d].registered /\ cl'[d].alwaysOn /\ ~cl'[d].destroyed /\ cl'[d].nick # Account
             /\ d \notin ghost'.stale =>
                \/ t[2] = "run" /\ AtFixup(t)' /\ ses'[t[1]].client = d
                \/ /\ cl[d].registered /\ cl[d].alwaysOn /\ ~cl[d].destroyed
                   /\ cl[d].nick # Account /\ d \notin ghost.stale
                   /\ ~(t[2] = "run" /\ AtFixup(t) /\ ses[t[1]].client = d)
        BY <2>d, <2>g, <1>a, <1>b DEF AtFixup
      <3>3. \A x \in Conns : AtFixup(<<x, "run">>) /\ <<x, "run">> # t => ses'[x].client = ses[x].client
        BY <1>a, <2>h
      <3> QED
        BY <1>1, <2>i, <3>1, <3>3, FixupFrame
    <2> QED
      BY <2>1, <2>3, <2>4, <2>5, <2>6, <2>7, <2>8, <2>9, <2>10 DEF CoreInv
  <1> QED
    BY <1>2, <1>3

(* Every step keeps the invariant.                                         *)
LEMMA CoreStep == CoreInv /\ [Next]_clientVars => CoreInv'
  <1> SUFFICES ASSUME CoreInv, [Next]_clientVars PROVE CoreInv'
    OBVIOUS
  <1>1. CASE UNCHANGED clientVars
    <2>0. /\ ClientsType /\ ThreadInv /\ SessionInv /\ ClientInv /\ AttachedInv
          /\ NickInv /\ ForgetInv /\ OrphanInv /\ FixupInv
      BY DEF CoreInv
    <2>1. /\ cl' = cl /\ ses' = ses /\ byNick' = byNick /\ bySkeleton' = bySkeleton /\ limiter' = limiter
          /\ stats' = stats /\ alwaysOnSetting' = alwaysOnSetting /\ th' = th /\ ghost' = ghost
      BY <1>1 DEF clientVars
    <2>2. ClientsType' /\ ClientInv'
      BY <2>0, <2>1 DEF ClientsType, ClientInv
    <2>3. ThreadInv'
      <3> SUFFICES ASSUME NEW t \in Threads PROVE ThreadOK(t)'
        BY DEF ThreadInv
      <3>1. ThreadOK(t)
        BY <2>0 DEF ThreadInv
      <3>2. SetNickOK(t) => SetNickOK(t)'
        BY <2>1 DEF SetNickOK
      <3>3. DestroyOK(t) => DestroyOK(t)'
        BY <2>1 DEF DestroyOK
      <3> QED
        BY <2>1, <3>1, <3>2, <3>3 DEF ThreadOK
    <2>4. SessionInv' /\ AttachedInv'
      BY <2>0, <2>1 DEF SessionInv, Alive, AttachedInv
    <2>5. NickInv' /\ ForgetInv'
      BY <2>0, <2>1 DEF NickInv, NickMapsAgree, ForgetInv
    <2>6. OrphanInv' /\ FixupInv'
      BY <2>0, <2>1, SMTT(30) DEF OrphanInv, Alive, FixupInv, IsAlwaysOn
    <2> QED
      BY <2>2, <2>3, <2>4, <2>5, <2>6 DEF CoreInv
  <1>2. ASSUME NEW i \in Conns, RunClient(i) PROVE CoreInv'
    BY <1>2, RunClientKeeps
  <1>3. ASSUME NEW t \in Conns \X {"run", "old"}, SessionStep(t) PROVE CoreInv'
    <2>1. t \in Threads
      BY ThreadNames
    <2>2. CASE ApplyProxiedIP(t) \/ ProxyMove(t) \/ ProxyDone(t) \/ Register(t)
      BY <2>1, <2>2, ProxyKeeps
    <2>3. CASE TryRegister(t) \/ NickCommand(t)
      BY <2>1, <2>3, NickAskedKeeps
    <2>4. CASE SetNick(t)
      BY <2>1, <2>4, SetNickKeeps
    <2>5. CASE Login(t)
      BY <2>1, <2>5, LoginKeeps
    <2>6. CASE Fixup(t)
      BY <2>1, <2>6, FixupKeeps
    <2>7. CASE \E v \in BOOLEAN : SetAlwaysOn(t, v)
      BY <2>1, <2>7, SetAlwaysOnKeeps
    <2>8. CASE Leave(t) \/ LeaveOld(t)
      BY <2>1, <2>8, DestroyCallsKeep
    <2>9. CASE DestroyStep(t)
      BY <2>1, <2>9, DestroySessionKeeps, DestroyStatsKeeps, DestroyRemoveKeeps, DestroyLogoutKeeps DEF DestroyStep
    <2> QED
      BY <1>3, <2>2, <2>3, <2>4, <2>5, <2>6, <2>7, <2>8, <2>9 DEF SessionStep
  <1>4. ASSUME NEW t \in Others \X {"other"}, OtherStep(t) PROVE CoreInv'
    <2>1. t \in Threads
      BY ThreadNames
    <2>2. CASE Sanick(t)
      BY <2>1, <2>2, SanickKeeps
    <2>3. CASE SetNick(t)
      BY <2>1, <2>3, SetNickKeeps
    <2>4. CASE Kill(t) \/ Ghost(t) \/ ExpireAlwaysOn(t) \/ ClientsLogout(t) \/ IdleTimeout(t)
      BY <2>1, <2>4, CondemnKeeps
    <2>5. CASE CondemnAccount(t)
      BY <2>1, <2>5, CondemnAccountKeeps
    <2>6. CASE RegisterTimeout(t)
      BY <2>1, <2>6, RegisterTimeoutKeeps
    <2>7. CASE Execute(t)
      BY <2>1, <2>7, DestroyCallsKeep
    <2>8. CASE DestroyStep(t)
      BY <2>1, <2>8, DestroySessionKeeps, DestroyStatsKeeps, DestroyRemoveKeeps, DestroyLogoutKeeps DEF DestroyStep
    <2> QED
      BY <1>4, <2>2, <2>3, <2>4, <2>5, <2>6, <2>7, <2>8 DEF OtherStep
  <1> QED
    BY <1>1, <1>2, <1>3, <1>4 DEF Next

(* When every goroutine is done or waits, the witnesses are gone.          *)
LEMMA CoreMeans == CoreInv => NickMapsAgree /\ DestroyedIsForgotten /\ NoOrphan /\ AlwaysOnNick
  <1> SUFFICES ASSUME CoreInv PROVE NickMapsAgree /\ DestroyedIsForgotten /\ NoOrphan /\ AlwaysOnNick
    OBVIOUS
  <1>1. /\ ClientsType /\ ThreadInv /\ SessionInv /\ ClientInv /\ AttachedInv
        /\ NickInv /\ ForgetInv /\ OrphanInv /\ FixupInv
    BY DEF CoreInv
  <1>2. NickMapsAgree
    BY <1>1 DEF NickInv
  <1>3. DestroyedIsForgotten
    <2> SUFFICES ASSUME Quiet, NEW c \in ClientIds, cl[c].destroyed
                 PROVE  /\ \A n \in Nicks : byNick[n] # c
                        /\ \A s \in Conns : ses[s].client = c => ~ses[s].open
      BY DEF DestroyedIsForgotten
    <2>1. \A t \in Threads : th[t].at \notin {"sessions", "remove"}
      BY DEF Quiet
    <2>2. \A n \in Nicks : byNick[n] # c
      BY <2>1, <1>1, ClientsAssumption DEF ForgetInv, ClientIds
    <2>3. \A s \in Conns : ses[s].client = c => ~ses[s].open
      BY <2>1, <1>1 DEF AttachedInv, ClientInv
    <2> QED
      BY <2>2, <2>3
  <1>4. NoOrphan
    <2> SUFFICES ASSUME Quiet, NEW c \in ClientIds, cl[c].registered, ~cl[c].destroyed,
                        cl[c].sessions = {}, ~cl[c].alwaysOn
                 PROVE  c \in ghost.orphans
      BY DEF NoOrphan
    <2>1. ASSUME NEW s \in Conns, Alive(s), ses[s].client = c PROVE FALSE
      <3>1. <<s, "run">> \in Threads
        BY ThreadNames
      <3>2. ses[s].open
        BY <2>1, <3>1 DEF Quiet, Alive, Serving
      <3>3. PICK u \in Threads : th[u].at = "sessions"
        BY <2>1, <3>2, <1>1 DEF AttachedInv
      <3> QED
        BY <3>3 DEF Quiet
    <2>2. \A t \in Threads : th[t].at # "condemn"
      BY DEF Quiet
    <2> QED
      BY <2>1, <2>2, <1>1 DEF OrphanInv
  <1>5. AlwaysOnNick
    <2> SUFFICES ASSUME Quiet, ForceNickEqualsAccount, NEW c \in ClientIds, IsAlwaysOn(c), ~cl[c].destroyed
                 PROVE  cl[c].nick = Account \/ c \in ghost.stale
      BY DEF AlwaysOnNick
    <2>1. \A s \in Conns : th[<<s, "run">>].at \notin {"fixup", "setnick"}
      BY ThreadNames DEF Quiet
    <2> QED
      BY <2>1, <1>1 DEF FixupInv
  <1> QED
    BY <1>2, <1>3, <1>4, <1>5

-----------------------------------------------------------------------------
(* The counters.  Most steps do not touch what is counted.                 *)

SameClients == \A c \in ClientIds :
  /\ cl'[c].made = cl[c].made /\ cl'[c].registered = cl[c].registered
  /\ cl'[c].destroyed = cl[c].destroyed /\ cl'[c].sessions = cl[c].sessions

SameSessions == \A s \in Conns :
  ses'[s].client = ses[s].client /\ ses'[s].open = ses[s].open /\ ses'[s].proxied = ses[s].proxied

Uncounted(t) ==
  /\ Moved(t) /\ SameClients /\ SameSessions
  /\ th[t].at \notin {"proxyAdded", "proxyMoved", "count", "sessions"}
  /\ th'[t].at \notin {"proxyAdded", "proxyMoved", "count", "sessions"}
  /\ limiter' = limiter /\ stats' = stats
  /\ ghost'.twice = ghost.twice /\ ghost'.uncounted = ghost.uncounted

(* What the other goroutines start.                                        *)
LEMMA OutsideUncounted ==
  ASSUME CoreInv, NEW t \in Threads,
         \/ Sanick(t) \/ Kill(t) \/ Ghost(t) \/ ExpireAlwaysOn(t) \/ ClientsLogout(t) \/ IdleTimeout(t)
         \/ CondemnAccount(t) \/ RegisterTimeout(t)
  PROVE  Uncounted(t)
  <1>0. ClientsType
    BY DEF CoreInv
  <1>1. /\ UNCHANGED <<ses, limiter, stats, ghost>> /\ th[t].at = "rest"
    BY DEF Sanick, Kill, Ghost, ExpireAlwaysOn, Condemn, ClientsLogout, IdleTimeout, CondemnAccount,
           RegisterTimeout, Start
  <1>2. SameSessions
    BY <1>1 DEF SameSessions
  <1>3. Moved(t) /\ th'[t].at \in {"setnick", "condemn"}
    <2>1. CASE Sanick(t)
      <3>1. PICK c, n : th' = [th EXCEPT ![t] = SetNickRead(c, None, n, "nick")]
        BY <2>1 DEF Sanick
      <3>2. Moved(t) /\ th'[t] = SetNickRead(c, None, n, "nick")
        BY <3>1, <1>0, MovedTo
      <3> QED
        BY <3>2 DEF SetNickRead
    <2>2. CASE ~Sanick(t)
      <3>1. PICK c, s : th' = [th EXCEPT ![t] = [at |-> "condemn", c |-> c, s |-> s]]
        BY <2>2 DEF Kill, Ghost, ExpireAlwaysOn, Condemn, ClientsLogout, IdleTimeout, CondemnAccount, RegisterTimeout
      <3>2. Moved(t) /\ th'[t] = [at |-> "condemn", c |-> c, s |-> s]
        BY <3>1, <1>0, MovedTo
      <3> QED
        BY <3>2
    <2> QED
      BY <2>1, <2>2
  <1>4. SameClients
    <2>1. CASE CondemnAccount(t)
      <3>1. PICK c \in ClientIds : cl' = [cl EXCEPT ![c] = LoggedOut(@)]
        BY <2>1 DEF CondemnAccount
      <3>2. PICK new : new = LoggedOut(cl[c])
        OBVIOUS
      <3>3. new \in ClientRecord /\ new.made = cl[c].made /\ new.registered = cl[c].registered
            /\ new.destroyed = cl[c].destroyed /\ new.sessions = cl[c].sessions
        BY <3>2, <1>0, LoggedOutClient DEF ClientsType
      <3>4. cl'[c] = new /\ \A d \in ClientIds \ {c} : cl'[d] = cl[d]
        BY <3>1, <3>2, <3>3, <1>0, ClientSet
      <3> QED
        BY <3>3, <3>4 DEF SameClients
    <2>2. CASE RegisterTimeout(t)
      <3>1. PICK c \in ClientIds : cl' = [cl EXCEPT ![c].timer = FALSE]
        BY <2>2 DEF RegisterTimeout, ClientIds
      <3>2. PICK new : new = [cl[c] EXCEPT !.timer = FALSE]
        OBVIOUS
      <3>3. new \in ClientRecord /\ new.made = cl[c].made /\ new.registered = cl[c].registered
            /\ new.destroyed = cl[c].destroyed /\ new.sessions = cl[c].sessions
        BY <3>2, <1>0 DEF ClientsType, ClientRecord
      <3>4. cl'[c] = new /\ \A d \in ClientIds \ {c} : cl'[d] = cl[d]
        BY <3>1, <3>2, <3>3, <1>0, ClientSet
      <3> QED
        BY <3>3, <3>4 DEF SameClients
    <2>3. CASE cl' = cl
      BY <2>3 DEF SameClients
    <2> QED
      BY <2>1, <2>2, <2>3 DEF Sanick, Kill, Ghost, ExpireAlwaysOn, Condemn, ClientsLogout, IdleTimeout
  <1> QED
    BY <1>1, <1>2, <1>3, <1>4 DEF Uncounted

(* The commands of a session.                                              *)
LEMMA CommandUncounted ==
  ASSUME CoreInv, NEW t \in Threads,
         TryRegister(t) \/ NickCommand(t) \/ Login(t) \/ (\E v \in BOOLEAN : SetAlwaysOn(t, v))
  PROVE  Uncounted(t)
  <1>0. ClientsType /\ SessionInv
    BY DEF CoreInv
  <1>1. /\ limiter' = limiter /\ stats' = stats /\ ghost'.twice = ghost.twice /\ ghost'.uncounted = ghost.uncounted
        /\ ReadLine(t)
    <2>1. CASE \E v \in BOOLEAN : SetAlwaysOn(t, v)
      <3>1. PICK w : ghost' = [ghost EXCEPT !.orphans = w]
        BY <2>1 DEF SetAlwaysOn
      <3> QED
        BY <2>1, <3>1, <1>0 DEF SetAlwaysOn, ClientsType, Ghosts
    <2> QED
      BY <2>1 DEF TryRegister, NickCommand, Login
  <1>2. th[t].at = "run" /\ SameSessions
    <2>1. /\ th[t].at = "run" /\ ses' \in [Conns -> SessionRecord] /\ SessionsKept
          /\ \A s \in Conns : (ses'[s].proxied <=> ses[s].proxied) /\ (ses'[s].open <=> ses[s].open)
      BY <1>0, <1>1, LineRead
    <2>2. \A s \in Conns : /\ ses[s].proxied \in BOOLEAN /\ ses[s].open \in BOOLEAN
                           /\ ses'[s].proxied \in BOOLEAN /\ ses'[s].open \in BOOLEAN
      BY <2>1, <1>0 DEF ClientsType, SessionRecord
    <2> QED
      BY <2>1, <2>2 DEF SameSessions, SessionsKept
  <1>3. Moved(t) /\ th'[t].at \in {"setnick", "run", "fixup"}
    <2>1. CASE TryRegister(t) \/ NickCommand(t)
      <3>1. PICK c, n : th' = [th EXCEPT ![t] = SetNickRead(c, t[1], n, "nick")]
        BY <2>1 DEF TryRegister, NickCommand
      <3>2. Moved(t) /\ th'[t] = SetNickRead(c, t[1], n, "nick")
        BY <3>1, <1>0, MovedTo
      <3> QED
        BY <3>2 DEF SetNickRead
    <2>2. CASE th' = [th EXCEPT ![t] = [at |-> "fixup"]]
      <3>1. Moved(t) /\ th'[t] = [at |-> "fixup"]
        BY <2>2, <1>0, MovedTo
      <3> QED
        BY <3>1
    <2>3. CASE th' = th
      BY <2>3, <1>0, <1>2 DEF Moved, ClientsType
    <2> QED
      BY <2>1, <2>2, <2>3 DEF Login, SetAlwaysOn
  <1>4. SameClients
    <2>1. CASE Login(t)
      <3>0. PICK c \in ClientIds : c = ClientOf(t)
        BY <1>0, <1>1, LineRead
      <3>1. cl' = [cl EXCEPT ![c].account = Account, ![c].alwaysOn = alwaysOnSetting]
        BY <2>1, <3>0 DEF Login
      <3>2. PICK new : new = [cl[c] EXCEPT !.account = Account, !.alwaysOn = alwaysOnSetting]
        OBVIOUS
      <3>3. new \in ClientRecord /\ new.made = cl[c].made /\ new.registered = cl[c].registered
            /\ new.destroyed = cl[c].destroyed /\ new.sessions = cl[c].sessions
        BY <3>2, <1>0, ZenonT(60) DEF ClientsType, ClientRecord
      <3>4. cl' = [cl EXCEPT ![c] = new]
        BY <3>1, <3>2, <1>0 DEF ClientsType
      <3>5. cl'[c] = new /\ \A d \in ClientIds \ {c} : cl'[d] = cl[d]
        BY <3>3, <3>4, <1>0, ClientSet
      <3> QED
        BY <3>3, <3>5 DEF SameClients
    <2>2. CASE \E v \in BOOLEAN : SetAlwaysOn(t, v)
      <3>1. PICK v \in BOOLEAN : SetAlwaysOn(t, v)
        BY <2>2
      <3>2. \A c \in ClientIds :
              \/ cl'[c] = cl[c]
              \/ cl'[c] = [cl[c] EXCEPT !.alwaysOn = (v /\ cl[c].nick = Account)]
        BY <3>1 DEF SetAlwaysOn
      <3>3. ASSUME NEW c \in ClientIds, NEW b, cl'[c] = [cl[c] EXCEPT !.alwaysOn = b]
            PROVE  /\ cl'[c].made = cl[c].made /\ cl'[c].registered = cl[c].registered
                   /\ cl'[c].destroyed = cl[c].destroyed /\ cl'[c].sessions = cl[c].sessions
        <4>1. cl[c] \in ClientRecord
          BY <1>0 DEF ClientsType
        <4> QED
          BY <4>1, <3>3 DEF ClientRecord
      <3> QED
        BY <3>2, <3>3 DEF SameClients
    <2>3. CASE cl' = cl
      BY <2>3 DEF SameClients
    <2> QED
      BY <2>1, <2>2, <2>3 DEF TryRegister, NickCommand
  <1> QED
    BY <1>1, <1>2, <1>3, <1>4 DEF Uncounted

(* The end of destroy and the forced renaming.                             *)
LEMMA FixupUncounted ==
  ASSUME CoreInv, NEW t \in Threads,
         Fixup(t) \/ DestroyRemove(t) \/ DestroyLogout(t)
  PROVE  Uncounted(t)
  <1>0. ClientsType /\ ThreadInv
    BY DEF CoreInv
  <1>1. UNCHANGED <<ses, limiter, stats, ghost>> /\ th[t].at \in {"fixup", "remove", "logout"}
    BY DEF Fixup, DestroyRemove, DestroyLogout
  <1>2. SameSessions
    BY <1>1 DEF SameSessions
  <1>b. th[t].at \in {"remove", "logout"} => /\ th[t].c \in ClientIds
                                            /\ th[t] \in [at : {"remove", "logout"}, c : ClientIds]
    BY <1>0 DEF ThreadInv, ThreadOK, DestroyOK, Destroying
  <1>3. Moved(t) /\ th'[t].at \in {"setnick", "logout", "rest", "done"}
    <2>1. CASE Fixup(t)
      <3>1. Moved(t) /\ th'[t] = SetNickRead(ClientOf(t), t[1], Account, "fixup")
        BY <2>1, <1>0, MovedTo DEF Fixup
      <3> QED
        BY <3>1 DEF SetNickRead
    <2>2. CASE DestroyRemove(t)
      <3>1. PICK new : new = [th[t] EXCEPT !.at = "logout"]
        OBVIOUS
      <3>2. new.at = "logout"
        BY <3>1, <1>b, <2>2 DEF DestroyRemove
      <3>3. th' = [th EXCEPT ![t] = new]
        BY <2>2, <3>1 DEF DestroyRemove
      <3>4. Moved(t) /\ th'[t] = new
        BY <3>3, <1>0, MovedTo
      <3> QED
        BY <3>2, <3>4
    <2>3. CASE DestroyLogout(t)
      <3>1. Moved(t) /\ th'[t] = AfterDestroy(t)
        BY <2>3, <1>0, MovedTo DEF DestroyLogout
      <3> QED
        BY <3>1 DEF AfterDestroy, Rest, Finished
    <2> QED
      BY <2>1, <2>2, <2>3
  <1>4. SameClients
    <2>1. CASE DestroyLogout(t)
      <3>1. PICK c \in ClientIds : cl' = [cl EXCEPT ![c] = LoggedOut(@)]
        BY <2>1, <1>b DEF DestroyLogout
      <3>2. PICK new : new = LoggedOut(cl[c])
        OBVIOUS
      <3>3. new \in ClientRecord /\ new.made = cl[c].made /\ new.registered = cl[c].registered
            /\ new.destroyed = cl[c].destroyed /\ new.sessions = cl[c].sessions
        BY <3>2, <1>0, LoggedOutClient DEF ClientsType
      <3>4. cl'[c] = new /\ \A d \in ClientIds \ {c} : cl'[d] = cl[d]
        BY <3>1, <3>2, <3>3, <1>0, ClientSet
      <3> QED
        BY <3>3, <3>4 DEF SameClients
    <2>2. CASE cl' = cl
      BY <2>2 DEF SameClients
    <2> QED
      BY <2>1, <2>2 DEF Fixup, DestroyRemove
  <1> QED
    BY <1>1, <1>2, <1>3, <1>4 DEF Uncounted

(* What TakeNick does to the client and to the goroutine.                  *)
LEMMA TakeNickFacts ==
  ASSUME CoreInv, NEW t \in Threads, th[t].at = "setnick", TakeNick(t, th[t])
  PROVE  /\ Moved(t)
         /\ th'[t].at = "count" <=> ~cl[th[t].c].registered
         /\ th'[t].at \in {"rest", "run", "count"}
         /\ \A c \in ClientIds : /\ cl'[c].made = cl[c].made /\ cl'[c].destroyed = cl[c].destroyed
                                 /\ cl'[c].sessions = cl[c].sessions
                                 /\ c # th[t].c => cl'[c].registered = cl[c].registered
         /\ cl'[th[t].c].registered = TRUE
         /\ UNCHANGED <<ses, limiter, stats>>
         /\ ghost'.twice = ghost.twice /\ ghost'.uncounted = ghost.uncounted
  <1>0. ClientsType
    BY DEF CoreInv
  <1>1. PICK c \in ClientIds, n \in Nicks : c = th[t].c /\ n = th[t].nick
    BY SetNickStart
  <1>2. t[2] \in {"run", "other"} /\ (~cl[c].registered => t[2] = "run")
    BY <1>1, SetNickStart
  <1>3. PICK q : q = IF t[2] = "other" THEN Rest ELSE IF cl[c].registered THEN Running ELSE [at |-> "count"]
    OBVIOUS
  <1>4. (q.at = "count" <=> ~cl[c].registered) /\ q.at \in {"rest", "run", "count"}
    BY <1>2, <1>3 DEF Rest, Running
  <1>5. th' = [th EXCEPT ![t] = q]
    BY <1>1, <1>3 DEF TakeNick
  <1>6. Moved(t) /\ th'[t] = q
    BY <1>0, <1>5, MovedTo
  <1>7. PICK x : x = [cl[c] EXCEPT !.nick = n]
    OBVIOUS
  <1>8. PICK y : y = [x EXCEPT !.registered = TRUE]
    OBVIOUS
  <1>9. PICK new : new = [y EXCEPT !.timer = FALSE]
    OBVIOUS
  <1>10. cl' = [cl EXCEPT ![c] = new]
    BY <1>0, <1>1, <1>7, <1>8, <1>9 DEF TakeNick, ClientsType
  <1>11. x \in ClientRecord /\ x.made = cl[c].made /\ x.destroyed = cl[c].destroyed /\ x.sessions = cl[c].sessions
    BY <1>0, <1>7 DEF ClientsType, ClientRecord
  <1>12. /\ y \in ClientRecord /\ y.made = cl[c].made /\ y.destroyed = cl[c].destroyed
         /\ y.sessions = cl[c].sessions /\ y.registered = TRUE
    BY <1>8, <1>11 DEF ClientRecord
  <1>13. /\ new \in ClientRecord /\ new.made = cl[c].made /\ new.destroyed = cl[c].destroyed
         /\ new.sessions = cl[c].sessions /\ new.registered = TRUE
    BY <1>9, <1>12 DEF ClientRecord
  <1>14. cl'[c] = new /\ \A d \in ClientIds \ {c} : cl'[d] = cl[d]
    BY <1>0, <1>10, <1>13, ClientSet
  <1>15. PICK w : ghost' = [ghost EXCEPT !.stale = w]
    BY DEF TakeNick
  <1>16. ghost'.twice = ghost.twice /\ ghost'.uncounted = ghost.uncounted
    BY <1>15, <1>0 DEF ClientsType, Ghosts
  <1>17. UNCHANGED <<ses, limiter, stats>>
    BY DEF TakeNick
  <1> QED
    BY <1>1, <1>4, <1>6, <1>13, <1>14, <1>16, <1>17

(* SetNick touches what is counted only when it registers or reattaches.   *)
LEMMA SetNickUncounted ==
  ASSUME CoreInv, NEW t \in Threads, SetNick(t)
  PROVE  \/ Uncounted(t)
         \/ /\ byNick[th[t].nick] \notin {None, th[t].c} /\ CanReattach(th[t], byNick[th[t].nick])
            /\ Reattach(t, th[t], byNick[th[t].nick])
         \/ /\ TakeNick(t, th[t]) /\ ~cl[th[t].c].registered /\ ~cl[th[t].c].destroyed
  <1>0. ClientsType /\ th[t].at = "setnick"
    BY DEF CoreInv, SetNick
  <1>1. CASE SetNickFailed(t, th[t])
    <2>1. UNCHANGED <<ses, limiter, stats, ghost>>
      BY <1>1 DEF SetNickFailed
    <2>2. Moved(t) /\ th'[t] = IF t[2] = "other" THEN Rest ELSE Running
      BY <1>0, <1>1, MovedTo DEF SetNickFailed
    <2>3. th'[t].at \in {"rest", "run"}
      BY <2>2 DEF Rest, Running
    <2>4. SameClients
      <3>1. CASE th[t].then = "fixup"
        <4>1. PICK c \in ClientIds : cl' = [cl EXCEPT ![c] = LoggedOut(@)]
          BY <3>1, <1>0, <1>1, SetNickStart DEF SetNickFailed
        <4>2. PICK new : new = LoggedOut(cl[c])
          OBVIOUS
        <4>3. new \in ClientRecord /\ new.made = cl[c].made /\ new.registered = cl[c].registered
              /\ new.destroyed = cl[c].destroyed /\ new.sessions = cl[c].sessions
          BY <4>2, <1>0, LoggedOutClient DEF ClientsType
        <4>4. cl'[c] = new /\ \A d \in ClientIds \ {c} : cl'[d] = cl[d]
          BY <4>1, <4>2, <4>3, <1>0, ClientSet
        <4> QED
          BY <4>3, <4>4 DEF SameClients
      <3>2. CASE th[t].then # "fixup"
        BY <3>2, <1>1 DEF SetNickFailed, SameClients
      <3> QED
        BY <3>1, <3>2
    <2>5. SameSessions
      BY <2>1 DEF SameSessions
    <2> QED
      BY <1>0, <2>1, <2>2, <2>3, <2>4, <2>5 DEF Uncounted
  <1>2. CASE /\ byNick[th[t].nick] \notin {None, th[t].c} /\ CanReattach(th[t], byNick[th[t].nick])
             /\ Reattach(t, th[t], byNick[th[t].nick])
    BY <1>2
  <1>3. CASE Resumed(t) /\ UNCHANGED <<cl, ses, byNick, bySkeleton, limiter, stats, alwaysOnSetting, outside, ghost>>
    <2>2. Moved(t) /\ th'[t] = IF t[2] = "other" THEN Rest ELSE Running
      BY <1>0, <1>3, MovedTo DEF Resumed
    <2>3. th'[t].at \in {"rest", "run"}
      BY <2>2 DEF Rest, Running
    <2>4. SameClients /\ SameSessions
      BY <1>3 DEF SameClients, SameSessions
    <2> QED
      BY <1>0, <1>3, <2>2, <2>3, <2>4 DEF Uncounted
  <1>4. CASE TakeNick(t, th[t]) /\ ~cl[th[t].c].destroyed
    <2>1. CASE ~cl[th[t].c].registered
      BY <1>4, <2>1
    <2>2. CASE cl[th[t].c].registered
      <3>0. th[t].c \in ClientIds
        BY <1>0, SetNickStart
      <3>1. /\ Moved(t)
            /\ th'[t].at = "count" <=> ~cl[th[t].c].registered
            /\ th'[t].at \in {"rest", "run", "count"}
            /\ \A c \in ClientIds : /\ cl'[c].made = cl[c].made /\ cl'[c].destroyed = cl[c].destroyed
                                    /\ cl'[c].sessions = cl[c].sessions
                                    /\ c # th[t].c => cl'[c].registered = cl[c].registered
            /\ cl'[th[t].c].registered = TRUE
            /\ UNCHANGED <<ses, limiter, stats>>
            /\ ghost'.twice = ghost.twice /\ ghost'.uncounted = ghost.uncounted
        BY <1>0, <1>4, TakeNickFacts
      <3>2. cl[th[t].c].registered = TRUE
        BY <1>0, <2>2, <3>0 DEF ClientsType, ClientRecord
      <3>3. SameClients /\ SameSessions
        BY <3>0, <3>1, <3>2 DEF SameClients, SameSessions
      <3>4. th'[t].at \in {"rest", "run"}
        BY <3>1, <2>2
      <3> QED
        BY <1>0, <3>1, <3>3, <3>4 DEF Uncounted
    <2> QED
      BY <2>1, <2>2
  <1> QED
    BY <1>1, <1>2, <1>3, <1>4 DEF SetNick, Resumed

(* What SetNick does when it reattaches session s to the client h: s is    *)
(* its own temporary client, and goroutine o will destroy that client.     *)
ReattachEffect(t, h, s, o) ==
  /\ t = <<s, "run">> /\ o = <<s, "old">> /\ o # t /\ h # s /\ ses[s].client = s /\ th[o].at = "rest"
  /\ cl[h].made /\ cl[h].registered /\ ~cl[h].destroyed /\ ~cl[s].registered
  /\ cl'[h].sessions = cl[h].sessions \cup {s} /\ cl'[h].made = cl[h].made
  /\ cl'[h].registered = cl[h].registered /\ cl'[h].destroyed = cl[h].destroyed
  /\ \A d \in ClientIds \ {h} : cl'[d] = cl[d]
  /\ ses'[s].client = h /\ ses'[s].open = ses[s].open /\ ses'[s].proxied = ses[s].proxied
  /\ \A x \in Conns \ {s} : ses'[x] = ses[x]
  /\ th'[t].at = "run" /\ th'[o].at = "left" /\ \A u \in Threads \ {t, o} : th'[u] = th[u]
  /\ ghost'.twice = IF s \in cl[s].sessions THEN ghost.twice ELSE ghost.twice \cup {s}
  /\ ghost'.uncounted = ghost.uncounted
  /\ limiter' = limiter
  /\ stats' = IF cl[h].sessions = {} THEN StatsAddRegistered ELSE stats

(* Reattach has that effect.                                               *)
LEMMA ReattachFacts ==
  ASSUME CoreInv, NEW t \in Threads, th[t].at = "setnick",
         byNick[th[t].nick] \notin {None, th[t].c}, CanReattach(th[t], byNick[th[t].nick]),
         Reattach(t, th[t], byNick[th[t].nick])
  PROVE  \E h \in ClientIds, s \in Conns, o \in Threads : ReattachEffect(t, h, s, o)
  <1>1. ClientsType /\ NickInv /\ ClientInv
    BY DEF CoreInv
  <1>a. PICK h \in ClientIds : h = byNick[th[t].nick]
    BY <1>1, SetNickStart DEF ClientsType
  <1>b. /\ ~th[t].registered /\ ~cl[h].destroyed /\ h # th[t].c
        /\ cl[h].registered /\ cl[h].made
    <2>1. ~th[t].registered /\ ~cl[h].destroyed /\ h # th[t].c
      BY <1>a DEF CanReattach
    <2>2. cl[h].nick = th[t].nick /\ th[t].nick \in Nicks
      BY <1>1, <1>a, SetNickStart, ClientsAssumption DEF NickInv, NickMapsAgree, ClientIds
    <2>3. cl[h].registered
      BY <2>2, <1>1 DEF ClientInv
    <2> QED
      BY <2>1, <2>3, <1>1 DEF ClientInv, NoClient
  <1>c. SetNickOK(t) /\ ~cl[th[t].c].registered
    BY <1>b, SetNickStart DEF SetNickOK
  <1>d. PICK s \in Conns : /\ s = t[1] /\ t = <<s, "run">> /\ s = th[t].s /\ s = th[t].c
                           /\ ses[s].client = s /\ s \in ClientIds /\ cl[s].made /\ ~cl[s].registered
                           /\ th[<<s, "old">>].at = "rest"
    BY <1>b, <1>c, SetNickStart DEF SetNickOK
  <1>o. PICK o \in Threads : o = <<s, "old">> /\ o # t
    BY <1>d, ThreadNames
  <1>e. /\ ses' = [ses EXCEPT ![s].client = h]
        /\ cl' = [cl EXCEPT ![h].sessions = @ \cup {s}]
        /\ stats' = IF cl[h].sessions = {} THEN StatsAddRegistered ELSE stats
        /\ th' = [th EXCEPT ![t] = Running, ![o] = [at |-> "left", c |-> s]]
        /\ limiter' = limiter
    BY <1>a, <1>d, <1>o DEF Reattach
  <1>f. /\ ghost'.twice = IF s \in cl[s].sessions THEN ghost.twice ELSE ghost.twice \cup {s}
        /\ ghost'.uncounted = ghost.uncounted
    BY <1>d, <1>1 DEF Reattach, ClientsType, Ghosts
  <1>g. PICK snew : snew = [ses[s] EXCEPT !.client = h]
    OBVIOUS
  <1>h. snew.client = h /\ snew.open = ses[s].open /\ snew.proxied = ses[s].proxied
    BY <1>g, <1>1 DEF ClientsType, SessionRecord
  <1>i. ses'[s] = snew /\ \A x \in Conns \ {s} : ses'[x] = ses[x]
    BY <1>e, <1>g, <1>1 DEF ClientsType
  <1>j. PICK new : new = [cl[h] EXCEPT !.sessions = @ \cup {s}]
    OBVIOUS
  <1>k. /\ new \in ClientRecord /\ new.made = cl[h].made /\ new.registered = cl[h].registered
        /\ new.destroyed = cl[h].destroyed /\ new.sessions = cl[h].sessions \cup {s}
    BY <1>1, <1>j DEF ClientsType, ClientRecord
  <1>l. cl'[h] = new /\ \A d \in ClientIds \ {h} : cl'[d] = cl[d]
    <2>1. cl' = [cl EXCEPT ![h] = new]
      BY <1>e, <1>j
    <2> QED
      BY <2>1, <1>1, <1>k, ClientSet
  <1>m. /\ th'[t] = Running /\ th'[o] = [at |-> "left", c |-> s]
        /\ \A u \in Threads \ {t, o} : th'[u] = th[u]
    BY <1>e, <1>o, <1>1 DEF ClientsType
  <1>p. th'[t].at = "run" /\ th'[o].at = "left"
    BY <1>m DEF Running
  <1>q. ReattachEffect(t, h, s, o)
    BY <1>b, <1>d, <1>e, <1>f, <1>h, <1>i, <1>k, <1>l, <1>m, <1>o, <1>p DEF ReattachEffect
  <1> QED
    BY <1>q

(* The steps that touch what is counted, by kind.                          *)
CountedStep ==
  \/ UNCHANGED clientVars
  \/ \E i \in Conns : RunClient(i)
  \/ \E t \in Threads : Uncounted(t)
  \/ \E t \in Threads : ApplyProxiedIP(t) \/ ProxyMove(t) \/ ProxyDone(t)
  \/ \E t \in Threads : /\ th[t].at = "setnick"
                        /\ byNick[th[t].nick] \notin {None, th[t].c}
                        /\ CanReattach(th[t], byNick[th[t].nick])
                        /\ Reattach(t, th[t], byNick[th[t].nick])
  \/ \E t \in Threads : /\ th[t].at = "setnick" /\ TakeNick(t, th[t])
                        /\ ~cl[th[t].c].registered /\ ~cl[th[t].c].destroyed
  \/ \E t \in Threads : Register(t)
  \/ \E t \in Threads, c \in ClientIds, s \in Conns \cup {None}, expired \in BOOLEAN :
       Destroy(t, c, s, expired) /\ Destroys(t, c)
  \/ \E t \in Threads : DestroySession(t) \/ DestroyStats(t)

(* Every step is of one of these kinds.                                    *)
LEMMA CountedSteps ==
  ASSUME CoreInv, [Next]_clientVars
  PROVE  CountedStep
  <1>1. ASSUME NEW t \in Threads, SetNick(t) PROVE CountedStep
    <2>1. th[t].at = "setnick"
      BY <1>1 DEF SetNick
    <2> QED
      BY <1>1, <2>1, SetNickUncounted DEF CountedStep
  <1>2. ASSUME NEW t \in Threads, DestroyStep(t) PROVE CountedStep
    BY <1>2, FixupUncounted DEF DestroyStep, CountedStep
  <1>3. ASSUME NEW t \in Threads, Leave(t) \/ LeaveOld(t) \/ Execute(t) PROVE CountedStep
    BY <1>3, DestroyCalls DEF CountedStep
  <1>4. ASSUME NEW t \in Conns \X {"run", "old"}, SessionStep(t) PROVE CountedStep
    <2>1. t \in Threads
      BY ThreadNames
    <2>2. CASE ApplyProxiedIP(t) \/ ProxyMove(t) \/ ProxyDone(t) \/ Register(t)
      BY <2>1, <2>2 DEF CountedStep
    <2>3. CASE TryRegister(t) \/ NickCommand(t) \/ Login(t) \/ \E v \in BOOLEAN : SetAlwaysOn(t, v)
      BY <2>1, <2>3, CommandUncounted DEF CountedStep
    <2>4. CASE Fixup(t)
      BY <2>1, <2>4, FixupUncounted DEF CountedStep
    <2> QED
      BY <1>1, <1>2, <1>3, <1>4, <2>1, <2>2, <2>3, <2>4 DEF SessionStep
  <1>5. ASSUME NEW t \in Others \X {"other"}, OtherStep(t) PROVE CountedStep
    <2>1. t \in Threads
      BY ThreadNames
    <2>2. CASE \/ Sanick(t) \/ Kill(t) \/ Ghost(t) \/ ExpireAlwaysOn(t) \/ ClientsLogout(t) \/ IdleTimeout(t)
               \/ CondemnAccount(t) \/ RegisterTimeout(t)
      BY <2>1, <2>2, OutsideUncounted DEF CountedStep
    <2> QED
      BY <1>1, <1>2, <1>3, <1>5, <2>1, <2>2 DEF OtherStep
  <1>6. ASSUME UNCHANGED clientVars PROVE CountedStep
    BY <1>6 DEF CountedStep
  <1>7. ASSUME NEW i \in Conns, RunClient(i) PROVE CountedStep
    BY <1>7 DEF CountedStep
  <1> QED
    BY <1>4, <1>5, <1>6, <1>7 DEF Next

-----------------------------------------------------------------------------
(* The limiter. *)

(* Whose hands a session is in does not change.                            *)
LEMMA HandedFrame ==
  ASSUME LimiterInv, ghost'.twice = {} => ghost.twice = {},
         \A s \in Conns : ses'[s].client = ses[s].client /\ (ses'[s].open <=> ses[s].open),
         \A c \in ClientIds : cl'[c].sessions = cl[c].sessions,
         \A s \in Conns : ses[s].client \in ClientIds \cup {None},
         \A u \in Threads : th'[u].at = "sessions" =>
           th[u].at = "sessions" /\ th'[u].c = th[u].c /\ th'[u].todo \subseteq th[u].todo
  PROVE  HandedOver'
  <1> SUFFICES ASSUME NEW s \in Conns PROVE HandedOver!(s)'
    BY DEF HandedOver
  <1>1. HandedOver!(s)
    BY DEF LimiterInv, HandedOver
  <1>2. ses'[s].client = ses[s].client /\ (ses'[s].open <=> ses[s].open)
    OBVIOUS
  <1> QED
    BY <1>1, <1>2

(* A step that neither opens nor closes nor moves a connection.            *)
LEMMA LimiterKept ==
  ASSUME LimiterInv, HandedOver', limiter' = limiter, ghost'.twice = {} => ghost.twice = {},
         \A s \in Conns : /\ ses'[s].open <=> ses[s].open
                          /\ ses'[s].proxied <=> ses[s].proxied
                          /\ Proxying(s)' <=> Proxying(s)
                          /\ th'[<<s, "run">>].at = "proxyMoved" <=> th[<<s, "run">>].at = "proxyMoved"
  PROVE  LimiterInv'
  <1>1. AtGateway' = AtGateway /\ AtHome' = AtHome /\ {s \in Conns : ses'[s].open} = {s \in Conns : ses[s].open}
    <2>1. \A s \in Conns : (s \in AtGateway' <=> s \in AtGateway) /\ (s \in AtHome' <=> s \in AtHome)
      BY DEF AtGateway, AtHome
    <2>2. AtGateway' \subseteq Conns /\ AtGateway \subseteq Conns /\ AtHome' \subseteq Conns /\ AtHome \subseteq Conns
      BY DEF AtGateway, AtHome
    <2> QED
      BY <2>1, <2>2
  <1>2. Muddled => Muddled'
    BY DEF Muddled
  <1> QED
    BY <1>1, <1>2 DEF LimiterInv

(* A step that concerns no address.                                        *)
LEMMA LimiterFrame ==
  ASSUME CoreInv, LimiterInv, NEW t \in Threads, Moved(t), SameSessions,
         \A c \in ClientIds : cl'[c].sessions = cl[c].sessions,
         th[t].at \notin {"proxyAdded", "proxyMoved"},
         th'[t].at \notin {"proxyAdded", "proxyMoved", "sessions"},
         limiter' = limiter, ghost'.twice = ghost.twice
  PROVE  LimiterInv'
  <1>1. \A s \in Conns : ses[s].client \in ClientIds \cup {None}
    BY DEF CoreInv, ClientsType, SessionRecord
  <1>2. \A u \in Threads : th'[u].at = "sessions" =>
           th[u].at = "sessions" /\ th'[u].c = th[u].c /\ th'[u].todo \subseteq th[u].todo
    BY DEF Moved
  <1>3. HandedOver'
    BY <1>1, <1>2, HandedFrame DEF SameSessions
  <1>4. \A s \in Conns : /\ <<s, "run">> \in Threads
                         /\ Proxying(s)' <=> Proxying(s)
                         /\ th'[<<s, "run">>].at = "proxyMoved" <=> th[<<s, "run">>].at = "proxyMoved"
    BY ThreadNames DEF Moved, Proxying
  <1> QED
    BY <1>3, <1>4, LimiterKept DEF SameSessions

(* A set gets one more element.                                            *)
LEMMA OneMore ==
  ASSUME NEW S, IsFiniteSet(S), NEW x, x \notin S, NEW T, T = S \cup {x}
  PROVE  IsFiniteSet(T) /\ Cardinality(T) = Cardinality(S) + 1 /\ Cardinality(S) \in Nat /\ Cardinality(T) \in Nat
  BY FS_AddElement, FS_CardinalityType

(* A set loses one element.                                                *)
LEMMA OneLess ==
  ASSUME NEW S, IsFiniteSet(S), NEW x \in S, NEW T, T = S \ {x}
  PROVE  /\ IsFiniteSet(T) /\ Cardinality(T) = Cardinality(S) - 1 /\ Cardinality(S) \in Nat \ {0}
         /\ Cardinality(T) \in Nat
  <1>1. IsFiniteSet(T) /\ Cardinality(T) = Cardinality(S) - 1
    BY FS_RemoveElement
  <1>2. Cardinality(S) \in Nat /\ Cardinality(T) \in Nat
    BY <1>1, FS_CardinalityType
  <1> QED
    BY <1>1, <1>2

(* The connections counted for an address are open: there are finitely     *)
(* many.                                                                   *)
LEMMA CountedFinite ==
  ASSUME LimiterInv
  PROVE  IsFiniteSet(AtGateway) /\ IsFiniteSet(AtHome)
  BY FS_Subset, ZenonT(60) DEF LimiterInv, AtGateway, AtHome

(* RunClient counts the connection for the address it comes from.          *)
LEMMA RunClientLimiter ==
  ASSUME CoreInv, LimiterInv, NEW i \in Conns, RunClient(i)
  PROVE  LimiterInv'
  <1>1. ClientsType /\ SessionInv
    BY DEF CoreInv
  <1>a. PICK t \in Threads : t = <<i, "run">> /\ th[t].at = "rest"
    BY ThreadNames DEF RunClient
  <1>2. CASE limiter[Gateway] >= MaxConcurrent
    <2>1. th' = [th EXCEPT ![t] = Finished] /\ UNCHANGED <<cl, ses, limiter, ghost>>
      BY <1>2, <1>a DEF RunClient
    <2>2. Moved(t) /\ th'[t] = Finished
      BY <2>1, <1>1, MovedTo
    <2>3. th'[t].at = "done" /\ SameSessions
      BY <2>1, <2>2 DEF Finished, SameSessions
    <2> QED
      BY <1>a, <2>1, <2>2, <2>3, LimiterFrame
  <1>3. CASE ~(limiter[Gateway] >= MaxConcurrent)
    <2>a. PICK new : new = [NoClient EXCEPT !.made = TRUE, !.sessions = {i}, !.timer = TRUE]
      OBVIOUS
    <2>b. PICK snew : snew = [NoSession EXCEPT !.client = i, !.open = TRUE]
      OBVIOUS
    <2>c. /\ limiter' = LimiterAdd(limiter, Gateway)
          /\ cl' = [cl EXCEPT ![i] = new]
          /\ ses' = [ses EXCEPT ![i] = snew]
          /\ th' = [th EXCEPT ![t] = Running]
          /\ ghost' = ghost
      BY <1>3, <1>a, <2>a, <2>b DEF RunClient
    <2>d. new.sessions = {i}
      BY <2>a DEF NoClient
    <2>e. snew.client = i /\ snew.open /\ ~snew.proxied
      BY <2>b DEF NoSession
    <2>f. i \in ClientIds /\ i # None /\ ses[i] = NoSession /\ cl[i] = NoClient
      BY <1>1, <1>a, ClientsAssumption DEF SessionInv, ClientIds
    <2>n. ses[i].client = None /\ ~ses[i].open
      BY <2>f DEF NoSession
    <2>g. cl'[i] = new /\ \A d \in ClientIds \ {i} : cl'[d] = cl[d]
      BY <1>1, <2>c, <2>f DEF ClientsType
    <2>h. ses'[i] = snew /\ \A x \in Conns \ {i} : ses'[x] = ses[x]
      BY <1>1, <2>c DEF ClientsType
    <2>o. Moved(t) /\ th'[t] = Running
      BY <2>c, <1>1, MovedTo
    <2>i. th'[t].at = "run"
      BY <2>o DEF Running
    <2>p. \A u \in Threads : th'[u].at = "sessions" =>
             th[u].at = "sessions" /\ th'[u].c = th[u].c /\ th'[u].todo = th[u].todo
      BY <2>i, <2>o DEF Moved
    <2>1. HandedOver'
      <3> SUFFICES ASSUME NEW s \in Conns PROVE HandedOver!(s)'
        BY DEF HandedOver
      <3>1. HandedOver!(s)
        BY DEF LimiterInv, HandedOver
      <3>2. CASE s = i
        <4>1. \A c \in ClientIds : i \in cl'[c].sessions => c = i
          BY <3>1, <3>2, <2>g, <2>n
        <4>2. \A u \in Threads : ~(th'[u].at = "sessions" /\ i \in th'[u].todo)
          BY <3>1, <3>2, <2>p, <2>n
        <4> QED
          BY <3>2, <4>1, <4>2, <2>e, <2>f, <2>h
      <3>3. CASE s # i
        <4>1. \A c \in ClientIds : s \in cl'[c].sessions => s \in cl[c].sessions
          BY <3>3, <2>d, <2>g
        <4>2. ses'[s] = ses[s]
          BY <3>3, <2>h
        <4>3. ses[s].client \in ClientIds \cup {None}
          BY <1>1 DEF ClientsType, SessionRecord
        <4> QED
          BY <3>1, <4>1, <4>2, <4>3, <2>c, <2>p
      <3> QED
        BY <3>2, <3>3
    <2>2. \A s \in Conns : /\ <<s, "run">> \in Threads
                           /\ Proxying(s)' <=> Proxying(s)
                           /\ Proxying(s) => s # i
                           /\ th'[<<s, "run">>].at = "proxyMoved" <=> th[<<s, "run">>].at = "proxyMoved"
      BY ThreadNames, <1>a, <2>o, <2>i DEF Moved, Proxying
    <2>3. \A s \in Conns : Proxying(s)' => ~ses'[s].proxied
      BY <2>2, <2>h DEF LimiterInv
    <2>4. i \notin AtGateway /\ i \notin AtHome /\ i \notin {s \in Conns : ses[s].open}
      BY <2>n DEF AtGateway, AtHome
    <2>5. AtGateway' = AtGateway \cup {i} /\ AtHome' = AtHome
      <3>1. \A s \in Conns \ {i} : (s \in AtGateway' <=> s \in AtGateway) /\ (s \in AtHome' <=> s \in AtHome)
        BY <2>2, <2>h DEF AtGateway, AtHome
      <3>2. i \in AtGateway' /\ i \notin AtHome'
        BY <2>2, <2>e, <2>h, <1>a, <2>i DEF AtGateway, AtHome
      <3>3. AtGateway' \subseteq Conns /\ AtGateway \subseteq Conns /\ AtHome' \subseteq Conns /\ AtHome \subseteq Conns
        BY DEF AtGateway, AtHome
      <3> QED
        BY <3>1, <3>2, <3>3, <2>4
    <2>6. IsFiniteSet({s \in Conns : ses[s].open}')
      <3>1. {s \in Conns : ses[s].open}' = {s \in Conns : ses[s].open} \cup {i}
        BY <2>e, <2>h
      <3> QED
        BY <3>1, <2>4, OneMore DEF LimiterInv
    <2>7. Muddled' => Muddled
      BY <2>2, <2>c, <2>h DEF Muddled
    <2>8. Muddled => Muddled'
      BY <2>2, <2>c, <2>h DEF Muddled
    <2>9. limiter'[Gateway] = limiter[Gateway] + 1 /\ limiter'[Home] = limiter[Home]
      BY <1>1, <2>c, ClientsAssumption DEF LimiterAdd, ClientsType, Addrs
    <2>10. Cardinality(AtGateway') = Cardinality(AtGateway) + 1
      BY <2>4, <2>5, CountedFinite, OneMore
    <2> QED
      BY <2>1, <2>3, <2>5, <2>6, <2>8, <2>9, <2>10 DEF LimiterInv
  <1> QED
    BY <1>2, <1>3

(* ApplyProxiedIP counts the session twice for a moment, in AtGateway and  *)
(* AtHome, until the real address is given back.                           *)
LEMMA ProxyLimiter ==
  ASSUME CoreInv, LimiterInv, NEW t \in Threads, ApplyProxiedIP(t) \/ ProxyMove(t) \/ ProxyDone(t)
  PROVE  LimiterInv'
  <1>0. ClientsType /\ ThreadInv /\ SessionInv
    BY DEF CoreInv
  <1>n. ApplyProxiedIP(t) => ReadLine(t)
    BY DEF ApplyProxiedIP
  <1>a. PICK s \in Conns : s = t[1] /\ t = <<s, "run">>
    <2>1. th[t].at \in {"run", "proxyAdded", "proxyMoved"}
      BY DEF ApplyProxiedIP, ProxyMove, ProxyDone, ReadLine, IsRunning
    <2> QED
      BY <2>1, <1>0, ThreadNames DEF ThreadInv, ThreadOK, Destroying
  <1>b. /\ cl' = cl /\ Moved(t)
        /\ ApplyProxiedIP(t) => th[t].at = "run" /\ th'[t].at = "proxyAdded"
        /\ ProxyMove(t) => th[t].at = "proxyAdded" /\ th'[t].at = "proxyMoved"
        /\ ProxyDone(t) => th[t].at = "proxyMoved" /\ th'[t].at = "run"
    <2>1. CASE ApplyProxiedIP(t)
      <3>1. th[t].at = "run" /\ cl' = cl /\ th' = [th EXCEPT ![t] = [at |-> "proxyAdded"]]
        BY <2>1 DEF ApplyProxiedIP, ReadLine, IsRunning
      <3>2. Moved(t) /\ th'[t] = [at |-> "proxyAdded"]
        BY <3>1, <1>0, MovedTo
      <3>3. ~ProxyMove(t) /\ ~ProxyDone(t)
        BY <3>1 DEF ProxyMove, ProxyDone
      <3> QED
        BY <3>1, <3>2, <3>3
    <2>2. CASE ProxyMove(t)
      <3>1. th[t].at = "proxyAdded" /\ cl' = cl /\ th' = [th EXCEPT ![t] = [at |-> "proxyMoved"]]
        BY <2>2 DEF ProxyMove
      <3>2. Moved(t) /\ th'[t] = [at |-> "proxyMoved"]
        BY <3>1, <1>0, MovedTo
      <3>3. ~ApplyProxiedIP(t) /\ ~ProxyDone(t)
        BY <3>1 DEF ApplyProxiedIP, ReadLine, IsRunning, ProxyDone
      <3> QED
        BY <3>1, <3>2, <3>3
    <2>3. CASE ProxyDone(t)
      <3>1. th[t].at = "proxyMoved" /\ cl' = cl /\ th' = [th EXCEPT ![t] = Running]
        BY <2>3 DEF ProxyDone
      <3>2. Moved(t) /\ th'[t] = Running
        BY <3>1, <1>0, MovedTo
      <3>3. ~ApplyProxiedIP(t) /\ ~ProxyMove(t)
        BY <3>1 DEF ApplyProxiedIP, ReadLine, IsRunning, ProxyMove
      <3> QED
        BY <3>1, <3>2, <3>3 DEF Running
    <2> QED
      BY <2>1, <2>2, <2>3
  <1>c. /\ \A x \in Conns : ses'[x].client = ses[x].client /\ (ses'[x].open <=> ses[x].open)
        /\ \A x \in Conns : x # s => (ses'[x].proxied <=> ses[x].proxied)
        /\ ~ProxyDone(t) => (ses'[s].proxied <=> ses[s].proxied)
        /\ ProxyDone(t) => ses'[s].proxied
    <2>1. CASE ApplyProxiedIP(t)
      <3>1. ~ProxyDone(t)
        BY <1>b, <2>1
      <3> QED
        BY <2>1, <3>1, <1>0, <1>n, LineRead DEF SessionsKept
    <2>2. CASE ProxyMove(t)
      <3>1. ~ProxyDone(t)
        BY <1>b, <2>2
      <3> QED
        BY <2>2, <3>1 DEF ProxyMove
    <2>3. CASE ProxyDone(t)
      <3>1. PICK new : new = [ses[s] EXCEPT !.proxied = TRUE]
        OBVIOUS
      <3>2. new.client = ses[s].client /\ new.open = ses[s].open /\ new.proxied
        BY <3>1, <1>0, <1>a DEF ClientsType, SessionRecord
      <3>3. ses'[s] = new /\ \A x \in Conns \ {s} : ses'[x] = ses[x]
        BY <3>1, <2>3, <1>0, <1>a DEF ProxyDone, ClientsType
      <3> QED
        BY <2>3, <3>2, <3>3
    <2> QED
      BY <2>1, <2>2, <2>3
  <1>d. /\ ~ProxyDone(t) => ghost' = ghost
        /\ ProxyDone(t) => ghost'.twice = IF ses[s].open THEN ghost.twice ELSE ghost.twice \cup {s}
    BY <1>0, <1>a DEF ApplyProxiedIP, ProxyMove, ProxyDone, ClientsType, Ghosts
  <1>e. ~ses[s].proxied
    BY <1>a, <1>b DEF ApplyProxiedIP, LimiterInv, Proxying
  <1>f. \A x \in Conns \ {s} : /\ Proxying(x)' <=> Proxying(x)
                               /\ x \in AtGateway' <=> x \in AtGateway
                               /\ x \in AtHome' <=> x \in AtHome
    <2> SUFFICES ASSUME NEW x \in Conns, x # s
                 PROVE  /\ Proxying(x)' <=> Proxying(x)
                        /\ x \in AtGateway' <=> x \in AtGateway
                        /\ x \in AtHome' <=> x \in AtHome
      OBVIOUS
    <2>1. th'[<<x, "run">>] = th[<<x, "run">>]
      BY <1>a, <1>b, ThreadNames DEF Moved
    <2> QED
      BY <2>1, <1>c DEF Proxying, AtGateway, AtHome
  <1>g. Proxying(s)' <=> ~ProxyDone(t)
    BY <1>a, <1>b DEF Proxying
  <1>1. HandedOver'
    <2>1. ghost'.twice = {} => ghost.twice = {}
      BY <1>d
    <2>2. \A x \in Conns : ses[x].client \in ClientIds \cup {None}
      BY <1>0 DEF ClientsType, SessionRecord
    <2>3. \A u \in Threads : th'[u].at = "sessions" =>
            th[u].at = "sessions" /\ th'[u].c = th[u].c /\ th'[u].todo \subseteq th[u].todo
      BY <1>b DEF Moved
    <2> QED
      BY <2>1, <2>2, <2>3, <1>b, <1>c, HandedFrame
  <1>2. \A x \in Conns : Proxying(x)' => ~ses'[x].proxied
    BY <1>c, <1>e, <1>f, <1>g DEF LimiterInv
  <1>3. IsFiniteSet({x \in Conns : ses[x].open}')
    <2>1. {x \in Conns : ses[x].open}' = {x \in Conns : ses[x].open}
      BY <1>c
    <2> QED
      BY <2>1 DEF LimiterInv
  <1>4. ASSUME ~Muddled'
        PROVE  limiter'[Gateway] = Cardinality(AtGateway') /\ limiter'[Home] = Cardinality(AtHome')
    <2>1. ses[s].open
      BY <1>4, <1>c, <1>d, <1>g DEF Muddled
    <2>2. ~Muddled
      BY <1>4, <1>c, <1>d, <1>f, <2>1 DEF Muddled
    <2>3. limiter[Gateway] = Cardinality(AtGateway) /\ limiter[Home] = Cardinality(AtHome)
      BY <2>2 DEF LimiterInv
    <2>4. /\ AtGateway' \subseteq Conns /\ AtGateway \subseteq Conns
          /\ AtHome' \subseteq Conns /\ AtHome \subseteq Conns
      BY DEF AtGateway, AtHome
    <2>5. s \in AtGateway <=> ~ProxyDone(t)
      BY <2>1, <1>a, <1>b, <1>e DEF AtGateway
    <2>6. s \in AtGateway' <=> ApplyProxiedIP(t)
      BY <2>1, <1>a, <1>b, <1>c, <1>e DEF AtGateway
    <2>7. s \in AtHome <=> ~ApplyProxiedIP(t)
      BY <2>1, <1>a, <1>b, <1>e DEF AtHome, Proxying
    <2>8. s \in AtHome'
      BY <2>1, <1>c, <1>g DEF AtHome
    <2>9. CASE ApplyProxiedIP(t)
      <3>1. AtGateway' = AtGateway /\ AtHome' = AtHome \cup {s} /\ s \notin AtHome
        BY <2>4, <2>5, <2>6, <2>7, <2>8, <2>9, <1>b, <1>f
      <3>2. limiter'[Gateway] = limiter[Gateway] /\ limiter'[Home] = limiter[Home] + 1
        BY <2>9, <1>0, ClientsAssumption DEF ApplyProxiedIP, LimiterAdd, ClientsType, Addrs
      <3>3. Cardinality(AtHome') = Cardinality(AtHome) + 1
        BY <3>1, CountedFinite, OneMore
      <3> QED
        BY <2>3, <3>1, <3>2, <3>3
    <2>10. CASE ProxyMove(t)
      <3>1. AtGateway' = AtGateway \ {s} /\ AtHome' = AtHome /\ s \in AtGateway
        BY <2>4, <2>5, <2>6, <2>7, <2>8, <2>10, <1>b, <1>f
      <3>2. Cardinality(AtGateway') = Cardinality(AtGateway) - 1 /\ Cardinality(AtGateway) \in Nat \ {0}
        BY <3>1, CountedFinite, OneLess
      <3>3. limiter'[Gateway] = limiter[Gateway] - 1 /\ limiter'[Home] = limiter[Home]
        BY <2>3, <2>10, <3>2, <1>0, ClientsAssumption DEF ProxyMove, LimiterRemove, ClientsType, Addrs
      <3> QED
        BY <2>3, <3>1, <3>2, <3>3
    <2>11. CASE ProxyDone(t)
      <3>1. AtGateway' = AtGateway /\ AtHome' = AtHome
        BY <2>4, <2>5, <2>6, <2>7, <2>8, <2>11, <1>b, <1>f
      <3>2. limiter' = limiter
        BY <2>11 DEF ProxyDone
      <3> QED
        BY <2>3, <3>1, <3>2
    <2> QED
      BY <2>9, <2>10, <2>11
  <1> QED
    BY <1>1, <1>2, <1>3, <1>4 DEF LimiterInv

(* destroy takes the sessions out of the client's list: the goroutine that *)
(* did so closes them, no other.                                           *)
LEMMA DestroyLimiter ==
  ASSUME CoreInv, LimiterInv, NEW t \in Threads, NEW c \in ClientIds, NEW s \in Conns \cup {None},
         NEW expired \in BOOLEAN, Destroy(t, c, s, expired), Destroys(t, c)
  PROVE  LimiterInv'
  <1>1. ClientsType
    BY DEF CoreInv
  <1>a. PICK todo \in SUBSET Conns, die \in BOOLEAN, decrement \in BOOLEAN, new \in ClientRecord :
          DestroyEffect(t, c, s, todo, die, decrement, new)
    BY <1>1, DestroyFacts
  <1>b. todo \subseteq cl[c].sessions /\ new.sessions = cl[c].sessions \ todo
    BY <1>a DEF DestroyEffect
  <1>c. cl'[c] = new /\ \A d \in ClientIds \ {c} : cl'[d] = cl[d]
    BY <1>1, <1>a, ClientSet DEF DestroyEffect
  <1>d. Moved(t) /\ th'[t] = [at |-> "sessions", c |-> c, todo |-> todo, registered |-> cl[c].registered,
                              decrement |-> decrement, die |-> die]
    BY <1>1, <1>a, MovedTo DEF DestroyEffect
  <1>e. /\ th'[t].at = "sessions" /\ th'[t].c = c /\ th'[t].todo = todo
        /\ th[t].at \notin {"sessions", "proxyAdded", "proxyMoved"}
    BY <1>d DEF Destroys
  <1>f. ses' = ses /\ limiter' = limiter /\ ghost'.twice = ghost.twice
    <2>1. PICK w : ghost' = [ghost EXCEPT !.uncounted = w]
      BY <1>a DEF DestroyEffect
    <2>2. ghost'.twice = ghost.twice
      BY <2>1, <1>1 DEF ClientsType, Ghosts
    <2> QED
      BY <2>2 DEF Destroy
  <1>2. HandedOver'
    <2> SUFFICES ASSUME NEW x \in Conns PROVE HandedOver!(x)'
      BY DEF HandedOver
    <2>1. HandedOver!(x)
      BY DEF LimiterInv, HandedOver
    <2>2. \A d \in ClientIds : cl'[d].sessions \subseteq cl[d].sessions
      BY <1>b, <1>c
    <2>3. \A u \in Threads \ {t} : th'[u] = th[u]
      BY <1>d DEF Moved
    <2>4. ses[x].client \in ClientIds \cup {None}
      BY <1>1 DEF ClientsType, SessionRecord
    <2>5. x \in todo => x \in cl[c].sessions /\ x \notin cl'[c].sessions
      BY <1>b, <1>c
    <2>6. HandedOver!(x)!1'
      BY <2>1, <2>2, <1>f
    <2>7. HandedOver!(x)!2'
      BY <2>1, <2>3, <2>5, <1>e, <1>f
    <2>8. HandedOver!(x)!3'
      <3> SUFFICES ASSUME ghost.twice = {} PROVE HandedOver!(x)!3!2'
        BY <1>f
      <3>1. HandedOver!(x)!3!2
        BY <2>1
      <3>2. ses'[x].client # None /\ x \in cl'[ses'[x].client].sessions => ses'[x].open
        BY <3>1, <2>2, <2>4, <1>f
      <3>3. \A u \in Threads : th'[u].at = "sessions" /\ x \in th'[u].todo /\ th'[u].c = ses'[x].client =>
              ses'[x].open /\ x \notin cl'[ses'[x].client].sessions
        <4> SUFFICES ASSUME NEW u \in Threads, th'[u].at = "sessions", x \in th'[u].todo, th'[u].c = ses'[x].client
                     PROVE  ses'[x].open /\ x \notin cl'[ses'[x].client].sessions
          OBVIOUS
        <4>1. CASE u = t
          <5>1. x \in todo /\ c = ses[x].client /\ c # None
            BY <4>1, <1>e, <1>f, ClientsAssumption DEF ClientIds
          <5> QED
            BY <5>1, <3>1, <2>5, <1>f
        <4>2. CASE u # t
          <5>1. th[u].at = "sessions" /\ x \in th[u].todo /\ th[u].c = ses[x].client
            BY <4>2, <2>3, <1>f
          <5>2. ses[x].client \in ClientIds
            BY <5>1, <2>1, <2>4
          <5> QED
            BY <5>1, <5>2, <3>1, <2>2, <1>f
        <4> QED
          BY <4>1, <4>2
      <3>4. ASSUME NEW u \in Threads, NEW v \in Threads,
                   th'[u].at = "sessions", x \in th'[u].todo, th'[u].c = ses'[x].client,
                   th'[v].at = "sessions", x \in th'[v].todo, th'[v].c = ses'[x].client
            PROVE  u = v
        <4>1. CASE u # t /\ v # t
          BY <4>1, <3>1, <3>4, <2>3, <1>f
        <4>2. ASSUME NEW w \in Threads, w # t, th'[w].at = "sessions", x \in th'[w].todo,
                     th'[w].c = ses'[x].client, x \in todo, c = ses'[x].client
              PROVE  FALSE
          <5>1. x \notin cl[ses[x].client].sessions
            BY <4>2, <3>1, <2>3, <1>f
          <5> QED
            BY <5>1, <4>2, <2>5, <1>f
        <4> QED
          BY <4>1, <4>2, <3>4, <1>e
      <3> QED
        BY <3>2, <3>3, <3>4
    <2> QED
      BY <2>6, <2>7, <2>8
  <1>3. \A x \in Conns : /\ Proxying(x)' <=> Proxying(x)
                         /\ th'[<<x, "run">>].at = "proxyMoved" <=> th[<<x, "run">>].at = "proxyMoved"
    <2> SUFFICES ASSUME NEW x \in Conns
                 PROVE  /\ Proxying(x)' <=> Proxying(x)
                        /\ th'[<<x, "run">>].at = "proxyMoved" <=> th[<<x, "run">>].at = "proxyMoved"
      OBVIOUS
    <2>1. <<x, "run">> \in Threads
      BY ThreadNames
    <2>2. CASE <<x, "run">> = t
      BY <2>2, <1>e DEF Proxying
    <2>3. CASE <<x, "run">> # t
      BY <2>1, <2>3, <1>d DEF Proxying, Moved
    <2> QED
      BY <2>2, <2>3
  <1> QED
    BY <1>2, <1>3, <1>f, LimiterKept

(* A session that moves to another client is still in its list, or the     *)
(* race with the registration timer is recorded.                           *)
LEMMA ReattachLimiter ==
  ASSUME CoreInv, LimiterInv, NEW t \in Threads, th[t].at = "setnick",
         byNick[th[t].nick] \notin {None, th[t].c}, CanReattach(th[t], byNick[th[t].nick]),
         Reattach(t, th[t], byNick[th[t].nick])
  PROVE  LimiterInv'
  <1>1. ClientsType
    BY DEF CoreInv
  <1>a. PICK h \in ClientIds, s \in Conns, o \in Threads : ReattachEffect(t, h, s, o)
    BY ReattachFacts
  <1>b. /\ t = <<s, "run">> /\ o = <<s, "old">> /\ h # s /\ ses[s].client = s
        /\ cl'[h].sessions = cl[h].sessions \cup {s} /\ \A d \in ClientIds \ {h} : cl'[d] = cl[d]
        /\ ses'[s].client = h /\ ses'[s].open = ses[s].open /\ ses'[s].proxied = ses[s].proxied
        /\ \A x \in Conns \ {s} : ses'[x] = ses[x]
        /\ th'[t].at = "run" /\ th'[o].at = "left" /\ \A u \in Threads \ {t, o} : th'[u] = th[u]
        /\ ghost'.twice = IF s \in cl[s].sessions THEN ghost.twice ELSE ghost.twice \cup {s}
        /\ limiter' = limiter
    BY <1>a DEF ReattachEffect
  <1>c. s \in ClientIds /\ s # None /\ h # None
    BY ClientsAssumption DEF ClientIds
  <1>d. ghost'.twice = {} => ghost.twice = {} /\ s \in cl[s].sessions
    BY <1>b
  <1>e. \A u \in Threads : th'[u].at = "sessions" => th[u].at = "sessions" /\ th'[u] = th[u]
    BY <1>b
  <1>2. HandedOver'
    <2> SUFFICES ASSUME NEW x \in Conns PROVE HandedOver!(x)'
      BY DEF HandedOver
    <2>1. HandedOver!(x) /\ ses[x].client \in ClientIds \cup {None}
      BY <1>1 DEF LimiterInv, HandedOver, ClientsType, SessionRecord
    <2>2. CASE x # s
      <3>1. ses'[x] = ses[x] /\ \A d \in ClientIds : x \in cl'[d].sessions <=> x \in cl[d].sessions
        BY <2>2, <1>b
      <3> QED
        BY <3>1, <2>1, <1>d, <1>e
    <2>3. CASE x = s
      <3>1. \A d \in ClientIds : s \in cl'[d].sessions => d \in {s, h}
        BY <2>1, <2>3, <1>b
      <3>2. \A u \in Threads : th'[u].at = "sessions" /\ s \in th'[u].todo => th'[u].c = s
        BY <2>1, <2>3, <1>b, <1>e
      <3>3. ghost'.twice = {} => ses'[s].open
        BY <2>1, <2>3, <1>b, <1>c, <1>d
      <3> QED
        BY <2>3, <3>1, <3>2, <3>3, <1>b, <1>c
    <2> QED
      BY <2>2, <2>3
  <1>3. \A x \in Conns : /\ Proxying(x)' <=> Proxying(x)
                         /\ th'[<<x, "run">>].at = "proxyMoved" <=> th[<<x, "run">>].at = "proxyMoved"
    <2> SUFFICES ASSUME NEW x \in Conns
                 PROVE  /\ Proxying(x)' <=> Proxying(x)
                        /\ th'[<<x, "run">>].at = "proxyMoved" <=> th[<<x, "run">>].at = "proxyMoved"
      OBVIOUS
    <2>1. <<x, "run">> \in Threads /\ <<x, "run">> # o
      BY <1>b, ThreadNames
    <2>2. CASE <<x, "run">> = t
      BY <2>2, <1>b DEF Proxying
    <2>3. CASE <<x, "run">> # t
      BY <2>1, <2>3, <1>b DEF Proxying
    <2> QED
      BY <2>2, <2>3
  <1>4. \A x \in Conns : (ses'[x].open <=> ses[x].open) /\ (ses'[x].proxied <=> ses[x].proxied)
    BY <1>b
  <1> QED
    BY <1>2, <1>3, <1>4, <1>b, <1>d, LimiterKept

(* The loop of destroy closes each session once and gives back the address *)
(* it is counted for.                                                      *)
LEMMA DestroySessionLimiter ==
  ASSUME CoreInv, LimiterInv, NEW t \in Threads, DestroySession(t)
  PROVE  LimiterInv'
  <1>1. ClientsType /\ ThreadInv
    BY DEF CoreInv
  <1>a. th[t].at = "sessions" /\ UNCHANGED <<cl, ghost>> /\ th[t].c \in ClientIds
    BY <1>1 DEF DestroySession, ThreadInv, ThreadOK, DestroyOK, Destroying
  <1>b. th[t] \in [at : {"sessions"}, c : ClientIds, todo : SUBSET Conns, registered : BOOLEAN,
                   decrement : BOOLEAN, die : BOOLEAN]
    BY <1>1, <1>a DEF ThreadInv, ThreadOK, DestroyOK, Destroying
  <1>c. PICK s \in th[t].todo :
          /\ th' = [th EXCEPT ![t].todo = @ \ {s}]
          /\ IF ses[s].client # th[t].c
             THEN UNCHANGED <<ses, limiter>>
             ELSE /\ ses' = [ses EXCEPT ![s].open = FALSE]
                  /\ limiter' = LimiterRemove(limiter, SessionAddr(s))
    BY DEF DestroySession
  <1>d. s \in Conns
    BY <1>b
  <1>e. PICK new : new = [th[t] EXCEPT !.todo = @ \ {s}]
    OBVIOUS
  <1>f. new.at = "sessions" /\ new.c = th[t].c /\ new.todo = th[t].todo \ {s}
    BY <1>b, <1>e
  <1>g. Moved(t) /\ th'[t] = new
    <2>1. th' = [th EXCEPT ![t] = new]
      BY <1>c, <1>e
    <2> QED
      BY <2>1, <1>1, MovedTo
  <1>h. \A u \in Threads : th'[u].at = "sessions" =>
          th[u].at = "sessions" /\ th'[u].c = th[u].c /\ th'[u].todo \subseteq th[u].todo
    BY <1>a, <1>f, <1>g DEF Moved
  <1>i. \A x \in Conns : /\ Proxying(x)' <=> Proxying(x)
                         /\ th'[<<x, "run">>].at = "proxyMoved" <=> th[<<x, "run">>].at = "proxyMoved"
    BY <1>a, <1>f, <1>g, ThreadNames DEF Moved, Proxying
  <1>j. \A x \in Conns : ses[x].client \in ClientIds \cup {None}
    BY <1>1 DEF ClientsType, SessionRecord
  <1>2. CASE ses[s].client # th[t].c
    <2>1. ses' = ses /\ limiter' = limiter
      BY <1>2, <1>c
    <2>2. HandedOver'
      BY <2>1, <1>a, <1>h, <1>j, HandedFrame
    <2> QED
      BY <2>1, <2>2, <1>a, <1>i, LimiterKept
  <1>3. CASE ses[s].client = th[t].c
    <2>a. PICK snew : snew = [ses[s] EXCEPT !.open = FALSE]
      OBVIOUS
    <2>b. snew.client = ses[s].client /\ ~snew.open /\ snew.proxied = ses[s].proxied
      BY <2>a, <1>1, <1>d DEF ClientsType, SessionRecord
    <2>c. ses'[s] = snew /\ \A x \in Conns \ {s} : ses'[x] = ses[x]
      BY <2>a, <1>3, <1>c, <1>d, <1>1 DEF ClientsType
    <2>h. HandedOver!(s)
      BY <1>d DEF LimiterInv, HandedOver
    <2>d. ghost.twice = {} =>
            /\ ses[s].open /\ s \notin cl[ses[s].client].sessions
            /\ \A u \in Threads : th[u].at = "sessions" /\ s \in th[u].todo /\ th[u].c = ses[s].client => u = t
      BY <2>h, <1>a, <1>3
    <2>1. HandedOver'
      <3> SUFFICES ASSUME NEW x \in Conns PROVE HandedOver!(x)'
        BY DEF HandedOver
      <3>1. HandedOver!(x) /\ ses[x].client \in ClientIds \cup {None}
        BY <1>j DEF LimiterInv, HandedOver
      <3>2. CASE x # s
        <4>1. ses'[x] = ses[x]
          BY <3>2, <2>c
        <4> QED
          BY <3>1, <4>1, <1>a, <1>h
      <3>3. CASE x = s
        <4>1. ses'[s].client = ses[s].client
          BY <2>b, <2>c
        <4>2. HandedOver!(x)!1' /\ HandedOver!(x)!2'
          BY <3>1, <3>3, <4>1, <1>a, <1>h
        <4>3. ASSUME NEW u \in Threads, ghost.twice = {}, th'[u].at = "sessions", s \in th'[u].todo,
                     th'[u].c = ses'[s].client
              PROVE  FALSE
          <5>1. u = t
            BY <4>1, <4>3, <2>d, <1>h
          <5> QED
            BY <5>1, <4>3, <1>f, <1>g
        <4>4. ghost'.twice = {} => ~(s \in cl'[ses'[s].client].sessions)
          BY <2>d, <4>1, <1>a
        <4> QED
          BY <3>3, <4>2, <4>3, <4>4, <1>a
      <3> QED
        BY <3>2, <3>3
    <2>2. \A x \in Conns : Proxying(x)' => ~ses'[x].proxied
      BY <1>i, <2>b, <2>c DEF LimiterInv
    <2>3. IsFiniteSet({x \in Conns : ses[x].open}')
      <3>1. {x \in Conns : ses[x].open}' \subseteq {x \in Conns : ses[x].open}
        BY <2>b, <2>c
      <3> QED
        BY <3>1, FS_Subset DEF LimiterInv
    <2>4. ASSUME ~Muddled'
          PROVE  limiter'[Gateway] = Cardinality(AtGateway') /\ limiter'[Home] = Cardinality(AtHome')
      <3>1. ~Proxying(s) /\ ghost.twice = {} /\ ~Muddled
        BY <2>4, <1>a, <1>d, <1>i, <2>b, <2>c DEF Muddled
      <3>2. limiter[Gateway] = Cardinality(AtGateway) /\ limiter[Home] = Cardinality(AtHome)
        BY <3>1 DEF LimiterInv
      <3>3. ses[s].open
        BY <3>1, <2>d
      <3>4. /\ AtGateway' \subseteq Conns /\ AtGateway \subseteq Conns
            /\ AtHome' \subseteq Conns /\ AtHome \subseteq Conns
        BY DEF AtGateway, AtHome
      <3>5. /\ \A x \in Conns \ {s} : (x \in AtGateway' <=> x \in AtGateway) /\ (x \in AtHome' <=> x \in AtHome)
            /\ s \notin AtGateway' /\ s \notin AtHome'
        BY <1>i, <2>b, <2>c DEF AtGateway, AtHome
      <3>6. (s \in AtHome <=> ses[s].proxied) /\ (s \in AtGateway <=> ~ses[s].proxied)
        BY <3>1, <3>3, <1>d DEF AtGateway, AtHome, Proxying
      <3>7. AtGateway' = AtGateway \ {s} /\ AtHome' = AtHome \ {s}
        BY <3>4, <3>5
      <3>8. CASE ses[s].proxied
        <4>1. Cardinality(AtHome') = Cardinality(AtHome) - 1 /\ Cardinality(AtHome) \in Nat \ {0}
          BY <3>6, <3>7, <3>8, CountedFinite, OneLess
        <4>2. AtGateway' = AtGateway
          BY <3>6, <3>7, <3>8
        <4>3. limiter' = LimiterRemove(limiter, Home)
          BY <1>3, <1>c, <3>8 DEF SessionAddr
        <4>4. limiter'[Home] = limiter[Home] - 1 /\ limiter'[Gateway] = limiter[Gateway]
          BY <4>1, <4>3, <3>2, <1>1, ClientsAssumption DEF LimiterRemove, ClientsType, Addrs
        <4> QED
          BY <3>2, <4>1, <4>2, <4>4
      <3>9. CASE ~ses[s].proxied
        <4>1. Cardinality(AtGateway') = Cardinality(AtGateway) - 1 /\ Cardinality(AtGateway) \in Nat \ {0}
          BY <3>6, <3>7, <3>9, CountedFinite, OneLess
        <4>2. AtHome' = AtHome
          BY <3>6, <3>7, <3>9
        <4>3. limiter' = LimiterRemove(limiter, Gateway)
          BY <1>3, <1>c, <3>9 DEF SessionAddr
        <4>4. limiter'[Gateway] = limiter[Gateway] - 1 /\ limiter'[Home] = limiter[Home]
          BY <4>1, <4>3, <3>2, <1>1, ClientsAssumption DEF LimiterRemove, ClientsType, Addrs
        <4> QED
          BY <3>2, <4>1, <4>2, <4>4
      <3> QED
        BY <3>8, <3>9
    <2> QED
      BY <2>1, <2>2, <2>3, <2>4 DEF LimiterInv
  <1> QED
    BY <1>2, <1>3

(* At startup nobody is connected.                                         *)
LEMMA LimiterStart == Init => LimiterInv
  <1> SUFFICES ASSUME Init PROVE LimiterInv
    OBVIOUS
  <1>1. /\ \A c \in ClientIds : cl[c].sessions = {}
    BY DEF Init, NoClient, AddAlwaysOnClient
  <1>2. \A s \in Conns : ~ses[s].open
    BY DEF Init, NoSession
  <1>3. \A t \in Threads : th[t].at = "rest"
    BY DEF Init, Rest
  <1>4. \A s \in Conns : ses[s].client = None
    BY DEF Init, NoSession
  <1>5. HandedOver
    BY <1>1, <1>3, <1>4 DEF HandedOver
  <1>6. {s \in Conns : ses[s].open} = {} /\ AtGateway = {} /\ AtHome = {}
    BY <1>2 DEF AtGateway, AtHome
  <1>7. \A s \in Conns : ~Proxying(s)
    BY <1>3, ThreadNames DEF Proxying
  <1>8. limiter[Gateway] = 0 /\ limiter[Home] = 0
    BY DEF Init, Addrs
  <1> QED
    BY <1>5, <1>6, <1>7, <1>8, FS_EmptySet DEF LimiterInv

(* Every step keeps the limiter right.                                     *)
LEMMA LimiterStep ==
  ASSUME CoreInv, LimiterInv, [Next]_clientVars
  PROVE  LimiterInv'
  <1>0. ClientsType
    BY DEF CoreInv
  <1>1. CASE UNCHANGED clientVars
    <2>1. cl' = cl /\ ses' = ses /\ limiter' = limiter /\ th' = th /\ ghost' = ghost
      BY <1>1 DEF clientVars
    <2>2. HandedOver'
      BY <2>1 DEF HandedOver, LimiterInv
    <2>3. \A s \in Conns : Proxying(s)' <=> Proxying(s)
      BY <2>1 DEF Proxying
    <2> QED
      BY <2>1, <2>2, <2>3, LimiterKept
  <1>2. ASSUME NEW t \in Threads, Uncounted(t) PROVE LimiterInv'
    <2>1. /\ Moved(t) /\ SameSessions /\ \A c \in ClientIds : cl'[c].sessions = cl[c].sessions
          /\ th[t].at \notin {"proxyAdded", "proxyMoved"}
          /\ th'[t].at \notin {"proxyAdded", "proxyMoved", "sessions"}
          /\ limiter' = limiter /\ ghost'.twice = ghost.twice
      BY <1>2 DEF Uncounted, SameClients
    <2> QED
      BY <2>1, LimiterFrame
  <1>3. ASSUME NEW t \in Threads, th[t].at = "setnick", TakeNick(t, th[t]) PROVE LimiterInv'
    <2>1. /\ Moved(t) /\ th'[t].at \in {"rest", "run", "count"}
          /\ \A c \in ClientIds : cl'[c].sessions = cl[c].sessions
          /\ ses' = ses /\ limiter' = limiter /\ ghost'.twice = ghost.twice
      BY <1>3, TakeNickFacts
    <2>2. SameSessions
      BY <2>1 DEF SameSessions
    <2> QED
      BY <1>3, <2>1, <2>2, LimiterFrame
  <1>4. ASSUME NEW t \in Threads, Register(t) PROVE LimiterInv'
    <2>1. th[t].at = "count" /\ th' = [th EXCEPT ![t] = Running] /\ UNCHANGED <<cl, ses, limiter, ghost>>
      BY <1>4 DEF Register
    <2>2. Moved(t) /\ th'[t] = Running
      BY <2>1, <1>0, MovedTo
    <2>3. th'[t].at = "run" /\ SameSessions
      BY <2>1, <2>2 DEF Running, SameSessions
    <2> QED
      BY <2>1, <2>2, <2>3, LimiterFrame
  <1>5. ASSUME NEW t \in Threads, DestroyStats(t) PROVE LimiterInv'
    <2>1. /\ th[t].at = "sessions" /\ UNCHANGED <<cl, ses, limiter, ghost>>
      BY <1>5 DEF DestroyStats
    <2>2. PICK new \in {[at |-> "remove", c |-> th[t].c], Rest, Finished} : th' = [th EXCEPT ![t] = new]
      BY <1>5 DEF DestroyStats, AfterDestroy
    <2>3. new.at \in {"remove", "rest", "done"}
      BY <2>2 DEF Rest, Finished
    <2>4. Moved(t) /\ th'[t] = new
      BY <2>2, <1>0, MovedTo
    <2>5. SameSessions
      BY <2>1 DEF SameSessions
    <2> QED
      BY <2>1, <2>3, <2>4, <2>5, LimiterFrame
  <1> QED
    BY <1>1, <1>2, <1>3, <1>4, <1>5, CountedSteps, RunClientLimiter, ProxyLimiter, ReattachLimiter,
       DestroyLimiter, DestroySessionLimiter DEF CountedStep

(* Between operations no session is on its way from one address to the     *)
(* other: the two sets are those the property counts.                      *)
LEMMA LimiterMeans ==
  ASSUME LimiterInv
  PROVE  LimiterExact
  <1> SUFFICES ASSUME Quiet, ghost.twice = {}, NEW a \in Addrs
               PROVE  limiter[a] = Cardinality({s \in Conns : ses[s].open /\ SessionAddr(s) = a})
    BY DEF LimiterExact
  <1>1. \A s \in Conns : th[<<s, "run">>].at \notin {"proxyAdded", "proxyMoved"}
    BY ThreadNames DEF Quiet
  <1>2. ~Muddled
    BY <1>1 DEF Muddled, Proxying
  <1>3. \A s \in Conns : /\ SessionAddr(s) = Gateway <=> ~ses[s].proxied
                         /\ SessionAddr(s) = Home <=> ses[s].proxied
    BY ClientsAssumption DEF SessionAddr
  <1>4. /\ AtGateway = {s \in Conns : ses[s].open /\ SessionAddr(s) = Gateway}
        /\ AtHome = {s \in Conns : ses[s].open /\ SessionAddr(s) = Home}
    BY <1>1, <1>3 DEF AtGateway, AtHome, Proxying
  <1> QED
    BY <1>2, <1>4 DEF LimiterInv, Addrs

-----------------------------------------------------------------------------
(* The statistics. *)

In(x, S) == IF x \in S THEN 1 ELSE 0

(* Two sets that agree but for one element.                                *)
LEMMA CountChange ==
  ASSUME NEW D, NEW S \in SUBSET D, NEW T \in SUBSET D, IsFiniteSet(S), NEW x \in D,
         \A y \in D \ {x} : y \in T <=> y \in S
  PROVE  /\ IsFiniteSet(T) /\ Cardinality(S) \in Nat /\ Cardinality(T) \in Nat
         /\ Cardinality(T) = Cardinality(S) + In(x, T) - In(x, S)
  <1>0. Cardinality(S) \in Nat
    BY FS_CardinalityType
  <1>1. CASE x \in T <=> x \in S
    <2>1. T = S
      BY <1>1
    <2> QED
      BY <2>1, <1>0 DEF In
  <1>2. CASE x \in T /\ x \notin S
    <2>1. T = S \cup {x}
      BY <1>2
    <2> QED
      BY <2>1, <1>2, OneMore DEF In
  <1>3. CASE x \notin T /\ x \in S
    <2>1. T = S \ {x}
      BY <1>3
    <2> QED
      BY <2>1, <1>3, OneLess DEF In
  <1> QED
    BY <1>1, <1>2, <1>3

Counting == {"count", "sessions"}

(* A step that changes at most the client c and the goroutine t, as far as *)
(* the statistics are concerned.                                           *)
StatsScope(t, c) ==
  /\ \A d \in ClientIds \ {c} : /\ cl'[d].made = cl[d].made /\ cl'[d].registered = cl[d].registered
                                /\ cl'[d].destroyed = cl[d].destroyed /\ cl'[d].sessions = cl[d].sessions
  /\ \A u \in Threads \ {t} : \/ th'[u] = th[u]
                              \/ th[u].at \notin Counting /\ th'[u].at \notin Counting

(* The counters have moved with the two.                                   *)
LEMMA StatsChange ==
  ASSUME StatsInv, NEW t \in Threads, NEW c \in ClientIds, StatsScope(t, c),
         stats'.unknown = stats.unknown + In(c, Unregistered') - In(c, Unregistered)
                          + In(t, ToCount') - In(t, ToCount)
                          + In(t, UnknownToDrop') - In(t, UnknownToDrop),
         stats'.total + ghost'.uncounted + In(t, ToCount') - In(t, ToCount)
           = stats.total + ghost.uncounted + In(c, Present') - In(c, Present)
             + In(t, TotalToDrop') - In(t, TotalToDrop),
         stats.total \in Int, stats.unknown \in Int, ghost.uncounted \in Nat,
         stats'.total \in Int, ghost'.uncounted \in Nat
  PROVE  StatsInv'
  <1>1. /\ IsFiniteSet(Unregistered') /\ Cardinality(Unregistered) \in Nat /\ Cardinality(Unregistered') \in Nat
        /\ Cardinality(Unregistered') =
             Cardinality(Unregistered) + In(c, Unregistered') - In(c, Unregistered)
    <2>1. Unregistered \in SUBSET ClientIds /\ Unregistered' \in SUBSET ClientIds
      BY DEF Unregistered
    <2>2. \A d \in ClientIds \ {c} : d \in Unregistered' <=> d \in Unregistered
      BY DEF Unregistered, StatsScope
    <2>3. IsFiniteSet(Unregistered)
      BY DEF StatsInv
    <2> QED
      BY <2>1, <2>2, <2>3, CountChange
  <1>2. /\ IsFiniteSet(Present') /\ Cardinality(Present) \in Nat /\ Cardinality(Present') \in Nat
        /\ Cardinality(Present') = Cardinality(Present) + In(c, Present') - In(c, Present)
    <2>1. Present \in SUBSET ClientIds /\ Present' \in SUBSET ClientIds
      BY DEF Present
    <2>2. \A d \in ClientIds \ {c} : d \in Present' <=> d \in Present
      BY DEF Present, StatsScope
    <2>3. IsFiniteSet(Present)
      BY DEF StatsInv
    <2> QED
      BY <2>1, <2>2, <2>3, CountChange
  <1>3. /\ IsFiniteSet(ToCount') /\ Cardinality(ToCount) \in Nat /\ Cardinality(ToCount') \in Nat
        /\ Cardinality(ToCount') = Cardinality(ToCount) + In(t, ToCount') - In(t, ToCount)
    <2>1. ToCount \in SUBSET Threads /\ ToCount' \in SUBSET Threads
      BY DEF ToCount
    <2>2. \A u \in Threads \ {t} : u \in ToCount' <=> u \in ToCount
      BY DEF ToCount, StatsScope, Counting
    <2>3. IsFiniteSet(ToCount)
      BY DEF StatsInv
    <2> QED
      BY <2>1, <2>2, <2>3, CountChange
  <1>4. /\ IsFiniteSet(TotalToDrop') /\ Cardinality(TotalToDrop) \in Nat
        /\ Cardinality(TotalToDrop') \in Nat
        /\ Cardinality(TotalToDrop') =
             Cardinality(TotalToDrop) + In(t, TotalToDrop') - In(t, TotalToDrop)
    <2>1. TotalToDrop \in SUBSET Threads /\ TotalToDrop' \in SUBSET Threads
      BY DEF TotalToDrop
    <2>2. \A u \in Threads \ {t} : u \in TotalToDrop' <=> u \in TotalToDrop
      BY DEF TotalToDrop, StatsScope, Counting
    <2>3. IsFiniteSet(TotalToDrop)
      BY DEF StatsInv
    <2> QED
      BY <2>1, <2>2, <2>3, CountChange
  <1>5. /\ IsFiniteSet(UnknownToDrop') /\ Cardinality(UnknownToDrop) \in Nat
        /\ Cardinality(UnknownToDrop') \in Nat
        /\ Cardinality(UnknownToDrop') =
             Cardinality(UnknownToDrop) + In(t, UnknownToDrop') - In(t, UnknownToDrop)
    <2>1. UnknownToDrop \in SUBSET Threads /\ UnknownToDrop' \in SUBSET Threads
      BY DEF UnknownToDrop
    <2>2. \A u \in Threads \ {t} : u \in UnknownToDrop' <=> u \in UnknownToDrop
      BY DEF UnknownToDrop, StatsScope, Counting
    <2>3. IsFiniteSet(UnknownToDrop)
      BY DEF StatsInv
    <2> QED
      BY <2>1, <2>2, <2>3, CountChange
  <1>6. /\ stats.unknown = Cardinality(Unregistered) + Cardinality(ToCount) + Cardinality(UnknownToDrop)
        /\ stats.total + ghost.uncounted + Cardinality(ToCount) = Cardinality(Present) + Cardinality(TotalToDrop)
    BY DEF StatsInv
  <1>7. \A x, S : In(x, S) \in Int
    BY DEF In
  <1>8. stats'.unknown = Cardinality(Unregistered') + Cardinality(ToCount') + Cardinality(UnknownToDrop')
    BY <1>1, <1>3, <1>5, <1>6, <1>7
  <1>9. stats'.total + ghost'.uncounted + Cardinality(ToCount') = Cardinality(Present') + Cardinality(TotalToDrop')
    BY <1>2, <1>3, <1>4, <1>6, <1>7
  <1> QED
    BY <1>1, <1>2, <1>3, <1>4, <1>5, <1>8, <1>9 DEF StatsInv

(* A step after which the same are counted as before.                      *)
LEMMA StatsKept ==
  ASSUME CoreInv, StatsInv, NEW t \in Threads, NEW c \in ClientIds, StatsScope(t, c),
         stats' = stats, ghost'.uncounted = ghost.uncounted,
         c \in Unregistered' <=> c \in Unregistered, c \in Present' <=> c \in Present,
         t \in ToCount' <=> t \in ToCount,
         t \in TotalToDrop' <=> t \in TotalToDrop, t \in UnknownToDrop' <=> t \in UnknownToDrop
  PROVE  StatsInv'
  <1>1. stats.total \in Int /\ stats.unknown \in Int /\ ghost.uncounted \in Nat
    BY DEF CoreInv, ClientsType, Ghosts
  <1>2. /\ In(c, Unregistered') = In(c, Unregistered) /\ In(c, Present') = In(c, Present)
        /\ In(t, ToCount') = In(t, ToCount)
        /\ In(t, TotalToDrop') = In(t, TotalToDrop)
        /\ In(t, UnknownToDrop') = In(t, UnknownToDrop)
    BY DEF In
  <1>3. In(c, Unregistered) \in Int /\ In(c, Present) \in Int /\ In(t, ToCount) \in Int
        /\ In(t, TotalToDrop) \in Int /\ In(t, UnknownToDrop) \in Int
    BY DEF In
  <1>4. /\ stats'.unknown = stats.unknown + In(c, Unregistered') - In(c, Unregistered)
                            + In(t, ToCount') - In(t, ToCount)
                            + In(t, UnknownToDrop') - In(t, UnknownToDrop)
        /\ stats'.total + ghost'.uncounted + In(t, ToCount') - In(t, ToCount)
             = stats.total + ghost.uncounted + In(c, Present') - In(c, Present)
               + In(t, TotalToDrop') - In(t, TotalToDrop)
    BY <1>1, <1>2, <1>3
  <1> QED
    BY <1>1, <1>4, StatsChange

(* The steps that change neither a client nor what a goroutine has to      *)
(* tell the statistics.                                                    *)
LEMMA UncountedStats ==
  ASSUME CoreInv, StatsInv, NEW t \in Threads, Moved(t), SameClients, stats' = stats,
         ghost'.uncounted = ghost.uncounted,
         th[t].at \notin Counting, th'[t].at \notin Counting
  PROVE  StatsInv'
  <1>1. PICK c \in ClientIds : TRUE
    BY DEF ClientIds
  <1>2. StatsScope(t, c)
    BY DEF StatsScope, SameClients, Moved
  <1>3. (c \in Unregistered' <=> c \in Unregistered) /\ (c \in Present' <=> c \in Present)
    BY DEF Unregistered, Present, SameClients
  <1>4. /\ t \notin ToCount' /\ t \notin ToCount /\ t \notin TotalToDrop' /\ t \notin TotalToDrop
        /\ t \notin UnknownToDrop' /\ t \notin UnknownToDrop
    BY DEF ToCount, TotalToDrop, UnknownToDrop, Counting
  <1> QED
    BY <1>2, <1>3, <1>4, StatsKept

(* RunClient counts an unknown connection.                                 *)
LEMMA RunClientStats ==
  ASSUME CoreInv, StatsInv, NEW i \in Conns, RunClient(i)
  PROVE  StatsInv'
  <1>1. ClientsType /\ SessionInv
    BY DEF CoreInv
  <1>a. PICK t \in Threads : t = <<i, "run">> /\ th[t].at = "rest"
    BY ThreadNames DEF RunClient
  <1>2. CASE limiter[Gateway] >= MaxConcurrent
    <2>1. th' = [th EXCEPT ![t] = Finished] /\ UNCHANGED <<cl, stats, ghost>>
      BY <1>2, <1>a DEF RunClient
    <2>2. Moved(t) /\ th'[t] = Finished
      BY <2>1, <1>1, MovedTo
    <2>3. th'[t].at \notin Counting /\ th[t].at \notin Counting /\ SameClients
      BY <2>1, <2>2, <1>a DEF Finished, SameClients, Counting
    <2> QED
      BY <2>1, <2>2, <2>3, UncountedStats
  <1>3. CASE ~(limiter[Gateway] >= MaxConcurrent)
    <2>a. PICK new : new = [NoClient EXCEPT !.made = TRUE, !.sessions = {i}, !.timer = TRUE]
      OBVIOUS
    <2>c. /\ cl' = [cl EXCEPT ![i] = new]
          /\ th' = [th EXCEPT ![t] = Running]
          /\ ghost' = ghost /\ stats' = StatsAdd
      BY <1>3, <1>a, <2>a DEF RunClient
    <2>d. new.made /\ ~new.registered /\ ~new.destroyed
      BY <2>a DEF NoClient
    <2>f. i \in ClientIds /\ cl[i] = NoClient
      BY <1>1, <1>a DEF SessionInv, ClientIds
    <2>g. cl'[i] = new /\ \A d \in ClientIds \ {i} : cl'[d] = cl[d]
      BY <1>1, <2>c, <2>f DEF ClientsType
    <2>h. Moved(t) /\ th'[t] = Running
      BY <2>c, <1>1, MovedTo
    <2>i. th'[t].at = "run"
      BY <2>h DEF Running
    <2>1. StatsScope(t, i)
      BY <2>g, <2>h DEF StatsScope, Moved
    <2>2. In(i, Unregistered') = 1 /\ In(i, Unregistered) = 0 /\ In(i, Present') = 0 /\ In(i, Present) = 0
      BY <2>d, <2>f, <2>g DEF In, Unregistered, Present, NoClient
    <2>3. /\ In(t, ToCount') = 0 /\ In(t, ToCount) = 0 /\ In(t, TotalToDrop') = 0 /\ In(t, TotalToDrop) = 0
          /\ In(t, UnknownToDrop') = 0 /\ In(t, UnknownToDrop) = 0
      BY <1>a, <2>i DEF In, ToCount, TotalToDrop, UnknownToDrop
    <2>4. /\ stats.total \in Int /\ stats.unknown \in Int /\ ghost.uncounted \in Nat
          /\ stats'.unknown = stats.unknown + 1 /\ stats'.total = stats.total
      BY <1>1, <2>c DEF ClientsType, Ghosts, StatsAdd
    <2>5. /\ stats'.unknown = stats.unknown + In(i, Unregistered') - In(i, Unregistered)
                              + In(t, ToCount') - In(t, ToCount)
                              + In(t, UnknownToDrop') - In(t, UnknownToDrop)
          /\ stats'.total + ghost'.uncounted + In(t, ToCount') - In(t, ToCount)
               = stats.total + ghost.uncounted + In(i, Present') - In(i, Present)
                 + In(t, TotalToDrop') - In(t, TotalToDrop)
      BY <2>2, <2>3, <2>4, <2>c
    <2> QED
      BY <2>1, <2>4, <2>5, <2>c, <2>f, StatsChange
  <1> QED
    BY <1>2, <1>3

(* A client that registers is known to Total only when tryRegister goes on *)
(* with stats.Register.                                                    *)
LEMMA TakeNickStats ==
  ASSUME CoreInv, StatsInv, NEW t \in Threads, th[t].at = "setnick", TakeNick(t, th[t]),
         ~cl[th[t].c].registered, ~cl[th[t].c].destroyed
  PROVE  StatsInv'
  <1>1. ClientsType /\ ClientInv
    BY DEF CoreInv
  <1>2. PICK c \in ClientIds : c = th[t].c /\ cl[c].made
    BY SetNickStart
  <1>3. /\ Moved(t) /\ th'[t].at = "count"
        /\ \A d \in ClientIds : /\ cl'[d].made = cl[d].made /\ cl'[d].destroyed = cl[d].destroyed
                                /\ cl'[d].sessions = cl[d].sessions
                                /\ d # c => cl'[d].registered = cl[d].registered
        /\ cl'[c].registered
        /\ stats' = stats /\ ghost'.uncounted = ghost.uncounted
    BY <1>2, TakeNickFacts, ZenonT(60)
  <1>4. StatsScope(t, c)
    BY <1>3 DEF StatsScope, Moved
  <1>5. cl[c].sessions # {}
    BY <1>1, <1>2 DEF ClientInv
  <1>6. In(c, Unregistered') = 0 /\ In(c, Unregistered) = 1 /\ In(c, Present') = 1 /\ In(c, Present) = 0
    BY <1>2, <1>3, <1>5 DEF In, Unregistered, Present
  <1>7. /\ In(t, ToCount') = 1 /\ In(t, ToCount) = 0 /\ In(t, TotalToDrop') = 0 /\ In(t, TotalToDrop) = 0
        /\ In(t, UnknownToDrop') = 0 /\ In(t, UnknownToDrop) = 0
    BY <1>3 DEF In, ToCount, TotalToDrop, UnknownToDrop
  <1>8. stats.total \in Int /\ stats.unknown \in Int /\ ghost.uncounted \in Nat
    BY <1>1 DEF ClientsType, Ghosts
  <1>9. /\ stats'.unknown = stats.unknown + In(c, Unregistered') - In(c, Unregistered)
                            + In(t, ToCount') - In(t, ToCount)
                            + In(t, UnknownToDrop') - In(t, UnknownToDrop)
        /\ stats'.total + ghost'.uncounted + In(t, ToCount') - In(t, ToCount)
             = stats.total + ghost.uncounted + In(c, Present') - In(c, Present)
               + In(t, TotalToDrop') - In(t, TotalToDrop)
    BY <1>3, <1>6, <1>7, <1>8
  <1> QED
    BY <1>3, <1>4, <1>8, <1>9, StatsChange

(* stats.Register.                                                         *)
LEMMA RegisterStats ==
  ASSUME CoreInv, StatsInv, NEW t \in Threads, Register(t)
  PROVE  StatsInv'
  <1>0. ClientsType
    BY DEF CoreInv
  <1>1. /\ th[t].at = "count" /\ th' = [th EXCEPT ![t] = Running] /\ UNCHANGED <<cl, ghost>>
        /\ stats' = StatsRegister
    BY DEF Register
  <1>2. Moved(t) /\ th'[t] = Running
    BY <1>1, <1>0, MovedTo
  <1>3. th'[t].at = "run"
    BY <1>2 DEF Running
  <1>4. PICK c \in ClientIds : TRUE
    BY DEF ClientIds
  <1>5. StatsScope(t, c)
    BY <1>1, <1>2 DEF StatsScope, Moved
  <1>6. In(c, Unregistered') = In(c, Unregistered) /\ In(c, Present') = In(c, Present)
        /\ In(c, Unregistered) \in Int /\ In(c, Present) \in Int
    BY <1>1 DEF In, Unregistered, Present
  <1>7. /\ In(t, ToCount') = 0 /\ In(t, ToCount) = 1 /\ In(t, TotalToDrop') = 0 /\ In(t, TotalToDrop) = 0
        /\ In(t, UnknownToDrop') = 0 /\ In(t, UnknownToDrop) = 0
    BY <1>1, <1>3 DEF In, ToCount, TotalToDrop, UnknownToDrop
  <1>8. /\ stats.total \in Int /\ stats.unknown \in Int /\ ghost.uncounted \in Nat
        /\ stats'.unknown = stats.unknown - 1 /\ stats'.total = stats.total + 1
    BY <1>0, <1>1 DEF ClientsType, Ghosts, StatsRegister
  <1>9. /\ stats'.unknown = stats.unknown + In(c, Unregistered') - In(c, Unregistered)
                            + In(t, ToCount') - In(t, ToCount)
                            + In(t, UnknownToDrop') - In(t, UnknownToDrop)
        /\ stats'.total + ghost'.uncounted + In(t, ToCount') - In(t, ToCount)
             = stats.total + ghost.uncounted + In(c, Present') - In(c, Present)
               + In(t, TotalToDrop') - In(t, TotalToDrop)
    BY <1>1, <1>6, <1>7, <1>8
  <1> QED
    BY <1>1, <1>5, <1>8, <1>9, StatsChange

(* AddRegistered is called for the first session of an always-on client.   *)
LEMMA ReattachStats ==
  ASSUME CoreInv, StatsInv, NEW t \in Threads, th[t].at = "setnick",
         byNick[th[t].nick] \notin {None, th[t].c}, CanReattach(th[t], byNick[th[t].nick]),
         Reattach(t, th[t], byNick[th[t].nick])
  PROVE  StatsInv'
  <1>0. ClientsType
    BY DEF CoreInv
  <1>a. PICK h \in ClientIds, s \in Conns, o \in Threads : ReattachEffect(t, h, s, o)
    BY ReattachFacts
  <1>b. /\ o # t /\ th[o].at = "rest" /\ cl[h].registered /\ ~cl[h].destroyed
        /\ cl'[h].sessions = cl[h].sessions \cup {s} /\ cl'[h].registered = cl[h].registered
        /\ cl'[h].destroyed = cl[h].destroyed /\ \A d \in ClientIds \ {h} : cl'[d] = cl[d]
        /\ th'[t].at = "run" /\ th'[o].at = "left" /\ \A u \in Threads \ {t, o} : th'[u] = th[u]
        /\ ghost'.uncounted = ghost.uncounted
        /\ stats' = IF cl[h].sessions = {} THEN StatsAddRegistered ELSE stats
    BY <1>a DEF ReattachEffect
  <1>1. StatsScope(t, h)
    BY <1>b DEF StatsScope, Counting
  <1>2. In(h, Unregistered') = 0 /\ In(h, Unregistered) = 0 /\ In(h, Present') = 1
        /\ In(h, Present) = IF cl[h].sessions = {} THEN 0 ELSE 1
    BY <1>b DEF In, Unregistered, Present
  <1>3. /\ In(t, ToCount') = 0 /\ In(t, ToCount) = 0 /\ In(t, TotalToDrop') = 0 /\ In(t, TotalToDrop) = 0
        /\ In(t, UnknownToDrop') = 0 /\ In(t, UnknownToDrop) = 0
    BY <1>b DEF In, ToCount, TotalToDrop, UnknownToDrop
  <1>4. /\ stats.total \in Int /\ stats.unknown \in Int /\ ghost.uncounted \in Nat
        /\ stats'.unknown = stats.unknown
        /\ stats'.total = IF cl[h].sessions = {} THEN stats.total + 1 ELSE stats.total
    BY <1>0, <1>b DEF ClientsType, Ghosts, StatsAddRegistered
  <1>5. /\ stats'.unknown = stats.unknown + In(h, Unregistered') - In(h, Unregistered)
                            + In(t, ToCount') - In(t, ToCount)
                            + In(t, UnknownToDrop') - In(t, UnknownToDrop)
        /\ stats'.total + ghost'.uncounted + In(t, ToCount') - In(t, ToCount)
             = stats.total + ghost.uncounted + In(h, Present') - In(h, Present)
               + In(t, TotalToDrop') - In(t, TotalToDrop)
    BY <1>2, <1>3, <1>4, <1>b
  <1>6. stats'.total \in Int
    BY <1>4
  <1> QED
    BY <1>1, <1>4, <1>5, <1>6, <1>b, StatsChange

(* shouldDecrement is set exactly when the client leaves a counted set, or *)
(* when a registered client dies that had no session left: `uncounted`.    *)
LEMMA DestroyCounted ==
  ASSUME CoreInv, StatsInv, NEW t \in Threads, NEW c \in ClientIds, NEW s \in Conns \cup {None},
         NEW expired \in BOOLEAN, Destroy(t, c, s, expired), Destroys(t, c)
  PROVE  StatsInv'
  <1>1. ClientsType /\ ClientInv
    BY DEF CoreInv
  <1>a. PICK todo \in SUBSET Conns, die \in BOOLEAN, decrement \in BOOLEAN, new \in ClientRecord :
          DestroyEffect(t, c, s, todo, die, decrement, new)
    BY <1>1, DestroyFacts
  <1>b. /\ todo \subseteq cl[c].sessions
        /\ new.made = cl[c].made /\ new.registered = cl[c].registered
        /\ new.sessions = cl[c].sessions \ todo
        /\ new.destroyed <=> cl[c].destroyed \/ die
        /\ die <=> ~cl[c].destroyed /\ new.sessions = {} /\ ~(cl[c].registered /\ new.alwaysOn)
        /\ decrement <=> die \/ (cl[c].registered /\ new.alwaysOn /\ todo # {} /\ new.sessions = {})
    BY <1>a DEF DestroyEffect
  <1>c. cl'[c] = new /\ \A d \in ClientIds \ {c} : cl'[d] = cl[d]
    BY <1>1, <1>a, ClientSet DEF DestroyEffect
  <1>d. Moved(t) /\ th'[t] = [at |-> "sessions", c |-> c, todo |-> todo, registered |-> cl[c].registered,
                              decrement |-> decrement, die |-> die]
    BY <1>1, <1>a, MovedTo DEF DestroyEffect
  <1>e. /\ th'[t].at = "sessions" /\ th'[t].decrement = decrement /\ th'[t].registered = cl[c].registered
        /\ th[t].at \notin {"count", "sessions"}
    BY <1>d DEF Destroys
  <1>f. /\ stats' = stats
        /\ ghost'.uncounted = IF die /\ cl[c].registered /\ todo = {} THEN ghost.uncounted + 1 ELSE ghost.uncounted
    BY <1>a, <1>1 DEF DestroyEffect, ClientsType, Ghosts, Destroy
  <1>g. cl[c].made /\ (cl[c].destroyed => cl[c].sessions = {})
    BY <1>1 DEF Destroys, ClientInv
  <1>2. StatsScope(t, c)
    BY <1>c, <1>d DEF StatsScope, Moved
  <1>3. /\ In(t, ToCount') = 0 /\ In(t, ToCount) = 0 /\ In(t, TotalToDrop) = 0 /\ In(t, UnknownToDrop) = 0
        /\ In(t, TotalToDrop') = IF decrement /\ cl[c].registered THEN 1 ELSE 0
        /\ In(t, UnknownToDrop') = IF decrement /\ ~cl[c].registered THEN 1 ELSE 0
    BY <1>e DEF In, ToCount, TotalToDrop, UnknownToDrop
  <1>4. /\ In(c, Unregistered) = IF ~cl[c].registered /\ ~cl[c].destroyed THEN 1 ELSE 0
        /\ In(c, Unregistered') = IF ~cl[c].registered /\ ~cl[c].destroyed /\ ~die THEN 1 ELSE 0
    BY <1>b, <1>c, <1>g DEF In, Unregistered
  <1>5. /\ In(c, Present) = IF cl[c].registered /\ ~cl[c].destroyed /\ cl[c].sessions # {} THEN 1 ELSE 0
        /\ In(c, Present') = IF cl[c].registered /\ ~cl[c].destroyed /\ ~die /\ new.sessions # {} THEN 1 ELSE 0
    BY <1>b, <1>c DEF In, Present
  <1>6. stats.total \in Int /\ stats.unknown \in Int /\ ghost.uncounted \in Nat /\ ghost'.uncounted \in Nat
    BY <1>1, <1>f DEF ClientsType, Ghosts
  <1>7. (todo = {} => new.sessions = cl[c].sessions) /\ (todo # {} => cl[c].sessions # {})
    BY <1>b
  <1>8. stats'.unknown = stats.unknown + In(c, Unregistered') - In(c, Unregistered)
                         + In(t, ToCount') - In(t, ToCount)
                         + In(t, UnknownToDrop') - In(t, UnknownToDrop)
    <2>1. CASE cl[c].registered
      BY <2>1, <1>3, <1>4, <1>6, <1>f
    <2>2. CASE ~cl[c].registered
      <3>1. decrement <=> die
        BY <2>2, <1>b
      <3>2. die => ~cl[c].destroyed
        BY <1>b
      <3> QED
        BY <2>2, <3>1, <3>2, <1>3, <1>4, <1>6, <1>f
    <2> QED
      BY <2>1, <2>2
  <1>9. In(t, TotalToDrop') + In(c, Present') + (IF die /\ cl[c].registered /\ todo = {} THEN 0 - 1 ELSE 0)
          = In(c, Present)
    <2>1. CASE ~cl[c].registered
      BY <2>1, <1>3, <1>5
    <2>2. CASE cl[c].registered /\ cl[c].destroyed
      <3>1. ~die /\ ~decrement
        BY <2>2, <1>b, <1>g, <1>7
      <3> QED
        BY <2>2, <3>1, <1>3, <1>5
    <2>3. CASE cl[c].registered /\ ~cl[c].destroyed /\ new.sessions # {}
      <3>1. ~die /\ ~decrement /\ cl[c].sessions # {}
        BY <2>3, <1>b
      <3> QED
        BY <2>3, <3>1, <1>3, <1>5
    <2>4. CASE cl[c].registered /\ ~cl[c].destroyed /\ new.sessions = {} /\ todo # {}
      <3>1. decrement /\ cl[c].sessions # {}
        BY <2>4, <1>b, <1>7
      <3> QED
        BY <2>4, <3>1, <1>3, <1>5
    <2>5. CASE cl[c].registered /\ ~cl[c].destroyed /\ new.sessions = {} /\ todo = {}
      <3>1. (decrement <=> die) /\ cl[c].sessions = {}
        BY <2>5, <1>b, <1>7
      <3> QED
        BY <2>5, <3>1, <1>3, <1>5
    <2> QED
      BY <2>1, <2>2, <2>3, <2>4, <2>5
  <1>10. stats'.total + ghost'.uncounted + In(t, ToCount') - In(t, ToCount)
           = stats.total + ghost.uncounted + In(c, Present') - In(c, Present)
             + In(t, TotalToDrop') - In(t, TotalToDrop)
    <2>1. In(t, TotalToDrop') \in Int /\ In(c, Present') \in Int /\ In(c, Present) \in Int
      BY DEF In
    <2>2. CASE die /\ cl[c].registered /\ todo = {}
      BY <2>1, <2>2, <1>3, <1>6, <1>9, <1>f
    <2>3. CASE ~(die /\ cl[c].registered /\ todo = {})
      BY <2>1, <2>3, <1>3, <1>6, <1>9, <1>f
    <2> QED
      BY <2>2, <2>3
  <1> QED
    BY <1>2, <1>6, <1>8, <1>10, <1>f, StatsChange

(* Closing a session changes no statistics.                                *)
LEMMA DestroySessionStats ==
  ASSUME CoreInv, StatsInv, NEW t \in Threads, DestroySession(t)
  PROVE  StatsInv'
  <1>1. ClientsType /\ ThreadInv
    BY DEF CoreInv
  <1>a. th[t].at = "sessions" /\ UNCHANGED <<cl, ghost, stats>>
    BY DEF DestroySession
  <1>b. th[t] \in [at : {"sessions"}, c : ClientIds, todo : SUBSET Conns, registered : BOOLEAN,
                   decrement : BOOLEAN, die : BOOLEAN]
    BY <1>1, <1>a DEF ThreadInv, ThreadOK, DestroyOK, Destroying
  <1>c. PICK w : th' = [th EXCEPT ![t].todo = w]
    BY DEF DestroySession
  <1>d. PICK new : new = [th[t] EXCEPT !.todo = w]
    OBVIOUS
  <1>e. new.at = "sessions" /\ new.decrement = th[t].decrement /\ new.registered = th[t].registered
    BY <1>b, <1>d
  <1>f. Moved(t) /\ th'[t] = new
    <2>1. th' = [th EXCEPT ![t] = new]
      BY <1>c, <1>d
    <2> QED
      BY <2>1, <1>1, MovedTo
  <1>2. PICK c \in ClientIds : TRUE
    BY DEF ClientIds
  <1>3. StatsScope(t, c)
    BY <1>a, <1>f DEF StatsScope, Moved
  <1>4. (c \in Unregistered' <=> c \in Unregistered) /\ (c \in Present' <=> c \in Present)
    BY <1>a DEF Unregistered, Present
  <1>5. /\ t \in ToCount' <=> t \in ToCount
        /\ t \in TotalToDrop' <=> t \in TotalToDrop
        /\ t \in UnknownToDrop' <=> t \in UnknownToDrop
    BY <1>a, <1>e, <1>f DEF ToCount, TotalToDrop, UnknownToDrop
  <1> QED
    BY <1>3, <1>4, <1>5, <1>a, StatsKept

(* Stats.Remove takes off what destroy decided.                            *)
LEMMA DestroyStatsStats ==
  ASSUME CoreInv, StatsInv, NEW t \in Threads, DestroyStats(t)
  PROVE  StatsInv'
  <1>0. ClientsType /\ ThreadInv
    BY DEF CoreInv
  <1>1. /\ th[t].at = "sessions" /\ UNCHANGED <<cl, ghost>>
        /\ stats' = IF th[t].decrement THEN StatsRemove(th[t].registered) ELSE stats
    BY DEF DestroyStats
  <1>2. PICK new \in {[at |-> "remove", c |-> th[t].c], Rest, Finished} : th' = [th EXCEPT ![t] = new]
    BY DEF DestroyStats, AfterDestroy
  <1>3. new.at \in {"remove", "rest", "done"}
    BY <1>2 DEF Rest, Finished
  <1>4. Moved(t) /\ th'[t] = new
    BY <1>2, <1>0, MovedTo
  <1>5. PICK c \in ClientIds : TRUE
    BY DEF ClientIds
  <1>6. StatsScope(t, c)
    BY <1>1, <1>4 DEF StatsScope, Moved
  <1>7. In(c, Unregistered') = In(c, Unregistered) /\ In(c, Present') = In(c, Present)
        /\ In(c, Unregistered) \in Int /\ In(c, Present) \in Int
    BY <1>1 DEF In, Unregistered, Present
  <1>8. /\ In(t, ToCount') = 0 /\ In(t, ToCount) = 0 /\ In(t, TotalToDrop') = 0 /\ In(t, UnknownToDrop') = 0
        /\ In(t, TotalToDrop) = IF th[t].decrement /\ th[t].registered THEN 1 ELSE 0
        /\ In(t, UnknownToDrop) = IF th[t].decrement /\ ~th[t].registered THEN 1 ELSE 0
    BY <1>1, <1>3, <1>4 DEF In, ToCount, TotalToDrop, UnknownToDrop
  <1>9. stats \in [unknown : Int, total : Int] /\ ghost.uncounted \in Nat
    BY <1>0 DEF ClientsType, Ghosts
  <1>10. /\ stats'.unknown = IF th[t].decrement /\ ~th[t].registered THEN stats.unknown - 1 ELSE stats.unknown
         /\ stats'.total = IF th[t].decrement /\ th[t].registered THEN stats.total - 1 ELSE stats.total
    <2>1. CASE th[t].decrement /\ th[t].registered
      <3>1. stats' = [stats EXCEPT !.total = @ - 1]
        BY <1>1, <2>1 DEF StatsRemove
      <3> QED
        BY <2>1, <3>1, <1>9
    <2>2. CASE th[t].decrement /\ ~th[t].registered
      <3>1. stats' = [stats EXCEPT !.unknown = @ - 1]
        BY <1>1, <2>2 DEF StatsRemove
      <3> QED
        BY <2>2, <3>1, <1>9
    <2>3. CASE ~th[t].decrement
      BY <2>3, <1>1
    <2> QED
      BY <2>1, <2>2, <2>3
  <1>11. stats.total \in Int /\ stats.unknown \in Int /\ stats'.total \in Int
    BY <1>9, <1>10
  <1>12. /\ stats'.unknown = stats.unknown + In(c, Unregistered') - In(c, Unregistered)
                             + In(t, ToCount') - In(t, ToCount)
                             + In(t, UnknownToDrop') - In(t, UnknownToDrop)
         /\ stats'.total + ghost'.uncounted + In(t, ToCount') - In(t, ToCount)
              = stats.total + ghost.uncounted + In(c, Present') - In(c, Present)
                + In(t, TotalToDrop') - In(t, TotalToDrop)
    BY <1>1, <1>7, <1>8, <1>9, <1>10, <1>11
  <1> QED
    BY <1>1, <1>6, <1>9, <1>11, <1>12, StatsChange

(* At startup nobody is counted.                                           *)
LEMMA StatsStart == Init => StatsInv
  <1> SUFFICES ASSUME Init PROVE StatsInv
    OBVIOUS
  <1>1. \A c \in ClientIds : cl[c].sessions = {} /\ (cl[c].made => cl[c].registered)
    BY DEF Init, NoClient, AddAlwaysOnClient
  <1>2. \A t \in Threads : th[t].at = "rest"
    BY DEF Init, Rest
  <1>3. Unregistered = {} /\ Present = {} /\ ToCount = {} /\ TotalToDrop = {} /\ UnknownToDrop = {}
    BY <1>1, <1>2 DEF Unregistered, Present, ToCount, TotalToDrop, UnknownToDrop
  <1>4. stats.unknown = 0 /\ stats.total = 0 /\ ghost.uncounted = 0
    BY DEF Init
  <1> QED
    BY <1>3, <1>4, FS_EmptySet DEF StatsInv

(* Every step keeps the statistics right.                                  *)
LEMMA StatsStep ==
  ASSUME CoreInv, StatsInv, [Next]_clientVars
  PROVE  StatsInv'
  <1>0. ClientsType
    BY DEF CoreInv
  <1>1. CASE UNCHANGED clientVars
    <2>1. cl' = cl /\ stats' = stats /\ th' = th /\ ghost' = ghost
      BY <1>1 DEF clientVars
    <2>2. /\ Unregistered' = Unregistered /\ Present' = Present /\ ToCount' = ToCount
          /\ TotalToDrop' = TotalToDrop /\ UnknownToDrop' = UnknownToDrop
      BY <2>1 DEF Unregistered, Present, ToCount, TotalToDrop, UnknownToDrop
    <2> QED
      BY <2>1, <2>2 DEF StatsInv
  <1>2. ASSUME NEW t \in Threads, Uncounted(t) PROVE StatsInv'
    BY <1>2, UncountedStats DEF Uncounted, Counting
  <1>3. ASSUME NEW t \in Threads, ApplyProxiedIP(t) \/ ProxyMove(t) \/ ProxyDone(t) PROVE StatsInv'
    <2>1. cl' = cl /\ stats' = stats /\ th[t].at \in {"run", "proxyAdded", "proxyMoved"}
      BY <1>3 DEF ApplyProxiedIP, ProxyMove, ProxyDone, ReadLine, IsRunning
    <2>2. ghost'.uncounted = ghost.uncounted
      BY <1>0, <1>3 DEF ApplyProxiedIP, ProxyMove, ProxyDone, ClientsType, Ghosts
    <2>3. PICK new \in {[at |-> "proxyAdded"], [at |-> "proxyMoved"], Running} : th' = [th EXCEPT ![t] = new]
      BY <1>3 DEF ApplyProxiedIP, ProxyMove, ProxyDone
    <2>4. new.at \in {"proxyAdded", "proxyMoved", "run"}
      BY <2>3 DEF Running
    <2>5. Moved(t) /\ th'[t] = new
      BY <2>3, <1>0, MovedTo
    <2>6. SameClients /\ th[t].at \notin Counting /\ th'[t].at \notin Counting
      BY <2>1, <2>4, <2>5 DEF SameClients, Counting
    <2> QED
      BY <2>1, <2>2, <2>5, <2>6, UncountedStats
  <1> QED
    BY <1>1, <1>2, <1>3, CountedSteps, RunClientStats, ReattachStats, TakeNickStats, RegisterStats,
       DestroyCounted, DestroySessionStats, DestroyStatsStats DEF CountedStep

(* Between operations nobody has anything left to tell the statistics.     *)
LEMMA StatsMeans ==
  ASSUME StatsInv, ClientsType
  PROVE  StatsExact
  <1> SUFFICES ASSUME Quiet
               PROVE  /\ stats.unknown = Cardinality(Unregistered)
                      /\ stats.total + ghost.uncounted = Cardinality(Present)
    BY DEF StatsExact, Unregistered, Present
  <1>1. ToCount = {} /\ TotalToDrop = {} /\ UnknownToDrop = {}
    BY DEF Quiet, ToCount, TotalToDrop, UnknownToDrop
  <1>2. Cardinality(ToCount) = 0 /\ Cardinality(TotalToDrop) = 0 /\ Cardinality(UnknownToDrop) = 0
    BY <1>1, FS_EmptySet
  <1>3. Cardinality(Unregistered) \in Nat /\ Cardinality(Present) \in Nat
    BY FS_CardinalityType DEF StatsInv
  <1>4. stats.total \in Int /\ ghost.uncounted \in Nat
    BY DEF ClientsType, Ghosts
  <1> QED
    BY <1>2, <1>3, <1>4 DEF StatsInv

-----------------------------------------------------------------------------
(* The theorems. *)

(* Whatever the connections do and the other goroutines destroy, the       *)
(* invariant of the client manager holds: types, what every goroutine that *)
(* is between two critical sections still knows, and the two counters.     *)
THEOREM ClientsInvariant == Spec => []ClientsInv
  <1>1. Init => ClientsInv
    BY CoreStart, LimiterStart, StatsStart DEF ClientsInv
  <1>2. ClientsInv /\ [Next]_clientVars => ClientsInv'
    BY CoreStep, LimiterStep, StatsStep DEF ClientsInv
  <1> QED
    BY <1>1, <1>2, PTL DEF Spec

(* The tables byNick and bySkeleton name the same clients, each under the  *)
(* nick it carries, in every state of SetNick, reattach and destroy.       *)
THEOREM NickTablesAgree == Spec => []NickMapsAgree
  <1>1. ClientsInv => NickMapsAgree
    BY CoreMeans DEF ClientsInv
  <1> QED
    BY <1>1, ClientsInvariant, PTL

(* Once destroy has finished, neither a nick nor an open session leads to  *)
(* the client (SetNick's and AddSession's checks of `destroyed`).          *)
THEOREM DestroyedStaysForgotten == Spec => []DestroyedIsForgotten
  <1>1. ClientsInv => DestroyedIsForgotten
    BY CoreMeans DEF ClientsInv
  <1> QED
    BY <1>1, ClientsInvariant, PTL

(* No client is left without a session unless it is always-on, or lost     *)
(* that setting while it had none (destroy, SetAccountSettings).           *)
THEOREM NobodyOrphaned == Spec => []NoOrphan
  <1>1. ClientsInv => NoOrphan
    BY CoreMeans DEF ClientsInv
  <1> QED
    BY <1>1, ClientsInvariant, PTL

(* With force-nick-equals-account an always-on client has its account's    *)
(* name, the one stale SANICK apart (fixupNickEqualsAccount).              *)
THEOREM AlwaysOnIsNamed == Spec => []AlwaysOnNick
  <1>1. ClientsInv => AlwaysOnNick
    BY CoreMeans DEF ClientsInv
  <1> QED
    BY <1>1, ClientsInvariant, PTL

(* Each connection is given back to the limiter once and under the address *)
(* it is counted for, the two races with the registration timer apart.     *)
THEOREM LimiterCounts == Spec => []LimiterExact
  <1>1. ClientsInv => LimiterExact
    BY LimiterMeans DEF ClientsInv
  <1> QED
    BY <1>1, ClientsInvariant, PTL

(* Unknown and Total are what LUSERS should say, the clients that were     *)
(* destroyed without a session apart (Stats, destroy's shouldDecrement).   *)
THEOREM StatsCount == Spec => []StatsExact
  <1>1. ClientsInv => StatsExact
    BY StatsMeans DEF ClientsInv, CoreInv
  <1> QED
    BY <1>1, ClientsInvariant, PTL
=============================================================================
