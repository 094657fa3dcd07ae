------------------------------ MODULE Clients ------------------------------
(***************************************************************************)
(* The client manager and the life of client objects and sessions:         *)
(* client_lookup_set.go, nickname.go and the parts of client.go, getters.go*)
(* server.go, gateways.go, stats.go and connection_limits/limiter.go they  *)
(* use.                                                                    *)
(*                                                                         *)
(* A connection i makes one Client object and one Session, both called i.  *)
(* Resident is the always-on client that AddAlwaysOnClient creates at      *)
(* startup for the one account; it has no connection of its own.  A        *)
(* connection that logs in and asks for the account's nick is reattached:  *)
(* its session moves to the client that holds the nick, the goroutine      *)
(* "run" continues on that client, and the old goroutine ("old") destroys  *)
(* the temporary client.  Others are the goroutines that destroy clients   *)
(* from outside: timers, KILL, UBAN, GHOST, account suspension, expiry.    *)
(***************************************************************************)
EXTENDS Naturals, Integers, FiniteSets, FiniteSetsExt

CONSTANTS
  Conns,          \* the connections that are made
  Resident,       \* the always-on client loaded at startup
  Others,         \* goroutines other than the sessions' own
  Account,        \* casefolded name of the account, also a nick
  Nicks,          \* casefolded nicknames
  Skeleton,       \* [Nicks -> skeletons]
  Gateway, Home,  \* the address a connection comes from; the proxied one
  MaxConcurrent,  \* connections one address may have
  MaxCommands,    \* bound: NICK, login and SET commands of one session
  MaxOutside,     \* bound: what the other goroutines start
  ForceNickEqualsAccount,
  None

ASSUME ClientsAssumption ==
  /\ Resident \notin Conns /\ None \notin Conns \cup {Resident} \cup Nicks
  /\ Account \in Nicks /\ Gateway # Home
  /\ MaxConcurrent \in Nat \ {0} /\ ForceNickEqualsAccount \in BOOLEAN

ClientIds == Conns \cup {Resident}
Addrs == {Gateway, Home}
Skeletons == {Skeleton[n] : n \in Nicks}
\* The goroutines: each connection has its reader and, after a reattach, the
\* one that cleans up the temporary client.
Threads == (Conns \X {"run", "old"}) \cup (Others \X {"other"})

VARIABLES
  cl,          \* the Client objects
  ses,         \* the Session objects
  byNick,      \* ClientManager.byNick
  bySkeleton,  \* ClientManager.bySkeleton
  limiter,     \* Limiter.limiter: connections per address
  stats,       \* Stats.Unknown and Stats.Total
  alwaysOnSetting, \* the account's stored always-on setting
  outside,     \* what the other goroutines have started, for MaxOutside
  th,          \* what each goroutine is doing
  ghost        \* bookkeeping for the properties, not in the code

clientVars == <<cl, ses, byNick, bySkeleton, limiter, stats, alwaysOnSetting, outside, th, ghost>>

-----------------------------------------------------------------------------
(* Objects and the states of a goroutine. *)

NoClient == [made |-> FALSE, registered |-> FALSE, destroyed |-> FALSE, nick |-> None,
             account |-> None, alwaysOn |-> FALSE, sessions |-> {}, timer |-> FALSE]

NoSession == [client |-> None, open |-> FALSE, proxied |-> FALSE, commands |-> 0]

Rest == [at |-> "rest"]
Running == [at |-> "run"]
Finished == [at |-> "done"]

\* An always-on client as AddAlwaysOnClient leaves it.
AddAlwaysOnClient ==
  [NoClient EXCEPT !.made = TRUE, !.registered = TRUE, !.nick = Account,
                   !.account = Account, !.alwaysOn = TRUE]

Init ==
  /\ cl = [c \in ClientIds |-> IF c = Resident THEN AddAlwaysOnClient ELSE NoClient]
  /\ ses = [s \in Conns |-> NoSession]
  /\ byNick = [n \in Nicks |-> IF n = Account THEN Resident ELSE None]
  /\ bySkeleton = [k \in Skeletons |-> IF k = Skeleton[Account] THEN Resident ELSE None]
  /\ limiter = [a \in Addrs |-> 0]
  /\ stats = [unknown |-> 0, total |-> 0]
  /\ alwaysOnSetting = TRUE /\ outside = 0
  /\ th = [t \in Threads |-> Rest]
  /\ ghost = [twice |-> {}, uncounted |-> 0, orphans |-> {}, stale |-> {}]

\* The client a session's goroutine works for: `client` in run(session).
ClientOf(t) == ses[t[1]].client

IsRunning(t) == t[2] = "run" /\ th[t].at = "run"

\* The goroutine reads a line; one that was read or buffered before the
\* socket was closed is still executed.
ReadLine(t) ==
  /\ IsRunning(t) /\ ses[t[1]].commands < MaxCommands
  /\ ses' = [ses EXCEPT ![t[1]].commands = @ + 1]

\* One of the other goroutines starts something.
Start(t) ==
  /\ t[2] = "other" /\ th[t].at = "rest" /\ outside < MaxOutside
  /\ outside' = outside + 1

-----------------------------------------------------------------------------
(* connection_limits/limiter.go and stats.go *)

LimiterAdd(l, a) == [l EXCEPT ![a] = @ + 1]
LimiterRemove(l, a) == [l EXCEPT ![a] = IF @ = 0 THEN 0 ELSE @ - 1]

SessionAddr(s) == IF ses[s].proxied THEN Home ELSE Gateway

StatsAdd == [stats EXCEPT !.unknown = @ + 1]
StatsAddRegistered == [stats EXCEPT !.total = @ + 1]
StatsRegister == [unknown |-> stats.unknown - 1, total |-> stats.total + 1]

\* Stats.Remove
StatsRemove(registered) ==
  IF registered THEN [stats EXCEPT !.total = @ - 1] ELSE [stats EXCEPT !.unknown = @ - 1]

-----------------------------------------------------------------------------
(* destroy: one critical section, then the sessions, the statistics, the   *)
(* manager's tables and the account, each under its own lock.              *)

\* removeSession, or all of client.sessions when session is nil.
SessionsToDestroy(c, s) ==
  IF s = None THEN cl[c].sessions ELSE cl[c].sessions \cap {s}

\* What if: the always-on mark of a client that is not registered is respected.
IsAlwaysOn_Temporary(c) == cl[c].alwaysOn

\* A temporary client can be marked always-on by its login; the mark counts
\* only once it is registered.
IsAlwaysOn(c) == cl[c].registered /\ cl[c].alwaysOn

\* What if: the sessions are counted before the one that leaves is removed.
ShouldDestroy_CountBefore(c, todo, alwaysOn) ==
  ~cl[c].destroyed /\ cl[c].sessions = {} /\ ~alwaysOn

ShouldDestroy(c, todo, alwaysOn) ==
  ~cl[c].destroyed /\ cl[c].sessions \ todo = {} /\ ~alwaysOn

\* `expired` is what checkAlwaysOnExpirationNoMutex says; attached sessions
\* keep lastSeen recent, so only a client without sessions can expire.
Destroy(t, c, s, expired) ==
  LET todo      == SessionsToDestroy(c, s)
      remaining == cl[c].sessions \ todo
      hitExpiry == expired /\ s = None /\ IsAlwaysOn(c)
      alwaysOn  == IsAlwaysOn(c) /\ ~hitExpiry
      die       == ShouldDestroy(c, todo, alwaysOn)
      decrement == die \/ (alwaysOn /\ todo # {} /\ remaining = {})
  IN /\ expired => cl[c].sessions = {}
     /\ cl' = [cl EXCEPT ![c].sessions = remaining,
                         ![c].destroyed = @ \/ die,
                         ![c].alwaysOn = @ /\ ~hitExpiry,
                         ![c].timer = FALSE]
     /\ th' = [th EXCEPT ![t] = [at |-> "sessions", c |-> c, todo |-> todo,
                                 registered |-> cl[c].registered,
                                 decrement |-> decrement, die |-> die]]
     /\ ghost' = [ghost EXCEPT !.uncounted =
                    IF die /\ cl[c].registered /\ todo = {} THEN @ + 1 ELSE @]
     /\ UNCHANGED <<ses, byNick, bySkeleton, limiter, stats, alwaysOnSetting, outside>>

\* One iteration of the loop over sessionsToDestroy: a session that was
\* attached to another client in the meantime is skipped.
DestroySession(t) ==
  /\ th[t].at = "sessions"
  /\ \E s \in th[t].todo :
       /\ th' = [th EXCEPT ![t].todo = @ \ {s}]
       /\ IF ses[s].client # th[t].c
          THEN UNCHANGED <<ses, limiter>>
          ELSE /\ ses' = [ses EXCEPT ![s].open = FALSE]
               /\ limiter' = LimiterRemove(limiter, SessionAddr(s))
  /\ UNCHANGED <<cl, byNick, bySkeleton, stats, alwaysOnSetting, outside, ghost>>

\* What a goroutine does when destroy returns.
AfterDestroy(t) == IF t[2] = "other" THEN Rest ELSE Finished

DestroyStats(t) ==
  /\ th[t].at = "sessions" /\ th[t].todo = {}
  /\ stats' = IF th[t].decrement THEN StatsRemove(th[t].registered) ELSE stats
  /\ th' = [th EXCEPT ![t] = IF th[t].die THEN [at |-> "remove", c |-> th[t].c] ELSE AfterDestroy(t)]
  /\ UNCHANGED <<cl, ses, byNick, bySkeleton, limiter, alwaysOnSetting, outside, ghost>>

\* removeInternal: only entries that point to this client are deleted.
RemoveEntry(map, key, c) == [k \in DOMAIN map |-> IF k = key /\ map[k] = c THEN None ELSE map[k]]

\* ClientManager.Remove
DestroyRemove(t) ==
  LET c == th[t].c
      n == cl[c].nick
  IN /\ th[t].at = "remove"
     /\ byNick' = RemoveEntry(byNick, n, c)
     /\ bySkeleton' = IF n = None THEN bySkeleton ELSE RemoveEntry(bySkeleton, Skeleton[n], c)
     /\ th' = [th EXCEPT ![t].at = "logout"]
     /\ UNCHANGED <<cl, ses, limiter, stats, alwaysOnSetting, outside, ghost>>

LoggedOut(client) == [client EXCEPT !.account = None, !.alwaysOn = FALSE]

\* AccountManager.Logout at the end of destroy
DestroyLogout(t) ==
  /\ th[t].at = "logout"
  /\ cl' = [cl EXCEPT ![th[t].c] = LoggedOut(@)]
  /\ th' = [th EXCEPT ![t] = AfterDestroy(t)]
  /\ UNCHANGED <<ses, byNick, bySkeleton, limiter, stats, alwaysOnSetting, outside, ghost>>

DestroyStep(t) ==
  \/ DestroySession(t) \/ DestroyStats(t) \/ DestroyRemove(t) \/ DestroyLogout(t)

-----------------------------------------------------------------------------
(* A connection until it is registered. *)

\* RunClient
RunClient(i) ==
  LET t == <<i, "run">>
  IN /\ th[t].at = "rest"
     /\ IF limiter[Gateway] >= MaxConcurrent
        THEN /\ th' = [th EXCEPT ![t] = Finished]
             /\ UNCHANGED <<cl, ses, limiter, stats>>
        ELSE /\ limiter' = LimiterAdd(limiter, Gateway)
             /\ cl' = [cl EXCEPT ![i] = [NoClient EXCEPT !.made = TRUE, !.sessions = {i}, !.timer = TRUE]]
             /\ ses' = [ses EXCEPT ![i] = [NoSession EXCEPT !.client = i, !.open = TRUE]]
             /\ stats' = StatsAdd
             /\ th' = [th EXCEPT ![t] = Running]
     /\ UNCHANGED <<byNick, bySkeleton, alwaysOnSetting, outside, ghost>>

\* ApplyProxiedIP: checkBans has counted the proxied address...
ApplyProxiedIP(t) ==
  /\ ReadLine(t) /\ ~cl[ClientOf(t)].registered
  /\ ~ses[t[1]].proxied
  /\ limiter[Home] < MaxConcurrent
  /\ limiter' = LimiterAdd(limiter, Home)
  /\ th' = [th EXCEPT ![t] = [at |-> "proxyAdded"]]
  /\ UNCHANGED <<cl, byNick, bySkeleton, stats, alwaysOnSetting, outside, ghost>>

\* What if: the entry of the real address is kept (#197).
ProxyMove_Keep(t) ==
  /\ th[t].at = "proxyAdded"
  /\ th' = [th EXCEPT ![t] = [at |-> "proxyMoved"]]
  /\ UNCHANGED <<cl, ses, byNick, bySkeleton, limiter, stats, alwaysOnSetting, outside, ghost>>

\* ... the real address is given back ...
ProxyMove(t) ==
  /\ th[t].at = "proxyAdded"
  /\ limiter' = LimiterRemove(limiter, Gateway)
  /\ th' = [th EXCEPT ![t] = [at |-> "proxyMoved"]]
  /\ UNCHANGED <<cl, ses, byNick, bySkeleton, stats, alwaysOnSetting, outside, ghost>>

\* ... and the session learns its address.
ProxyDone(t) ==
  /\ th[t].at = "proxyMoved"
  /\ ses' = [ses EXCEPT ![t[1]].proxied = TRUE]
  /\ th' = [th EXCEPT ![t] = Running]
  /\ ghost' = [ghost EXCEPT !.twice = IF ses[t[1]].open THEN @ ELSE @ \cup {t[1]}]
  /\ UNCHANGED <<cl, byNick, bySkeleton, limiter, stats, alwaysOnSetting, outside>>

-----------------------------------------------------------------------------
(* Nicknames. *)

\* The part of ClientManager.SetNick before clients.Lock(): the client's
\* account and registration are read, the nick is checked and forced to the
\* account's name where it must be.  `then` says what the caller does next.
SetNickRead(c, s, newNick, then) ==
  LET account    == cl[c].account
      useAccount == account # None /\ (alwaysOnSetting \/ ForceNickEqualsAccount)
      nick       == IF useAccount THEN Account ELSE newNick
  IN [at |-> "setnick", c |-> c, s |-> s, nick |-> nick, account |-> account,
      registered |-> cl[c].registered,
      refused |-> useAccount /\ cl[c].registered /\ newNick # Account,
      reserved |-> ~useAccount /\ account # Account
                   /\ (nick = Account \/ Skeleton[nick] = Skeleton[Account]),
      then |-> then]

\* What if: a client that is being destroyed is given another session.
CanReattach_Dying(p, holder) ==
  ~p.registered /\ p.account # None /\ p.account = cl[holder].account /\ p.s # None

\* May the session move to the client that holds the nick?
CanReattach(p, holder) ==
  /\ ~p.registered /\ p.account # None /\ p.account = cl[holder].account
  /\ p.s # None /\ ~cl[holder].destroyed

\* AddSession and AddRegistered; the goroutine goes on with the new client
\* and the former one destroys the temporary client.
Reattach(t, p, holder) ==
  /\ ses' = [ses EXCEPT ![p.s].client = holder]
  /\ cl' = [cl EXCEPT ![holder].sessions = @ \cup {p.s}]
  /\ stats' = IF cl[holder].sessions = {} THEN StatsAddRegistered ELSE stats
  /\ th' = [th EXCEPT ![t] = Running, ![<<p.s, "old">>] = [at |-> "left", c |-> p.c]]
  /\ ghost' = [ghost EXCEPT !.twice = IF p.s \in cl[p.c].sessions THEN @ ELSE @ \cup {p.s}]
  /\ UNCHANGED <<byNick, bySkeleton, limiter, alwaysOnSetting, outside>>

\* What if: a login whose nick could not be changed is kept.
SetNickFailed_StaysLoggedIn(t, p) ==
  /\ th' = [th EXCEPT ![t] = IF t[2] = "other" THEN Rest ELSE Running]
  /\ UNCHANGED <<cl, ses, byNick, bySkeleton, limiter, stats, alwaysOnSetting, outside, ghost>>

\* Where the caller of SetNick goes on after an error: tryRegister and the
\* NICK command wait for the next line, fixupNickEqualsAccount logs out.
SetNickFailed(t, p) ==
  /\ cl' = IF p.then = "fixup" THEN [cl EXCEPT ![p.c] = LoggedOut(@)] ELSE cl
  /\ th' = [th EXCEPT ![t] = IF t[2] = "other" THEN Rest ELSE Running]
  /\ UNCHANGED <<ses, byNick, bySkeleton, limiter, stats, alwaysOnSetting, outside, ghost>>

\* What if: the new entry is made before the former one is removed.
MoveEntry_SetFirst(map, from, to, c) == RemoveEntry([map EXCEPT ![to] = c], from, c)

\* removeInternal with the client's former identifiers, then the new entry.
MoveEntry(map, from, to, c) == [RemoveEntry(map, from, c) EXCEPT ![to] = c]

\* Client.SetNick and the update of both tables.
TakeNick(t, p) ==
  LET c   == p.c
      old == IF cl[c].nick = None THEN None ELSE Skeleton[cl[c].nick]
  IN /\ cl' = [cl EXCEPT ![c].nick = p.nick, ![c].registered = TRUE, ![c].timer = FALSE]
     /\ byNick' = MoveEntry(byNick, cl[c].nick, p.nick, c)
     /\ bySkeleton' = MoveEntry(bySkeleton, old, Skeleton[p.nick], c)
     /\ th' = [th EXCEPT ![t] = IF t[2] = "other" THEN Rest
                                ELSE IF cl[c].registered THEN Running
                                ELSE [at |-> "count"]]
     /\ ghost' = [ghost EXCEPT !.stale = IF p.account # cl[c].account THEN @ \cup {c} ELSE @ \ {c}]
     /\ UNCHANGED <<ses, limiter, stats, alwaysOnSetting, outside>>

\* The critical section of ClientManager.SetNick.
SetNick(t) ==
  LET p      == th[t]
      holder == byNick[p.nick]
      shadow == bySkeleton[Skeleton[p.nick]]
  IN /\ th[t].at = "setnick"
     /\ IF p.refused THEN SetNickFailed(t, p)
        ELSE IF holder \notin {None, p.c}
        THEN IF CanReattach(p, holder) THEN Reattach(t, p, holder) ELSE SetNickFailed(t, p)
        ELSE IF holder = p.c
        THEN /\ th' = [th EXCEPT ![t] = IF t[2] = "other" THEN Rest ELSE Running]
             /\ UNCHANGED <<cl, ses, byNick, bySkeleton, limiter, stats, alwaysOnSetting, outside, ghost>>
        ELSE IF shadow \notin {None, p.c} \/ p.reserved \/ cl[p.c].destroyed
        THEN SetNickFailed(t, p)
        ELSE TakeNick(t, p)

\* tryRegister: everything the handshake needs is there.
TryRegister(t) ==
  /\ ReadLine(t) /\ ~cl[ClientOf(t)].registered
  /\ \E n \in Nicks :
       th' = [th EXCEPT ![t] = SetNickRead(ClientOf(t), t[1], n, "nick")]
  /\ UNCHANGED <<cl, byNick, bySkeleton, limiter, stats, alwaysOnSetting, outside, ghost>>

\* NICK of a registered client.
NickCommand(t) ==
  /\ ReadLine(t) /\ cl[ClientOf(t)].registered
  /\ \E n \in Nicks :
       th' = [th EXCEPT ![t] = SetNickRead(ClientOf(t), t[1], n, "nick")]
  /\ UNCHANGED <<cl, byNick, bySkeleton, limiter, stats, alwaysOnSetting, outside, ghost>>

\* SANICK by an operator, and RandomlyRename: no session is passed.
Sanick(t) ==
  /\ Start(t)
  /\ \E c \in ClientIds, n \in Nicks :
       /\ \E m \in Nicks : byNick[m] = c
       /\ th' = [th EXCEPT ![t] = SetNickRead(c, None, n, "nick")]
  /\ UNCHANGED <<cl, ses, byNick, bySkeleton, limiter, stats, alwaysOnSetting, ghost>>

\* The rest of tryRegister: stats.Register.
Register(t) ==
  /\ th[t].at = "count"
  /\ stats' = StatsRegister
  /\ th' = [th EXCEPT ![t] = Running]
  /\ UNCHANGED <<cl, ses, byNick, bySkeleton, limiter, alwaysOnSetting, outside, ghost>>

-----------------------------------------------------------------------------
(* Accounts, as far as clients are concerned. *)

\* AuthenticateByPassphrase, am.Login and, for a registered client,
\* fixupNickEqualsAccount.
Login(t) ==
  LET c == ClientOf(t)
      holder == byNick[Account]
  IN /\ ReadLine(t) /\ cl[c].account = None
     /\ cl[c].registered /\ holder # None => ~cl[holder].alwaysOn
     /\ cl' = [cl EXCEPT ![c].account = Account, ![c].alwaysOn = alwaysOnSetting]
     /\ th' = IF cl[c].registered /\ ForceNickEqualsAccount
              THEN [th EXCEPT ![t] = [at |-> "fixup"]] ELSE th
     /\ UNCHANGED <<byNick, bySkeleton, limiter, stats, alwaysOnSetting, outside, ghost>>

Fixup(t) ==
  /\ th[t].at = "fixup"
  /\ th' = [th EXCEPT ![t] = SetNickRead(ClientOf(t), t[1], Account, "fixup")]
  /\ UNCHANGED <<cl, ses, byNick, bySkeleton, limiter, stats, alwaysOnSetting, outside, ghost>>

\* ModifyAccountSettings: the setting is stored and pushed into every
\* client that is logged into the account (SetAccountSettings).
SetAlwaysOn(t, v) ==
  LET in == {c \in ClientIds : cl[c].account = Account /\ cl[c].registered}
      on(c) == v /\ cl[c].nick = Account
  IN /\ alwaysOnSetting # v
     /\ ReadLine(t) /\ cl[ClientOf(t)].account = Account
     /\ alwaysOnSetting' = v
     /\ cl' = [c \in ClientIds |-> IF c \in in THEN [cl[c] EXCEPT !.alwaysOn = on(c)] ELSE cl[c]]
     /\ ghost' = [ghost EXCEPT !.orphans = @ \cup {c \in in : cl[c].sessions = {} /\ ~on(c)}]
     /\ UNCHANGED <<byNick, bySkeleton, limiter, stats, outside, th>>

-----------------------------------------------------------------------------
(* The ways a client or session ends. *)

\* The goroutine's loop ends (QUIT, a read error, a closed socket).
Leave(t) ==
  /\ IsRunning(t)
  /\ Destroy(t, ClientOf(t), t[1], FALSE)

\* The former goroutine of a reattached session.
LeaveOld(t) ==
  /\ th[t].at = "left"
  /\ Destroy(t, th[t].c, t[1], FALSE)

\* A goroutine looks a client up by its nick and will destroy it.
Condemn(t, victims) ==
  /\ Start(t)
  /\ \E n \in Nicks :
       /\ byNick[n] \in victims
       /\ th' = [th EXCEPT ![t] = [at |-> "condemn", c |-> byNick[n], s |-> None]]
  /\ UNCHANGED <<cl, ses, byNick, bySkeleton, limiter, stats, alwaysOnSetting, ghost>>

\* KILL, and DLINE, KLINE and UBAN with ANDKILL: always-on clients lose their
\* sessions only.
Kill(t) == Condemn(t, ClientIds)

\* NS GHOST by a client of the same account.
Ghost(t) ==
  Condemn(t, {g \in ClientIds : /\ ~IsAlwaysOn(g)
                                /\ \E i \in Conns : /\ IsRunning(<<i, "run">>)
                                                    /\ ses[i].client # g
                                                    /\ cl[ses[i].client].account = Account
                                                    /\ Account \in {cl[g].nick, cl[g].account}})

\* performAlwaysOnMaintenance finds a client that nobody has used for long.
ExpireAlwaysOn(t) == Condemn(t, {c \in ClientIds : IsAlwaysOn(c) /\ cl[c].sessions = {}})

\* Suspend, Unregister and killClients log the client out first.
CondemnAccount(t) ==
  /\ Start(t)
  /\ \E c \in ClientIds :
       /\ cl[c].account = Account
       /\ cl' = [cl EXCEPT ![c] = LoggedOut(@)]
       /\ th' = [th EXCEPT ![t] = [at |-> "condemn", c |-> c, s |-> None]]
  /\ UNCHANGED <<ses, byNick, bySkeleton, limiter, stats, alwaysOnSetting, ghost>>

\* handleRegisterTimeout: once the timer has fired, stopping it is too late.
RegisterTimeout(t) ==
  /\ Start(t)
  /\ \E c \in Conns :
       /\ cl[c].timer
       /\ cl' = [cl EXCEPT ![c].timer = FALSE]
       /\ th' = [th EXCEPT ![t] = [at |-> "condemn", c |-> c, s |-> None]]
  /\ UNCHANGED <<ses, byNick, bySkeleton, limiter, stats, alwaysOnSetting, ghost>>

\* handleIdleTimeout on a session that does not answer the PING.
IdleTimeout(t) ==
  /\ Start(t)
  /\ \E s \in Conns :
       /\ ses[s].open /\ cl[ses[s].client].registered
       /\ th' = [th EXCEPT ![t] = [at |-> "condemn", c |-> ses[s].client, s |-> s]]
  /\ UNCHANGED <<cl, ses, byNick, bySkeleton, limiter, stats, alwaysOnSetting, ghost>>

\* NS CLIENTS LOGOUT: one session of a client, looked up in its list.
ClientsLogout(t) ==
  /\ Start(t)
  /\ \E c \in ClientIds : \E s \in cl[c].sessions :
       /\ \E n \in Nicks : byNick[n] = c
       /\ th' = [th EXCEPT ![t] = [at |-> "condemn", c |-> c, s |-> s]]
  /\ UNCHANGED <<cl, ses, byNick, bySkeleton, limiter, stats, alwaysOnSetting, ghost>>

\* The destroy those goroutines call.
Execute(t) ==
  /\ th[t].at = "condemn"
  /\ \E expired \in BOOLEAN : Destroy(t, th[t].c, th[t].s, expired)

-----------------------------------------------------------------------------
SessionStep(t) ==
  \/ ApplyProxiedIP(t) \/ ProxyMove(t) \/ ProxyDone(t)
  \/ TryRegister(t) \/ NickCommand(t) \/ SetNick(t) \/ Register(t) \/ Login(t) \/ Fixup(t)
  \/ (\E v \in BOOLEAN : SetAlwaysOn(t, v))
  \/ Leave(t) \/ LeaveOld(t) \/ DestroyStep(t)

OtherStep(t) ==
  \/ Sanick(t) \/ SetNick(t)
  \/ Kill(t) \/ Ghost(t) \/ ExpireAlwaysOn(t) \/ ClientsLogout(t) \/ CondemnAccount(t)
  \/ RegisterTimeout(t) \/ IdleTimeout(t) \/ Execute(t) \/ DestroyStep(t)

Next ==
  \/ \E i \in Conns : RunClient(i)
  \/ \E t \in Conns \X {"run", "old"} : SessionStep(t)
  \/ \E t \in Others \X {"other"} : OtherStep(t)

Spec == Init /\ [][Next]_clientVars

-----------------------------------------------------------------------------
(* Properties.  Several of them hold only between operations, when every   *)
(* goroutine is done or waits for a line of an open connection.            *)

Quiet == \A t \in Threads :
  \/ th[t].at \in {"rest", "done"}
  \/ th[t].at = "run" /\ ses[t[1]].open

\* The two tables of the client manager name the same clients, each client
\* under the nick and skeleton it carries, and every registered client that
\* is alive is listed: SetNick changes a client and two tables while other
\* goroutines rename, reattach and destroy, and confusable nicks share a
\* skeleton (client_lookup_set.go, SetNick and removeInternal).
NickMapsAgree ==
  /\ \A n \in Nicks : byNick[n] # None =>
       cl[byNick[n]].nick = n /\ bySkeleton[Skeleton[n]] = byNick[n]
  /\ \A k \in Skeletons : bySkeleton[k] # None =>
       LET n == cl[bySkeleton[k]].nick IN Skeleton[n] = k /\ byNick[n] = bySkeleton[k]
  /\ \A c \in ClientIds : cl[c].registered /\ ~cl[c].destroyed => byNick[cl[c].nick] = c

\* Between operations LUSERS is right: Unknown counts the clients that are
\* not registered, Total those with a session.  The exception is a client
\* destroyed when it had no session left (expiry, suspension): destroy takes
\* it off Total a second time, which `uncounted` records (stats.go; destroy's
\* shouldDecrement, AddRegistered on the first reattach).
StatsExact == Quiet =>
  /\ stats.unknown = Cardinality({c \in ClientIds :
       cl[c].made /\ ~cl[c].registered /\ ~cl[c].destroyed})
  /\ stats.total + ghost.uncounted = Cardinality({c \in ClientIds :
       cl[c].registered /\ ~cl[c].destroyed /\ cl[c].sessions # {}})

\* Every connection that was counted is given back once, under the address it
\* is counted for, whatever closes it: QUIT, reattach, timers, operators.  The
\* exceptions are the two races with the registration timer that `twice`
\* records: destroy closes a session that ApplyProxiedIP is moving to another
\* address or that SetNick is about to attach to another client (limiter.go).
LimiterExact == Quiet /\ ghost.twice = {} =>
  \A a \in Addrs : limiter[a] = Cardinality({s \in Conns : ses[s].open /\ SessionAddr(s) = a})

\* No client stays on the server without a session unless it is always-on; the
\* exception is one whose always-on setting was turned off while it had none,
\* which SetAccountSettings leaves in place (client.go, destroy).
NoOrphan == Quiet => \A c \in ClientIds :
  cl[c].registered /\ ~cl[c].destroyed /\ cl[c].sessions = {} /\ ~cl[c].alwaysOn
    => c \in ghost.orphans

\* A destroyed client never comes back: once destroy has finished no nick leads
\* to it and no open session belongs to it, although SetNick and AddSession
\* looked at it before (the `destroyed` checks of Client.SetNick, AddSession).
DestroyedIsForgotten == Quiet => \A c \in ClientIds : cl[c].destroyed =>
  /\ \A n \in Nicks : byNick[n] # c
  /\ \A s \in Conns : ses[s].client = c => ~ses[s].open

\* Under force-nick-equals-account an always-on client is found under its
\* account's name.  The exception is a nick set by an operator whose SetNick
\* had read the account before the client logged in (nickname.go,
\* fixupNickEqualsAccount; SetNick's useAccountName).
AlwaysOnNick == Quiet /\ ForceNickEqualsAccount => \A c \in ClientIds :
  IsAlwaysOn(c) /\ ~cl[c].destroyed => cl[c].nick = Account \/ c \in ghost.stale

=============================================================================
