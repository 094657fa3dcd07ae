-------------------------------- MODULE Bans --------------------------------
(***************************************************************************)
(* Server bans: on networks (dline.go) and on masks (kline.go), the        *)
(* commands that set and lift them (DLINE, KLINE, UBAN), and the places    *)
(* where a connection meets them: when it is accepted (checkBans) and when *)
(* it has its nick (tryRegister).                                          *)
(*                                                                         *)
(* A ban lives in a table, guarded by the manager's lock, and in the       *)
(* datastore; persistenceMutex orders the changes of both.  A temporary    *)
(* ban has a timer, and its row an expiry date.                            *)
(***************************************************************************)
EXTENDS Naturals, FiniteSets

CONSTANTS
  BanConns,          \* connections
  BanOpers,       \* operators who set bans
  Nets,           \* networks that can be banned
  Masks,          \* masks that can be banned
  ConnsIn,        \* [Nets -> SUBSET BanConns]: by address
  ShownBy,        \* [Masks -> SUBSET BanConns]: the mask matches the shown nickmask
  MatchedBy,      \* [Masks -> SUBSET BanConns]: it matches one of AllNickmasks
  MaxBanOps       \* bound: commands

ASSUME BansAssumption ==
  /\ Nets \cap Masks = {} /\ BanConns \cap BanOpers = {} /\ MaxBanOps \in Nat
  /\ \A m \in Masks : ShownBy[m] \subseteq MatchedBy[m]

BanKeys == Nets \cup Masks
BanAgents == BanOpers \cup BanConns

VARIABLES
  bans,     \* [BanKeys -> ban]: networks, entries
  banRows,  \* [BanKeys -> ban]: the datastore
  timers,   \* <<key, made>>: expirationTimers
  firing,   \* timers that have fired and wait for the lock
  task,     \* [BanAgents -> what the agent's goroutine is doing]
  conn,     \* [BanConns -> state of the connection]
  banOps,
  swept,    \* ghost: [BanKeys -> whom a finished command has removed for this ban]
  excused   \* ghost: bans whose row is missing, connections a D-line missed

banVars == <<bans, banRows, timers, firing, task, conn, banOps, swept, excused>>

-----------------------------------------------------------------------------
\* IPBanInfo: hard, or soft (RequireSASL); `made` is TimeCreated.
NoBan == [sort |-> "none", made |-> 0, temp |-> FALSE]

NoTask == [at |-> "rest"]

BansInit ==
  /\ bans = [k \in BanKeys |-> NoBan] /\ banRows = bans /\ timers = {} /\ firing = {}
  /\ task = [a \in BanAgents |-> NoTask]
  /\ conn = [c \in BanConns |-> [st |-> "none", soft |-> FALSE, acct |-> "none"]]
  /\ banOps = 0 /\ swept = [k \in BanKeys |-> "nobody"]
  /\ excused = [rows |-> {}, conns |-> {}]

\* An operator gives a command.
Order(o) ==
  /\ task[o] = NoTask /\ banOps < MaxBanOps /\ banOps' = banOps + 1

Turn(a, what) == task' = [task EXCEPT ![a] = what]

\* The manager of the key, whose persistenceMutex is held by whoever writes.
Manager(k) == IF k \in Nets THEN Nets ELSE Masks
Writing(a) == task[a].at \in {"persist", "unpersist"}
MutexFree(k) == \A a \in BanAgents : Writing(a) => Manager(task[a].k) # Manager(k)

\* What if: only clients that have finished their registration.
AllClients_Registered == {c \in BanConns : conn[c].st = "in"}

\* The connection's client is in ClientManager: it has its nick.
AllClients == {c \in BanConns : conn[c].st \in {"nicked", "in"}}

-----------------------------------------------------------------------------
(* The tables. *)

\* Set the ban in memory; the old timer is stopped, which does not help if it has
\* fired.  `then` is what the command does once the row is written.
addNetworkInternal(a, k, info, then) ==
  /\ MutexFree(k)
  /\ bans' = [bans EXCEPT ![k] = info]
  /\ timers' = {t \in timers : t[1] # k} \cup (IF info.temp THEN {<<k, info.made>>} ELSE {})
  /\ swept' = [swept EXCEPT ![k] = "nobody"]
  /\ Turn(a, [at |-> "persist", k |-> k, info |-> info, then |-> then])
  /\ UNCHANGED <<banRows, firing, conn, excused>>

\* AddNetwork, of an operator.
AddNetwork(o, k, soft, then) ==
  \E temp \in BOOLEAN :
    addNetworkInternal(o, k, [sort |-> IF soft THEN "soft" ELSE "hard", made |-> banOps + 1, temp |-> temp], then)

\* AddMask is the same of the other manager.
AddMask(o, k, soft, then) == AddNetwork(o, k, soft, then)

\* The row is written; the write can fail, which ends the command.
Persist(a) ==
  LET t == task[a]
  IN /\ \/ /\ banRows' = [banRows EXCEPT ![t.k] = t.info]
           /\ Turn(a, t.then)
           /\ excused' = [excused EXCEPT !.rows = @ \ {t.k}]
        \/ /\ Turn(a, IF a \in BanConns THEN t.then ELSE NoTask)
           /\ excused' = [excused EXCEPT !.rows = @ \cup {t.k}]
           /\ UNCHANGED banRows
     /\ UNCHANGED <<bans, timers, firing, conn, banOps, swept>>

persistDline(a) == task[a].at = "persist" /\ task[a].k \in Nets /\ Persist(a)

persistKLine(a) == task[a].at = "persist" /\ task[a].k \in Masks /\ Persist(a)

\* RemoveNetwork: from memory; the row only if there was a ban.
RemoveNetwork(o, k) ==
  /\ MutexFree(k)
  /\ bans' = [bans EXCEPT ![k] = NoBan] /\ timers' = {t \in timers : t[1] # k}
  /\ swept' = [swept EXCEPT ![k] = "nobody"]
  /\ IF bans[k] = NoBan THEN UNCHANGED task ELSE Turn(o, [at |-> "unpersist", k |-> k])
  /\ UNCHANGED <<banRows, firing, conn, excused>>

\* RemoveMask: the same of the other manager.
RemoveMask(o, k) == RemoveNetwork(o, k)

\* The row is deleted; it does not matter if it has expired.
Unpersist(a) ==
  /\ banRows' = [banRows EXCEPT ![task[a].k] = NoBan]
  /\ excused' = [excused EXCEPT !.rows = @ \ {task[a].k}]
  /\ Turn(a, NoTask)
  /\ UNCHANGED <<bans, timers, firing, conn, banOps, swept>>

unpersistDline(a) == task[a].at = "unpersist" /\ task[a].k \in Nets /\ Unpersist(a)

unpersistKLine(a) == task[a].at = "unpersist" /\ task[a].k \in Masks /\ Unpersist(a)

\* The time is up: the timer's function is started; the row may expire.
TimerFires ==
  /\ \E t \in timers : timers' = timers \ {t} /\ firing' = firing \cup {t}
  /\ UNCHANGED <<bans, banRows, task, conn, banOps, swept, excused>>

RowExpires ==
  /\ \E k \in BanKeys :
       /\ banRows[k].temp /\ <<k, banRows[k].made>> \notin timers
       /\ banRows' = [banRows EXCEPT ![k] = NoBan]
  /\ UNCHANGED <<bans, timers, firing, task, conn, banOps, swept, excused>>

\* What if: the function takes away whatever ban there is.
Expired_Any(k, made) == bans[k] # NoBan

\* Is the ban still the one that the timer was set for?
Expired(k, made) == bans[k].made = made

processExpiration ==
  /\ \E t \in firing :
       /\ firing' = firing \ {t}
       /\ IF Expired(t[1], t[2])
          THEN /\ bans' = [bans EXCEPT ![t[1]] = NoBan]
               /\ swept' = [swept EXCEPT ![t[1]] = "nobody"]
               /\ timers' = {u \in timers : u[1] # t[1]}
          ELSE UNCHANGED <<bans, swept, timers>>
  /\ UNCHANGED <<banRows, task, conn, banOps, excused>>

\* A restart: the tables are loaded from the rows that have time left.
loadFromDatastore ==
  /\ banOps < MaxBanOps /\ banOps' = banOps + 1
  /\ \E due \in SUBSET {k \in BanKeys : banRows[k].temp} :
       /\ bans' = [k \in BanKeys |-> IF k \in due THEN NoBan ELSE banRows[k]]
       /\ timers' = {<<k, banRows[k].made>> : k \in {j \in BanKeys \ due : banRows[j].temp}}
  /\ firing' = {} /\ task' = [a \in BanAgents |-> NoTask]
  /\ conn' = [c \in BanConns |-> [st |-> "none", soft |-> FALSE, acct |-> "none"]]
  /\ swept' = [k \in BanKeys |-> "nobody"] /\ excused' = [rows |-> {}, conns |-> {}]
  /\ UNCHANGED banRows

-----------------------------------------------------------------------------
(* Commands. *)

Sweep(k, whom) == [at |-> "sweep", k |-> k, whom |-> whom]

\* DLINE and KLINE, with or without ANDKILL: hard bans.
dlineHandler(o) ==
  /\ Order(o)
  /\ \E k \in Nets, kill \in BOOLEAN : AddNetwork(o, k, FALSE, IF kill THEN Sweep(k, "any") ELSE NoTask)

klineHandler(o) ==
  /\ Order(o)
  /\ \E k \in Masks, kill \in BOOLEAN : AddMask(o, k, FALSE, IF kill THEN Sweep(k, "any") ELSE NoTask)

unDLineHandler(o) == Order(o) /\ \E k \in Nets : RemoveNetwork(o, k)

unKLineHandler(o) == Order(o) /\ \E k \in Masks : RemoveMask(o, k)

\* UBAN ADD of a network spares the logged in if the ban is soft; of a mask it
\* removes those whose shown nickmask matches, except always-on clients.
ubanAddCIDR(o) ==
  /\ Order(o) /\ \E k \in Nets, soft \in BOOLEAN : AddNetwork(o, k, soft, Sweep(k, "any"))

ubanAddNickmask(o) ==
  /\ Order(o) /\ \E k \in Masks, soft \in BOOLEAN : AddMask(o, k, soft, Sweep(k, "shown"))

ubanDelHandler(o) ==
  /\ Order(o) /\ ((\E k \in Nets : RemoveNetwork(o, k)) \/ (\E k \in Masks : RemoveMask(o, k)))

\* The sessions or clients to remove are collected ...
sessionsForCIDR(o) ==
  LET t       == task[o]
      targets == CASE t.k \in Nets -> {c \in AllClients \cap ConnsIn[t.k] : bans[t.k].sort = "soft" => conn[c].acct = "none"}
                   [] t.k \notin Nets /\ t.whom = "any"   -> AllClients \cap MatchedBy[t.k]
                   [] t.k \notin Nets /\ t.whom = "shown" -> {c \in AllClients \cap ShownBy[t.k] : conn[c].acct # "alwayson"}
  IN /\ t.at = "sweep"
     /\ Turn(o, [at |-> "destroy", k |-> t.k, whom |-> t.whom, info |-> bans[t.k], targets |-> targets])
     /\ excused' = [excused EXCEPT !.conns = @ \cup {c \in BanConns : t.k \in Nets /\ conn[c].st = "hand"}]
     /\ UNCHANGED <<bans, banRows, timers, firing, conn, banOps, swept>>

\* ... and then destroyed.  The ghost notes for which ban, if it is still the same.
DestroyTargets(o) ==
  LET t == task[o]
  IN /\ t.at = "destroy" /\ Turn(o, NoTask)
     /\ conn' = [c \in BanConns |-> IF c \in t.targets THEN [conn[c] EXCEPT !.st = "gone"] ELSE conn[c]]
     /\ swept' = IF t.info # NoBan /\ bans[t.k] = t.info THEN [swept EXCEPT ![t.k] = t.whom] ELSE swept
     /\ UNCHANGED <<bans, banRows, timers, firing, banOps, excused>>

-----------------------------------------------------------------------------
(* Connections. *)

\* CheckIP: the ban of one of the networks that contain the address; which one is
\* up to the order of the map.
CheckIP(c) == {k \in Nets : c \in ConnsIn[k] /\ bans[k].sort # "none"}

\* checkBans, and the IP check script, which can ask for a ban for the next time.
checkBans(c) ==
  /\ conn[c].st = "none" /\ task[c] = NoTask
  /\ IF CheckIP(c) # {}
     THEN \E k \in CheckIP(c) :
            /\ conn' = [conn EXCEPT ![c] = IF bans[k].sort = "hard" THEN [@ EXCEPT !.st = "gone"]
                                           ELSE [@ EXCEPT !.st = "hand", !.soft = TRUE]]
            /\ excused' = IF \E j \in CheckIP(c) : bans[j].sort # bans[k].sort
                          THEN [excused EXCEPT !.conns = @ \cup {c}] ELSE excused
            /\ UNCHANGED <<bans, banRows, timers, firing, task, banOps, swept>>
     ELSE \/ /\ conn' = [conn EXCEPT ![c].st = "hand"]
             /\ UNCHANGED <<bans, banRows, timers, firing, task, banOps, swept, excused>>
          \/ /\ banOps < MaxBanOps /\ banOps' = banOps + 1
             /\ \E k \in Nets, sort \in {"soft", "hard"} :
                  /\ c \in ConnsIn[k]
                  /\ addNetworkInternal(c, k, [sort |-> sort, made |-> banOps + 1, temp |-> TRUE],
                                        [at |-> "script", sort |-> sort])

\* The script's answer is applied after its ban is stored.
IPCheckScript(c) ==
  /\ task[c].at = "script" /\ Turn(c, NoTask)
  /\ conn' = [conn EXCEPT ![c] = IF task[c].sort = "hard" THEN [@ EXCEPT !.st = "gone"]
                                 ELSE [@ EXCEPT !.st = "hand", !.soft = TRUE]]
  /\ excused' = [excused EXCEPT !.conns = @ \cup {c}]
  /\ UNCHANGED <<bans, banRows, timers, firing, banOps, swept>>

\* AUTHENTICATE, during the handshake, as the user of an account whose client may
\* be always-on.
Authenticate(c) ==
  /\ conn[c].st = "hand" /\ conn[c].acct = "none"
  /\ \E acct \in {"user", "alwayson"} : conn' = [conn EXCEPT ![c].acct = acct]
  /\ UNCHANGED <<bans, banRows, timers, firing, task, banOps, swept, excused>>

\* tryRegister: a soft ban met at the start requires SASL; then the nick.  A session
\* of an always-on client is reattached, which is the end of its registration.
tryRegister(c) ==
  /\ conn[c].st = "hand"
  /\ conn' = [conn EXCEPT ![c].st = IF conn[c].soft /\ conn[c].acct = "none" THEN "gone"
                                    ELSE IF conn[c].acct = "alwayson" THEN "in" ELSE "nicked"]
  /\ UNCHANGED <<bans, banRows, timers, firing, task, banOps, swept, excused>>

\* The most stringent ban on a mask that matches.
CheckMasks(c) ==
  LET sorts == {bans[m].sort : m \in {n \in Masks : c \in MatchedBy[n]}}
  IN IF "hard" \in sorts THEN "hard" ELSE IF "soft" \in sorts THEN "soft" ELSE "none"

\* ... and then K-lines, when the nick can be found by those who set them.
CheckKlines(c) ==
  /\ conn[c].st = "nicked"
  /\ conn' = [conn EXCEPT ![c].st = CASE CheckMasks(c) = "hard" -> "gone"
                                      [] CheckMasks(c) = "soft" -> (IF conn[c].acct = "none" THEN "gone" ELSE "in")
                                      [] OTHER -> "in"]
  /\ UNCHANGED <<bans, banRows, timers, firing, task, banOps, swept, excused>>

-----------------------------------------------------------------------------
BansNext ==
  \/ TimerFires \/ RowExpires \/ processExpiration \/ loadFromDatastore
  \/ \E o \in BanOpers : \/ dlineHandler(o) \/ klineHandler(o) \/ unDLineHandler(o) \/ unKLineHandler(o)
                         \/ ubanAddCIDR(o) \/ ubanAddNickmask(o) \/ ubanDelHandler(o)
                         \/ unpersistDline(o) \/ unpersistKLine(o) \/ sessionsForCIDR(o) \/ DestroyTargets(o)
  \/ \E a \in BanAgents : persistDline(a)
  \/ \E o \in BanOpers : persistKLine(o)
  \/ \E c \in BanConns : \/ checkBans(c) \/ IPCheckScript(c) \/ Authenticate(c) \/ tryRegister(c) \/ CheckKlines(c)

BansSpec == BansInit /\ [][BansNext]_banVars

-----------------------------------------------------------------------------
(* Properties. *)

\* Whenever nobody is writing, the datastore has the bans that are enforced, so that
\* a restart brings them back: two operators changing the same ban, and a timer that
\* fires while its ban is replaced, leave the table and the row agreed.  Only a
\* temporary ban whose time is up may be gone from one of the two already; and a row
\* whose write failed is known to the operator.
BansSurviveRestart ==
  \A k \in BanKeys :
    MutexFree(k) /\ k \notin excused.rows =>
      \/ bans[k] = banRows[k]
      \/ bans[k] = NoBan /\ banRows[k].temp
      \/ banRows[k] = NoBan /\ bans[k].temp /\ <<k, bans[k].made>> \in firing

\* Once a command that sets a ban and removes those it matches is done, nobody whom
\* the ban matches is on the server while it lasts, however their registration was
\* interleaved with the command: who was not found by the command had no nick yet and
\* meets the ban afterwards.  Always-on clients are spared by design; D-lines miss the
\* connections that are past checkBans without a nick, and those for which CheckIP
\* found another network's ban (`excused`).
SweptAreOut ==
  \A k \in BanKeys, c \in BanConns :
    /\ conn[c].st = "in" /\ conn[c].acct # "alwayson" /\ c \notin excused.conns
    /\ \/ k \in Nets /\ swept[k] = "any" /\ c \in ConnsIn[k]
       \/ k \in Masks /\ swept[k] = "any" /\ c \in MatchedBy[k]
       \/ k \in Masks /\ swept[k] = "shown" /\ c \in ShownBy[k]
    => bans[k].sort = "soft" /\ conn[c].acct # "none"

=============================================================================
