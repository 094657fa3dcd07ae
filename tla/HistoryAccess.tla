--------------------------- MODULE HistoryAccess ----------------------------
(***************************************************************************)
(* Who may read which messages of the history: GetHistorySequence and the  *)
(* commands built on it (CHATHISTORY, HISTORY, HistServ PLAY, the ZNC      *)
(* playback module, the replay on joining and on reattaching).             *)
(*                                                                         *)
(* GetHistorySequence reads the membership and the account first and the   *)
(* cutoff afterwards, under locks it takes anew: a read is two steps here. *)
(* One channel and one account name are enough: an account name can be     *)
(* given up and registered again by somebody else, and the messages of its *)
(* former owner are still stored under it.                                 *)
(***************************************************************************)
EXTENDS Integers, FiniteSets

CONSTANTS
  Readers,            \* clients
  HistoryOpers,       \* those with the role capability "history"
  AccountBox,         \* the account's messages in the history database (not a reader)
  ChathistoryMax,     \* limit of one answer
  ExpireTimes,        \* configured restrictions: expire-time (0 is none)
  GracePeriods,       \* and grace-period
  MaxTime             \* bound: ticks of the clock

ASSUME HistoryAccessAssumption ==
  /\ HistoryOpers \subseteq Readers /\ AccountBox \notin Readers
  /\ ChathistoryMax \in Nat \ {0} /\ MaxTime \in Nat /\ ExpireTimes \subseteq Nat /\ GracePeriods \subseteq Nat

VARIABLES
  clock,
  limits,        \* the configuration: [expire, grace]
  joined,        \* [Readers -> time of joining, 0 when not a member]
  chanops,       \* members with a privileged mode
  queryCutoff,   \* the channel's setting
  regDate,       \* registration of the account name, 0 when free
  readerLogin,         \* [Readers -> accountRegDate, 0 when not logged in]
  ctime,         \* [Readers -> creation of the connection]
  said,          \* times of the channel's messages
  mail,          \* direct messages: [time, box, owner, stray]
  reading,       \* [Readers -> a read under way]
  answer,        \* the last answer
  heard          \* ghost: [Readers -> messages said while the reader was a member]

accessVars == <<clock, limits, joined, chanops, queryCutoff, regDate, readerLogin, ctime, said, mail,
                reading, answer, heard>>

NotReading == [query |-> "none", cutoff |-> 0, restriction |-> "none", box |-> AccountBox, owner |-> 0,
               privileged |-> FALSE]
NoAnswer == [reader |-> AccountBox, read |-> NotReading, items |-> {}, exempt |-> TRUE]

HLater(a, b) == IF a < b THEN b ELSE a
HQA == INSTANCE HistoryQueries WITH ItemTo <- [i \in {} |-> 0], NoName <- ""

\* Ghost: whose direct messages a client's are, named by the time it came to be.
Owner(r) == IF readerLogin[r] # 0 THEN readerLogin[r] ELSE ctime[r]

\* Its account was unregistered, and killClients has not come to it yet.
Lingers(r) == readerLogin[r] \notin {0, regDate}

-----------------------------------------------------------------------------
\* Privileged members are not restricted.
joinTimeCutoff(r) == IF r \in chanops THEN 0 ELSE joined[r]

\* What if: the cutoff of a logged-in client is that of its connection.
historyCutoff_Connection(r) == ctime[r]

historyCutoff(r) == IF readerLogin[r] # 0 THEN readerLogin[r] ELSE ctime[r]

\* The first half of GetHistorySequence: which messages, and the membership.  Ghosts:
\* `owner`, whose messages they are, and `privileged`, that the reader is not restricted.
GetHistorySequence(r, query) ==
  IF query = "channel"
  THEN [query |-> query, cutoff |-> joinTimeCutoff(r), restriction |-> queryCutoff, box |-> AccountBox,
        owner |-> joined[r], privileged |-> r \in chanops]
  ELSE [query |-> query, cutoff |-> 0, restriction |-> "none",
        box |-> IF readerLogin[r] # 0 THEN AccountBox ELSE r,
        owner |-> Owner(r), privileged |-> FALSE]

\* The second half: the time before which nothing is shown.
Cutoff(r, q) ==
  LET expired == IF limits.expire = 0 THEN 0 ELSE HLater(0, clock - limits.expire)
      latest == CASE q.restriction = "registration-time" \/ q.query = "direct" -> HLater(expired, historyCutoff(r))
                  [] q.restriction = "join-time" -> HLater(expired, q.cutoff)
                  [] q.restriction = "none" /\ q.query # "direct" -> expired
  IN CASE r \in HistoryOpers -> 0
       [] r \notin HistoryOpers /\ latest # 0 /\ q.query = "channel" /\ q.restriction # "join-time" ->
            HLater(0, latest - limits.grace)
       [] r \notin HistoryOpers /\ ~(latest # 0 /\ q.query = "channel" /\ q.restriction # "join-time") -> latest

Stored(q) == IF q.query = "channel" THEN said ELSE {m.time : m \in {x \in mail : x.box = q.box}}

\* The first `limit` in the direction asked for.
PageOf(times, asc, limit) ==
  {t \in times : Cardinality({u \in times : IF asc THEN u < t ELSE t < u}) < limit}

\* Sequence.Between on the messages a read may see.
SequenceBetween(r, q, start, end, limit) ==
  LET w == HQA!MinMaxAsc(start, end, Cutoff(r, q))
  IN PageOf({t \in Stored(q) : HQA!Inside(t, w)}, w.asc, limit)

-----------------------------------------------------------------------------
(* What the commands ask for. *)

\* HISTORY and HistServ PLAY: a number of messages, or a duration.
easySelectHistory(r, q) ==
  {SequenceBetween(r, q, 0, 0, n) : n \in 1..ChathistoryMax}
  \cup {SequenceBetween(r, q, clock + 1, HLater(0, clock - d), ChathistoryMax) : d \in 1..2}

\* PLAY [from [to]] of the playback module: the latest, those since a time, or a window.
zncPlaybackTimes == {[start |-> 0, end |-> 0], [start |-> 1, end |-> clock]}
                    \cup {[start |-> clock + 1, end |-> t] : t \in 1..clock}

zncPlayPrivmsgsFrom(r, q) == {SequenceBetween(r, q, z.start, z.end, ChathistoryMax) : z \in zncPlaybackTimes}

\* Joining and reattaching: the playback times asked for, or those missed since the last
\* session, or the configured number of lines for sessions that cannot ask.
autoReplayHistory(r, q) ==
  {SequenceBetween(r, q, z.start, z.end, ChathistoryMax) : z \in zncPlaybackTimes}
  \cup {SequenceBetween(r, q, clock + 1, since, ChathistoryMax) : since \in 1..clock}
  \cup {SequenceBetween(r, q, 0, 0, 1), {}}

-----------------------------------------------------------------------------
HistoryAccessInit ==
  /\ clock = 1 /\ limits \in [expire : ExpireTimes, grace : GracePeriods]
  /\ joined = [r \in Readers |-> 0] /\ chanops = {} /\ queryCutoff \in {"none", "registration-time", "join-time"}
  /\ regDate = 0 /\ readerLogin = [r \in Readers |-> 0] /\ ctime = [r \in Readers |-> 1]
  /\ said = {} /\ mail = {} /\ heard = [r \in Readers |-> {}]
  /\ reading = [r \in Readers |-> NotReading] /\ answer = NoAnswer

Tick == clock < MaxTime /\ clock' = clock + 1

\* newMemberData: the time of joining.
memberJoinTime(r) == clock + 1

ReaderJoins(r) ==
  /\ joined[r] = 0 /\ Tick
  /\ joined' = [joined EXCEPT ![r] = memberJoinTime(r)]
  /\ answer' = NoAnswer
  /\ UNCHANGED <<limits, chanops, queryCutoff, regDate, readerLogin, ctime, said, mail, reading, heard>>

ReaderLeaves(r) ==
  /\ joined[r] # 0 /\ joined' = [joined EXCEPT ![r] = 0] /\ chanops' = chanops \ {r} /\ answer' = NoAnswer
  /\ UNCHANGED <<clock, limits, queryCutoff, regDate, readerLogin, ctime, said, mail, reading, heard>>

GiveOps(r) ==
  /\ joined[r] # 0 /\ r \notin chanops /\ chanops' = chanops \cup {r} /\ answer' = NoAnswer
  /\ UNCHANGED <<clock, limits, joined, queryCutoff, regDate, readerLogin, ctime, said, mail, reading, heard>>

\* A message to the channel.
Say ==
  /\ Tick /\ said' = said \cup {clock + 1} /\ answer' = NoAnswer
  /\ heard' = [r \in Readers |-> IF joined[r] # 0 THEN heard[r] \cup {clock + 1} ELSE heard[r]]
  /\ UNCHANGED <<limits, joined, chanops, queryCutoff, regDate, readerLogin, ctime, mail, reading>>

\* client.addHistoryItem: persistent for an account, in the client's buffer otherwise.
\* Ghost: `stray`, it is for the former owner of a name that another one has by now.
SendMail(r) ==
  /\ Tick /\ answer' = NoAnswer
  /\ mail' = mail \cup {[time |-> clock + 1, box |-> IF readerLogin[r] # 0 THEN AccountBox ELSE r, owner |-> Owner(r),
                         stray |-> Lingers(r) /\ regDate # 0]}
  /\ UNCHANGED <<limits, joined, chanops, queryCutoff, regDate, readerLogin, ctime, said, reading, heard>>

RegisterAccount(r) ==
  /\ regDate = 0 /\ readerLogin[r] = 0 /\ Tick /\ answer' = NoAnswer
  /\ regDate' = clock + 1 /\ readerLogin' = [readerLogin EXCEPT ![r] = clock + 1]
  /\ UNCHANGED <<limits, joined, chanops, queryCutoff, ctime, said, mail, reading, heard>>

\* SASL or NickServ IDENTIFY (a login that was checked before the account was
\* unregistered is in Accounts).
LoginReader(r) ==
  /\ regDate # 0 /\ readerLogin[r] = 0 /\ answer' = NoAnswer
  /\ readerLogin' = [readerLogin EXCEPT ![r] = regDate]
  /\ UNCHANGED <<clock, limits, joined, chanops, queryCutoff, regDate, ctime, said, mail, reading, heard>>

\* Unregister with `erase`: the rows go, the messages stay.
UnregisterAccount ==
  /\ regDate # 0 /\ regDate' = 0 /\ answer' = NoAnswer
  /\ UNCHANGED <<clock, limits, joined, chanops, queryCutoff, readerLogin, ctime, said, mail, reading, heard>>

\* killClients, deferred until after the account's channels are unregistered: by then the
\* name may be registered again.
LogoutReader(r) ==
  /\ Lingers(r) /\ readerLogin' = [readerLogin EXCEPT ![r] = 0] /\ answer' = NoAnswer
  /\ UNCHANGED <<clock, limits, joined, chanops, queryCutoff, regDate, ctime, said, mail, reading, heard>>

\* The client disconnects and comes back: another Client, with an empty buffer.
Reconnect(r) ==
  /\ Tick /\ answer' = NoAnswer /\ reading[r] = NotReading
  /\ ctime' = [ctime EXCEPT ![r] = clock + 1] /\ readerLogin' = [readerLogin EXCEPT ![r] = 0]
  /\ joined' = [joined EXCEPT ![r] = 0] /\ chanops' = chanops \ {r}
  /\ mail' = {m \in mail : m.box # r}
  /\ UNCHANGED <<limits, queryCutoff, regDate, said, reading, heard>>

BeginRead(r) ==
  /\ reading[r] = NotReading /\ answer' = NoAnswer
  /\ \E q \in {"channel", "direct"} :
       /\ q = "channel" => joined[r] # 0
       /\ reading' = [reading EXCEPT ![r] = GetHistorySequence(r, q)]
  /\ UNCHANGED <<clock, limits, joined, chanops, queryCutoff, regDate, readerLogin, ctime, said, mail, heard>>

FinishRead(r) ==
  /\ reading[r] # NotReading
  /\ LET q == reading[r]
         ways == easySelectHistory(r, q)
                 \cup (IF q.query = "channel" THEN autoReplayHistory(r, q) ELSE zncPlayPrivmsgsFrom(r, q))
     IN \E items \in ways :
          answer' = [reader |-> r, read |-> q, items |-> items,
                     exempt |-> \/ r \in HistoryOpers
                                \/ q.privileged
                                \* It left, or its account changed, between the two halves.
                                \/ q.query = "channel" /\ joined[r] # q.owner
                                \/ q.query = "direct" /\ (Owner(r) # q.owner \/ Lingers(r))]
  /\ reading' = [reading EXCEPT ![r] = NotReading]
  /\ UNCHANGED <<clock, limits, joined, chanops, queryCutoff, regDate, readerLogin, ctime, said, mail, heard>>

HistoryAccessNext ==
  \/ Say \/ UnregisterAccount
  \/ \E r \in Readers :
       \/ ReaderJoins(r) \/ ReaderLeaves(r) \/ GiveOps(r) \/ SendMail(r) \/ Reconnect(r)
       \/ RegisterAccount(r) \/ LoginReader(r) \/ LogoutReader(r)
       \/ BeginRead(r) \/ FinishRead(r)

HistoryAccessSpec == HistoryAccessInit /\ [][HistoryAccessNext]_accessVars

-----------------------------------------------------------------------------
\* Under join-time restriction an ordinary member is shown only what was said while it was
\* in the channel, whatever it parted and rejoined; and direct messages are shown only to
\* the account or connection they were sent to, not to a later owner of the name
\* (GetHistorySequence, joinTimeCutoff, historyCutoff).  Apart from the moments between the
\* two halves of a read, and between Unregister and the logout of its clients: a name
\* registered again in them shares its stored messages with the former owner.
ReadersSeeTheirOwn ==
  LET q == answer.read
  IN ~answer.exempt =>
       /\ q.query = "channel" /\ q.restriction = "join-time" => answer.items \subseteq heard[answer.reader]
       /\ q.query = "direct" =>
            \A m \in mail : m.box = q.box /\ m.time \in answer.items /\ ~m.stray => m.owner = q.owner
=============================================================================
