---------------------------- MODULE HistoryProofs ----------------------------
(***************************************************************************)
(* Theorems about what is kept and who reads it: HistoryAccess, for any    *)
(* readers, configurations and lengths of the history; AccountData, for    *)
(* any metadata keys, endpoints, limits, commands and restarts; and the    *)
(* ring of HistoryBuffer, for any messages, lengths and windows.           *)
(***************************************************************************)
EXTENDS HistoryAccess, AccountData, HistoryBuffer, FiniteSetTheorems, WellFoundedInduction, TLAPS

-----------------------------------------------------------------------------
(* HistoryAccess *)

Boxes == Readers \cup {AccountBox}

ReadTypes ==
  [query : {"none", "channel", "direct"}, cutoff : Nat,
   restriction : {"none", "registration-time", "join-time"}, box : Boxes, owner : Nat,
   privileged : BOOLEAN]

AccessType ==
  /\ clock \in Nat /\ limits \in [expire : Nat, grace : Nat]
  /\ joined \in [Readers -> Nat] /\ chanops \subseteq Readers
  /\ queryCutoff \in {"none", "registration-time", "join-time"}
  /\ regDate \in Nat /\ readerLogin \in [Readers -> Nat] /\ ctime \in [Readers -> Nat]
  /\ said \subseteq Nat /\ mail \subseteq [time : Nat, box : Boxes, owner : Nat, stray : BOOLEAN]
  /\ reading \in [Readers -> ReadTypes] /\ heard \in [Readers -> SUBSET Nat]

(* Nothing bears a time of the future.                                     *)
TimesInv ==
  /\ regDate <= clock
  /\ \A t \in said : t <= clock
  /\ \A m \in mail : m.time <= clock
  /\ \A r \in Readers : joined[r] <= clock /\ readerLogin[r] <= clock /\ ctime[r] <= clock

(* A member has heard everything since it joined.                          *)
HeardInv ==
  \A r \in Readers : joined[r] # 0 => \A t \in said : t > joined[r] => t \in heard[r]

(* Whose a direct message is shows in where and when it was stored.        *)
MailInv ==
  \A m \in mail :
    /\ m.box = AccountBox /\ regDate # 0 /\ m.time > regDate /\ ~m.stray => m.owner = regDate
    /\ \A r \in Readers : m.box = r => m.owner = ctime[r]

(* A registration and a connection are told apart by their times.          *)
DatesInv ==
  \A r \in Readers :
    ctime[r] # 0 /\ regDate # ctime[r] /\ \A s \in Readers : readerLogin[s] # ctime[r]

(* What the first half of a read found out.                                *)
ReadInv ==
  \A r \in Readers :
    LET q == reading[r]
    IN /\ q.query = "channel" /\ q.restriction = "join-time" /\ ~q.privileged =>
            q.cutoff = q.owner /\ q.owner # 0
       /\ q.query = "direct" => /\ q.restriction = "none"
                                /\ \/ q.box = r /\ q.owner = ctime[r]
                                   \/ q.box = AccountBox /\ q.owner # ctime[r]

AccessInv == AccessType /\ TimesInv /\ HeardInv /\ MailInv /\ DatesInv /\ ReadInv

-----------------------------------------------------------------------------
(* A message on a page is stored, and later than the cutoff.               *)
LEMMA BetweenIsAfterCutoff ==
  ASSUME NEW r, NEW q, NEW start \in Nat, NEW end \in Nat, NEW limit,
         Cutoff(r, q) \in Nat, Stored(q) \subseteq Nat,
         NEW t \in SequenceBetween(r, q, start, end, limit)
  PROVE  t \in Stored(q) /\ (Cutoff(r, q) # 0 => t > Cutoff(r, q))
<1> DEFINE w == HQA!MinMaxAsc(start, end, Cutoff(r, q))
<1>1. t \in {u \in Stored(q) : HQA!Inside(u, w)}
  BY DEF SequenceBetween, PageOf
<1>2. w.min \in Nat /\ w.min >= Cutoff(r, q)
  BY DEF HQA!MinMaxAsc
<1>3. w.min # 0 => t > w.min
  BY <1>1 DEF HQA!Inside
<1> QED BY <1>1, <1>2, <1>3

(* So every answer of every command is.                                    *)
LEMMA AnswersAreAfterCutoff ==
  ASSUME NEW r \in Readers, NEW q, clock \in Nat, Cutoff(r, q) \in Nat, Stored(q) \subseteq Nat,
         NEW items \in easySelectHistory(r, q) \cup autoReplayHistory(r, q) \cup zncPlayPrivmsgsFrom(r, q),
         NEW t \in items
  PROVE  t \in Stored(q) /\ (Cutoff(r, q) # 0 => t > Cutoff(r, q))
<1>1. \A a \in Int, b \in Int : HLater(a, b) \in {a, b}
  BY DEF HLater
<1>2. PICK start \in Nat, end \in Nat : \E limit : t \in SequenceBetween(r, q, start, end, limit)
  <2>1. CASE items \in {SequenceBetween(r, q, 0, 0, n) : n \in 1..ChathistoryMax}
    BY <2>1
  <2>2. CASE items \in {SequenceBetween(r, q, clock + 1, HLater(0, clock - d), ChathistoryMax) : d \in 1..2}
    <3>1. PICK d \in 1..2 : items = SequenceBetween(r, q, clock + 1, HLater(0, clock - d), ChathistoryMax)
      BY <2>2
    <3>2. HLater(0, clock - d) \in Nat
      BY DEF HLater
    <3> QED BY <3>1, <3>2
  <2>3. CASE items \in {SequenceBetween(r, q, z.start, z.end, ChathistoryMax) : z \in zncPlaybackTimes}
    <3>1. PICK z \in zncPlaybackTimes : items = SequenceBetween(r, q, z.start, z.end, ChathistoryMax)
      BY <2>3
    <3>2. z.start \in Nat /\ z.end \in Nat
      BY DEF zncPlaybackTimes
    <3> QED BY <3>1, <3>2
  <2>4. CASE items \in {SequenceBetween(r, q, clock + 1, since, ChathistoryMax) : since \in 1..clock}
    <3>1. PICK since \in 1..clock : items = SequenceBetween(r, q, clock + 1, since, ChathistoryMax)
      BY <2>4
    <3>2. since \in Nat /\ clock + 1 \in Nat
      OBVIOUS
    <3> QED BY <3>1, <3>2
  <2>5. CASE items \in {SequenceBetween(r, q, 0, 0, 1), {}}
    BY <2>5
  <2> QED BY <2>1, <2>2, <2>3, <2>4, <2>5 DEF easySelectHistory, autoReplayHistory, zncPlayPrivmsgsFrom
<1> QED BY <1>2, BetweenIsAfterCutoff

(* The cutoff of those who are not exempt.                                 *)
LEMMA CutoffBounds ==
  ASSUME AccessType, NEW r \in Readers, NEW q \in ReadTypes, q.query # "none"
  PROVE  /\ Cutoff(r, q) \in Nat
         /\ r \notin HistoryOpers /\ q.query = "channel" /\ q.restriction = "join-time" =>
              Cutoff(r, q) >= q.cutoff
         /\ r \notin HistoryOpers /\ q.query = "direct" /\ q.restriction = "none" => Cutoff(r, q) >= historyCutoff(r)
<1> DEFINE expired == IF limits.expire = 0 THEN 0 ELSE HLater(0, clock - limits.expire)
           latest == CASE q.restriction = "registration-time" \/ q.query = "direct" -> HLater(expired, historyCutoff(r))
                       [] q.restriction = "join-time" -> HLater(expired, q.cutoff)
                       [] q.restriction = "none" /\ q.query # "direct" -> expired
           graced == latest # 0 /\ q.query = "channel" /\ q.restriction # "join-time"
<1>1. expired \in Nat
  BY DEF AccessType, HLater
<1>2. historyCutoff(r) \in Nat /\ q.cutoff \in Nat
  BY DEF AccessType, historyCutoff, ReadTypes
<1>3. q.restriction \in {"none", "registration-time", "join-time"} /\ q.query \in {"channel", "direct"}
  BY DEF ReadTypes
<1> HIDE DEF expired
<1>4. /\ latest \in Nat
      /\ q.query = "channel" /\ q.restriction = "join-time" => latest >= q.cutoff
      /\ q.query = "direct" /\ q.restriction = "none" => latest >= historyCutoff(r)
  BY <1>1, <1>2, <1>3 DEF HLater
<1>5. Cutoff(r, q) = CASE r \in HistoryOpers -> 0
                       [] r \notin HistoryOpers /\ latest # 0 /\ q.query = "channel" /\ q.restriction # "join-time" ->
                            HLater(0, latest - limits.grace)
                       [] r \notin HistoryOpers /\ ~(latest # 0 /\ q.query = "channel" /\ q.restriction # "join-time") -> latest
  BY DEF Cutoff, expired
<1> HIDE DEF latest
<1>6. limits.grace \in Nat /\ HLater(0, latest - limits.grace) \in Nat
  BY <1>4 DEF AccessType, HLater
<1> QED BY <1>3, <1>4, <1>5, <1>6
-----------------------------------------------------------------------------
LEMMA InitAccess == HistoryAccessInit => AccessInv
<1> SUFFICES ASSUME HistoryAccessInit PROVE AccessInv
  OBVIOUS
<1>1. NotReading \in ReadTypes /\ NotReading.query = "none"
  BY DEF NotReading, ReadTypes, Boxes
<1>2. AccessType
  BY <1>1, HistoryAccessAssumption DEF HistoryAccessInit, AccessType
<1>3. TimesInv /\ HeardInv /\ MailInv /\ DatesInv
  BY DEF HistoryAccessInit, TimesInv, HeardInv, MailInv, DatesInv
<1>4. ReadInv
  BY <1>1 DEF HistoryAccessInit, ReadInv
<1> QED BY <1>2, <1>3, <1>4 DEF AccessInv

(* A message to the channel.                                               *)
LEMMA SpeakSteps ==
  ASSUME AccessInv, Say PROVE AccessInv' /\ answer' = NoAnswer
<1> USE DEF AccessInv
<1>1. /\ UNCHANGED <<limits, joined, chanops, queryCutoff, regDate, readerLogin, ctime, mail, reading>>
      /\ answer' = NoAnswer /\ said' = said \cup {clock + 1} /\ clock' = clock + 1
      /\ heard' = [s \in Readers |-> IF joined[s] # 0 THEN heard[s] \cup {clock + 1} ELSE heard[s]]
  BY DEF Say, Tick
<1>2. MailInv' /\ DatesInv' /\ ReadInv'
  BY <1>1 DEF MailInv, DatesInv, ReadInv
<1>3. heard' \in [Readers -> SUBSET Nat]
  BY <1>1 DEF AccessType
<1>4. AccessType' /\ TimesInv'
  BY <1>1, <1>3 DEF AccessType, TimesInv
<1>5. HeardInv'
  BY <1>1 DEF AccessType, TimesInv, HeardInv
<1> QED BY <1>1, <1>2, <1>4, <1>5

(* Joining, leaving, becoming an operator.                                 *)
LEMMA ChannelSteps ==
  ASSUME AccessInv, NEW r \in Readers, ReaderJoins(r) \/ ReaderLeaves(r) \/ GiveOps(r)
  PROVE  AccessInv' /\ answer' = NoAnswer
<1> USE DEF AccessInv
<1>1. /\ UNCHANGED <<limits, queryCutoff, regDate, readerLogin, ctime, said, mail, reading, heard>>
      /\ answer' = NoAnswer /\ clock' \in Nat /\ clock' >= clock
  BY DEF AccessType, ReaderJoins, ReaderLeaves, GiveOps, Tick
<1>2. MailInv' /\ DatesInv' /\ ReadInv'
  BY <1>1 DEF MailInv, DatesInv, ReadInv
<1>3. /\ chanops' \subseteq Readers
      /\ \/ joined' = joined
         \/ joined' = [joined EXCEPT ![r] = 0]
         \/ joined' = [joined EXCEPT ![r] = clock + 1] /\ clock' = clock + 1
  BY DEF AccessType, ReaderJoins, ReaderLeaves, GiveOps, memberJoinTime, Tick
<1>4. AccessType' /\ TimesInv'
  BY <1>1, <1>3 DEF AccessType, TimesInv
<1>5. HeardInv'
  BY <1>1, <1>3 DEF AccessType, TimesInv, HeardInv
<1> QED BY <1>1, <1>2, <1>4, <1>5

(* Registering, logging in, unregistering, logging out.                    *)
LEMMA AccountSteps ==
  ASSUME AccessInv, NEW r, RegisterAccount(r) \/ LoginReader(r) \/ UnregisterAccount \/ LogoutReader(r)
  PROVE  AccessInv' /\ answer' = NoAnswer
<1> USE DEF AccessInv
<1>1. /\ UNCHANGED <<limits, joined, chanops, queryCutoff, ctime, said, mail, reading, heard>> /\ answer' = NoAnswer
      /\ clock' \in Nat /\ clock' >= clock
  BY DEF AccessType, RegisterAccount, LoginReader, UnregisterAccount, LogoutReader, Tick
<1>2. /\ regDate' \in {0, regDate} \/ (regDate' = clock' /\ clock' = clock + 1)
      /\ readerLogin' = readerLogin \/ readerLogin' = [readerLogin EXCEPT ![r] = 0]
         \/ readerLogin' = [readerLogin EXCEPT ![r] = regDate']
  BY DEF RegisterAccount, LoginReader, UnregisterAccount, LogoutReader, Tick
<1>4. HeardInv' /\ ReadInv'
  BY <1>1 DEF HeardInv, ReadInv
<1>5. AccessType' /\ TimesInv'
  BY <1>1, <1>2 DEF AccessType, TimesInv
<1>6. MailInv'
  BY <1>1, <1>2 DEF AccessType, TimesInv, MailInv
<1>7. DatesInv'
  BY <1>1, <1>2 DEF AccessType, TimesInv, DatesInv
<1> QED BY <1>1, <1>4, <1>5, <1>6, <1>7

(* A direct message, stored under the account or in the client's buffer.   *)
LEMMA MailSteps ==
  ASSUME AccessInv, NEW r \in Readers, SendMail(r)
  PROVE  AccessInv' /\ answer' = NoAnswer
<1> USE DEF AccessInv
<1> DEFINE m == [time |-> clock + 1, box |-> IF readerLogin[r] # 0 THEN AccountBox ELSE r, owner |-> Owner(r),
                 stray |-> Lingers(r) /\ regDate # 0]
<1>1. /\ UNCHANGED <<limits, joined, chanops, queryCutoff, regDate, readerLogin, ctime, said, reading, heard>>
      /\ answer' = NoAnswer /\ clock' = clock + 1 /\ clock \in Nat /\ mail' = mail \cup {m}
  BY DEF AccessType, SendMail, Tick
<1>2. /\ m.time = clock + 1 /\ m.owner = Owner(r) /\ (m.stray <=> Lingers(r) /\ regDate # 0)
      /\ m.box = IF readerLogin[r] # 0 THEN AccountBox ELSE r
  OBVIOUS
<1>3. Owner(r) = IF readerLogin[r] # 0 THEN readerLogin[r] ELSE ctime[r]
  BY DEF Owner
<1>4. m \in [time : Nat, box : Boxes, owner : Nat, stray : BOOLEAN]
  BY <1>1, <1>3 DEF AccessType, Boxes
<1> HIDE DEF m
<1>5. AccessType' /\ TimesInv'
  BY <1>1, <1>2, <1>4 DEF AccessType, TimesInv
<1>6. HeardInv' /\ DatesInv' /\ ReadInv'
  BY <1>1 DEF HeardInv, DatesInv, ReadInv
<1>7. m.box = AccountBox /\ regDate # 0 /\ m.time > regDate /\ ~m.stray => m.owner = regDate
  BY <1>2, <1>3, HistoryAccessAssumption DEF Lingers
<1>8. \A s \in Readers : m.box = s => m.owner = ctime[s]
  BY <1>2, <1>3, HistoryAccessAssumption
<1>9. MailInv'
  BY <1>1, <1>7, <1>8 DEF MailInv
<1> QED BY <1>1, <1>5, <1>6, <1>9

(* Another connection of the same person.                                  *)
LEMMA ReconnectSteps ==
  ASSUME AccessInv, NEW r \in Readers, Reconnect(r)
  PROVE  AccessInv' /\ answer' = NoAnswer
<1> USE DEF AccessInv
<1>1. /\ UNCHANGED <<limits, queryCutoff, regDate, said, reading, heard>>
      /\ answer' = NoAnswer /\ clock' = clock + 1 /\ clock \in Nat /\ reading[r] = NotReading
      /\ ctime' = [ctime EXCEPT ![r] = clock + 1] /\ readerLogin' = [readerLogin EXCEPT ![r] = 0]
      /\ joined' = [joined EXCEPT ![r] = 0] /\ chanops' = chanops \ {r}
      /\ mail' = {m \in mail : m.box # r}
  BY DEF AccessType, Reconnect, Tick
<1>2. AccessType' /\ TimesInv'
  BY <1>1 DEF AccessType, TimesInv
<1>3. HeardInv' /\ DatesInv'
  BY <1>1 DEF AccessType, TimesInv, HeardInv, DatesInv
<1>4. MailInv'
  BY <1>1 DEF AccessType, MailInv
<1>5. ReadInv'
  <2>1. reading[r].query = "none"
    BY <1>1 DEF NotReading
  <2> QED BY <1>1, <2>1 DEF AccessType, ReadInv
<1> QED BY <1>1, <1>2, <1>3, <1>4, <1>5

(* The first half of a read.                                               *)
LEMMA BeginSteps ==
  ASSUME AccessInv, NEW r \in Readers, BeginRead(r)
  PROVE  AccessInv' /\ answer' = NoAnswer
<1> USE DEF AccessInv
<1>1. /\ UNCHANGED <<clock, limits, joined, chanops, queryCutoff, regDate, readerLogin, ctime, said, mail, heard>>
      /\ answer' = NoAnswer
  BY DEF BeginRead
<1>2. PICK query \in {"channel", "direct"} :
        /\ query = "channel" => joined[r] # 0
        /\ reading' = [reading EXCEPT ![r] = GetHistorySequence(r, query)]
  BY DEF BeginRead
<1> DEFINE q == GetHistorySequence(r, query)
<1>3. CASE query = "channel"
  <2>1. q = [query |-> "channel", cutoff |-> joinTimeCutoff(r), restriction |-> queryCutoff, box |-> AccountBox,
             owner |-> joined[r], privileged |-> r \in chanops]
    BY <1>3 DEF GetHistorySequence
  <2>2. joinTimeCutoff(r) = IF r \in chanops THEN 0 ELSE joined[r]
    BY DEF joinTimeCutoff
  <2>3. joinTimeCutoff(r) \in Nat /\ joined[r] \in Nat
    BY <2>2 DEF AccessType
  <2>4. q \in ReadTypes
    BY <2>1, <2>3 DEF AccessType, ReadTypes, Boxes
  <2>5. q.query = "channel" /\ (~q.privileged => q.cutoff = q.owner /\ q.owner # 0)
    <3> HIDE DEF q
    <3>1. q.query = "channel" /\ q.cutoff = joinTimeCutoff(r) /\ q.owner = joined[r]
      BY <2>1
    <3>2. q.privileged = (r \in chanops)
      BY <2>1
    <3> QED BY <1>2, <1>3, <2>2, <3>1, <3>2
  <2> QED BY <1>1, <1>2, <2>4, <2>5 DEF AccessType, TimesInv, HeardInv, MailInv, DatesInv, ReadInv
<1>4. CASE query = "direct"
  <2>1. q = [query |-> "direct", cutoff |-> 0, restriction |-> "none",
             box |-> IF readerLogin[r] # 0 THEN AccountBox ELSE r, owner |-> Owner(r), privileged |-> FALSE]
    BY <1>4 DEF GetHistorySequence
  <2>2. Owner(r) = IF readerLogin[r] # 0 THEN readerLogin[r] ELSE ctime[r]
    BY DEF Owner
  <2>3. Owner(r) \in Nat
    BY <2>2 DEF AccessType
  <2>4. q \in ReadTypes
    BY <2>1, <2>3 DEF AccessType, ReadTypes, Boxes
  <2>5. /\ q.query = "direct" /\ q.restriction = "none"
        /\ \/ q.box = r /\ q.owner = ctime[r]
           \/ q.box = AccountBox /\ q.owner # ctime[r]
    BY <2>1, <2>2 DEF DatesInv
  <2> QED BY <1>1, <1>2, <2>4, <2>5 DEF AccessType, TimesInv, HeardInv, MailInv, DatesInv, ReadInv
<1> QED BY <1>1, <1>3, <1>4

(* The second half: the answer is the reader's own.                        *)
LEMMA FinishSteps ==
  ASSUME AccessInv, NEW r \in Readers, FinishRead(r)
  PROVE  AccessInv' /\ ReadersSeeTheirOwn'
<1> USE DEF AccessInv
<1> DEFINE q == reading[r]
<1>1. /\ UNCHANGED <<clock, limits, joined, chanops, queryCutoff, regDate, readerLogin, ctime, said, mail, heard>>
      /\ reading' = [reading EXCEPT ![r] = NotReading] /\ q # NotReading
  BY DEF FinishRead
<1>2. PICK items \in easySelectHistory(r, q) \cup autoReplayHistory(r, q) \cup zncPlayPrivmsgsFrom(r, q) :
        answer' = [reader |-> r, read |-> q, items |-> items,
                   exempt |-> \/ r \in HistoryOpers
                              \/ q.privileged
                              \/ q.query = "channel" /\ joined[r] # q.owner
                              \/ q.query = "direct" /\ (Owner(r) # q.owner \/ Lingers(r))]
  BY DEF FinishRead
<1>12. answer'.reader = r /\ answer'.read = q /\ answer'.items = items
  BY <1>2
<1>3. AccessInv'
  <2>1. NotReading \in ReadTypes /\ NotReading.query = "none"
    BY DEF NotReading, ReadTypes, Boxes
  <2>2. AccessType' /\ ReadInv'
    BY <1>1, <2>1 DEF AccessType, ReadInv
  <2> QED BY <1>1, <2>2 DEF TimesInv, HeardInv, MailInv, DatesInv
<1>4. q \in ReadTypes
  BY DEF AccessType
<1>5. Stored(q) \subseteq Nat
  BY DEF AccessType, Stored
<1>6. SUFFICES ASSUME ~answer'.exempt, q.query # "none"
      PROVE  /\ q.query = "channel" /\ q.restriction = "join-time" => items \subseteq heard[r]
             /\ q.query = "direct" =>
                  \A m \in mail : m.box = q.box /\ m.time \in items /\ ~m.stray => m.owner = q.owner
  <2>1. q.query \in {"none", "channel", "direct"}
    BY <1>4 DEF ReadTypes
  <2>2. heard' = heard /\ mail' = mail
    BY <1>1
  <2> HIDE DEF q
  <2> QED BY <1>3, <1>12, <2>1, <2>2 DEF ReadersSeeTheirOwn
<1>7. /\ r \notin HistoryOpers /\ ~q.privileged
      /\ q.query = "channel" => joined[r] = q.owner
      /\ q.query = "direct" => Owner(r) = q.owner /\ readerLogin[r] \in {0, regDate}
  BY <1>2, <1>6 DEF Lingers
<1>8. /\ Cutoff(r, q) \in Nat
      /\ q.query = "channel" /\ q.restriction = "join-time" => Cutoff(r, q) >= q.cutoff
      /\ q.query = "direct" /\ q.restriction = "none" => Cutoff(r, q) >= historyCutoff(r)
  BY <1>4, <1>6, <1>7, CutoffBounds
<1>9. \A t \in items : t \in Stored(q) /\ (Cutoff(r, q) # 0 => t > Cutoff(r, q))
  BY <1>2, <1>5, <1>8, AnswersAreAfterCutoff DEF AccessType
<1>10. ASSUME q.query = "channel", q.restriction = "join-time", NEW t \in items PROVE t \in heard[r]
  <2>1. q.cutoff = joined[r] /\ joined[r] # 0 /\ joined[r] \in Nat
    BY <1>7, <1>10 DEF AccessType, ReadInv
  <2>2. t \in said /\ t \in Nat
    BY <1>5, <1>9, <1>10 DEF Stored
  <2>3. t > joined[r]
    BY <1>8, <1>9, <1>10, <2>1, <2>2
  <2> QED BY <2>1, <2>2, <2>3 DEF HeardInv
<1>11. ASSUME q.query = "direct", NEW m \in mail, m.box = q.box, m.time \in items, ~m.stray
       PROVE  m.owner = q.owner
  <2>1. CASE q.box = r /\ q.owner = ctime[r]
    BY <1>11, <2>1 DEF MailInv
  <2>2. CASE q.box = AccountBox /\ q.owner # ctime[r]
    <3>1. readerLogin[r] # 0 /\ readerLogin[r] = regDate /\ q.owner = regDate /\ regDate \in Nat
      BY <1>7, <1>11, <2>2 DEF Owner, AccessType
    <3>2. historyCutoff(r) = regDate
      BY <3>1 DEF historyCutoff
    <3>3. q.restriction = "none"
      BY <1>11 DEF ReadInv
    <3>4. m.time \in Nat /\ m.time > regDate
      BY <1>8, <1>9, <1>11, <3>1, <3>2, <3>3 DEF AccessType
    <3> QED BY <1>11, <2>2, <3>1, <3>4 DEF MailInv
  <2> QED BY <1>11, <2>1, <2>2 DEF ReadInv
<1> QED BY <1>10, <1>11

-----------------------------------------------------------------------------
(* What a step does to the invariant and to the property.                  *)
LEMMA NextAccess ==
  ASSUME AccessInv, [HistoryAccessNext]_accessVars
  PROVE  AccessInv' /\ (ReadersSeeTheirOwn => ReadersSeeTheirOwn')
<1>1. ASSUME answer' = NoAnswer PROVE ReadersSeeTheirOwn'
  BY <1>1 DEF ReadersSeeTheirOwn, NoAnswer
<1>2. ASSUME NEW r \in Readers,
             \/ ReaderJoins(r) \/ ReaderLeaves(r) \/ GiveOps(r) \/ SendMail(r) \/ Reconnect(r)
             \/ RegisterAccount(r) \/ LoginReader(r) \/ LogoutReader(r)
      PROVE  AccessInv' /\ answer' = NoAnswer
  BY <1>2, ChannelSteps, AccountSteps, MailSteps, ReconnectSteps
<1>3. ASSUME NEW r \in Readers, BeginRead(r) \/ FinishRead(r)
      PROVE  AccessInv' /\ ReadersSeeTheirOwn'
  BY <1>1, <1>3, BeginSteps, FinishSteps
<1>4. CASE Say \/ UnregisterAccount
  BY <1>1, <1>4, SpeakSteps, AccountSteps
<1>5. CASE UNCHANGED accessVars
  BY <1>5 DEF accessVars, AccessInv, AccessType, TimesInv, HeardInv, MailInv, DatesInv, ReadInv,
              ReadersSeeTheirOwn
<1> QED BY <1>1, <1>2, <1>3, <1>4, <1>5 DEF HistoryAccessNext

(* Types, times, and who has heard, been sent or asked for what, in every  *)
(* order of joins, registrations, messages and reads (GetHistorySequence). *)
THEOREM AccessInvariant == HistoryAccessSpec => []AccessInv
<1>1. AccessInv /\ [HistoryAccessNext]_accessVars => AccessInv'
  BY NextAccess
<1> QED BY <1>1, InitAccess, PTL DEF HistoryAccessSpec

(* An ordinary member of a channel with the join-time restriction is shown *)
(* only what it has heard, and direct messages only whom they were sent to *)
(* (GetHistorySequence, joinTimeCutoff, historyCutoff), for any number of  *)
(* readers, messages and owners of the name, one after the other.          *)
THEOREM ReadersOwnMessages == HistoryAccessSpec => []ReadersSeeTheirOwn
<1>1. HistoryAccessInit => ReadersSeeTheirOwn
  BY DEF HistoryAccessInit, NoAnswer, ReadersSeeTheirOwn
<1>2. AccessInv /\ ReadersSeeTheirOwn /\ [HistoryAccessNext]_accessVars => ReadersSeeTheirOwn'
  BY NextAccess
<1> QED BY <1>1, <1>2, AccessInvariant, PTL DEF HistoryAccessSpec

-----------------------------------------------------------------------------
(* AccountData *)

Subs == [Endpoints -> PushKeys \cup {Unset}]
Metas == [MetaKeys -> BOOLEAN]

Mes ==
  [account : BOOLEAN, always : BOOLEAN, chan : BOOLEAN, status : {"none", "plain", "op"},
   modes : SUBSET {"i", "o"}, realname : {"", "first", "second"}, subs : Subs, meta : Metas,
   prereg : Metas, marker : Nat, pushed : Nat, dirty : SUBSET IncludeAllAttrs, dirtyTimes : BOOLEAN]

(* The operator's mode is never stored.                                    *)
Rows ==
  [channels : {"none", "plain", "op"}, modes : SUBSET {"i"}, realname : {"", "first", "second"},
   push : Subs, metadata : Metas]

PushMessages == [time : Nat, from : Endpoints \cup {Unset}]

Disks == [exists : BOOLEAN, always : BOOLEAN, rows : Rows, marker : Nat]
Writers ==
  [pc : {"idle", "start", "save", "commit"}, bits : SUBSET IncludeAllAttrs, attr : IncludeAllAttrs,
   row : Rows, for : {"loop", "maint", "shutdown"}]
Pushes == [queue : Seq(PushMessages), worker : {"off", "recv", "ending"}, msg : PushMessages,
           todo : SUBSET Endpoints]
Tests == {<< >>} \cup (Endpoints \X PushKeys)
ChoreLists == [join : {"none", "on", "off"}, part : BOOLEAN, test : Tests,
               maint : {"off", "scan", "store"}, todo : SUBSET Endpoints]
Lapses == [join : BOOLEAN, flush : BOOLEAN, worker : BOOLEAN]

DataType ==
  /\ me \in Mes /\ disk \in Disks /\ writer \in Writers
  /\ owing \subseteq SUBSET IncludeAllAttrs /\ wakes \in Nat /\ after \in Nat
  /\ push \in Pushes /\ chores \in ChoreLists /\ lapse \in Lapses
  /\ life \in {"up", "storing", "flushing", "down"}

(* Some writer will still read attribute a, or has missed it.              *)
Behind(a) ==
  \/ a \in me.dirty
  \/ \E bits \in owing : a \in bits
  \/ a = "channels" /\ (lapse.join \/ chores.join # "none" \/ chores.part)
  \/ a = "push" /\ chores.maint = "scan"

(* Or one has taken its bit and not yet saved it.                          *)
Pending(a) == Behind(a) \/ (Locked /\ a \in writer.bits)

(* What is not written is pending.                                         *)
RowsInv ==
  me.always /\ disk.exists => \A a \in IncludeAllAttrs : disk.rows[a] = Persisted[a] \/ Pending(a)

(* What a writer is about to save is what is in memory, or another one is  *)
(* to follow: a command between the reading and the saving sees to that.   *)
TakenInv ==
  /\ writer.pc = "commit" => writer.attr \in writer.bits
  /\ writer.pc = "commit" /\ me.always /\ disk.exists =>
       writer.row[writer.attr] = Persisted[writer.attr] \/ Behind(writer.attr)

(* Dirty bits of a running server have a writer on its way.                *)
WakeInv ==
  me.always /\ life = "up" /\ me.dirty # {} => Locked \/ owing # {} \/ wakes > 0 \/ after > 0

(* The marker is stored, to be flushed, or lost to the flag.               *)
MarkerInv ==
  /\ disk.exists => disk.marker = me.marker \/ me.dirtyTimes \/ lapse.flush
  /\ life = "down" => ~me.dirtyTimes

(* Only a message queued under the eyes of a worker that ends is stranded. *)
QueueInv == push.worker # "recv" /\ push.queue # << >> => lapse.worker

(* The writer that maintenance waits for is not taken for another one's.   *)
MaintenanceInv == Locked /\ writer.for = "maint" => chores.maint = "store"

DataInv ==
  /\ DataType /\ RowsInv /\ TakenInv /\ WakeInv /\ MarkerInv /\ QueueInv /\ MaintenanceInv
  /\ me.always => me.account

-----------------------------------------------------------------------------
(* The attributes and where they come from.                                *)
LEMMA Attributes ==
  /\ DOMAIN AttrOrder = 1..5
  /\ IncludeAllAttrs = {"channels", "modes", "realname", "push", "metadata"}
<1>1. DOMAIN AttrOrder = 1..5
  BY DEF AttrOrder
<1>2. /\ AttrOrder[1] = "channels" /\ AttrOrder[2] = "modes" /\ AttrOrder[3] = "realname"
      /\ AttrOrder[4] = "push" /\ AttrOrder[5] = "metadata"
  BY DEF AttrOrder
<1> QED BY <1>1, <1>2 DEF IncludeAllAttrs

LEMMA PersistedValues ==
  /\ Persisted["channels"] = IF me.chan THEN me.status ELSE "none"
  /\ Persisted["modes"] = me.modes \ {"o"} /\ Persisted["realname"] = me.realname
  /\ Persisted["push"] = me.subs /\ Persisted["metadata"] = me.meta
BY DEF Persisted

LEMMA PersistedType == ASSUME me \in Mes PROVE Persisted \in Rows
<1>1. me.status \in {"none", "plain", "op"} /\ me.modes \ {"o"} \in SUBSET {"i"}
  BY DEF Mes
<1>2. me.realname \in {"", "first", "second"} /\ me.subs \in Subs /\ me.meta \in Metas
  BY DEF Mes
<1> QED BY <1>1, <1>2 DEF Persisted, Rows

LEMMA Constants ==
  FreshMe \in Mes /\ NoRows \in Rows /\ NoSubs \in Subs /\ NoMeta \in Metas
<1>1. NoSubs \in Subs
  BY DEF NoSubs, Subs
<1>2. NoMeta \in Metas
  BY DEF NoMeta, Metas
<1>3. FreshMe \in Mes
  BY <1>1, <1>2 DEF FreshMe, Mes
<1>4. NoRows \in Rows
  BY <1>1, <1>2 DEF NoRows, Rows
<1> QED BY <1>1, <1>2, <1>3, <1>4

(* The client built from the rows is what the rows say.                    *)
LEMMA Loaded ==
  ASSUME disk.rows \in Rows, disk.marker \in Nat
  PROVE  /\ LoadedMe \in Mes /\ LoadedMe.always /\ LoadedMe.account /\ LoadedMe.dirty = {}
         /\ LoadedMe.marker = disk.marker /\ ~LoadedMe.dirtyTimes
         /\ me = LoadedMe => \A a \in IncludeAllAttrs : disk.rows[a] = Persisted[a]
<1>1. /\ disk.rows.channels \in {"none", "plain", "op"} /\ disk.rows.modes \in SUBSET {"i"}
      /\ disk.rows.realname \in {"", "first", "second"} /\ disk.rows.push \in Subs
      /\ disk.rows.metadata \in Metas
  BY DEF Rows
<1>2. LoadedMe \in Mes
  BY <1>1, Constants DEF LoadedMe, Mes
<1>3. /\ LoadedMe.always /\ LoadedMe.account /\ LoadedMe.dirty = {}
      /\ LoadedMe.marker = disk.marker /\ ~LoadedMe.dirtyTimes
  BY DEF LoadedMe, FreshMe
<1>4. /\ LoadedMe.chan = (disk.rows.channels # "none") /\ LoadedMe.status = disk.rows.channels
      /\ LoadedMe.modes = disk.rows.modes /\ LoadedMe.realname = disk.rows.realname
      /\ LoadedMe.subs = disk.rows.push /\ LoadedMe.meta = disk.rows.metadata
  BY DEF LoadedMe, FreshMe
<1>5. ASSUME me = LoadedMe PROVE \A a \in IncludeAllAttrs : disk.rows[a] = Persisted[a]
  <2>1. /\ me.chan = (disk.rows.channels # "none") /\ me.status = disk.rows.channels
        /\ me.modes = disk.rows.modes /\ me.realname = disk.rows.realname
        /\ me.subs = disk.rows.push /\ me.meta = disk.rows.metadata
    BY <1>4, <1>5
  <2>2. me.modes \ {"o"} = me.modes
    BY <1>1, <2>1
  <2> QED BY <2>1, <2>2, Attributes, PersistedValues
<1> QED BY <1>2, <1>3, <1>5

(* Nothing under way.                                                      *)
LEMMA IdleType ==
  /\ IdleWriter \in Writers /\ NoPush \in Pushes /\ NoChores \in ChoreLists /\ NoLapse \in Lapses
  /\ IdleWriter.pc = "idle" /\ IdleWriter.bits = {} /\ IdleWriter.for = "loop" /\ NoPush.queue = << >> /\ ~NoLapse.flush
<1>1. << >> \in Seq(PushMessages)
  OBVIOUS
<1>2. [time |-> 0, from |-> Unset] \in PushMessages
  BY DEF PushMessages
<1> QED BY <1>1, <1>2, Constants, Attributes DEF IdleWriter, NoPush, NoChores, NoLapse, Writers, Pushes, ChoreLists, Tests, Lapses

(* A client fresh from its rows, or one that is not always-on.             *)
Started ==
  /\ disk \in Disks
  /\ \/ disk.always /\ me = LoadedMe
     \/ me \in Mes /\ ~me.always /\ me.dirty = {} /\ me.marker = 0
        /\ (disk.marker = 0 \/ lapse.flush)
  /\ writer = IdleWriter /\ owing = {} /\ wakes = 0 /\ after = 0 /\ push = NoPush
  /\ chores = NoChores /\ life = "up" /\ lapse \in Lapses

LEMMA StartInv == Started => DataInv
<1> SUFFICES ASSUME Started PROVE DataInv
  OBVIOUS
<1> USE DEF Started
<1>1. disk.rows \in Rows /\ disk.marker \in Nat
  BY DEF Disks
<1>2. me \in Mes /\ me.dirty = {} /\ (me.always => me.account)
  BY <1>1, Loaded
<1>3. DataType
  BY <1>2, IdleType DEF DataType
<1>4. RowsInv
  BY <1>1, Loaded DEF RowsInv
<1>8. TakenInv
  BY IdleType DEF TakenInv
<1>5. WakeInv
  BY <1>2 DEF WakeInv
<1>6. MarkerInv
  BY <1>1, Loaded DEF MarkerInv
<1>7. QueueInv /\ MaintenanceInv
  BY IdleType DEF QueueInv, MaintenanceInv, Locked
<1> QED BY <1>2, <1>3, <1>4, <1>5, <1>6, <1>7, <1>8 DEF DataInv

LEMMA InitData == AccountDataInit => DataInv
<1> SUFFICES ASSUME AccountDataInit PROVE DataInv
  OBVIOUS
<1>1. disk \in Disks /\ disk.marker = 0
  <2>1. CASE disk = [exists |-> TRUE, always |-> FALSE, rows |-> NoRows, marker |-> 0]
    BY <2>1, Constants DEF Disks
  <2>2. ASSUME NEW e \in Endpoints, NEW keys \in PushKeys,
               disk = [exists |-> TRUE, always |-> TRUE, rows |-> SubscriptionRows(e, keys), marker |-> 0]
        PROVE  disk \in Disks /\ disk.marker = 0
    <3>1. [NoSubs EXCEPT ![e] = keys] \in Subs
      BY Constants DEF Subs
    <3>2. SubscriptionRows(e, keys) \in Rows
      BY <3>1, Constants DEF SubscriptionRows, Rows
    <3> QED BY <2>2, <3>2 DEF Disks
  <2> QED BY <2>1, <2>2 DEF AccountDataInit
<1>2. ~FreshMe.always /\ FreshMe.dirty = {} /\ FreshMe.marker = 0
  BY DEF FreshMe
<1>3. CASE disk.always
  BY <1>1, <1>3, StartInv, IdleType DEF AccountDataInit, Started
<1>4. CASE ~disk.always
  BY <1>1, <1>2, <1>4, StartInv, IdleType, Constants DEF AccountDataInit, Started
<1> QED BY <1>3, <1>4

LEMMA RestartKeeps == ASSUME DataInv, Restart PROVE DataInv'
<1>1. disk' = disk /\ disk \in Disks
  BY DEF Restart, DataInv, DataType
<1> DEFINE f == [FreshMe EXCEPT !.account = disk.exists]
<1>2. f \in Mes /\ ~f.always /\ f.dirty = {} /\ f.marker = 0
  BY <1>1, Constants DEF FreshMe, Mes, Disks
<1>3. me' = IF disk.always THEN LoadedMe ELSE f
  BY DEF Restart
<1>4. /\ writer' = IdleWriter /\ owing' = {} /\ wakes' = 0 /\ after' = 0 /\ push' = NoPush
      /\ chores' = NoChores /\ life' = "up"
      /\ lapse' = [NoLapse EXCEPT !.flush = ~disk.always /\ disk.marker # 0]
  BY DEF Restart
<1>5. lapse' \in Lapses
  BY <1>4, IdleType DEF Lapses
<1>6. ~disk.always /\ disk.marker # 0 => lapse'.flush
  BY <1>4 DEF NoLapse
<1>7. LoadedMe' = LoadedMe
  BY <1>1 DEF LoadedMe
<1>8. \/ disk'.always /\ me' = LoadedMe'
      \/ me' \in Mes /\ ~me'.always /\ me'.dirty = {} /\ me'.marker = 0
         /\ (disk'.marker = 0 \/ lapse'.flush)
  BY <1>1, <1>2, <1>3, <1>6, <1>7
<1>9. (disk \in Disks)'
  BY <1>1
<1> HIDE DEF f
<1>10. Started'
  BY <1>4, <1>5, <1>8, <1>9 DEF Started
<1> QED BY <1>10, StartInv, PTL

-----------------------------------------------------------------------------
(* A step that leaves the disk, the writers and the client's standing      *)
(* alone, and marks, or will mark, what it changes.                        *)
Marks ==
  /\ UNCHANGED <<disk, writer, wakes, after, life>> /\ life # "down"
  /\ owing \subseteq owing'
  /\ me'.account = me.account /\ me'.always = me.always /\ me'.dirty = me.dirty
  /\ me'.dirtyTimes \/ (me'.dirtyTimes = me.dirtyTimes /\ me'.marker = me.marker)
  /\ lapse'.flush = lapse.flush
  /\ chores.maint = "store" => chores'.maint = "store"
  /\ me.always => \A a \in IncludeAllAttrs :
       /\ Behind(a) => Behind(a)'
       /\ (Persisted[a])' = Persisted[a] \/ Behind(a)'

LEMMA MarksKeeps == ASSUME DataInv, DataType', QueueInv', Marks PROVE DataInv'
<1> USE DEF DataInv
<1>1. RowsInv'
  BY DEF RowsInv, Marks, Pending, Locked
<1>4. TakenInv'
  <2>1. writer.attr \in IncludeAllAttrs
    BY DEF DataType, Writers
  <2> QED BY <2>1 DEF TakenInv, Marks
<1>2. WakeInv'
  BY DEF WakeInv, Marks, Locked
<1>3. MarkerInv' /\ MaintenanceInv'
  BY DEF MarkerInv, MaintenanceInv, Marks, Locked
<1> QED BY <1>1, <1>2, <1>3, <1>4 DEF Marks

(* The fields of the client that are written back, attribute by attribute. *)
LEMMA UnchangedAttributes ==
  /\ me'.chan = me.chan /\ me'.status = me.status => (Persisted["channels"])' = Persisted["channels"]
  /\ me'.modes = me.modes => (Persisted["modes"])' = Persisted["modes"]
  /\ me'.realname = me.realname => (Persisted["realname"])' = Persisted["realname"]
  /\ me'.subs = me.subs => (Persisted["push"])' = Persisted["push"]
  /\ me'.meta = me.meta => (Persisted["metadata"])' = Persisted["metadata"]
BY DEF Persisted

(* What the commands do to the client in memory.                           *)
Standing(m) ==
  /\ m \in Mes /\ m.account = me.account /\ m.always = me.always /\ m.dirty = me.dirty
  /\ m.dirtyTimes = me.dirtyTimes /\ m.marker = me.marker

LEMMA ChannelUpdates ==
  ASSUME me \in Mes, NEW b \in BOOLEAN, NEW st \in {"none", "plain", "op"},
         NEW m \in {[me EXCEPT !.chan = b], [me EXCEPT !.status = st]}
  PROVE  Standing(m) /\ m.modes = me.modes /\ m.realname = me.realname /\ m.subs = me.subs /\ m.meta = me.meta
<1>1. CASE m = [me EXCEPT !.chan = b]
  BY <1>1 DEF Standing, Mes
<1>2. CASE m = [me EXCEPT !.status = st]
  BY <1>2 DEF Standing, Mes
<1> QED BY <1>1, <1>2

LEMMA ChoreUpdates ==
  ASSUME chores \in ChoreLists, NEW j \in {"none", "on", "off"}, NEW b \in BOOLEAN,
         NEW c \in {chores, [chores EXCEPT !.join = j], [chores EXCEPT !.part = b]}
  PROVE  c \in ChoreLists /\ c.maint = chores.maint
BY DEF ChoreLists

(* JOIN, MODE +o, PART: the channel is pending until it is marked.         *)
LEMMA JoinSteps ==
  ASSUME DataInv, life # "down",
         addChannel \/ finishJoin \/ applyModeToClient \/ PartChannel \/ removeChannel
  PROVE  DataInv'
<1>1. /\ UNCHANGED <<disk, writer, wakes, after, push, life>>
      /\ \E b \in BOOLEAN, st \in {"none", "plain", "op"} :
           me' \in {[me EXCEPT !.chan = b], [me EXCEPT !.status = st]}
  BY ZenonT(60) DEF addChannel, finishJoin, applyModeToClient, PartChannel, removeChannel, RestKept
<1>2. /\ Standing(me')
      /\ me'.modes = me.modes /\ me'.realname = me.realname /\ me'.subs = me.subs /\ me'.meta = me.meta
  <2>1. PICK b \in BOOLEAN, st \in {"none", "plain", "op"} :
          me' \in {[me EXCEPT !.chan = b], [me EXCEPT !.status = st]}
    BY <1>1
  <2>2. me \in Mes
    BY DEF DataInv, DataType
  <2> HIDE DEF Mes, Standing
  <2> QED BY <2>1, <2>2, ChannelUpdates
<1>3. /\ owing' \in {owing, owing \cup {{"channels"}}}
      /\ lapse' \in Lapses /\ lapse'.flush = lapse.flush /\ lapse'.worker = lapse.worker
  BY ZenonT(60) DEF addChannel, finishJoin, applyModeToClient, PartChannel, removeChannel, Owe, Keep, DataInv, DataType,
         Lapses
<1>9. chores' \in ChoreLists /\ chores'.maint = chores.maint
  <2>1. \E j \in {"none", "on", "off"}, b \in BOOLEAN :
          chores' \in {chores, [chores EXCEPT !.join = j], [chores EXCEPT !.part = b]}
    BY ZenonT(60) DEF addChannel, finishJoin, applyModeToClient, PartChannel, removeChannel
  <2> QED BY <2>1, ChoreUpdates DEF DataInv, DataType
<1>4. DataType'
  <2>1. {"channels"} \in SUBSET IncludeAllAttrs
    BY Attributes
  <2> QED BY <1>1, <1>2, <1>3, <1>9, <2>1 DEF DataInv, DataType, Standing
<1>5. me.always => Behind("channels")'
  <2>1. CASE addChannel
    BY <2>1 DEF addChannel, Behind, DataInv, DataType, ChoreLists
  <2>2. CASE finishJoin
    BY <2>2 DEF finishJoin, Owe, Behind, DataInv, DataType, ChoreLists, Lapses
  <2>3. CASE applyModeToClient
    BY <2>3 DEF applyModeToClient, Owe, Behind
  <2>4. CASE PartChannel
    BY <2>4 DEF PartChannel, Behind, DataInv, DataType, ChoreLists
  <2>5. CASE removeChannel
    BY <2>5 DEF removeChannel, Owe, Behind
  <2> QED BY <2>1, <2>2, <2>3, <2>4, <2>5
<1>6. \A a \in IncludeAllAttrs \ {"channels"} :
        (Behind(a) => Behind(a)') /\ (Persisted[a])' = Persisted[a]
  <2>1. ASSUME NEW a \in IncludeAllAttrs \ {"channels"}, Behind(a) PROVE Behind(a)'
    BY <1>1, <1>2, <1>3, <1>9, <2>1 DEF Behind, Standing
  <2> QED BY <1>2, <2>1, UnchangedAttributes, Attributes
<1>7. QueueInv'
  BY <1>1, <1>3 DEF QueueInv, DataInv
<1>8. Marks
  BY <1>1, <1>2, <1>3, <1>5, <1>6, <1>9 DEF Marks, Standing
<1> QED BY <1>4, <1>7, <1>8, MarksKeeps

(* The other commands: what they change of the client they mark, or the    *)
(* maintenance under way stores it.                                        *)
LEMMA CommandKeeps ==
  ASSUME DataInv, life # "down", UNCHANGED <<disk, writer, wakes, after, life, lapse>>,
         Standing(me'), me'.chan = me.chan, me'.status = me.status,
         NEW B \in SUBSET IncludeAllAttrs, owing' \in {owing, owing \cup {B}},
         chores' \in ChoreLists, chores'.join = chores.join, chores'.part = chores.part,
         chores.maint = "scan" => chores'.maint = "scan", chores.maint = "store" => chores'.maint = "store",
         push' \in Pushes, push'.worker = push.worker, push'.queue = push.queue,
         me.always => \A a \in IncludeAllAttrs :
           \/ (Persisted[a])' = Persisted[a]
           \/ a \in B /\ owing' = owing \cup {B}
           \/ a = "push" /\ chores'.maint = "scan"
  PROVE  DataInv'
<1>1. DataType'
  BY DEF DataInv, DataType, Standing
<1>2. QueueInv'
  BY DEF DataInv, QueueInv
<1>3. ASSUME NEW a \in IncludeAllAttrs, Behind(a) PROVE Behind(a)'
  BY <1>3 DEF Behind, Standing
<1>4. ASSUME me.always, NEW a \in IncludeAllAttrs PROVE (Persisted[a])' = Persisted[a] \/ Behind(a)'
  <2>1. CASE a \in B /\ owing' = owing \cup {B}
    BY <2>1 DEF Behind
  <2>2. CASE a = "push" /\ chores'.maint = "scan"
    BY <2>2 DEF Behind
  <2> QED BY <1>4, <2>1, <2>2
<1>5. Marks
  BY <1>3, <1>4 DEF Marks, Standing
<1> QED BY <1>1, <1>2, <1>5, MarksKeeps

(* Which attributes stay when a field changes.                             *)
LEMMA FieldUpdates ==
  ASSUME me \in Mes
  PROVE  /\ \A x \in SUBSET {"i", "o"} : LET m == [me EXCEPT !.modes = x] IN
              Standing(m) /\ m.chan = me.chan /\ m.status = me.status /\ m.realname = me.realname
              /\ m.subs = me.subs /\ m.meta = me.meta
         /\ \A x \in {"first", "second"} : LET m == [me EXCEPT !.realname = x] IN
              Standing(m) /\ m.chan = me.chan /\ m.status = me.status /\ m.modes = me.modes
              /\ m.subs = me.subs /\ m.meta = me.meta
         /\ \A x \in Metas : LET m == [me EXCEPT !.meta = x] IN
              Standing(m) /\ m.chan = me.chan /\ m.status = me.status /\ m.modes = me.modes
              /\ m.subs = me.subs /\ m.realname = me.realname
         /\ \A x \in Metas : LET m == [me EXCEPT !.prereg = x] IN
              Standing(m) /\ m.chan = me.chan /\ m.status = me.status /\ m.modes = me.modes
              /\ m.subs = me.subs /\ m.realname = me.realname /\ m.meta = me.meta
         /\ \A x \in Metas, y \in Metas : LET m == [me EXCEPT !.prereg = y, !.meta = x] IN
              Standing(m) /\ m.chan = me.chan /\ m.status = me.status /\ m.modes = me.modes
              /\ m.subs = me.subs /\ m.realname = me.realname /\ m.meta = x
         /\ \A x \in Subs : LET m == [me EXCEPT !.subs = x] IN
              Standing(m) /\ m.chan = me.chan /\ m.status = me.status /\ m.modes = me.modes
              /\ m.meta = me.meta /\ m.realname = me.realname /\ m.subs = x
         /\ \A x \in Nat : LET m == [me EXCEPT !.pushed = x] IN
              Standing(m) /\ m.chan = me.chan /\ m.status = me.status /\ m.modes = me.modes
              /\ m.meta = me.meta /\ m.realname = me.realname /\ m.subs = me.subs
<1>1. \A x \in SUBSET {"i", "o"} : LET m == [me EXCEPT !.modes = x] IN
         Standing(m) /\ m.chan = me.chan /\ m.status = me.status /\ m.realname = me.realname
         /\ m.subs = me.subs /\ m.meta = me.meta
  BY ZenonT(60) DEF Standing, Mes
<1>2. \A x \in {"first", "second"} : LET m == [me EXCEPT !.realname = x] IN
         Standing(m) /\ m.chan = me.chan /\ m.status = me.status /\ m.modes = me.modes
         /\ m.subs = me.subs /\ m.meta = me.meta
  BY ZenonT(60) DEF Standing, Mes
<1>3. \A x \in Metas : LET m == [me EXCEPT !.meta = x] IN
         Standing(m) /\ m.chan = me.chan /\ m.status = me.status /\ m.modes = me.modes
         /\ m.subs = me.subs /\ m.realname = me.realname
  BY ZenonT(60) DEF Standing, Mes
<1>4. \A x \in Metas : LET m == [me EXCEPT !.prereg = x] IN
         Standing(m) /\ m.chan = me.chan /\ m.status = me.status /\ m.modes = me.modes
         /\ m.subs = me.subs /\ m.realname = me.realname /\ m.meta = me.meta
  BY ZenonT(60) DEF Standing, Mes
<1>5. \A x \in Metas, y \in Metas : LET m == [me EXCEPT !.prereg = y, !.meta = x] IN
         Standing(m) /\ m.chan = me.chan /\ m.status = me.status /\ m.modes = me.modes
         /\ m.subs = me.subs /\ m.realname = me.realname /\ m.meta = x
  BY ZenonT(60) DEF Standing, Mes
<1>6. \A x \in Subs : LET m == [me EXCEPT !.subs = x] IN
         Standing(m) /\ m.chan = me.chan /\ m.status = me.status /\ m.modes = me.modes
         /\ m.meta = me.meta /\ m.realname = me.realname /\ m.subs = x
  BY ZenonT(60) DEF Standing, Mes
<1>7. \A x \in Nat : LET m == [me EXCEPT !.pushed = x] IN
         Standing(m) /\ m.chan = me.chan /\ m.status = me.status /\ m.modes = me.modes
         /\ m.meta = me.meta /\ m.realname = me.realname /\ m.subs = me.subs
  BY ZenonT(60) DEF Standing, Mes
<1> QED BY <1>1, <1>2, <1>3, <1>4, <1>5, <1>6, <1>7

(* MODE, SETNAME and METADATA.                                             *)
LEMMA AttributeSteps ==
  ASSUME DataInv, life # "down",
         ApplyUserModeChanges \/ setnameHandler \/ metadataRegisteredHandler \/ metadataUnregisteredHandler
         \/ applyPreregMetadata
  PROVE  DataInv'
<1>1. me \in Mes /\ chores \in ChoreLists /\ push \in Pushes /\ me.meta \in Metas /\ me.prereg \in Metas
  BY DEF DataInv, DataType, Mes
<1>2. UNCHANGED <<disk, writer, wakes, after, push, life, chores, lapse>>
  BY DEF ApplyUserModeChanges, setnameHandler, metadataRegisteredHandler, metadataUnregisteredHandler,
         applyPreregMetadata, RestKept
<1>3. CASE ApplyUserModeChanges
  <2>1. PICK x \in SUBSET {"i", "o"} : me' = [me EXCEPT !.modes = x] /\ Owe({"modes"})
    <3>1. PICK m \in {"i", "o"} :
            me' = [me EXCEPT !.modes = IF m \in @ THEN @ \ {m} ELSE @ \cup {m}] /\ Owe({"modes"})
      BY <1>3 DEF ApplyUserModeChanges
    <3>2. (IF m \in me.modes THEN me.modes \ {m} ELSE me.modes \cup {m}) \in SUBSET {"i", "o"}
      BY <1>1 DEF Mes
    <3> QED BY <3>1, <3>2
  <2>2. /\ Standing(me') /\ me'.chan = me.chan /\ me'.status = me.status /\ me'.realname = me.realname
        /\ me'.subs = me.subs /\ me'.meta = me.meta
    BY <1>1, <2>1, FieldUpdates
  <2>3. {"modes"} \in SUBSET IncludeAllAttrs /\ owing' = owing \cup {{"modes"}}
    BY <2>1, Attributes DEF Owe
  <2>4. \A a \in IncludeAllAttrs : (Persisted[a])' = Persisted[a] \/ a \in {"modes"}
    BY <2>2, Attributes, UnchangedAttributes
  <2> QED BY <1>1, <1>2, <2>2, <2>3, <2>4, CommandKeeps
<1>4. CASE setnameHandler
  <2>1. PICK x \in {"first", "second"} :
          me' = [me EXCEPT !.realname = x] /\ (IF me.always THEN Owe({"realname"}) ELSE Keep)
    BY <1>4 DEF setnameHandler, SetRealname
  <2>2. /\ Standing(me') /\ me'.chan = me.chan /\ me'.status = me.status /\ me'.modes = me.modes
        /\ me'.subs = me.subs /\ me'.meta = me.meta
    BY <1>1, <2>1, FieldUpdates
  <2>3. /\ {"realname"} \in SUBSET IncludeAllAttrs /\ owing' \in {owing, owing \cup {{"realname"}}}
        /\ me.always => owing' = owing \cup {{"realname"}}
    BY <2>1, Attributes DEF Owe, Keep
  <2>4. \A a \in IncludeAllAttrs : (Persisted[a])' = Persisted[a] \/ a \in {"realname"}
    BY <2>2, Attributes, UnchangedAttributes
  <2> QED BY <1>1, <1>2, <2>2, <2>3, <2>4, CommandKeeps
<1>5. ASSUME NEW x \in Metas, me' = [me EXCEPT !.meta = x], IF me.always THEN Owe({"metadata"}) ELSE TRUE,
             owing' \in {owing, owing \cup {{"metadata"}}}
      PROVE  DataInv'
  <2>2. /\ Standing(me') /\ me'.chan = me.chan /\ me'.status = me.status /\ me'.modes = me.modes
        /\ me'.subs = me.subs /\ me'.realname = me.realname
    BY <1>1, <1>5, FieldUpdates
  <2>3. /\ {"metadata"} \in SUBSET IncludeAllAttrs
        /\ me.always => owing' = owing \cup {{"metadata"}}
    BY <1>5, Attributes DEF Owe
  <2>4. \A a \in IncludeAllAttrs : (Persisted[a])' = Persisted[a] \/ a \in {"metadata"}
    BY <2>2, Attributes, UnchangedAttributes
  <2> QED BY <1>1, <1>2, <1>5, <2>2, <2>3, <2>4, CommandKeeps
<1>6. CASE metadataRegisteredHandler
  <2>1. ASSUME NEW k \in MetaKeys, SetMetadata(k) PROVE DataInv'
    <3>1. [me.meta EXCEPT ![k] = TRUE] \in Metas
      BY <1>1 DEF Metas
    <3> QED BY <1>5, <2>1, <3>1 DEF SetMetadata, Owe, Keep
  <2>2. ASSUME NEW ks \in SUBSET MetaKeys, DeleteMetadata(ks) PROVE DataInv'
    <3>1. [k \in MetaKeys |-> me.meta[k] /\ k \notin ks] \in Metas
      BY DEF Metas
    <3> QED BY <1>5, <2>2, <3>1 DEF DeleteMetadata, Owe
  <2> QED BY <1>6, <2>1, <2>2 DEF metadataRegisteredHandler
<1>7. CASE metadataUnregisteredHandler
  <2>1. PICK k \in MetaKeys : me' = [me EXCEPT !.prereg[k] = ~@] /\ owing' = owing
    BY <1>7 DEF metadataUnregisteredHandler, Keep
  <2>5. [me.prereg EXCEPT ![k] = ~me.prereg[k]] \in Metas
    BY <1>1 DEF Metas
  <2>2. /\ Standing(me') /\ me'.chan = me.chan /\ me'.status = me.status /\ me'.modes = me.modes
        /\ me'.subs = me.subs /\ me'.realname = me.realname /\ me'.meta = me.meta
    BY <1>1, <2>1, <2>5, FieldUpdates
  <2>4. \A a \in IncludeAllAttrs : (Persisted[a])' = Persisted[a]
    BY <2>2, Attributes, UnchangedAttributes
  <2>6. {} \in SUBSET IncludeAllAttrs
    OBVIOUS
  <2> QED BY <1>1, <1>2, <2>1, <2>2, <2>4, <2>6, CommandKeeps
<1>8. CASE applyPreregMetadata
  <2>1. PICK added \in SUBSET MetaKeys :
          /\ me' = [me EXCEPT !.prereg = NoMeta, !.meta = [k \in MetaKeys |-> @[k] \/ k \in added]]
          /\ IF me.always /\ added # {} THEN Owe({"metadata"}) ELSE Keep
    BY <1>8 DEF applyPreregMetadata, UpdateMetadataFromPrereg
  <2> DEFINE x == [k \in MetaKeys |-> me.meta[k] \/ k \in added]
  <2>5. x \in Metas /\ (added = {} => x = me.meta)
    BY <1>1 DEF Metas
  <2>6. me' = [me EXCEPT !.prereg = NoMeta, !.meta = x]
    BY <2>1
  <2> HIDE DEF x
  <2>2. /\ Standing(me') /\ me'.chan = me.chan /\ me'.status = me.status /\ me'.modes = me.modes
        /\ me'.subs = me.subs /\ me'.realname = me.realname /\ me'.meta = x
    BY <1>1, <2>5, <2>6, FieldUpdates, Constants
  <2>3. /\ {"metadata"} \in SUBSET IncludeAllAttrs /\ owing' \in {owing, owing \cup {{"metadata"}}}
        /\ me.always /\ added # {} => owing' = owing \cup {{"metadata"}}
    BY <2>1, Attributes DEF Owe, Keep
  <2>4. \A a \in IncludeAllAttrs : (Persisted[a])' = Persisted[a] \/ (a \in {"metadata"} /\ added # {})
    BY <2>2, <2>5, Attributes, UnchangedAttributes
  <2> QED BY <1>1, <1>2, <2>2, <2>3, <2>4, CommandKeeps
<1> QED BY <1>3, <1>4, <1>6, <1>7, <1>8

(* WEBPUSH, its maintenance and the worker's deliveries.                   *)
ChoresKept ==
  /\ chores' \in ChoreLists /\ chores'.join = chores.join /\ chores'.part = chores.part
  /\ chores.maint = "scan" => chores'.maint = "scan"
  /\ chores.maint = "store" => chores'.maint = "store"

LEMMA ChoreSteps ==
  ASSUME chores \in ChoreLists,
         \/ \E t \in Tests : chores' = [chores EXCEPT !.test = t]
         \/ \E t \in SUBSET Endpoints :
              chores' = [chores EXCEPT !.maint = "scan", !.todo = t] /\ chores.maint = "off"
         \/ \E t \in SUBSET Endpoints : chores' = [chores EXCEPT !.todo = t]
         \/ chores' = chores
  PROVE  ChoresKept
<1>1. ASSUME NEW t \in Tests, chores' = [chores EXCEPT !.test = t] PROVE ChoresKept
  BY <1>1 DEF ChoreLists, ChoresKept
<1>2. ASSUME NEW t \in SUBSET Endpoints, chores' = [chores EXCEPT !.maint = "scan", !.todo = t],
             chores.maint = "off"
      PROVE  ChoresKept
  BY <1>2 DEF ChoreLists, ChoresKept
<1>3. ASSUME NEW t \in SUBSET Endpoints, chores' = [chores EXCEPT !.todo = t] PROVE ChoresKept
  BY <1>3 DEF ChoreLists, ChoresKept
<1>4. CASE chores' = chores
  BY <1>4 DEF ChoresKept
<1> QED BY <1>1, <1>2, <1>3, <1>4

(* A subscription is set or removed, and all attributes are owed if that   *)
(* changed anything, except by the maintenance.                            *)
LEMMA SubscriptionKeeps ==
  ASSUME DataInv, life # "down", UNCHANGED <<disk, writer, wakes, after, life, lapse>>, ChoresKept,
         push' \in Pushes, push'.worker = push.worker, push'.queue = push.queue,
         NEW subs \in Subs, NEW pushed \in Nat,
         me' \in {me, [me EXCEPT !.subs = subs], [me EXCEPT !.pushed = pushed],
                 [me EXCEPT !.subs = subs, !.pushed = pushed]},
         owing' \in {owing, owing \cup {IncludeAllAttrs}},
         me'.subs = me.subs \/ owing' = owing \cup {IncludeAllAttrs} \/ chores'.maint = "scan"
  PROVE  DataInv'
<1>1. me \in Mes
  BY DEF DataInv, DataType
<1>2. /\ Standing(me') /\ me'.chan = me.chan /\ me'.status = me.status /\ me'.modes = me.modes
      /\ me'.realname = me.realname /\ me'.meta = me.meta
  <2>1. CASE me' = me
    BY <1>1, <2>1 DEF Standing
  <2>2. CASE me' = [me EXCEPT !.subs = subs]
    BY <1>1, <2>2, FieldUpdates
  <2>3. CASE me' = [me EXCEPT !.pushed = pushed]
    BY <1>1, <2>3, FieldUpdates
  <2>4. CASE me' = [me EXCEPT !.subs = subs, !.pushed = pushed]
    BY <1>1, <2>4 DEF Standing, Mes
  <2> QED BY <2>1, <2>2, <2>3, <2>4
<1>3. \A a \in IncludeAllAttrs :
        \/ (Persisted[a])' = Persisted[a]
        \/ a \in IncludeAllAttrs /\ owing' = owing \cup {IncludeAllAttrs}
        \/ a = "push" /\ chores'.maint = "scan"
  BY <1>2, Attributes, UnchangedAttributes
<1> QED BY <1>2, <1>3, CommandKeeps DEF ChoresKept

LEMMA SubscriptionSteps ==
  ASSUME DataInv, life # "down",
         webpushRegister \/ webpushTested \/ webpushUnregister \/ pushMaintenance \/ maintainSubscription
         \/ sendAndTrackPush
  PROVE  DataInv'
<1>1. /\ me \in Mes /\ chores \in ChoreLists /\ push \in Pushes /\ me.subs \in Subs
      /\ me.pushed \in Nat /\ push.msg.time \in Nat /\ chores.test \in Tests /\ chores.todo \subseteq Endpoints
      /\ push.todo \subseteq Endpoints
  BY DEF DataInv, DataType, Mes, Pushes, PushMessages, ChoreLists
<1>2. UNCHANGED <<disk, writer, wakes, after, life, lapse>>
  BY DEF webpushRegister, webpushTested, webpushUnregister, pushMaintenance, maintainSubscription,
         sendAndTrackPush, RestKept
<1>3. ASSUME NEW e \in Endpoints, NEW x \in PushKeys \cup {Unset}
      PROVE  /\ [me.subs EXCEPT ![e] = x] \in Subs
             /\ me.subs[e] = x => [me.subs EXCEPT ![e] = x] = me.subs
             /\ [me EXCEPT !.subs = [me.subs EXCEPT ![e] = x]].subs = [me.subs EXCEPT ![e] = x]
  BY <1>1 DEF Subs, Mes
<1>4. CASE webpushRegister
  <2>1. PICK e \in Endpoints, keys \in PushKeys : chores' = [chores EXCEPT !.test = <<e, keys>>]
    BY <1>4 DEF webpushRegister
  <2>2. ChoresKept
    BY <1>1, <2>1, ChoreSteps DEF Tests
  <2>3. me' = me /\ owing' = owing /\ push' = push
    BY <1>4 DEF webpushRegister, Keep, RestKept
  <2> QED BY <1>1, <1>2, <2>2, <2>3, SubscriptionKeeps
<1>5. CASE pushMaintenance
  <2>1. /\ chores' = [chores EXCEPT !.maint = "scan", !.todo = Subscribed] /\ chores.maint = "off"
        /\ Subscribed \in SUBSET Endpoints
    BY <1>5 DEF pushMaintenance, Subscribed
  <2>2. ChoresKept
    BY <1>1, <2>1, ChoreSteps
  <2>3. me' = me /\ owing' = owing /\ push' = push
    BY <1>5 DEF pushMaintenance, Keep, RestKept
  <2> QED BY <1>1, <1>2, <2>2, <2>3, SubscriptionKeeps
<1>6. CASE webpushTested
  <2>1. chores' = [chores EXCEPT !.test = << >>] /\ push' = push /\ chores.test \in Endpoints \X PushKeys
    BY <1>1, <1>6 DEF webpushTested, Tests, RestKept
  <2>2. ChoresKept
    BY <1>1, <2>1, ChoreSteps DEF Tests
  <2>3. chores.test[1] \in Endpoints /\ chores.test[2] \in PushKeys
    BY <2>1
  <2>4. CASE me' = me /\ owing' = owing
    BY <1>1, <1>2, <2>1, <2>2, <2>4, SubscriptionKeeps
  <2>5. CASE me' = [me EXCEPT !.subs[chores.test[1]] = chores.test[2]] /\ owing' = owing \cup {IncludeAllAttrs}
    <3> DEFINE x == [me.subs EXCEPT ![chores.test[1]] = chores.test[2]]
    <3>1. x \in Subs
      BY <1>3, <2>3
    <3>2. me' = [me EXCEPT !.subs = x]
      BY <2>5
    <3> HIDE DEF x
    <3> QED BY <1>1, <1>2, <2>1, <2>2, <2>5, <3>1, <3>2, SubscriptionKeeps
  <2> QED BY <1>6, <2>4, <2>5 DEF webpushTested, addPushSubscription, Owe, Keep
<1>7. CASE webpushUnregister
  <2>1. PICK e \in Endpoints : me' = [me EXCEPT !.subs[e] = Unset] /\ owing' = owing \cup {IncludeAllAttrs}
    BY <1>7 DEF webpushUnregister, deletePushSubscription, Owe
  <2>2. chores' = chores /\ push' = push
    BY <1>7 DEF webpushUnregister, RestKept
  <2>3. ChoresKept
    BY <1>1, <2>2, ChoreSteps
  <2> DEFINE x == [me.subs EXCEPT ![e] = Unset]
  <2>4. x \in Subs
    BY <1>3
  <2>5. me' = [me EXCEPT !.subs = x]
    BY <2>1
  <2> HIDE DEF x
  <2> QED BY <1>1, <1>2, <2>1, <2>2, <2>3, <2>4, <2>5, SubscriptionKeeps
<1>8. CASE maintainSubscription
  <2>1. PICK e \in chores.todo :
          /\ (me' = me \/ me' = [me EXCEPT !.subs[e] = Unset]) /\ owing' = owing
          /\ chores' = [chores EXCEPT !.todo = @ \ {e}] /\ push' = push /\ chores.maint = "scan"
    BY <1>8 DEF maintainSubscription, deletePushSubscription, Keep, RestKept
  <2>2. e \in Endpoints /\ chores.todo \ {e} \in SUBSET Endpoints
    BY <1>1
  <2>3. ChoresKept
    BY <1>1, <2>1, <2>2, ChoreSteps
  <2> DEFINE x == [me.subs EXCEPT ![e] = Unset]
  <2>4. x \in Subs
    BY <1>3, <2>2
  <2>5. me' = me \/ me' = [me EXCEPT !.subs = x]
    BY <2>1
  <2>6. chores'.maint = "scan"
    BY <2>1, <2>3 DEF ChoresKept
  <2> HIDE DEF x
  <2> QED BY <1>1, <1>2, <2>1, <2>3, <2>4, <2>5, <2>6, SubscriptionKeeps
<1>9. CASE sendAndTrackPush
  <2>1. PICK e \in push.todo :
          /\ push' = [push EXCEPT !.todo = @ \ {e}] /\ chores' = chores
          /\ \/ me' = me /\ owing' = owing
             \/ /\ me' = [me EXCEPT !.pushed = updateLRUMap(@, push.msg.time)] /\ owing' = owing
             \/ /\ me' = [[me EXCEPT !.subs[e] = Unset] EXCEPT !.pushed = updateLRUMap(@, push.msg.time)]
                /\ owing' = IF me.subs[e] # Unset THEN owing \cup {IncludeAllAttrs} ELSE owing
    BY <1>9 DEF sendAndTrackPush, Owe, Keep
  <2>2. e \in Endpoints /\ ChoresKept
    BY <1>1, <2>1, ChoreSteps
  <2>3. push' \in Pushes /\ push'.worker = push.worker /\ push'.queue = push.queue
    BY <1>1, <2>1 DEF Pushes
  <2> DEFINE x == [me.subs EXCEPT ![e] = Unset]
             n == updateLRUMap(me.pushed, push.msg.time)
  <2>4. x \in Subs /\ n \in Nat /\ (me.subs[e] = Unset => x = me.subs)
    BY <1>1, <1>3, <2>2 DEF updateLRUMap
  <2>5. \/ me' = me /\ owing' = owing
        \/ me' = [me EXCEPT !.pushed = n] /\ owing' = owing
        \/ /\ me' = [me EXCEPT !.subs = x, !.pushed = n]
           /\ owing' = IF me.subs[e] # Unset THEN owing \cup {IncludeAllAttrs} ELSE owing
    BY <1>1, <2>1 DEF Mes
  <2> HIDE DEF x, n
  <2>6. \/ me'.subs = me.subs
        \/ owing' = owing \cup {IncludeAllAttrs}
    BY <1>1, <2>4, <2>5 DEF Mes
  <2> QED BY <1>1, <1>2, <2>1, <2>2, <2>3, <2>4, <2>5, <2>6, SubscriptionKeeps
<1> QED BY <1>4, <1>5, <1>6, <1>7, <1>8, <1>9

(* The queue of push messages.                                             *)
LEMMA DispatchQueue ==
  ASSUME push \in Pushes, lapse \in Lapses, QueueInv, NEW msg \in PushMessages, Dispatch(msg)
  PROVE  /\ push' \in Pushes /\ lapse' \in Lapses /\ QueueInv'
         /\ lapse'.join = lapse.join /\ lapse'.flush = lapse.flush
<1>1. CASE Len(push.queue) = PushQueueLength
  BY <1>1 DEF Dispatch, QueueInv
<1>2. CASE Len(push.queue) # PushQueueLength
  <2>1. /\ push' = [push EXCEPT !.queue = Append(@, msg), !.worker = IF @ = "off" THEN "recv" ELSE @]
        /\ lapse' = [lapse EXCEPT !.worker = @ \/ push.worker = "ending"]
    BY <1>2 DEF Dispatch
  <2>2. push.queue \in Seq(PushMessages) /\ push.worker \in {"off", "recv", "ending"}
    BY DEF Pushes
  <2>3. Append(push.queue, msg) \in Seq(PushMessages)
    BY <2>2
  <2>4. push' \in Pushes
    BY <2>1, <2>2, <2>3 DEF Pushes
  <2>5. push'.worker = IF push.worker = "off" THEN "recv" ELSE push.worker
    BY <2>1 DEF Pushes
  <2>6. /\ lapse' \in Lapses /\ lapse'.join = lapse.join /\ lapse'.flush = lapse.flush
        /\ push.worker = "ending" => lapse'.worker
    BY <2>1 DEF Lapses
  <2> QED BY <2>2, <2>4, <2>5, <2>6 DEF QueueInv
<1> QED BY <1>1, <1>2

(* PRIVMSG to the client, MARKREAD, and the worker.                        *)
LEMMA PushSteps ==
  ASSUME DataInv, life # "down", dispatchPushMessage \/ markRead \/ pushWorker \/ pushWorkerUnlock
  PROVE  DataInv'
<1>1. me \in Mes /\ push \in Pushes /\ lapse \in Lapses /\ QueueInv
  BY DEF DataInv, DataType
<1>2. UNCHANGED <<disk, writer, owing, wakes, after, chores, life>>
  BY DEF dispatchPushMessage, markRead, pushWorker, pushWorkerUnlock
<1>3. ASSUME push' \in Pushes, lapse' \in Lapses, QueueInv', lapse'.join = lapse.join, lapse'.flush = lapse.flush,
             me' = me \/ /\ me' \in Mes /\ me'.account = me.account /\ me'.always = me.always
                         /\ me'.dirty = me.dirty /\ me'.dirtyTimes
                         /\ me'.chan = me.chan /\ me'.status = me.status /\ me'.modes = me.modes
                         /\ me'.realname = me.realname /\ me'.subs = me.subs /\ me'.meta = me.meta
      PROVE  DataInv'
  <2>1. DataType'
    BY <1>2, <1>3 DEF DataInv, DataType
  <2>2. \A a \in IncludeAllAttrs : (Persisted[a])' = Persisted[a]
    BY <1>3, Attributes, UnchangedAttributes
  <2>3. ASSUME NEW a \in IncludeAllAttrs, Behind(a) PROVE Behind(a)'
    BY <1>2, <1>3, <2>3 DEF Behind
  <2>4. Marks
    BY <1>2, <1>3, <2>2, <2>3 DEF Marks
  <2> QED BY <1>3, <2>1, <2>4, MarksKeeps
<1>4. CASE dispatchPushMessage
  <2>1. PICK t \in 1..MaxStamp : Dispatch([time |-> t, from |-> Unset]) /\ me' = me
    BY <1>4 DEF dispatchPushMessage
  <2>2. [time |-> t, from |-> Unset] \in PushMessages
    BY DataAssumption DEF PushMessages
  <2> QED BY <1>1, <1>3, <2>1, <2>2, DispatchQueue
<1>5. CASE markRead
  <2>1. PICK t \in 1..MaxStamp, e \in Endpoints \cup {Unset} :
          /\ \E p \in {0, me.pushed} :
               me' = [me EXCEPT !.marker = updateLRUMap(@, t), !.dirtyTimes = TRUE, !.pushed = p]
          /\ Dispatch([time |-> 0, from |-> e]) \/ UNCHANGED <<push, lapse>>
    BY <1>5 DEF markRead
  <2>2. [time |-> 0, from |-> e] \in PushMessages
    BY DEF PushMessages
  <2>3. /\ push' \in Pushes /\ lapse' \in Lapses /\ QueueInv'
        /\ lapse'.join = lapse.join /\ lapse'.flush = lapse.flush
    BY <1>1, <2>1, <2>2, DispatchQueue DEF QueueInv
  <2>6. me.marker \in Nat /\ me.pushed \in Nat
    BY <1>1 DEF Mes
  <2> DEFINE n == updateLRUMap(me.marker, t)
  <2>4. n \in Nat
    BY <2>6, DataAssumption DEF updateLRUMap
  <2>7. PICK p \in Nat : me' = [me EXCEPT !.marker = n, !.dirtyTimes = TRUE, !.pushed = p]
    BY <2>1, <2>6
  <2> HIDE DEF n
  <2>5. /\ me' \in Mes /\ me'.account = me.account /\ me'.always = me.always
        /\ me'.dirty = me.dirty /\ me'.dirtyTimes
        /\ me'.chan = me.chan /\ me'.status = me.status /\ me'.modes = me.modes
        /\ me'.realname = me.realname /\ me'.subs = me.subs /\ me'.meta = me.meta
    BY <1>1, <2>4, <2>7 DEF Mes
  <2> QED BY <1>3, <2>3, <2>5
<1>6. CASE pushWorker
  <2>1. /\ push.queue \in Seq(PushMessages) /\ push.worker = "recv" /\ me' = me
        /\ Subscribed \in SUBSET Endpoints
    BY <1>1, <1>6 DEF pushWorker, Pushes, Subscribed
  <2>2. CASE push.queue = << >>
    <3>1. push' = [push EXCEPT !.worker = "ending"] /\ lapse' = lapse
      BY <1>6, <2>2 DEF pushWorker
    <3>2. push' \in Pushes /\ push'.queue = << >>
      BY <1>1, <2>2, <3>1 DEF Pushes
    <3> QED BY <1>1, <1>3, <2>1, <3>1, <3>2 DEF QueueInv
  <2>3. CASE push.queue # << >>
    <3>1. /\ push' = [push EXCEPT !.msg = Head(push.queue), !.queue = Tail(@), !.todo = Subscribed]
          /\ lapse' = [lapse EXCEPT !.worker = FALSE]
      BY <1>6, <2>3 DEF pushWorker
    <3>2. Head(push.queue) \in PushMessages /\ Tail(push.queue) \in Seq(PushMessages)
      BY <2>1, <2>3
    <3>3. push' \in Pushes /\ push'.worker = "recv"
      BY <1>1, <2>1, <3>1, <3>2 DEF Pushes
    <3>4. lapse' \in Lapses /\ lapse'.join = lapse.join /\ lapse'.flush = lapse.flush
      BY <1>1, <3>1 DEF Lapses
    <3> QED BY <1>3, <2>1, <3>3, <3>4 DEF QueueInv
  <2> QED BY <2>2, <2>3
<1>7. CASE pushWorkerUnlock
  <2>1. push' = [push EXCEPT !.worker = "off"] /\ push.worker = "ending" /\ me' = me /\ lapse' = lapse
    BY <1>7 DEF pushWorkerUnlock
  <2>2. push' \in Pushes /\ push'.queue = push.queue
    BY <1>1, <2>1 DEF Pushes
  <2> QED BY <1>1, <1>3, <2>1, <2>2 DEF QueueInv
<1> QED BY <1>4, <1>5, <1>6, <1>7

(* Flushing the read marker, by maintenance and at shutdown.               *)
LEMMA FlushSteps ==
  ASSUME DataInv, performAlwaysOnMaintenance \/ shutdownFlush
  PROVE  DataInv'
<1>1. me \in Mes /\ disk \in Disks /\ lapse \in Lapses /\ me.marker \in Nat /\ me.dirtyTimes \in BOOLEAN
  BY DEF DataInv, DataType, Mes
<1>2. /\ UNCHANGED <<writer, owing, wakes, after, push, chores>>
      /\ life' = "down" \/ (life' = life /\ life = "up")
      /\ me' = [me EXCEPT !.dirtyTimes = FALSE]
      /\ disk' = IF me.dirtyTimes /\ me.always THEN [disk EXCEPT !.marker = me.marker] ELSE disk
      /\ lapse' = [lapse EXCEPT !.flush = IF me.dirtyTimes THEN ~me.always ELSE @]
  BY DEF performAlwaysOnMaintenance, shutdownFlush, FlushTimes
<1>3. /\ me' \in Mes /\ me'.account = me.account /\ me'.always = me.always /\ me'.dirty = me.dirty
      /\ ~me'.dirtyTimes /\ me'.marker = me.marker
  BY <1>1, <1>2 DEF Mes
<1>4. /\ me'.chan = me.chan /\ me'.status = me.status /\ me'.modes = me.modes
      /\ me'.realname = me.realname /\ me'.subs = me.subs /\ me'.meta = me.meta
  BY <1>1, <1>2 DEF Mes
<1>5. /\ disk' \in Disks /\ disk'.exists = disk.exists /\ disk'.rows = disk.rows
      /\ disk'.marker = IF me.dirtyTimes /\ me.always THEN me.marker ELSE disk.marker
  <2>1. CASE me.dirtyTimes /\ me.always
    BY <1>1, <1>2, <2>1 DEF Disks
  <2>2. CASE ~(me.dirtyTimes /\ me.always)
    BY <1>1, <1>2, <2>2
  <2> QED BY <2>1, <2>2
<1>6. /\ lapse' \in Lapses /\ lapse'.join = lapse.join /\ lapse'.worker = lapse.worker
      /\ lapse'.flush = IF me.dirtyTimes THEN ~me.always ELSE lapse.flush
  <2>1. CASE me.dirtyTimes
    BY <1>1, <1>2, <2>1 DEF Lapses
  <2>2. CASE ~me.dirtyTimes
    BY <1>1, <1>2, <2>2 DEF Lapses
  <2> QED BY <2>1, <2>2
<1>7. DataType'
  BY <1>2, <1>3, <1>5, <1>6 DEF DataInv, DataType
<1>8. RowsInv'
  <2>1. \A a \in IncludeAllAttrs : (Persisted[a])' = Persisted[a]
    BY <1>4, Attributes, UnchangedAttributes
  <2>2. ASSUME NEW a \in IncludeAllAttrs, Pending(a) PROVE Pending(a)'
    BY <1>2, <1>3, <1>6, <2>2 DEF Pending, Behind, Locked
  <2> QED BY <1>3, <1>5, <2>1, <2>2 DEF DataInv, RowsInv
<1>12. TakenInv'
  <2>1. (Persisted[writer.attr])' = Persisted[writer.attr] /\ (Behind(writer.attr) => Behind(writer.attr)')
    <3>1. writer.attr \in IncludeAllAttrs /\ writer'.attr = writer.attr
      BY <1>2 DEF DataInv, DataType, Writers
    <3>2. (Persisted[writer.attr])' = Persisted[writer.attr]
      BY <1>2, <1>4, <3>1, Attributes, UnchangedAttributes
    <3> QED BY <1>2, <1>3, <1>6, <3>2 DEF Behind
  <2> QED BY <1>2, <1>3, <1>5, <2>1 DEF DataInv, TakenInv
<1>9. WakeInv'
  BY <1>2, <1>3 DEF DataInv, WakeInv, Locked
<1>10. MarkerInv'
  BY <1>2, <1>3, <1>5, <1>6 DEF DataInv, MarkerInv
<1>11. QueueInv' /\ MaintenanceInv'
  BY <1>2, <1>6 DEF DataInv, QueueInv, MaintenanceInv, Locked
<1> QED BY <1>3, <1>7, <1>8, <1>9, <1>10, <1>11, <1>12 DEF DataInv

(* NS SET always-on, NS UNREGISTER and the logout that follows it.         *)
LEMMA SettingSteps ==
  ASSUME DataInv, life # "down", SetAccountSettings \/ DropAccount \/ LogoutClient
  PROVE  DataInv'
<1>1. me \in Mes /\ disk \in Disks
  BY DEF DataInv, DataType
<1>2. UNCHANGED <<writer, wakes, after, push, chores, life, lapse>>
  BY DEF SetAccountSettings, DropAccount, LogoutClient, RestKept
<1>3. CASE SetAccountSettings
  <2>1. PICK on \in BOOLEAN :
          /\ me.account /\ disk' = [disk EXCEPT !.always = on] /\ me' = [me EXCEPT !.always = on]
          /\ owing' = IF on THEN owing \cup {IncludeAllAttrs} ELSE owing
    BY <1>3 DEF SetAccountSettings, Owe, Keep
  <2>2. /\ me' \in Mes /\ me'.account = me.account /\ me'.always = on /\ me'.dirty = me.dirty
        /\ me'.dirtyTimes = me.dirtyTimes /\ me'.marker = me.marker
    BY <1>1, <2>1 DEF Mes
  <2>3. disk' \in Disks /\ disk'.exists = disk.exists /\ disk'.marker = disk.marker
    BY <1>1, <2>1 DEF Disks
  <2>4. DataType'
    BY <1>2, <2>1, <2>2, <2>3 DEF DataInv, DataType
  <2>5. RowsInv'
    BY <2>1, <2>2 DEF RowsInv, Pending, Behind
  <2>8. TakenInv'
    BY <1>2, <2>1, <2>2 DEF DataInv, DataType, Writers, TakenInv, Behind
  <2>6. WakeInv'
    BY <2>1, <2>2 DEF WakeInv
  <2>7. MarkerInv' /\ QueueInv' /\ MaintenanceInv'
    BY <1>2, <2>2, <2>3 DEF DataInv, MarkerInv, QueueInv, MaintenanceInv, Locked
  <2> QED BY <2>1, <2>2, <2>4, <2>5, <2>6, <2>7, <2>8 DEF DataInv
<1>4. CASE DropAccount
  <2>1. /\ disk' = [disk EXCEPT !.exists = FALSE, !.always = FALSE, !.rows = NoRows, !.marker = 0]
        /\ UNCHANGED <<me, owing>>
    BY <1>4 DEF DropAccount
  <2>2. disk' \in Disks /\ ~disk'.exists
    BY <1>1, <2>1, Constants DEF Disks
  <2>3. DataType'
    BY <1>2, <2>1, <2>2 DEF DataInv, DataType
  <2>4. RowsInv' /\ TakenInv' /\ WakeInv' /\ MarkerInv' /\ QueueInv' /\ MaintenanceInv'
    BY <1>2, <2>1, <2>2 DEF DataInv, RowsInv, TakenInv, WakeInv, MarkerInv, QueueInv, MaintenanceInv, Locked
  <2> QED BY <2>1, <2>3, <2>4 DEF DataInv
<1>5. CASE LogoutClient
  <2>1. /\ me' = [me EXCEPT !.account = FALSE, !.always = FALSE] /\ UNCHANGED <<disk, owing>> /\ ~disk.exists
    BY <1>5 DEF LogoutClient, Keep, RestKept
  <2>2. me' \in Mes /\ ~me'.always
    BY <1>1, <2>1 DEF Mes
  <2>3. DataType'
    BY <1>2, <2>1, <2>2 DEF DataInv, DataType
  <2>4. RowsInv' /\ TakenInv' /\ WakeInv' /\ MarkerInv' /\ QueueInv' /\ MaintenanceInv'
    BY <1>2, <2>1, <2>2 DEF DataInv, RowsInv, TakenInv, WakeInv, MarkerInv, QueueInv, MaintenanceInv, Locked
  <2> QED BY <2>2, <2>3, <2>4 DEF DataInv
<1> QED BY <1>3, <1>4, <1>5

(* What the writers do keeps the marker and the push queue.                *)
LEMMA WriterKeeps ==
  ASSUME DataInv, DataType', RowsInv', TakenInv', WakeInv', MaintenanceInv', UNCHANGED push,
         me'.account = me.account, me'.always = me.always,
         me'.marker = me.marker, me'.dirtyTimes = me.dirtyTimes,
         disk'.exists = disk.exists, disk'.marker = disk.marker,
         lapse'.flush = lapse.flush, lapse'.worker = lapse.worker, life' # "down"
  PROVE  DataInv'
BY DEF DataInv, MarkerInv, QueueInv

(* Marking dirty, waking a writer, looking again, the steps of Shutdown.   *)
LEMMA WakeSteps ==
  ASSUME DataInv, life # "down",
         markDirty \/ wakeWriter \/ writeLoopRecheck \/ maintenanceStore \/ Shutdown \/ shutdownStore
  PROVE  DataInv'
<1>1. me \in Mes /\ me.dirty \subseteq IncludeAllAttrs /\ writer \in Writers /\ chores \in ChoreLists
  BY DEF DataInv, DataType, Mes
<1>2. UNCHANGED <<disk, push, lapse>> /\ life' # "down"
  BY DEF markDirty, wakeWriter, writeLoopRecheck, maintenanceStore, Shutdown, shutdownStore
<1>3. CASE markDirty
  <2>1. PICK bits \in owing :
          /\ me' = [me EXCEPT !.dirty = @ \cup bits] /\ owing' = owing \ {bits}
          /\ wakes' = IF me.always THEN wakes + 1 ELSE wakes
          /\ UNCHANGED <<disk, writer, after, push, chores, life, lapse>>
    BY <1>3 DEF markDirty
  <2>2. me.dirty \cup bits \in SUBSET IncludeAllAttrs
    BY <1>1 DEF DataInv, DataType
  <2>3. /\ me' \in Mes /\ me'.account = me.account /\ me'.always = me.always /\ me'.dirty = me.dirty \cup bits
        /\ me'.dirtyTimes = me.dirtyTimes /\ me'.marker = me.marker
    BY <1>1, <2>1, <2>2 DEF Mes
  <2>4. /\ me'.chan = me.chan /\ me'.status = me.status /\ me'.modes = me.modes
        /\ me'.realname = me.realname /\ me'.subs = me.subs /\ me'.meta = me.meta
    BY <1>1, <2>1 DEF Mes
  <2>5. DataType'
    BY <2>1, <2>3 DEF DataInv, DataType
  <2>6. RowsInv'
    <3>1. \A a \in IncludeAllAttrs : (Persisted[a])' = Persisted[a]
      BY <2>4, Attributes, UnchangedAttributes
    <3>2. ASSUME NEW a \in IncludeAllAttrs, Pending(a) PROVE Pending(a)'
      BY <2>1, <2>3, <3>2 DEF Pending, Behind, Locked
    <3> QED BY <2>1, <2>3, <3>1, <3>2 DEF DataInv, RowsInv
  <2>8. TakenInv'
    <3>1. writer.attr \in IncludeAllAttrs /\ writer' = writer
      BY <1>1, <2>1 DEF Writers
    <3>2. (Persisted[writer.attr])' = Persisted[writer.attr]
      BY <2>4, <3>1, Attributes, UnchangedAttributes
    <3>3. Behind(writer.attr) => Behind(writer.attr)'
      BY <2>1, <2>3 DEF Behind
    <3> QED BY <2>1, <2>3, <3>1, <3>2, <3>3 DEF DataInv, TakenInv
  <2>7. WakeInv' /\ MaintenanceInv'
    BY <2>1, <2>3 DEF DataInv, DataType, WakeInv, MaintenanceInv, Locked
  <2> QED BY <1>2, <2>3, <2>5, <2>6, <2>7, <2>8, WriterKeeps
<1>4. ASSUME UNCHANGED <<me, owing>>, writer' \in Writers, wakes' \in Nat, after' \in Nat, chores' \in ChoreLists,
             life' \in {"up", "storing", "flushing", "down"}, life' # life => life' # "up",
             chores'.join = chores.join, chores'.part = chores.part,
             writer' = writer \/ (~Locked /\ writer'.pc = "start"),
             chores.maint = "scan" => chores'.maint = "scan" \/ (writer'.pc = "start" /\ writer'.bits = {"push"}),
             Locked' \/ me.dirty = {} \/ wakes' + after' >= wakes + after, MaintenanceInv'
      PROVE  DataInv'
  <2>1. DataType'
    BY <1>2, <1>4 DEF DataInv, DataType
  <2>2. RowsInv'
    <3>1. \A a \in IncludeAllAttrs : (Persisted[a])' = Persisted[a]
      BY <1>4 DEF Persisted
    <3>2. ASSUME NEW a \in IncludeAllAttrs, Pending(a) PROVE Pending(a)'
      BY <1>2, <1>4, <3>2 DEF Pending, Behind, Locked
    <3> QED BY <1>2, <1>4, <3>1, <3>2 DEF DataInv, RowsInv
  <2>4. TakenInv'
    <3>1. CASE writer'.pc = "start"
      BY <3>1 DEF TakenInv
    <3>2. CASE writer' = writer /\ writer.pc = "commit"
      <4>1. (Persisted[writer.attr])' = Persisted[writer.attr]
        BY <1>4, <3>2 DEF Persisted
      <4>2. chores.maint = "scan" => chores'.maint = "scan"
        BY <1>4, <3>2
      <4> QED BY <1>2, <1>4, <3>2, <4>1, <4>2 DEF DataInv, TakenInv, Behind
    <3> QED BY <1>4, <3>1, <3>2 DEF TakenInv
  <2>3. WakeInv'
    <3> SUFFICES ASSUME me.always, life' = "up", me.dirty # {}, ~Locked', owing = {}
                 PROVE  wakes' > 0 \/ after' > 0
      BY <1>4 DEF WakeInv
    <3>1. life = "up" /\ ~Locked
      BY <1>4 DEF Locked
    <3>2. wakes > 0 \/ after > 0
      BY <3>1 DEF DataInv, WakeInv
    <3>3. wakes' + after' >= wakes + after /\ wakes \in Nat /\ after \in Nat
      BY <1>4 DEF DataInv, DataType
    <3>4. wakes' \in Nat /\ after' \in Nat
      BY <1>4
    <3>5. \A w \in Nat, f \in Nat, v \in Nat, g \in Nat :
            v + g >= w + f /\ (w > 0 \/ f > 0) => v > 0 \/ g > 0
      OBVIOUS
    <3> QED BY <3>2, <3>3, <3>4, <3>5
  <2> QED BY <1>2, <1>4, <2>1, <2>2, <2>3, <2>4, WriterKeeps
<1>5. CASE wakeWriter
  <2>1. /\ wakes > 0 /\ wakes' = wakes - 1 /\ UNCHANGED <<me, owing, after, chores, life>>
        /\ writer' = IF Locked THEN writer ELSE [IdleWriter EXCEPT !.pc = "start"]
    BY <1>5 DEF wakeWriter
  <2>2. [IdleWriter EXCEPT !.pc = "start"] \in Writers /\ [IdleWriter EXCEPT !.pc = "start"].pc = "start"
    BY IdleType DEF Writers
  <2>3. writer' \in Writers /\ (writer' = writer \/ (~Locked /\ writer'.pc = "start")) /\ Locked'
    BY <1>1, <2>1, <2>2 DEF Locked
  <2>4. wakes' \in Nat
    BY <2>1 DEF DataInv, DataType
  <2>5. MaintenanceInv'
    BY <2>1, <2>2 DEF DataInv, MaintenanceInv, IdleWriter, Locked
  <2> QED BY <1>1, <1>4, <2>1, <2>3, <2>4, <2>5 DEF DataInv, DataType
<1>6. CASE writeLoopRecheck
  <2>1. /\ after > 0 /\ after' = after - 1 /\ wakes' = IF me.dirty # {} THEN wakes + 1 ELSE wakes
        /\ UNCHANGED <<me, writer, owing, chores, life>>
    BY <1>6 DEF writeLoopRecheck, StillDirty
  <2>2. wakes' \in Nat /\ after' \in Nat /\ (me.dirty = {} \/ wakes' + after' >= wakes + after)
    BY <2>1 DEF DataInv, DataType
  <2>3. MaintenanceInv'
    BY <2>1 DEF DataInv, MaintenanceInv, Locked
  <2> QED BY <1>1, <1>4, <2>1, <2>2, <2>3 DEF DataInv, DataType, Locked
<1>7. CASE maintenanceStore
  <2>1. /\ ~Locked /\ writer' = [IdleWriter EXCEPT !.pc = "start", !.bits = {"push"}, !.for = "maint"]
        /\ chores' = [chores EXCEPT !.maint = "store"] /\ UNCHANGED <<me, owing, wakes, after, life>>
    BY <1>7 DEF maintenanceStore
  <2>2. writer' \in Writers /\ writer'.pc = "start" /\ writer'.bits = {"push"}
    BY <2>1, IdleType, Attributes DEF Writers
  <2>3. /\ chores' \in ChoreLists /\ chores'.join = chores.join /\ chores'.part = chores.part
        /\ chores'.maint = "store"
    BY <1>1, <2>1 DEF ChoreLists
  <2>4. MaintenanceInv'
    BY <2>3 DEF MaintenanceInv
  <2> QED BY <1>4, <2>1, <2>2, <2>3, <2>4 DEF DataInv, DataType, Locked
<1>8. CASE Shutdown
  <2>1. life' \in {"storing", "flushing"} /\ UNCHANGED <<me, writer, owing, wakes, after, chores>>
    BY <1>8 DEF Shutdown
  <2>2. MaintenanceInv'
    BY <2>1 DEF DataInv, MaintenanceInv, Locked
  <2> QED BY <1>1, <1>4, <2>1, <2>2 DEF DataInv, DataType, Locked
<1>9. CASE shutdownStore
  <2>1. /\ ~Locked /\ writer' = [IdleWriter EXCEPT !.pc = "start", !.for = "shutdown"]
        /\ UNCHANGED <<me, owing, wakes, after, chores, life>>
    BY <1>9 DEF shutdownStore
  <2>2. writer' \in Writers /\ writer'.pc = "start" /\ MaintenanceInv'
    BY <2>1, IdleType DEF Writers, MaintenanceInv
  <2> QED BY <1>1, <1>4, <2>1, <2>2 DEF DataInv, DataType, Locked
<1> QED BY <1>3, <1>5, <1>6, <1>7, <1>8, <1>9

(* One attribute of the rows.                                              *)
LEMMA RowUpdates ==
  ASSUME NEW rows \in Rows, NEW p \in Rows, NEW a \in IncludeAllAttrs, NEW new, new = [rows EXCEPT ![a] = p[a]]
  PROVE  new \in Rows /\ new[a] = p[a] /\ \A b \in IncludeAllAttrs \ {a} : new[b] = rows[b]
<1>1. CASE a = "channels"
  BY <1>1, Attributes DEF Rows
<1>2. CASE a = "modes"
  BY <1>2, Attributes DEF Rows
<1>3. CASE a = "realname"
  BY <1>3, Attributes DEF Rows
<1>4. CASE a = "push"
  BY <1>4, Attributes DEF Rows
<1>5. CASE a = "metadata"
  BY <1>5, Attributes DEF Rows
<1> QED BY <1>1, <1>2, <1>3, <1>4, <1>5, Attributes

(* The writer: taking the bits, reading and saving an attribute, letting it go. *)
LEMMA WriteSteps ==
  ASSUME DataInv, life # "down", performWrite \/ readAttr \/ saveAttr \/ unlockWriter
  PROVE  DataInv'
<1>1. /\ me \in Mes /\ me.dirty \subseteq IncludeAllAttrs /\ disk \in Disks /\ disk.rows \in Rows
      /\ writer \in Writers /\ writer.bits \subseteq IncludeAllAttrs /\ writer.attr \in IncludeAllAttrs
      /\ writer.row \in Rows /\ lapse \in Lapses
      /\ chores \in ChoreLists /\ after \in Nat /\ wakes \in Nat
  BY DEF DataInv, DataType, Mes, Disks, Writers
<1>2. CASE performWrite
  <2>1. /\ writer' = [writer EXCEPT !.pc = "save", !.bits = IF me.account THEN @ \cup me.dirty ELSE {}]
        /\ me' = [me EXCEPT !.dirty = {}] /\ writer.pc = "start"
        /\ UNCHANGED <<disk, owing, wakes, after, push, chores, life, lapse>>
    BY <1>2 DEF performWrite
  <2>2. /\ me' \in Mes /\ me'.account = me.account /\ me'.always = me.always /\ me'.dirty = {}
        /\ me'.dirtyTimes = me.dirtyTimes /\ me'.marker = me.marker
    BY <1>1, <2>1 DEF Mes
  <2>3. /\ me'.chan = me.chan /\ me'.status = me.status /\ me'.modes = me.modes
        /\ me'.realname = me.realname /\ me'.subs = me.subs /\ me'.meta = me.meta
    BY <1>1, <2>1 DEF Mes
  <2>4. /\ writer' \in Writers /\ Locked' /\ writer'.pc = "save" /\ writer'.for = writer.for
        /\ (me.account => writer'.bits = writer.bits \cup me.dirty)
    BY <1>1, <2>1 DEF Writers, Locked
  <2>5. DataType'
    BY <2>1, <2>2, <2>4 DEF DataInv, DataType
  <2>6. RowsInv'
    <3>1. \A a \in IncludeAllAttrs : (Persisted[a])' = Persisted[a]
      BY <2>3, Attributes, UnchangedAttributes
    <3>2. ASSUME me.always, NEW a \in IncludeAllAttrs, Pending(a) PROVE Pending(a)'
      <4>1. writer'.bits = writer.bits \cup me.dirty
        BY <2>4, <3>2 DEF DataInv
      <4> QED BY <2>1, <2>4, <3>2, <4>1 DEF Pending, Behind, Locked
    <3> QED BY <2>1, <2>2, <3>1, <3>2 DEF DataInv, RowsInv
  <2>7. WakeInv' /\ MaintenanceInv' /\ TakenInv'
    BY <2>1, <2>4 DEF DataInv, WakeInv, MaintenanceInv, TakenInv, Locked
  <2> QED BY <2>1, <2>2, <2>5, <2>6, <2>7, WriterKeeps
<1>3. CASE readAttr
  <2>1. PICK i \in DOMAIN AttrOrder :
          /\ AttrOrder[i] \in writer.bits
          /\ writer' = [writer EXCEPT !.pc = "commit", !.attr = AttrOrder[i],
                                      !.row = [NoRows EXCEPT ![AttrOrder[i]] = Persisted[AttrOrder[i]]]]
          /\ lapse' = IF AttrOrder[i] = "channels" THEN [lapse EXCEPT !.join = FALSE] ELSE lapse
          /\ writer.pc = "save" /\ UNCHANGED <<me, disk, owing, wakes, after, push, chores, life>>
    BY <1>3 DEF readAttr
  <2> DEFINE a == AttrOrder[i]
             row == [NoRows EXCEPT ![a] = Persisted[a]]
  <2>2. a \in IncludeAllAttrs /\ a \in writer.bits
    BY <2>1 DEF IncludeAllAttrs
  <2>3. row \in Rows /\ row[a] = Persisted[a]
    BY <1>1, <2>2, RowUpdates, PersistedType, Constants
  <2>4. writer' = [writer EXCEPT !.pc = "commit", !.attr = a, !.row = row]
    BY <2>1
  <2>5. lapse' = IF a = "channels" THEN [lapse EXCEPT !.join = FALSE] ELSE lapse
    BY <2>1
  <2> HIDE DEF a, row
  <2>6. /\ writer' \in Writers /\ writer'.pc = "commit" /\ writer'.bits = writer.bits
        /\ writer'.attr = a /\ writer'.row = row /\ writer'.for = writer.for
    BY <1>1, <2>2, <2>3, <2>4 DEF Writers
  <2>7. /\ lapse' \in Lapses /\ lapse'.flush = lapse.flush /\ lapse'.worker = lapse.worker
        /\ a # "channels" => lapse'.join = lapse.join
    BY <1>1, <2>5 DEF Lapses
  <2>8. DataType'
    BY <2>1, <2>6, <2>7 DEF DataInv, DataType
  <2>9. \A b \in IncludeAllAttrs : (Persisted[b])' = Persisted[b]
    BY <2>1 DEF Persisted
  <2>10. RowsInv'
    <3>1. ASSUME NEW b \in IncludeAllAttrs, Pending(b) PROVE Pending(b)'
      <4>1. CASE b = a
        BY <2>2, <2>6, <4>1 DEF Pending, Locked
      <4>2. CASE b # a
        BY <2>1, <2>6, <2>7, <3>1, <4>2 DEF Pending, Behind, Locked
      <4> QED BY <4>1, <4>2
    <3> QED BY <2>1, <2>9, <3>1 DEF DataInv, RowsInv
  <2>11. TakenInv'
    BY <2>2, <2>3, <2>6, <2>9 DEF TakenInv
  <2>12. WakeInv' /\ MaintenanceInv'
    BY <2>1, <2>6 DEF DataInv, WakeInv, MaintenanceInv, Locked
  <2> QED BY <2>1, <2>7, <2>8, <2>10, <2>11, <2>12, WriterKeeps
<1>5. CASE saveAttr
  <2> DEFINE a == writer.attr
             rows == [disk.rows EXCEPT ![a] = writer.row[a]]
  <2>1. /\ disk' = [disk EXCEPT !.rows = rows]
        /\ writer' = [writer EXCEPT !.pc = "save", !.bits = @ \ {a}, !.attr = IdleWriter.attr, !.row = IdleWriter.row]
        /\ writer.pc = "commit" /\ UNCHANGED <<me, owing, wakes, after, push, chores, life, lapse>>
    BY <1>5 DEF saveAttr
  <2>2. a \in IncludeAllAttrs
    BY <1>1
  <2>3. rows \in Rows /\ \A b \in IncludeAllAttrs : rows[b] = IF b = a THEN writer.row[b] ELSE disk.rows[b]
    <3>1. disk.rows \in Rows /\ writer.row \in Rows
      BY <1>1
    <3>3. rows = [disk.rows EXCEPT ![a] = writer.row[a]]
      OBVIOUS
    <3> HIDE DEF a, rows
    <3>4. rows \in Rows /\ rows[a] = writer.row[a] /\ \A b \in IncludeAllAttrs \ {a} : rows[b] = disk.rows[b]
      BY <2>2, <3>1, <3>3, RowUpdates
    <3> QED BY <3>4
  <2>4. me.always /\ disk.exists => writer.row[a] = Persisted[a] \/ Behind(a)
    BY <2>1 DEF DataInv, TakenInv
  <2> HIDE DEF a, rows
  <2>5. disk' \in Disks /\ disk'.rows = rows /\ disk'.exists = disk.exists /\ disk'.marker = disk.marker
    BY <1>1, <2>1, <2>3 DEF Disks
  <2>6. writer' \in Writers /\ writer'.bits = writer.bits \ {a} /\ writer'.pc = "save" /\ writer'.for = writer.for
    <3>1. IdleWriter.attr \in IncludeAllAttrs /\ IdleWriter.row \in Rows
      BY IdleType DEF Writers
    <3> QED BY <1>1, <2>1, <3>1 DEF Writers
  <2>7. DataType'
    BY <2>1, <2>5, <2>6 DEF DataInv, DataType
  <2>8. RowsInv'
    <3>1. \A b \in IncludeAllAttrs : (Persisted[b])' = Persisted[b]
      BY <2>1 DEF Persisted
    <3>2. \A b \in IncludeAllAttrs : Behind(b) => Behind(b)'
      BY <2>1 DEF Behind
    <3>3. ASSUME NEW b \in IncludeAllAttrs \ {a}, Pending(b) PROVE Pending(b)'
      BY <2>6, <3>2, <3>3 DEF Pending, Locked
    <3>4. \A b \in IncludeAllAttrs : Behind(b)' => Pending(b)'
      BY DEF Pending
    <3> QED BY <2>1, <2>3, <2>4, <2>5, <3>1, <3>2, <3>3, <3>4 DEF DataInv, RowsInv
  <2>9. WakeInv' /\ MaintenanceInv' /\ TakenInv'
    BY <2>1, <2>6 DEF DataInv, WakeInv, MaintenanceInv, TakenInv, Locked
  <2> QED BY <2>1, <2>5, <2>7, <2>8, <2>9, WriterKeeps
<1>4. CASE unlockWriter
  <2>1. /\ writer.bits = {} /\ writer' = IdleWriter /\ UNCHANGED <<me, disk, owing, wakes, push, lapse>>
        /\ after' = IF writer.for = "shutdown" THEN after ELSE after + 1
        /\ life' = IF writer.for = "shutdown" THEN "flushing" ELSE life
        /\ chores' = IF writer.for = "maint" THEN [chores EXCEPT !.maint = "off"] ELSE chores
    BY <1>4 DEF unlockWriter
  <2>2. /\ chores' \in ChoreLists /\ chores'.join = chores.join /\ chores'.part = chores.part
        /\ chores.maint = "scan" => chores'.maint = "scan"
    <3>1. CASE writer.for = "maint"
      <4>1. chores.maint = "store"
        BY <1>4, <3>1 DEF DataInv, MaintenanceInv, Locked, unlockWriter
      <4> QED BY <1>1, <2>1, <3>1, <4>1 DEF ChoreLists
    <3>2. CASE writer.for # "maint"
      BY <1>1, <2>1, <3>2
    <3> QED BY <3>1, <3>2
  <2>3. DataType'
    BY <1>1, <2>1, <2>2, IdleType DEF DataInv, DataType
  <2>4. RowsInv'
    <3>1. \A a \in IncludeAllAttrs : (Persisted[a])' = Persisted[a]
      BY <2>1 DEF Persisted
    <3>2. ASSUME NEW a \in IncludeAllAttrs, Pending(a) PROVE Pending(a)'
      BY <2>1, <2>2, <3>2 DEF Pending, Behind
    <3> QED BY <2>1, <3>1, <3>2 DEF DataInv, RowsInv
  <2>5. WakeInv' /\ MaintenanceInv' /\ TakenInv'
    BY <1>1, <2>1, IdleType DEF DataInv, WakeInv, MaintenanceInv, TakenInv, Locked
  <2> QED BY <2>1, <2>3, <2>4, <2>5, WriterKeeps
<1> QED BY <1>2, <1>3, <1>4, <1>5

-----------------------------------------------------------------------------
(* Every step keeps the invariant.                                         *)
LEMMA NextData == ASSUME DataInv, [AccountDataNext]_dataVars PROVE DataInv'
<1>1. CASE /\ life # "down"
           /\ \/ markDirty \/ wakeWriter \/ performWrite \/ readAttr \/ saveAttr \/ unlockWriter
              \/ writeLoopRecheck
              \/ finishJoin \/ removeChannel \/ applyPreregMetadata \/ LogoutClient
              \/ webpushTested \/ maintainSubscription \/ maintenanceStore
              \/ pushWorker \/ sendAndTrackPush \/ pushWorkerUnlock
  BY <1>1, WakeSteps, WriteSteps, JoinSteps, AttributeSteps, SettingSteps, SubscriptionSteps, PushSteps
<1>2. CASE addChannel \/ applyModeToClient \/ PartChannel
  <2>1. life # "down"
    BY <1>2 DEF addChannel, applyModeToClient, PartChannel, DataCommand
  <2> QED BY <1>2, <2>1, JoinSteps
<1>3. CASE ApplyUserModeChanges \/ setnameHandler \/ metadataRegisteredHandler \/ metadataUnregisteredHandler
  <2>1. life # "down"
    BY <1>3 DEF ApplyUserModeChanges, setnameHandler, metadataRegisteredHandler, metadataUnregisteredHandler,
                DataCommand
  <2> QED BY <1>3, <2>1, AttributeSteps
<1>4. CASE SetAccountSettings \/ DropAccount
  <2>1. life # "down"
    BY <1>4 DEF SetAccountSettings, DropAccount, DataCommand
  <2> QED BY <1>4, <2>1, SettingSteps
<1>5. CASE webpushRegister \/ webpushUnregister \/ pushMaintenance
  <2>1. life # "down"
    BY <1>5 DEF webpushRegister, webpushUnregister, pushMaintenance, DataCommand
  <2> QED BY <1>5, <2>1, SubscriptionSteps
<1>6. CASE dispatchPushMessage \/ markRead
  <2>1. life # "down"
    BY <1>6 DEF dispatchPushMessage, markRead, DataCommand
  <2> QED BY <1>6, <2>1, PushSteps
<1>7. CASE performAlwaysOnMaintenance \/ shutdownFlush
  BY <1>7, FlushSteps
<1>8. CASE Shutdown \/ shutdownStore
  <2>1. life # "down"
    BY <1>8 DEF Shutdown, shutdownStore
  <2> QED BY <1>8, <2>1, WakeSteps
<1>9. CASE Restart
  BY <1>9, RestartKeeps
<1>10. CASE UNCHANGED dataVars
  <2>1. DataType' /\ WakeInv' /\ MarkerInv' /\ QueueInv' /\ MaintenanceInv'
    BY <1>10 DEF dataVars, DataInv, DataType, WakeInv, MarkerInv, QueueInv, MaintenanceInv, Locked
  <2>2. RowsInv'
    BY <1>10 DEF dataVars, DataInv, RowsInv, Persisted, Pending, Behind, Locked
  <2>3. TakenInv'
    BY <1>10 DEF dataVars, DataInv, TakenInv, Persisted, Behind
  <2> QED BY <1>10, <2>1, <2>2, <2>3 DEF dataVars, DataInv
<1> QED BY <1>1, <1>2, <1>3, <1>4, <1>5, <1>6, <1>7, <1>8, <1>9, <1>10 DEF AccountDataNext

(* What is not written is marked, owed, being written or a known gap, in   *)
(* every order of commands, write-backs, maintenance, shutdowns, crashes   *)
(* and restarts (client.go, getters.go, accounts.go).                      *)
THEOREM DataInvariant == AccountDataSpec => []DataInv
<1>1. DataInv /\ [AccountDataNext]_dataVars => DataInv'
  BY NextData
<1> QED BY <1>1, InitData, PTL DEF AccountDataSpec

(* For an always-on client, at rest, no dirty bit is left, the rows are    *)
(* what is in memory and the marker is stored; and a queued push message   *)
(* has a worker (Client.performWrite, markDirty, wakeWriter, pushWorker),  *)
(* apart from the gaps `lapse` names, for any number of commands and       *)
(* restarts.                                                               *)
THEOREM WriteBackSettles == AccountDataSpec => []DataSettles
<1>1. DataInv => DataSettles
  <2> SUFFICES ASSUME DataInv PROVE DataSettles
    OBVIOUS
  <2>1. me.always => NothingLeftBehind
    BY DEF DataInv, DataType, WakeInv, NothingLeftBehind
  <2>2. me.always /\ disk.exists => RowsAreTheClient
    BY DEF DataInv, RowsInv, Pending, Behind, RowsAreTheClient, AtRest
  <2>3. disk.exists => MarkerIsStored
    BY DEF DataInv, MarkerInv, MarkerIsStored
  <2>4. push.worker = "off" /\ push.queue # << >> => lapse.worker
    BY DEF DataInv, QueueInv
  <2> QED BY <2>1, <2>2, <2>3, <2>4 DEF DataSettles
<1> QED BY <1>1, DataInvariant, PTL
-----------------------------------------------------------------------------
(* The history buffer. *)

\* Every set of naturals with a member has a least one.
LEMMA LeastNatural ==
  ASSUME NEW T \in SUBSET Nat, NEW t \in T
  PROVE  \E m \in T : \A k \in T : m <= k
  <1> DEFINE below(n) == {k \in Nat : k < n}
             U == {below(n) : n \in T}
  <1>1. ASSUME NEW n \in Nat PROVE IsFiniteSet(below(n))
    <2>1. below(n) = 0..(n - 1)
      OBVIOUS
    <2>2. IsFiniteSet(0..(n - 1))
      <3>1. 0 \in Int /\ n - 1 \in Int
        OBVIOUS
      <3>2. QED
        BY <3>1, FS_Interval, Zenon
    <2>3. QED
      BY <2>1, <2>2, Zenon
  <1>2. U \subseteq FiniteSubsetsOf(Nat)
    BY <1>1 DEF FiniteSubsetsOf
  <1>3. IsWellFoundedOn(StrictSubsetOrdering(Nat), FiniteSubsetsOf(Nat))
    BY FS_StrictSubsetOrderingWellFounded
  <1>4. below(t) \in U
    OBVIOUS
  <1>5. PICK u \in U : \A v \in U : ~ (<<v, u>> \in StrictSubsetOrdering(Nat))
    <2> HIDE DEF U
    <2>1. U # {}
      BY <1>4
    <2>2. QED
      BY <1>2, <1>3, <2>1, WFMin
  <1>6. PICK m \in T : u = below(m)
    OBVIOUS
  <1>7. ASSUME NEW k \in T, ~(m <= k) PROVE FALSE
    <2>1. k \in Nat /\ m \in Nat /\ k < m
      BY <1>7
    <2>2. below(k) \subseteq below(m)
      BY <2>1
    <2>3. k \in below(m) /\ k \notin below(k)
      BY <2>1
    <2>4. below(k) # below(m)
      BY <2>3
    <2>5. <<below(k), below(m)>> \in StrictSubsetOrdering(Nat)
      BY <2>2, <2>4, Zenon DEF StrictSubsetOrdering
    <2>6. QED
      BY <2>5, <1>5, <1>6, Zenon
  <1>8. QED
    BY <1>7

\* The recursion that defines PowerOfTwo has a solution: the first n values are
\* determined by a function on 0..n, for every n, and these functions agree.
PowersTo(g, n) == g \in [0..n -> Nat] /\ g[0] = 1 /\ \A k \in 1..n : g[k] = 2 * g[k - 1]

LEMMA PowersExist == \A n \in Nat : \E g : PowersTo(g, n)
  <1> DEFINE T == {n \in Nat : ~ \E g : PowersTo(g, n)}
  <1>1. SUFFICES ASSUME NEW n \in T PROVE FALSE
    OBVIOUS
  <1>2. PICK m \in T : \A k \in T : m <= k
    <2>1. T \in SUBSET Nat
      OBVIOUS
    <2>2. QED
      BY <1>1, <2>1, LeastNatural
  <1>3. CASE m = 0
    <2>1. PowersTo([k \in 0..0 |-> 1], 0)
      BY DEF PowersTo
    <2>2. QED
      BY <1>3, <2>1, Zenon
  <1>4. CASE m # 0
    <2>1. m \in Nat /\ m - 1 \in Nat /\ ~ (m <= m - 1)
      BY <1>4
    <2>2. PICK g : PowersTo(g, m - 1)
      BY <2>1, <1>2
    <2> DEFINE h == [k \in 0..m |-> IF k = m THEN 2 * g[m - 1] ELSE g[k]]
    <2>3. PowersTo(h, m)
      BY <2>1, <2>2 DEF PowersTo
    <2>4. QED
      BY <2>3, Zenon
  <1>5. QED
    BY <1>3, <1>4

LEMMA PowersAgree ==
  ASSUME NEW n \in Nat, NEW p \in Nat, NEW g, NEW h, PowersTo(g, n), PowersTo(h, p),
         NEW i \in Nat, i <= n, i <= p
  PROVE  g[i] = h[i]
  <1> DEFINE T == {k \in Nat : k <= n /\ k <= p /\ g[k] # h[k]}
  <1>1. SUFFICES ASSUME i \in T PROVE FALSE
    OBVIOUS
  <1>2. PICK m \in T : \A k \in T : m <= k
    <2>1. T \in SUBSET Nat
      OBVIOUS
    <2>2. QED
      BY <1>1, <2>1, LeastNatural
  <1>3. m # 0
    BY DEF PowersTo
  <1>4. m \in Nat /\ m - 1 \in Nat /\ ~ (m <= m - 1) /\ m \in 1..n /\ m \in 1..p /\ m - 1 <= n /\ m - 1 <= p
    BY <1>3
  <1>5. g[m - 1] = h[m - 1]
    BY <1>2, <1>4
  <1>6. g[m] = 2 * g[m - 1] /\ h[m] = 2 * h[m - 1]
    BY <1>4 DEF PowersTo
  <1>7. QED
    BY <1>5, <1>6, Zenon

LEMMA PowerRecursion ==
  PowerOfTwo = [k \in Nat |-> IF k = 0 THEN 1 ELSE 2 * PowerOfTwo[k - 1]]
  <1> DEFINE G(n) == CHOOSE g : PowersTo(g, n)
             F == [n \in Nat |-> G(n)[n]]
  <1>1. ASSUME NEW n \in Nat PROVE PowersTo(G(n), n)
    BY PowersExist
  <1>2. ASSUME NEW k \in Nat PROVE F[k] = IF k = 0 THEN 1 ELSE 2 * F[k - 1]
    <2>1. CASE k = 0
      <3>1. G(k)[0] = 1
        BY <1>1 DEF PowersTo
      <3>2. QED
        BY <2>1, <3>1
    <2>2. CASE k # 0
      <3>1. k - 1 \in Nat /\ k - 1 <= k /\ k - 1 <= k - 1 /\ k \in 1..k
        BY <2>2
      <3>2. G(k)[k] = 2 * G(k)[k - 1]
        <4>1. PowersTo(G(k), k)
          BY <1>1
        <4> HIDE DEF G
        <4>2. QED
          BY <4>1, <3>1 DEF PowersTo
      <3>3. G(k)[k - 1] = G(k - 1)[k - 1]
        <4>1. PowersTo(G(k), k) /\ PowersTo(G(k - 1), k - 1)
          BY <1>1, <3>1
        <4> HIDE DEF G
        <4>2. QED
          BY <4>1, <3>1, PowersAgree
      <3>4. F[k] = G(k)[k] /\ F[k - 1] = G(k - 1)[k - 1]
        BY <3>1
      <3>5. F[k] = 2 * F[k - 1]
        <4> HIDE DEF F
        <4>1. QED
          BY <3>2, <3>3, <3>4, Zenon
      <3>6. QED
        <4> HIDE DEF F
        <4>1. QED
          BY <3>5, <2>2, Zenon
    <2>3. QED
      BY <2>1, <2>2
  <1>3. F = [k \in Nat |-> IF k = 0 THEN 1 ELSE 2 * F[k - 1]]
    <2>1. F = [k \in Nat |-> F[k]]
      OBVIOUS
    <2> HIDE DEF F
    <2>2. QED
      BY <2>1, <1>2, Zenon
  <1> HIDE DEF F
  <1>4. QED
    BY <1>3, Zenon DEF PowerOfTwo

\* A power of two is larger than its exponent.
LEMMA PowerGrows == \A k \in Nat : PowerOfTwo[k] \in Nat /\ k < PowerOfTwo[k]
  <1> DEFINE T == {k \in Nat : ~ (PowerOfTwo[k] \in Nat /\ k < PowerOfTwo[k])}
  <1>1. SUFFICES ASSUME NEW n \in T PROVE FALSE
    OBVIOUS
  <1>2. PICK m \in T : \A k \in T : m <= k
    <2>1. T \in SUBSET Nat
      OBVIOUS
    <2>2. QED
      BY <1>1, <2>1, LeastNatural
  <1>3. PowerOfTwo[m] = IF m = 0 THEN 1 ELSE 2 * PowerOfTwo[m - 1]
    <2>1. m \in Nat
      OBVIOUS
    <2>2. QED
      BY <2>1, PowerRecursion, Zenon
  <1>4. CASE m = 0
    BY <1>3, <1>4
  <1>5. CASE m # 0
    <2>1. m \in Nat /\ m - 1 \in Nat /\ ~ (m <= m - 1)
      BY <1>5
    <2>2. PowerOfTwo[m - 1] \in Nat /\ m - 1 < PowerOfTwo[m - 1]
      BY <2>1, <1>2
    <2>3. QED
      BY <2>1, <2>2, <1>3, <1>5
  <1>6. QED
    BY <1>4, <1>5

LEMMA RoundUpBounds ==
  ASSUME NEW n \in Nat
  PROVE  RoundUpToPowerOfTwo(n) \in Nat /\ n <= RoundUpToPowerOfTwo(n)
  <1> DEFINE powers == {PowerOfTwo[k] : k \in 0..n}
             T == {p \in powers : n <= p}
  <1>1. powers \subseteq Nat
    BY PowerGrows
  <1>2. PowerOfTwo[n] \in T
    <2>1. n < PowerOfTwo[n] /\ PowerOfTwo[n] \in Nat /\ n \in 0..n
      BY PowerGrows
    <2>2. QED
      BY <2>1
  <1>3. PICK m \in T : \A k \in T : m <= k
    <2>1. T \in SUBSET Nat
      BY <1>1
    <2>2. QED
      BY <1>2, <2>1, LeastNatural
  <1>4. \E p \in powers : n <= p /\ \A q \in powers : n <= q => p <= q
    BY <1>3
  <1>5. RoundUpToPowerOfTwo(n) \in powers /\ n <= RoundUpToPowerOfTwo(n)
    <2>1. RoundUpToPowerOfTwo(n) = CHOOSE p \in powers : n <= p /\ \A q \in powers : n <= q => p <= q
      BY DEF RoundUpToPowerOfTwo
    <2> HIDE DEF powers
    <2>2. QED
      BY <1>4, <2>1, Zenon
  <1>6. QED
    BY <1>1, <1>5

\* A set of naturals with a member and a bound has a newest member.
LEMMA NewestIs ==
  ASSUME NEW S \in SUBSET Nat, NEW s \in S, NEW b \in Nat, \A x \in S : x <= b
  PROVE  Newest(S) \in S /\ \A x \in S : x <= Newest(S)
  <1> DEFINE T == {c \in Nat : \A x \in S : x <= c}
  <1>1. PICK m \in T : \A c \in T : m <= c
    <2>1. T \in SUBSET Nat /\ b \in T
      OBVIOUS
    <2>2. QED
      BY <2>1, LeastNatural
  <1>2. m \in S
    <2>1. SUFFICES ASSUME m \notin S PROVE FALSE
      OBVIOUS
    <2>2. \A x \in S : x \in Nat /\ x < m
      BY <2>1
    <2>3. m - 1 \in Nat
      BY <2>2
    <2>4. m - 1 \in T
      BY <2>2, <2>3
    <2>5. QED
      BY <2>4, <1>1
  <1>3. QED
    BY <1>1, <1>2 DEF Newest

\* Finitely many naturals have a bound.
LEMMA Bounded ==
  ASSUME NEW n \in Nat, NEW f \in [1..n -> Nat]
  PROVE  \E b \in Nat : \A k \in 1..n : f[k] <= b
  <1> DEFINE T == {j \in Nat : j <= n /\ ~ \E b \in Nat : \A k \in 1..j : f[k] <= b}
  <1>1. SUFFICES ASSUME n \in T PROVE FALSE
    OBVIOUS
  <1>2. PICK m \in T : \A k \in T : m <= k
    <2>1. T \in SUBSET Nat
      OBVIOUS
    <2>2. QED
      BY <1>1, <2>1, LeastNatural
  <1>3. m # 0
    <2>1. 0 \in Nat /\ \A k \in 1..0 : f[k] <= 0
      OBVIOUS
    <2>2. QED
      BY <2>1
  <1>4. m \in Nat /\ m - 1 \in Nat /\ ~ (m <= m - 1) /\ m <= n /\ m \in 1..n /\ m - 1 <= n
    BY <1>3
  <1>5. PICK b \in Nat : \A k \in 1..(m - 1) : f[k] <= b
    BY <1>2, <1>4
  <1>6. ASSUME NEW k \in 1..m PROVE f[k] <= b + f[m]
    <2>1. f[m] \in Nat /\ f[k] \in Nat
      BY <1>4
    <2>2. CASE k = m
      BY <2>1, <2>2
    <2>3. CASE k # m
      <3>1. k \in 1..(m - 1)
        BY <2>3, <1>4
      <3>2. f[k] <= b
        BY <3>1, <1>5
      <3>3. QED
        BY <3>2, <2>1
    <2>4. QED
      BY <2>2, <2>3
  <1>7. b + f[m] \in Nat
    BY <1>4
  <1>8. QED
    BY <1>6, <1>7

-----------------------------------------------------------------------------
Buffers == UNION {[0..(n - 1) -> Nat] : n \in Nat}
Rings == [buffer : Buffers, start : Int, end : Int, maximumSize : Nat, window : BOOLEAN, lastDiscarded : Nat]

\* The indices of an empty ring are -1, those of any other ring are positions of its buffer.
Indexed(r) ==
  \/ r.start = -1 /\ r.end = -1
  \/ r.start \in 0..(Size(r) - 1) /\ r.end \in 0..(Size(r) - 1)

\* The buffer is no larger than the setting; only autoresize makes it smaller, and never empty.
Sized(r) ==
  /\ Size(r) <= r.maximumSize
  /\ Size(r) = 0 => r.maximumSize = 0
  /\ r.window \/ Size(r) = r.maximumSize

LEMMA SizeOf ==
  ASSUME NEW r, NEW n \in Nat, DOMAIN r.buffer = 0..(n - 1)
  PROVE  Size(r) = n
  <1>1. 0 \in Int /\ n - 1 \in Int
    OBVIOUS
  <1>2. Cardinality(0..(n - 1)) = IF 0 > n - 1 THEN 0 ELSE (n - 1) - 0 + 1
    BY <1>1, FS_Interval, Zenon
  <1>3. QED
    BY <1>2 DEF Size

LEMMA SizeType ==
  ASSUME NEW r \in Rings
  PROVE  Size(r) \in Nat /\ r.buffer \in [0..(Size(r) - 1) -> Nat]
  <1>1. PICK n \in Nat : r.buffer \in [0..(n - 1) -> Nat]
    BY DEF Rings, Buffers
  <1>2. DOMAIN r.buffer = 0..(n - 1)
    BY <1>1
  <1>3. Size(r) = n
    BY <1>2, SizeOf
  <1>4. QED
    BY <1>1, <1>3

LEMMA InBuffers ==
  ASSUME NEW n \in Nat, NEW f \in [0..(n - 1) -> Nat]
  PROVE  f \in Buffers
  BY DEF Buffers

LEMMA LengthBounds ==
  ASSUME NEW r \in Rings, Indexed(r)
  PROVE  /\ length(r) \in Nat /\ length(r) <= Size(r)
         /\ length(r) = 0 <=> r.start = -1
         /\ r.start # -1 => (r.start = r.end <=> length(r) = Size(r))
  <1>1. Size(r) \in Nat /\ r.start \in Int /\ r.end \in Int
    BY SizeType DEF Rings
  <1>2. CASE r.start = -1
    BY <1>1, <1>2 DEF length
  <1>3. CASE r.start # -1
    <2>1. r.start \in 0..(Size(r) - 1) /\ r.end \in 0..(Size(r) - 1)
      BY <1>3 DEF Indexed
    <2>2. CASE r.start < r.end
      <3>1. length(r) = r.end - r.start
        BY <1>1, <1>3, <2>2 DEF length
      <3>2. QED
        BY <1>1, <1>3, <2>1, <2>2, <3>1
    <2>3. CASE ~ (r.start < r.end)
      <3>1. length(r) = Size(r) - (r.start - r.end)
        BY <1>1, <1>3, <2>3 DEF length
      <3>2. QED
        BY <1>1, <1>3, <2>1, <2>3, <3>1
    <2>4. QED
      BY <2>2, <2>3
  <1>4. QED
    BY <1>2, <1>3

LEMMA Modulo ==
  ASSUME NEW n \in Nat, NEW x \in 0..(n - 1)
  PROVE  x % n = x /\ (x + n) % n = x
  BY SMTT(30)

LEMMA PositionIs ==
  ASSUME NEW r \in Rings, Indexed(r), r.start # -1, NEW k \in 1..Size(r)
  PROVE  /\ Position(r, k) \in 0..(Size(r) - 1)
         /\ Position(r, k) = IF r.start + k - 1 < Size(r) THEN r.start + k - 1 ELSE r.start + k - 1 - Size(r)
         /\ k = length(r) + 1 => Position(r, k) = r.end
  <1>1. Size(r) \in Nat /\ r.start \in Int /\ r.end \in Int /\ k \in Int
    BY SizeType DEF Rings
  <1>2. r.start \in 0..(Size(r) - 1) /\ r.end \in 0..(Size(r) - 1)
    BY DEF Indexed
  <1>3. Position(r, k) = IF r.start + k - 1 < Size(r) THEN r.start + k - 1 ELSE r.start + k - 1 - Size(r)
    <2>1. CASE r.start + k - 1 < Size(r)
      <3>1. r.start + k - 1 \in 0..(Size(r) - 1)
        BY <1>1, <1>2, <2>1
      <3>2. QED
        BY <3>1, <2>1, <1>1, Modulo DEF Position
    <2>2. CASE ~ (r.start + k - 1 < Size(r))
      <3> DEFINE x == r.start + k - 1 - Size(r)
      <3>1. x \in 0..(Size(r) - 1)
        BY <1>1, <1>2, <2>2
      <3>2. x + Size(r) = r.start + k - 1
        BY <1>1
      <3>3. (x + Size(r)) % Size(r) = x
        <4> HIDE DEF x
        <4>1. QED
          BY <3>1, <1>1, Modulo
      <3>4. Position(r, k) = x
        BY <3>2, <3>3 DEF Position
      <3>5. QED
        BY <3>4, <2>2
    <2>3. QED
      BY <2>1, <2>2
  <1>4. Position(r, k) \in 0..(Size(r) - 1)
    BY <1>1, <1>2, <1>3
  <1>5. ASSUME k = length(r) + 1 PROVE Position(r, k) = r.end
    <2>1. length(r) = IF r.start < r.end THEN r.end - r.start ELSE Size(r) - (r.start - r.end)
      BY <1>1, <1>2 DEF length
    <2>2. QED
      BY <1>1, <1>2, <1>3, <1>5, <2>1
  <1>6. QED
    BY <1>3, <1>4, <1>5

LEMMA CellIs ==
  ASSUME NEW r \in Rings, Indexed(r), NEW k \in 1..length(r)
  PROVE  /\ r.start # -1
         /\ Position(r, k) \in 0..(Size(r) - 1)
         /\ Cells(r)[k] = r.buffer[Position(r, k)]
         /\ Cells(r)[k] \in Nat
  <1>1. Size(r) \in Nat /\ r.buffer \in [0..(Size(r) - 1) -> Nat]
    BY SizeType
  <1>2. length(r) \in Nat /\ length(r) <= Size(r) /\ r.start # -1 /\ k \in 1..Size(r)
    BY LengthBounds, <1>1
  <1>3. Position(r, k) \in 0..(Size(r) - 1)
    BY <1>2, PositionIs
  <1>4. Cells(r)[k] = r.buffer[Position(r, k)]
    BY DEF Cells
  <1>5. QED
    BY <1>1, <1>2, <1>3, <1>4

\* What resize leaves: the latest n cells, in their order.
KeepsLatest(r, s, n) ==
  length(s) = n /\ \A k \in 1..n : Cells(s)[k] = Cells(r)[length(r) - n + k]

\* A ring that starts at 0 has its cells in order.
LEMMA FromZero ==
  ASSUME NEW r \in Rings, NEW n \in Nat, 0 < n, n <= Size(r), r.start = 0, r.end = n % Size(r)
  PROVE  /\ Indexed(r) /\ length(r) = n
         /\ \A k \in 1..n : Cells(r)[k] = r.buffer[k - 1]
  <1>1. Size(r) \in Nat
    BY SizeType
  <1>2. r.end = IF n = Size(r) THEN 0 ELSE n
    <2>1. CASE n = Size(r)
      <3>1. 0 \in 0..(n - 1) /\ 0 + n = n
        OBVIOUS
      <3>2. (0 + n) % n = 0
        BY <3>1, Modulo
      <3>3. QED
        BY <2>1, <3>1, <3>2
    <2>2. CASE n # Size(r)
      <3>1. n \in 0..(Size(r) - 1)
        BY <2>2, <1>1
      <3>2. n % Size(r) = n
        BY <3>1, <1>1, Modulo
      <3>3. QED
        BY <2>2, <3>2
    <2>3. QED
      BY <2>1, <2>2
  <1>3. r.end \in 0..(Size(r) - 1) /\ 0 \in 0..(Size(r) - 1)
    BY <1>1, <1>2
  <1>4. Indexed(r)
    BY <1>3 DEF Indexed
  <1>5. length(r) = n
    BY <1>1, <1>2 DEF length
  <1>6. ASSUME NEW k \in 1..n PROVE Cells(r)[k] = r.buffer[k - 1]
    <2>1. k \in 1..Size(r) /\ r.start + k - 1 = k - 1 /\ k - 1 < Size(r) /\ r.start # -1
      BY <1>1
    <2>2. Position(r, k) = IF r.start + k - 1 < Size(r) THEN r.start + k - 1 ELSE r.start + k - 1 - Size(r)
      BY <2>1, <1>4, PositionIs
    <2>3. Position(r, k) = k - 1
      BY <2>1, <2>2
    <2>4. k \in 1..length(r)
      BY <1>5
    <2>5. QED
      BY <2>3, <2>4, <1>4, CellIs
  <1>7. QED
    BY <1>4, <1>5, <1>6

\* The updates of a ring, as one.
Updated(r, b, i, e, d, s) ==
  \/ s = [r EXCEPT !.buffer = b, !.start = i, !.end = e, !.lastDiscarded = d]
  \/ s = [r EXCEPT !.buffer = b, !.end = e, !.start = i, !.lastDiscarded = d]
  \/ s = [r EXCEPT !.buffer = b, !.start = i, !.end = e] /\ d = r.lastDiscarded
  \/ s = [r EXCEPT !.buffer = b, !.end = e] /\ i = r.start /\ d = r.lastDiscarded
  \/ s = [r EXCEPT !.buffer = b] /\ i = r.start /\ e = r.end /\ d = r.lastDiscarded

LEMMA RingUpdates ==
  ASSUME NEW r \in Rings, NEW b \in Buffers, NEW i \in Int, NEW e \in Int, NEW d \in Nat, NEW s,
         Updated(r, b, i, e, d, s)
  PROVE  /\ s \in Rings /\ s.buffer = b /\ s.start = i /\ s.end = e
         /\ s.maximumSize = r.maximumSize /\ s.window = r.window /\ s.lastDiscarded = d
  <1>1. s = [buffer |-> b, start |-> i, end |-> e, maximumSize |-> r.maximumSize,
             window |-> r.window, lastDiscarded |-> d]
    <2>1. r = [buffer |-> r.buffer, start |-> r.start, end |-> r.end, maximumSize |-> r.maximumSize,
               window |-> r.window, lastDiscarded |-> r.lastDiscarded]
      BY DEF Rings
    <2>2. QED
      BY <2>1 DEF Updated
  <1>2. r.maximumSize \in Nat /\ r.window \in BOOLEAN
    BY DEF Rings
  <1>3. QED
    BY <1>1, <1>2 DEF Rings

\* resize keeps the latest entries that fit, and knows the latest it dropped, unless the
\* history is switched off.
LEMMA ResizeKeeps ==
  ASSUME NEW r \in Rings, Indexed(r), NEW size \in Nat, NEW s, s = resize(r, size)
  PROVE  /\ s \in Rings /\ Indexed(s) /\ Size(s) = size
         /\ s.maximumSize = r.maximumSize /\ s.window = r.window
         /\ KeepsLatest(r, s, IF size < length(r) THEN size ELSE length(r))
         /\ r.lastDiscarded <= s.lastDiscarded
         /\ size # 0 => \A k \in 1..(length(r) - length(s)) : Cells(r)[k] <= s.lastDiscarded
  <1> DEFINE n == IF size < length(r) THEN size ELSE length(r)
             blank == [p \in 0..(size - 1) |-> Blank]
             moved == [p \in 0..(size - 1) |->
                         IF p < n THEN r.buffer[Position(r, length(r) - n + p + 1)] ELSE Blank]
             dropped == {r.buffer[Position(r, k)] : k \in 1..(length(r) - n)}
  <1>1. /\ length(r) \in Nat /\ length(r) <= Size(r) /\ Size(r) \in Nat
        /\ length(r) = 0 <=> r.start = -1
    BY LengthBounds, SizeType
  <1>2. blank \in [0..(size - 1) -> Nat]
    BY DEF Blank
  <1>3. blank \in Buffers
    BY <1>2, InBuffers
  <1>4. r.lastDiscarded \in Nat
    BY DEF Rings
  <1>5. CASE r.start = -1
    <2>1. s = [r EXCEPT !.buffer = blank]
      BY <1>5 DEF resize
    <2> HIDE DEF blank
    <2>2. /\ s \in Rings /\ s.buffer = blank /\ s.start = r.start /\ s.end = r.end
          /\ s.maximumSize = r.maximumSize /\ s.window = r.window /\ s.lastDiscarded = r.lastDiscarded
      BY <2>1, <1>3 DEF Rings
    <2>3. Size(s) = size
      BY <2>2, <1>2, SizeOf
    <2>4. Indexed(s) /\ length(s) = 0
      BY <2>2, <1>5 DEF Indexed, length
    <2>5. length(r) = 0 /\ n = 0
      BY <1>1, <1>5
    <2>6. KeepsLatest(r, s, n)
      BY <2>4, <2>5 DEF KeepsLatest
    <2>7. QED
      BY <2>2, <2>3, <2>4, <2>5, <2>6, <1>4
  <1>6. CASE r.start # -1 /\ size = 0
    <2>1. s = [r EXCEPT !.buffer = blank, !.start = -1, !.end = -1]
      BY <1>6 DEF resize
    <2> HIDE DEF blank
    <2>2. /\ s \in Rings /\ s.buffer = blank /\ s.start = -1 /\ s.end = -1
          /\ s.maximumSize = r.maximumSize /\ s.window = r.window /\ s.lastDiscarded = r.lastDiscarded
      <3>1. -1 \in Int
        OBVIOUS
      <3>2. Updated(r, blank, -1, -1, r.lastDiscarded, s)
        BY <2>1, Zenon DEF Updated
      <3>3. QED
        BY <3>1, <3>2, <1>3, <1>4, RingUpdates
    <2>3. Size(s) = size
      BY <2>2, <1>2, SizeOf
    <2>4. Indexed(s) /\ length(s) = 0
      BY <2>2 DEF Indexed, length
    <2>5. n = 0
      BY <1>1, <1>6
    <2>6. KeepsLatest(r, s, n)
      BY <2>4, <2>5 DEF KeepsLatest
    <2>7. QED
      BY <2>2, <2>3, <2>4, <2>6, <1>4, <1>6
  <1>7. CASE r.start # -1 /\ size # 0
    <2>1. n \in Nat /\ 0 < n /\ n <= size /\ n <= length(r) /\ size > 0
      BY <1>1, <1>7
    <2>2. \A k \in 1..length(r) : Cells(r)[k] = r.buffer[Position(r, k)] /\ Cells(r)[k] \in Nat
      BY CellIs
    <2>3. \A p \in 0..(size - 1) : p < n =>
            /\ length(r) - n + p + 1 \in 1..length(r)
            /\ moved[p] = r.buffer[Position(r, length(r) - n + p + 1)]
      BY <2>1, <1>1
    <2>4. moved \in [0..(size - 1) -> Nat]
      <3>1. \A p \in 0..(size - 1) : moved[p] \in Nat
        BY <2>2, <2>3 DEF Blank
      <3>2. QED
        BY <3>1
    <2>5. moved \in Buffers
      <3> HIDE DEF moved
      <3>1. QED
        BY <2>4, InBuffers
    <2>6. dropped = {Cells(r)[k] : k \in 1..(length(r) - n)}
      BY <2>1, <2>2, <1>1
    <2> DEFINE known == Newest({r.lastDiscarded} \cup dropped)
    <2>7. known \in Nat /\ \A x \in {r.lastDiscarded} \cup dropped : x <= known
      <3>1. {r.lastDiscarded} \cup dropped \in SUBSET Nat
        BY <2>1, <2>2, <2>6, <1>1, <1>4
      <3> DEFINE f == [k \in 1..(length(r) - n) |-> Cells(r)[k]]
      <3>2. length(r) - n \in Nat /\ f \in [1..(length(r) - n) -> Nat]
        BY <2>1, <2>2, <1>1
      <3>3. PICK b \in Nat : \A k \in 1..(length(r) - n) : f[k] <= b
        <4> HIDE DEF f, n
        <4>1. QED
          BY <3>2, Bounded
      <3>4. \A x \in {r.lastDiscarded} \cup dropped : x <= b + r.lastDiscarded
        <4>1. \A k \in 1..(length(r) - n) : f[k] \in Nat /\ Cells(r)[k] <= b
          BY <3>2, <3>3
        <4>2. ASSUME NEW x \in dropped PROVE x <= b + r.lastDiscarded
          <5>1. PICK k \in 1..(length(r) - n) : x = Cells(r)[k]
            <6> HIDE DEF n, dropped
            <6>1. QED
              BY <2>6
          <5>2. f[k] = Cells(r)[k]
            OBVIOUS
          <5> HIDE DEF n, f, dropped
          <5>3. QED
            BY <4>1, <5>1, <5>2, <1>4
        <4>3. r.lastDiscarded <= b + r.lastDiscarded
          BY <1>4
        <4> HIDE DEF dropped
        <4>4. QED
          BY <4>2, <4>3
      <3>5. b + r.lastDiscarded \in Nat /\ r.lastDiscarded \in {r.lastDiscarded} \cup dropped
        BY <1>4
      <3> HIDE DEF dropped, f
      <3>6. known \in {r.lastDiscarded} \cup dropped /\ \A x \in {r.lastDiscarded} \cup dropped : x <= known
        BY <3>1, <3>4, <3>5, NewestIs
      <3>7. QED
        BY <3>6, <3>1
    <2>8. s = [r EXCEPT !.buffer = moved, !.start = 0, !.end = n % size, !.lastDiscarded = known]
      BY <1>7, <2>1 DEF resize
    <2>9. n % size \in Int
      BY <2>1
    <2> HIDE DEF moved, known, n, dropped
    <2>10. /\ s \in Rings /\ s.buffer = moved /\ s.start = 0 /\ s.end = n % size
           /\ s.maximumSize = r.maximumSize /\ s.window = r.window /\ s.lastDiscarded = known
      <3>1. 0 \in Int
        OBVIOUS
      <3>2. Updated(r, moved, 0, n % size, known, s)
        BY <2>8, Zenon DEF Updated
      <3>3. QED
        BY <2>5, <2>7, <2>9, <3>1, <3>2, RingUpdates
    <2>11. Size(s) = size
      BY <2>4, <2>10, SizeOf
    <2>12. Indexed(s) /\ length(s) = n /\ \A k \in 1..n : Cells(s)[k] = s.buffer[k - 1]
      BY <2>1, <2>10, <2>11, FromZero
    <2>13. ASSUME NEW k \in 1..n PROVE Cells(s)[k] = Cells(r)[length(r) - n + k]
      <3>1. k - 1 \in 0..(size - 1) /\ k - 1 < n /\ length(r) - n + (k - 1) + 1 = length(r) - n + k
        BY <2>1, <1>1
      <3>2. Cells(s)[k] = r.buffer[Position(r, length(r) - n + k)] /\ length(r) - n + k \in 1..length(r)
        BY <2>3, <2>10, <2>12, <3>1
      <3>3. QED
        BY <2>2, <3>2
    <2>14. KeepsLatest(r, s, n)
      BY <2>12, <2>13 DEF KeepsLatest
    <2>15. \A k \in 1..(length(r) - length(s)) : Cells(r)[k] <= s.lastDiscarded
      BY <2>6, <2>7, <2>10, <2>12
    <2>16. r.lastDiscarded <= s.lastDiscarded
      BY <2>7, <2>10
    <2>17. QED
      BY <2>10, <2>11, <2>12, <2>14, <2>15, <2>16 DEF n
  <1>8. QED
    BY <1>5, <1>6, <1>7

\* maybeExpand keeps every cell, and leaves room unless the oldest may be overwritten.
LEMMA ExpandKeeps ==
  ASSUME NEW r \in Rings, Indexed(r), Sized(r), Size(r) # 0, windowed \in Nat, NEW s, s = maybeExpand(r)
  PROVE  /\ s \in Rings /\ Indexed(s) /\ Sized(s) /\ Size(s) # 0
         /\ s.maximumSize = r.maximumSize /\ s.window = r.window
         /\ KeepsLatest(r, s, length(r))
         /\ r.lastDiscarded <= s.lastDiscarded
         /\ \/ length(s) < Size(s)
            \/ /\ length(s) = Size(s)
               /\ Size(s) = s.maximumSize \/ (s.window /\ Cells(s)[1] <= windowed)
  <1>1. /\ length(r) \in Nat /\ length(r) <= Size(r) /\ Size(r) \in Nat
        /\ r.maximumSize \in Nat /\ r.lastDiscarded \in Nat /\ r.window \in BOOLEAN
    BY LengthBounds, SizeType DEF Rings
  <1> DEFINE new == RoundUpToPowerOfTwo(length(r) + 1)
             kept == ~r.window \/ length(r) < Size(r) \/ Size(r) = r.maximumSize \/ r.buffer[r.start] <= windowed
  <1>2. CASE kept
    <2>1. s = r
      BY <1>2 DEF maybeExpand
    <2>2. KeepsLatest(r, r, length(r))
      BY <1>1 DEF KeepsLatest
    <2>3. ASSUME ~ (length(r) < Size(r))
          PROVE  length(r) = Size(r) /\ (Size(r) = r.maximumSize \/ (r.window /\ Cells(r)[1] <= windowed))
      <3>1. length(r) = Size(r) /\ 1 \in 1..length(r) /\ 1 \in 1..Size(r)
        BY <1>1, <2>3
      <3>2. r.start # -1 /\ Cells(r)[1] = r.buffer[Position(r, 1)]
        BY <3>1, CellIs
      <3>3. Position(r, 1) = IF r.start + 1 - 1 < Size(r) THEN r.start + 1 - 1 ELSE r.start + 1 - 1 - Size(r)
        BY <3>1, <3>2, PositionIs
      <3>4. r.start \in Int /\ r.start < Size(r)
        BY <3>2, <1>1 DEF Indexed
      <3>5. Position(r, 1) = r.start
        BY <3>3, <3>4, <1>1
      <3>6. Cells(r)[1] <= windowed \/ ~r.window \/ Size(r) = r.maximumSize
        BY <1>2, <2>3, <3>2, <3>5
      <3>7. QED
        BY <3>1, <3>6 DEF Sized
    <2>4. r.lastDiscarded <= r.lastDiscarded
      BY <1>1
    <2>5. QED
      BY <2>1, <2>2, <2>3, <2>4
  <1>3. CASE ~kept
    <2> DEFINE size == IF r.maximumSize < new THEN r.maximumSize ELSE new
    <2>1. s = resize(r, size)
      BY <1>3 DEF maybeExpand
    <2>2. new \in Nat /\ length(r) + 1 <= new
      <3>1. length(r) + 1 \in Nat
        BY <1>1
      <3>2. QED
        BY <3>1, RoundUpBounds
    <2>3. r.window /\ length(r) = Size(r) /\ Size(r) < r.maximumSize
      BY <1>1, <1>3 DEF Sized
    <2> HIDE DEF new
    <2>4. size \in Nat /\ length(r) < size /\ size <= r.maximumSize
      BY <1>1, <2>2, <2>3
    <2> HIDE DEF size
    <2>5. /\ s \in Rings /\ Indexed(s) /\ Size(s) = size
          /\ s.maximumSize = r.maximumSize /\ s.window = r.window
          /\ KeepsLatest(r, s, IF size < length(r) THEN size ELSE length(r))
          /\ r.lastDiscarded <= s.lastDiscarded
      BY <2>1, <2>4, ResizeKeeps
    <2>6. (IF size < length(r) THEN size ELSE length(r)) = length(r)
      BY <2>4, <1>1
    <2>7. KeepsLatest(r, s, length(r))
      BY <2>5, <2>6, Zenon
    <2>8. length(s) = length(r)
      BY <2>7 DEF KeepsLatest
    <2>9. Sized(s) /\ Size(s) # 0
      BY <1>1, <2>3, <2>4, <2>5 DEF Sized
    <2>10. length(s) < Size(s)
      BY <2>4, <2>5, <2>8
    <2>11. QED
      BY <2>5, <2>7, <2>9, <2>10
  <1>4. QED
    BY <1>2, <1>3

\* One more cell, which holds the item.
Grown(r, s, item) ==
  /\ length(s) = length(r) + 1 /\ length(s) <= s.maximumSize
  /\ \A k \in 1..length(r) : Cells(s)[k] = Cells(r)[k]
  /\ Cells(s)[length(s)] = item

\* The item instead of the oldest cell, which is known to be dropped.
Turned(r, s, item) ==
  /\ length(s) = length(r) /\ 0 < length(r)
  /\ \A k \in 1..(length(r) - 1) : Cells(s)[k] = Cells(r)[k + 1]
  /\ Cells(s)[length(s)] = item
  /\ Cells(r)[1] <= s.lastDiscarded
  /\ length(s) = s.maximumSize \/ (s.window /\ Cells(r)[1] <= windowed)

LEMMA NextPosition ==
  ASSUME NEW n \in Nat, NEW p \in 0..(n - 1)
  PROVE  /\ (p + 1) % n = IF p = n - 1 THEN 0 ELSE p + 1
         /\ (p + 1) % n \in 0..(n - 1)
  <1>1. CASE p = n - 1
    <2>1. p + 1 = 0 + n /\ 0 \in 0..(n - 1)
      BY <1>1
    <2>2. QED
      BY <2>1, <1>1, Modulo
  <1>2. CASE p # n - 1
    <2>1. p + 1 \in 0..(n - 1)
      BY <1>2
    <2>2. QED
      BY <2>1, <1>2, Modulo
  <1>3. QED
    BY <1>1, <1>2

\* An item is put at position p.
Put(r, p, item, i, e, d, s) == Updated(r, [r.buffer EXCEPT ![p] = item], i, e, d, s)
Placed(r, p, item, s) == \A q \in 0..(Size(r) - 1) : s.buffer[q] = IF q = p THEN item ELSE r.buffer[q]

LEMMA PutFields ==
  ASSUME NEW r \in Rings, Sized(r), NEW p \in 0..(Size(r) - 1), NEW item \in Nat,
         NEW i \in Int, NEW e \in Int, NEW d \in Nat, NEW s, Put(r, p, item, i, e, d, s)
  PROVE  /\ s \in Rings /\ s.start = i /\ s.end = e /\ s.lastDiscarded = d
         /\ s.maximumSize = r.maximumSize /\ s.window = r.window
         /\ Size(s) = Size(r) /\ Sized(s) /\ Placed(r, p, item, s)
  <1> DEFINE b == [r.buffer EXCEPT ![p] = item]
  <1>1. Size(r) \in Nat /\ r.buffer \in [0..(Size(r) - 1) -> Nat]
    BY SizeType
  <1>2. b \in [0..(Size(r) - 1) -> Nat] /\ \A q \in 0..(Size(r) - 1) : b[q] = IF q = p THEN item ELSE r.buffer[q]
    BY <1>1
  <1>3. Updated(r, b, i, e, d, s)
    BY DEF Put
  <1> HIDE DEF b
  <1>4. b \in Buffers
    BY <1>1, <1>2, InBuffers
  <1>5. /\ s \in Rings /\ s.buffer = b /\ s.start = i /\ s.end = e
        /\ s.maximumSize = r.maximumSize /\ s.window = r.window /\ s.lastDiscarded = d
    BY <1>3, <1>4, RingUpdates
  <1>6. Size(s) = Size(r)
    <2>1. DOMAIN s.buffer = 0..(Size(r) - 1)
      BY <1>2, <1>5
    <2>2. QED
      BY <1>1, <2>1, SizeOf
  <1>7. Sized(s)
    BY <1>5, <1>6 DEF Sized
  <1>8. QED
    BY <1>2, <1>5, <1>6, <1>7 DEF Placed

\* The numbers of a ring.
LEMMA RingNumbers ==
  ASSUME NEW r \in Rings, Indexed(r)
  PROVE  /\ length(r) \in Nat /\ length(r) <= Size(r) /\ Size(r) \in Nat
         /\ r.maximumSize \in Nat /\ r.lastDiscarded \in Nat /\ r.start \in Int /\ r.end \in Int
         /\ length(r) = 0 <=> r.start = -1
         /\ r.start # -1 => (r.start = r.end <=> length(r) = Size(r))
         /\ r.start # -1 => /\ r.start \in 0..(Size(r) - 1) /\ r.end \in 0..(Size(r) - 1)
                            /\ length(r) = IF r.start < r.end THEN r.end - r.start ELSE Size(r) - (r.start - r.end)
  <1>1. /\ r.maximumSize \in Nat /\ r.lastDiscarded \in Nat /\ r.start \in Int /\ r.end \in Int
    BY DEF Rings
  <1>2. r.start # -1 => /\ r.start \in 0..(Size(r) - 1) /\ r.end \in 0..(Size(r) - 1)
    BY DEF Indexed
  <1>3. r.start # -1 => length(r) = IF r.start < r.end THEN r.end - r.start ELSE Size(r) - (r.start - r.end)
    BY <1>1 DEF length
  <1>4. QED
    BY <1>1, <1>2, <1>3, LengthBounds, SizeType

\* Add to an empty ring.
LEMMA PutFirst ==
  ASSUME NEW r \in Rings, Indexed(r), Sized(r), Size(r) # 0, NEW item \in Nat, NEW s,
         r.start = -1, Put(r, 0, item, 0, 1 % Size(r), r.lastDiscarded, s)
  PROVE  /\ s \in Rings /\ Indexed(s) /\ Sized(s)
         /\ s.maximumSize = r.maximumSize /\ s.window = r.window /\ s.lastDiscarded = r.lastDiscarded
         /\ Grown(r, s, item)
  <1>1. Size(r) \in Nat /\ 0 \in 0..(Size(r) - 1) /\ 1 <= Size(r) /\ length(r) = 0 /\ r.lastDiscarded \in Nat
    BY RingNumbers
  <1>2. PICK e \in Int : e = 1 % Size(r)
    <2>1. (0 + 1) % Size(r) \in 0..(Size(r) - 1) /\ 0 + 1 = 1
      BY <1>1, NextPosition
    <2>2. QED
      BY <2>1
  <1>3. /\ s \in Rings /\ s.start = 0 /\ s.end = e /\ s.lastDiscarded = r.lastDiscarded
        /\ s.maximumSize = r.maximumSize /\ s.window = r.window
        /\ Size(s) = Size(r) /\ Sized(s) /\ Placed(r, 0, item, s)
    <2>1. Put(r, 0, item, 0, e, r.lastDiscarded, s) /\ 0 \in Int
      BY <1>2
    <2>2. QED
      BY <1>1, <2>1, PutFields
  <1>4. s.end = 1 % Size(s)
    BY <1>2, <1>3, Zenon
  <1>5. 1 \in Nat /\ 0 < 1 /\ 1 <= Size(s)
    BY <1>1, <1>3
  <1>6. Indexed(s) /\ length(s) = 1 /\ \A k \in 1..1 : Cells(s)[k] = s.buffer[k - 1]
    BY <1>3, <1>4, <1>5, FromZero, Zenon
  <1>7. s.buffer[0] = item
    BY <1>1, <1>3 DEF Placed
  <1>8. Cells(s)[1] = item
    <2>1. 1 \in 1..1 /\ 1 - 1 = 0
      OBVIOUS
    <2>2. Cells(s)[1] = s.buffer[1 - 1]
      BY <1>6, <2>1, Zenon
    <2>3. QED
      BY <1>7, <2>2
  <1>9. Grown(r, s, item)
    <2>1. length(s) = length(r) + 1
      BY <1>1, <1>6
    <2>2. length(s) <= s.maximumSize
      <3>1. Size(s) <= s.maximumSize /\ s.maximumSize \in Nat /\ Size(s) \in Nat
        BY <1>3, SizeType DEF Sized, Rings
      <3>2. QED
        BY <3>1, <1>5, <1>6
    <2>3. \A k \in 1..length(r) : Cells(s)[k] = Cells(r)[k]
      BY <1>1
    <2>4. Cells(s)[length(s)] = item
      BY <1>6, <1>8, Zenon
    <2>5. QED
      BY <2>1, <2>2, <2>3, <2>4, Zenon DEF Grown
  <1>10. QED
    BY <1>3, <1>6, <1>9

\* Add to a ring with room.
LEMMA PutNext ==
  ASSUME NEW r \in Rings, Indexed(r), Sized(r), NEW item \in Nat, NEW s,
         r.start # -1, r.start # r.end, Put(r, r.end, item, r.start, (r.end + 1) % Size(r), r.lastDiscarded, s)
  PROVE  /\ s \in Rings /\ Indexed(s) /\ Sized(s)
         /\ s.maximumSize = r.maximumSize /\ s.window = r.window /\ s.lastDiscarded = r.lastDiscarded
         /\ Grown(r, s, item)
  <1>1. /\ length(r) \in Nat /\ length(r) < Size(r) /\ Size(r) \in Nat
        /\ r.maximumSize \in Nat /\ r.lastDiscarded \in Nat /\ r.start \in Int /\ r.end \in Int
        /\ r.start \in 0..(Size(r) - 1) /\ r.end \in 0..(Size(r) - 1)
        /\ length(r) = IF r.start < r.end THEN r.end - r.start ELSE Size(r) - (r.start - r.end)
    BY RingNumbers
  <1>2. PICK e \in 0..(Size(r) - 1) :
          e = (r.end + 1) % Size(r) /\ e = IF r.end = Size(r) - 1 THEN 0 ELSE r.end + 1
    BY <1>1, NextPosition
  <1>3. Put(r, r.end, item, r.start, e, r.lastDiscarded, s) /\ e \in Int
    BY <1>2
  <1>4. /\ s \in Rings /\ s.start = r.start /\ s.end = e /\ s.lastDiscarded = r.lastDiscarded
        /\ s.maximumSize = r.maximumSize /\ s.window = r.window
        /\ Size(s) = Size(r) /\ Sized(s) /\ Placed(r, r.end, item, s)
    BY <1>1, <1>3, PutFields, Zenon
  <1>5. e = IF r.end = Size(r) - 1 THEN 0 ELSE r.end + 1
    BY <1>2
  <1>6. Indexed(s)
    BY <1>1, <1>4 DEF Indexed
  <1>7. length(s) = IF s.start < s.end THEN s.end - s.start ELSE Size(s) - (s.start - s.end)
    BY <1>4, <1>6, RingNumbers
  <1>8. length(s) = length(r) + 1
    BY <1>1, <1>4, <1>5, <1>7
  <1>9. ASSUME NEW k \in 1..Size(r)
        PROVE  /\ Position(s, k) = Position(r, k) /\ Position(r, k) \in 0..(Size(r) - 1)
               /\ k = length(r) + 1 => Position(r, k) = r.end
               /\ k <= length(r) => Position(r, k) # r.end
    <2>1. Position(s, k) = Position(r, k)
      BY <1>4, Zenon DEF Position
    <2>2. /\ Position(r, k) \in 0..(Size(r) - 1)
          /\ Position(r, k) = IF r.start + k - 1 < Size(r) THEN r.start + k - 1 ELSE r.start + k - 1 - Size(r)
          /\ k = length(r) + 1 => Position(r, k) = r.end
      BY PositionIs
    <2>3. k <= length(r) => Position(r, k) # r.end
      BY <2>2, <1>1
    <2>4. QED
      BY <2>1, <2>2, <2>3
  <1>10. ASSUME NEW k \in 1..length(r) PROVE Cells(s)[k] = Cells(r)[k]
    <2>1. k \in 1..Size(r) /\ k \in 1..length(s) /\ k <= length(r)
      BY <1>1, <1>8
    <2>2. Cells(s)[k] = s.buffer[Position(s, k)]
      BY <1>4, <1>6, <2>1, CellIs
    <2>3. Cells(r)[k] = r.buffer[Position(r, k)]
      BY CellIs
    <2>4. Position(s, k) = Position(r, k) /\ Position(r, k) \in 0..(Size(r) - 1) /\ Position(r, k) # r.end
      BY <1>9, <2>1
    <2>5. s.buffer[Position(r, k)] = r.buffer[Position(r, k)]
      BY <1>4, <2>4 DEF Placed
    <2>6. QED
      BY <2>2, <2>3, <2>4, <2>5
  <1>11. Cells(s)[length(s)] = item
    <2>1. length(s) \in 1..Size(r) /\ length(s) \in 1..length(s) /\ length(s) = length(r) + 1
      BY <1>1, <1>8
    <2>2. Cells(s)[length(s)] = s.buffer[Position(s, length(s))]
      BY <1>4, <1>6, <2>1, CellIs
    <2>3. Position(s, length(s)) = r.end
      BY <1>9, <2>1
    <2>4. s.buffer[r.end] = item
      BY <1>1, <1>4 DEF Placed
    <2>5. QED
      BY <2>2, <2>3, <2>4
  <1>12. length(s) <= s.maximumSize
    BY <1>1, <1>4, <1>8 DEF Sized
  <1>13. Grown(r, s, item)
    BY <1>8, <1>10, <1>11, <1>12 DEF Grown
  <1>14. QED
    BY <1>4, <1>6, <1>13

\* Add to a full ring: the oldest cell is overwritten.
LEMMA PutOver ==
  ASSUME NEW r \in Rings, Indexed(r), Sized(r), NEW item \in Nat, NEW s, windowed \in Nat,
         r.start # -1, r.start = r.end,
         Size(r) = r.maximumSize \/ (r.window /\ Cells(r)[1] <= windowed),
         Put(r, r.end, item, (r.start + 1) % Size(r), (r.end + 1) % Size(r), Later(r.lastDiscarded, r.buffer[r.end]), s)
  PROVE  /\ s \in Rings /\ Indexed(s) /\ Sized(s)
         /\ s.maximumSize = r.maximumSize /\ s.window = r.window /\ r.lastDiscarded <= s.lastDiscarded
         /\ Turned(r, s, item)
  <1>1. /\ length(r) \in Nat /\ length(r) = Size(r) /\ Size(r) \in Nat /\ 0 < Size(r)
        /\ r.maximumSize \in Nat /\ r.lastDiscarded \in Nat /\ r.start \in Int /\ r.end \in Int
        /\ r.end \in 0..(Size(r) - 1)
    BY RingNumbers
  <1>2. PICK e \in 0..(Size(r) - 1) :
          e = (r.end + 1) % Size(r) /\ e = IF r.end = Size(r) - 1 THEN 0 ELSE r.end + 1
    BY <1>1, NextPosition
  <1>3. PICK d \in Nat : d = Later(r.lastDiscarded, r.buffer[r.end]) /\ r.lastDiscarded <= d /\ r.buffer[r.end] <= d
    <2>1. r.buffer[r.end] \in Nat
      BY <1>1, SizeType
    <2>2. QED
      BY <1>1, <2>1 DEF Later
  <1>4. Put(r, r.end, item, e, e, d, s) /\ e \in Int
    BY <1>2, <1>3
  <1>5. /\ s \in Rings /\ s.start = e /\ s.end = e /\ s.lastDiscarded = d
        /\ s.maximumSize = r.maximumSize /\ s.window = r.window
        /\ Size(s) = Size(r) /\ Sized(s) /\ Placed(r, r.end, item, s)
    BY <1>1, <1>4, PutFields, Zenon
  <1>6. e = IF r.end = Size(r) - 1 THEN 0 ELSE r.end + 1
    BY <1>2
  <1>7. Indexed(s) /\ s.start # -1
    BY <1>1, <1>5 DEF Indexed
  <1>8. length(s) = Size(r)
    BY <1>5, <1>7, RingNumbers
  <1>9. ASSUME NEW k \in 1..(length(r) - 1) PROVE Cells(s)[k] = Cells(r)[k + 1]
    <2>1. k \in 1..Size(s) /\ k + 1 \in 1..Size(r) /\ k \in 1..length(s) /\ k + 1 \in 1..length(r)
      BY <1>1, <1>5, <1>8
    <2>2. Cells(s)[k] = s.buffer[Position(s, k)]
      BY <1>5, <1>7, <2>1, CellIs
    <2>3. Cells(r)[k + 1] = r.buffer[Position(r, k + 1)]
      BY <2>1, CellIs
    <2>4. Position(s, k) = IF s.start + k - 1 < Size(s) THEN s.start + k - 1 ELSE s.start + k - 1 - Size(s)
      BY <1>5, <1>7, <2>1, PositionIs
    <2>5. /\ Position(r, k + 1) = IF r.start + (k + 1) - 1 < Size(r) THEN r.start + (k + 1) - 1 ELSE r.start + (k + 1) - 1 - Size(r)
          /\ Position(r, k + 1) \in 0..(Size(r) - 1)
      BY <2>1, PositionIs
    <2>6. Position(s, k) = Position(r, k + 1) /\ Position(r, k + 1) # r.end
      <3>1. CASE r.end = Size(r) - 1
        BY <1>1, <1>5, <1>6, <2>1, <2>4, <2>5, <3>1
      <3>2. CASE r.end # Size(r) - 1
        BY <1>1, <1>5, <1>6, <2>1, <2>4, <2>5, <3>2
      <3>3. QED
        BY <3>1, <3>2
    <2>7. s.buffer[Position(r, k + 1)] = r.buffer[Position(r, k + 1)]
      BY <1>5, <2>5, <2>6 DEF Placed
    <2>8. QED
      BY <2>2, <2>3, <2>6, <2>7
  <1>10. Cells(s)[length(s)] = item
    <2>1. length(s) \in 1..Size(s) /\ length(s) \in 1..length(s)
      BY <1>1, <1>5, <1>8
    <2>2. Cells(s)[length(s)] = s.buffer[Position(s, length(s))]
      BY <1>5, <1>7, <2>1, CellIs
    <2>3. Position(s, length(s)) = IF s.start + length(s) - 1 < Size(s) THEN s.start + length(s) - 1 ELSE s.start + length(s) - 1 - Size(s)
      BY <1>5, <1>7, <2>1, PositionIs
    <2>4. Position(s, length(s)) = r.end
      BY <1>1, <1>5, <1>6, <1>8, <2>3
    <2>5. s.buffer[r.end] = item
      BY <1>1, <1>5 DEF Placed
    <2>6. QED
      BY <2>2, <2>4, <2>5
  <1>11. Cells(r)[1] = r.buffer[r.end]
    <2>1. 1 \in 1..length(r) /\ 1 \in 1..Size(r)
      BY <1>1
    <2>2. Position(r, 1) = IF r.start + 1 - 1 < Size(r) THEN r.start + 1 - 1 ELSE r.start + 1 - 1 - Size(r)
      BY <2>1, PositionIs
    <2>3. Position(r, 1) = r.end
      BY <1>1, <2>2
    <2>4. QED
      BY <2>1, <2>3, CellIs
  <1>12. Turned(r, s, item)
    BY <1>1, <1>3, <1>5, <1>8, <1>9, <1>10, <1>11 DEF Turned
  <1>13. QED
    BY <1>3, <1>5, <1>7, <1>12

\* Add, with the room that maybeExpand made.
LEMMA AddKeeps ==
  ASSUME NEW r \in Rings, Indexed(r), Sized(r), Size(r) # 0, windowed \in Nat, NEW item \in Nat, NEW s, s = Add(r, item)
  PROVE  /\ s \in Rings /\ Indexed(s) /\ Sized(s)
         /\ s.maximumSize = r.maximumSize /\ s.window = r.window /\ r.lastDiscarded <= s.lastDiscarded
         /\ Grown(r, s, item) \/ Turned(r, s, item)
  <1>1. PICK t : t = maybeExpand(r)
    OBVIOUS
  <1>2. /\ t \in Rings /\ Indexed(t) /\ Sized(t) /\ Size(t) # 0
        /\ t.maximumSize = r.maximumSize /\ t.window = r.window
        /\ KeepsLatest(r, t, length(r))
        /\ r.lastDiscarded <= t.lastDiscarded
    BY <1>1, ExpandKeeps
  <1>3. \/ length(t) < Size(t)
        \/ /\ length(t) = Size(t)
           /\ Size(t) = t.maximumSize \/ (t.window /\ Cells(t)[1] <= windowed)
    BY <1>1, ExpandKeeps
  <1>4. /\ length(t) = length(r) /\ length(r) \in Nat
        /\ \A k \in 1..length(r) : Cells(t)[k] = Cells(r)[k]
    <2>1. length(r) \in Nat
      BY RingNumbers
    <2>2. length(t) = length(r) /\ \A k \in 1..length(r) : Cells(t)[k] = Cells(r)[length(r) - length(r) + k]
      BY <1>2 DEF KeepsLatest
    <2>3. \A k \in 1..length(r) : length(r) - length(r) + k = k
      BY <2>1
    <2>4. QED
      BY <2>1, <2>2, <2>3
  <1>5. r.lastDiscarded \in Nat /\ t.lastDiscarded \in Nat /\ t.lastDiscarded <= t.lastDiscarded
    BY <1>2, RingNumbers
  <1>6. ASSUME Grown(t, s, item) PROVE Grown(r, s, item)
    BY <1>4, <1>6 DEF Grown
  <1>7. ASSUME Turned(t, s, item) PROVE Turned(r, s, item)
    <2>1. 0 < length(r) /\ 1 \in 1..length(r) /\ Cells(t)[1] = Cells(r)[1]
      BY <1>4, <1>7 DEF Turned
    <2>2. ASSUME NEW k \in 1..(length(r) - 1) PROVE Cells(s)[k] = Cells(r)[k + 1]
      <3>1. k + 1 \in 1..length(r) /\ k \in 1..(length(t) - 1)
        BY <1>4
      <3>2. Cells(s)[k] = Cells(t)[k + 1]
        BY <3>1, <1>7 DEF Turned
      <3>3. QED
        BY <3>1, <3>2, <1>4
    <2>3. QED
      BY <2>1, <2>2, <1>4, <1>7 DEF Turned
  <1>8. CASE t.start = -1
    <2>1. s = [t EXCEPT !.buffer[0] = item, !.start = 0, !.end = 1 % Size(t)]
      BY <1>1, <1>8 DEF Add
    <2>2. s = [t EXCEPT !.buffer = [@ EXCEPT ![0] = item], !.start = 0, !.end = 1 % Size(t)]
      BY <2>1
    <2>3. Put(t, 0, item, 0, 1 % Size(t), t.lastDiscarded, s)
      BY <2>2 DEF Put, Updated
    <2>4. QED
      BY <2>3, <1>2, <1>5, <1>6, <1>8, PutFirst
  <1>9. CASE t.start # -1 /\ t.start # t.end
    <2>1. s = [t EXCEPT !.buffer[t.end] = item, !.end = (@ + 1) % Size(t)]
      BY <1>1, <1>9 DEF Add
    <2>2. s = [t EXCEPT !.buffer = [t.buffer EXCEPT ![t.end] = item], !.end = (t.end + 1) % Size(t)]
      BY <2>1
    <2>3. Put(t, t.end, item, t.start, (t.end + 1) % Size(t), t.lastDiscarded, s)
      BY <2>2, Zenon DEF Put, Updated
    <2>4. QED
      BY <2>3, <1>2, <1>5, <1>6, <1>9, PutNext
  <1>10. CASE t.start # -1 /\ t.start = t.end
    <2>1. s = [t EXCEPT !.buffer[t.end] = item, !.end = (@ + 1) % Size(t), !.start = (@ + 1) % Size(t),
                        !.lastDiscarded = Later(@, t.buffer[t.end])]
      BY <1>1, <1>10 DEF Add
    <2>2. s = [t EXCEPT !.buffer = [t.buffer EXCEPT ![t.end] = item], !.end = (t.end + 1) % Size(t),
                        !.start = (t.start + 1) % Size(t), !.lastDiscarded = Later(t.lastDiscarded, t.buffer[t.end])]
      BY <2>1
    <2>3. Put(t, t.end, item, (t.start + 1) % Size(t), (t.end + 1) % Size(t), Later(t.lastDiscarded, t.buffer[t.end]), s)
      BY <2>2, Zenon DEF Put, Updated
    <2>4. Size(t) = t.maximumSize \/ (t.window /\ Cells(t)[1] <= windowed)
      <3>1. length(t) = Size(t) /\ length(t) \in Nat
        BY <1>2, <1>10, RingNumbers
      <3>2. QED
        BY <3>1, <1>3
    <2>5. /\ s \in Rings /\ Indexed(s) /\ Sized(s)
          /\ s.maximumSize = t.maximumSize /\ s.window = t.window /\ t.lastDiscarded <= s.lastDiscarded
          /\ Turned(t, s, item)
      BY <2>3, <2>4, <1>2, <1>10, PutOver
    <2>6. s.lastDiscarded \in Nat
      BY <2>5 DEF Rings
    <2>7. r.lastDiscarded <= s.lastDiscarded
      BY <2>5, <2>6, <1>2, <1>5
    <2>8. QED
      BY <2>5, <2>7, <1>2, <1>7
  <1>11. QED
    BY <1>8, <1>9, <1>10

\* Delete empties cells where they are.
LEMMA DeleteKeeps ==
  ASSUME NEW r \in Rings, Indexed(r), Sized(r), NEW items, NEW s, s = Delete(r, items)
  PROVE  /\ s \in Rings /\ Indexed(s) /\ Sized(s)
         /\ s.maximumSize = r.maximumSize /\ s.window = r.window /\ s.lastDiscarded = r.lastDiscarded
         /\ length(s) = length(r)
         /\ \A k \in 1..length(r) : Cells(s)[k] = IF Cells(r)[k] \in items THEN Blank ELSE Cells(r)[k]
  <1> DEFINE b == [p \in DOMAIN r.buffer |-> IF r.buffer[p] \in items THEN Blank ELSE r.buffer[p]]
  <1>1. /\ Size(r) \in Nat /\ r.buffer \in [0..(Size(r) - 1) -> Nat]
        /\ r.start \in Int /\ r.end \in Int /\ r.lastDiscarded \in Nat
    BY SizeType DEF Rings
  <1>2. s = [r EXCEPT !.buffer = b]
    BY DEF Delete
  <1>3. /\ b \in [0..(Size(r) - 1) -> Nat]
        /\ \A p \in 0..(Size(r) - 1) : b[p] = IF r.buffer[p] \in items THEN Blank ELSE r.buffer[p]
    BY <1>1 DEF Blank
  <1> HIDE DEF b
  <1>4. b \in Buffers
    BY <1>1, <1>3, InBuffers
  <1>5. Updated(r, b, r.start, r.end, r.lastDiscarded, s)
    BY <1>2, Zenon DEF Updated
  <1>6. /\ s \in Rings /\ s.buffer = b /\ s.start = r.start /\ s.end = r.end
        /\ s.maximumSize = r.maximumSize /\ s.window = r.window /\ s.lastDiscarded = r.lastDiscarded
    BY <1>1, <1>4, <1>5, RingUpdates
  <1>7. Size(s) = Size(r)
    <2>1. DOMAIN s.buffer = 0..(Size(r) - 1)
      BY <1>3, <1>6
    <2>2. QED
      BY <1>1, <2>1, SizeOf
  <1>8. Indexed(s) /\ Sized(s) /\ length(s) = length(r)
    BY <1>6, <1>7 DEF Indexed, Sized, length
  <1>9. ASSUME NEW k \in 1..length(r)
        PROVE  Cells(s)[k] = IF Cells(r)[k] \in items THEN Blank ELSE Cells(r)[k]
    <2>1. Position(s, k) = Position(r, k)
      BY <1>6, <1>7, Zenon DEF Position
    <2>2. Cells(s)[k] = s.buffer[Position(s, k)]
      BY <1>6, <1>8, CellIs
    <2>3. Cells(r)[k] = r.buffer[Position(r, k)] /\ Position(r, k) \in 0..(Size(r) - 1)
      BY CellIs
    <2>4. QED
      BY <1>3, <1>6, <2>1, <2>2, <2>3
  <1>10. QED
    BY <1>6, <1>8, <1>9

\* Resize keeps the latest cells that the new setting allows, and knows the latest it
\* dropped, unless the history is switched off.
LEMMA SettingKeeps ==
  ASSUME NEW r \in Rings, Indexed(r), Sized(r), NEW maximumSize \in Nat, NEW window \in BOOLEAN,
         NEW s, s = Resize(r, maximumSize, window)
  PROVE  /\ s \in Rings /\ Indexed(s) /\ Sized(s)
         /\ s.maximumSize = maximumSize /\ s.window = window
         /\ KeepsLatest(r, s, IF maximumSize < length(r) THEN maximumSize ELSE length(r))
         /\ r.lastDiscarded <= s.lastDiscarded
         /\ maximumSize # 0 => \A k \in 1..(length(r) - length(s)) : Cells(r)[k] <= s.lastDiscarded
  <1> DEFINE t == [r EXCEPT !.maximumSize = maximumSize, !.window = window]
             n == IF maximumSize < length(r) THEN maximumSize ELSE length(r)
  <1>1. /\ length(r) \in Nat /\ length(r) <= Size(r) /\ Size(r) \in Nat
        /\ r.maximumSize \in Nat /\ r.lastDiscarded \in Nat
    BY RingNumbers
  <1>2. initialAutoSize \in Nat \ {0}
    BY HistoryBufferAssumption
  <1>3. /\ t \in Rings /\ t.buffer = r.buffer /\ t.start = r.start /\ t.end = r.end
        /\ t.maximumSize = maximumSize /\ t.window = window /\ t.lastDiscarded = r.lastDiscarded
    BY DEF Rings
  <1>4. \/ s = r /\ r.maximumSize = maximumSize /\ r.window = window
        \/ s = resize(t, maximumSize) /\ (~window \/ maximumSize < Size(r))
        \/ /\ s = resize(t, initialSize(maximumSize, window)) /\ window /\ maximumSize >= Size(r)
           /\ Size(r) < initialSize(maximumSize, window)
        \/ s = t /\ window /\ maximumSize >= Size(r) /\ ~ (Size(r) < initialSize(maximumSize, window))
    BY <1>1 DEF Resize
  <1> HIDE DEF t
  <1>5. Size(t) = Size(r) /\ length(t) = length(r) /\ Cells(t) = Cells(r) /\ Indexed(t)
    <2>1. Size(t) = Size(r)
      BY <1>3 DEF Size
    <2>2. length(t) = length(r)
      BY <1>3, <2>1 DEF length
    <2>3. \A k : Position(t, k) = Position(r, k)
      BY <1>3, <2>1, Zenon DEF Position
    <2>4. Cells(t) = Cells(r)
      BY <1>3, <2>2, <2>3, Zenon DEF Cells
    <2>5. Indexed(t)
      BY <1>3, <2>1 DEF Indexed
    <2>6. QED
      BY <2>1, <2>2, <2>4, <2>5
  \* All that resize does is what is asked for, when the buffer's new size is a good one.
  <1>6. ASSUME NEW size \in Nat, s = resize(t, size), size <= maximumSize, size = 0 => maximumSize = 0,
               window \/ size = maximumSize, size = maximumSize \/ length(r) <= size
        PROVE  /\ s \in Rings /\ Indexed(s) /\ Sized(s)
               /\ s.maximumSize = maximumSize /\ s.window = window
               /\ KeepsLatest(r, s, n)
               /\ r.lastDiscarded <= s.lastDiscarded
               /\ maximumSize # 0 => \A k \in 1..(length(r) - length(s)) : Cells(r)[k] <= s.lastDiscarded
    <2>1. /\ s \in Rings /\ Indexed(s) /\ Size(s) = size
          /\ s.maximumSize = t.maximumSize /\ s.window = t.window
          /\ KeepsLatest(t, s, IF size < length(t) THEN size ELSE length(t))
          /\ t.lastDiscarded <= s.lastDiscarded
          /\ size # 0 => \A k \in 1..(length(t) - length(s)) : Cells(t)[k] <= s.lastDiscarded
      BY <1>3, <1>5, <1>6, ResizeKeeps
    <2>2. (IF size < length(t) THEN size ELSE length(t)) = n
      BY <1>1, <1>5, <1>6
    <2>3. KeepsLatest(t, s, n)
      BY <2>1, <2>2, Zenon
    <2>4. KeepsLatest(r, s, n)
      BY <2>3, <1>5 DEF KeepsLatest
    <2>5. Sized(s)
      BY <2>1, <1>3, <1>6 DEF Sized
    <2>6. QED
      BY <2>1, <2>4, <2>5, <1>3, <1>5, <1>6
  <1>7. CASE s = r /\ r.maximumSize = maximumSize /\ r.window = window
    <2>1. n = length(r)
      BY <1>1, <1>7 DEF Sized
    <2>2. KeepsLatest(r, r, length(r))
      BY <1>1 DEF KeepsLatest
    <2>3. length(r) - length(r) = 0 /\ r.lastDiscarded <= r.lastDiscarded
      BY <1>1
    <2>4. \A k \in 1..(length(r) - length(r)) : Cells(r)[k] <= r.lastDiscarded
      BY <2>3
    <2>5. QED
      BY <1>7, <2>1, <2>2, <2>3, <2>4
  <1>8. CASE s = resize(t, maximumSize) /\ (~window \/ maximumSize < Size(r))
    <2>1. maximumSize <= maximumSize
      OBVIOUS
    <2>2. QED
      BY <1>6, <1>8, <2>1
  <1>9. CASE /\ s = resize(t, initialSize(maximumSize, window)) /\ window /\ maximumSize >= Size(r)
             /\ Size(r) < initialSize(maximumSize, window)
    <2> DEFINE size == initialSize(maximumSize, window)
    <2>1. size \in Nat /\ size <= maximumSize /\ (size = 0 => maximumSize = 0)
      <3>1. window
        BY <1>9
      <3>2. size = IF maximumSize < initialAutoSize THEN maximumSize ELSE initialAutoSize
        BY <3>1 DEF initialSize
      <3> HIDE DEF size
      <3>3. initialAutoSize \in Nat /\ initialAutoSize # 0
        BY <1>2
      <3>4. CASE maximumSize < initialAutoSize
        BY <3>2, <3>3, <3>4
      <3>5. CASE ~ (maximumSize < initialAutoSize)
        BY <3>2, <3>3, <3>5
      <3>6. QED
        BY <3>4, <3>5
    <2>2. s = resize(t, size) /\ Size(r) < size
      BY <1>9
    <2> HIDE DEF size
    <2>3. length(r) <= size
      BY <2>1, <2>2, <1>1
    <2>4. QED
      BY <2>1, <2>2, <2>3, <1>6, <1>9
  <1>10. CASE s = t /\ window /\ maximumSize >= Size(r) /\ ~ (Size(r) < initialSize(maximumSize, window))
    <2>1. n = length(r)
      BY <1>1, <1>10
    <2>2. KeepsLatest(r, t, length(r))
      BY <1>1, <1>5 DEF KeepsLatest
    <2>3. length(r) - length(t) = 0 /\ r.lastDiscarded <= t.lastDiscarded
      BY <1>1, <1>3, <1>5
    <2>4. \A k \in 1..(length(r) - length(t)) : Cells(r)[k] <= t.lastDiscarded
      BY <2>3
    <2>5. Size(r) = 0 => maximumSize = 0
      BY <1>1, <1>2, <1>10 DEF initialSize
    <2>6. Sized(t)
      BY <1>1, <1>3, <1>5, <1>10, <2>5 DEF Sized
    <2>7. QED
      BY <1>3, <1>5, <1>10, <2>1, <2>2, <2>3, <2>4, <2>6
  <1>11. QED
    BY <1>4, <1>7, <1>8, <1>9, <1>10

-----------------------------------------------------------------------------
Logs == [items : Seq(Nat), pending : SUBSET RingItems, dropped : Nat]

BufferType ==
  /\ ring \in Rings /\ Indexed(ring) /\ Sized(ring)
  /\ windowed \in Nat /\ unsent \subseteq RingItems
  /\ log \in Logs

BufferInv == BufferType /\ Len(log.items) <= ring.maximumSize /\ RingExact

\* RingHoldsLatest, of any ring and messages.
Holds(r, items, w) ==
  LET missing == Len(items) - length(r)
  IN /\ missing >= 0 /\ length(r) <= r.maximumSize
     /\ \A k \in 1..length(r) : Cells(r)[k] = items[missing + k]
     /\ \A k \in 1..missing : r.window /\ items[k] <= w

LEMMA HoldsIs == RingHoldsLatest <=> Holds(ring, log.items, windowed)
  BY DEF RingHoldsLatest, Holds

LEMMA ItemsAreNaturals == RingItems \in SUBSET Nat
  BY HistoryBufferAssumption DEF RingItems

\* What is dropped is bounded by a bound of the cells that are not kept.
LEMMA DroppedIsBounded ==
  ASSUME NEW r \in Rings, Indexed(r), NEW s, NEW d \in Nat,
         \A k \in 1..length(r) : Cells(r)[k] \in Range(Cells(s)) \/ Cells(r)[k] <= d
  PROVE  LatestDropped(r, s) \in Nat /\ LatestDropped(r, s) <= d
  <1> DEFINE S == {0} \cup (Range(Cells(r)) \ Range(Cells(s)))
  <1>1. DOMAIN Cells(r) = 1..length(r)
    BY DEF Cells
  <1>2. \A k \in 1..length(r) : Cells(r)[k] \in Nat
    BY CellIs
  <1>3. \A x \in Range(Cells(r)) : \E k \in 1..length(r) : x = Cells(r)[k]
    BY <1>1, Zenon DEF Range
  <1>4. S \in SUBSET Nat
    BY <1>2, <1>3
  <1>5. \A x \in S : x <= d
    BY <1>3
  <1>6. 0 \in S
    OBVIOUS
  <1>7. LatestDropped(r, s) = Newest(S)
    BY Zenon DEF LatestDropped
  <1> HIDE DEF S
  <1>8. Newest(S) \in S
    BY <1>4, <1>5, <1>6, NewestIs
  <1>9. QED
    BY <1>4, <1>5, <1>7, <1>8

LEMMA InCells ==
  ASSUME NEW s, NEW j \in 1..length(s)
  PROVE  Cells(s)[j] \in Range(Cells(s))
  <1>1. j \in DOMAIN Cells(s)
    BY DEF Cells
  <1>2. QED
    BY <1>1, Zenon DEF Range

LEMMA LaterBounds ==
  ASSUME NEW a \in Nat, NEW b \in Nat, NEW d \in Nat, a <= d, b <= d
  PROVE  Later(a, b) \in Nat /\ Later(a, b) <= d
  BY DEF Later

\* The last n of a sequence.
LEMMA LatestIs ==
  ASSUME NEW q \in Seq(Nat), NEW n \in Nat
  PROVE  /\ Latest(q, n) \in Seq(Nat)
         /\ Len(Latest(q, n)) = IF Len(q) > n THEN n ELSE Len(q)
         /\ \A k \in 1..Len(Latest(q, n)) : Latest(q, n)[k] = q[Len(q) - Len(Latest(q, n)) + k]
  <1>1. Len(q) \in Nat /\ q \in [1..Len(q) -> Nat]
    OBVIOUS
  <1>2. CASE Len(q) > n
    <2>1. Latest(q, n) = SubSeq(q, Len(q) - n + 1, Len(q))
      BY <1>2 DEF Latest
    <2>2. Len(q) - n + 1 \in 1..(Len(q) + 1) /\ Len(q) \in Int /\ Len(q) - (Len(q) - n + 1) + 1 = n
      BY <1>1, <1>2
    <2> DEFINE t == SubSeq(q, Len(q) - n + 1, Len(q))
    <2>3. t \in Seq(Nat) /\ Len(t) = n
      BY <1>1, <2>2
    <2>4. ASSUME NEW k \in 1..n PROVE t[k] = q[Len(q) - n + k]
      <3>1. t[k] = q[Len(q) - n + 1 + k - 1]
        BY <1>1, <2>2
      <3>2. Len(q) - n + 1 + k - 1 = Len(q) - n + k
        BY <1>1
      <3>3. QED
        BY <3>1, <3>2, Zenon
    <2> HIDE DEF t
    <2>5. QED
      BY <1>1, <1>2, <2>1, <2>3, <2>4 DEF t
  <1>3. CASE ~ (Len(q) > n)
    BY <1>1, <1>3 DEF Latest
  <1>4. QED
    BY <1>2, <1>3

\* A message is appended to a log q of Q messages, m of which (none or one) leave at the
\* front: the log p of the next step.
Logged(q, Q, item, m, p) == \A k \in 1..(Q + 1 - m) : p[k] = IF k + m = Q + 1 THEN item ELSE q[k + m]

\* The cells c are the last L of q, and the messages before them are older than w.
Suffix(c, L, q, Q, window, w) ==
  /\ \A k \in 1..L : c[k] = q[Q - L + k]
  /\ \A k \in 1..(Q - L) : window /\ q[k] <= w

LEMMA GrownSuffix ==
  ASSUME NEW L \in Nat, NEW Q \in Nat, L <= Q, NEW m \in {0, 1}, m = 1 => L < Q,
         NEW c, NEW d, NEW q, NEW p, NEW item, NEW window, NEW w,
         Suffix(c, L, q, Q, window, w), Logged(q, Q, item, m, p),
         \A k \in 1..L : d[k] = c[k], d[L + 1] = item
  PROVE  Suffix(d, L + 1, p, Q + 1 - m, window, w)
  <1>1. ASSUME NEW k \in 1..(L + 1) PROVE d[k] = p[(Q + 1 - m) - (L + 1) + k]
    <2> DEFINE j == (Q + 1 - m) - (L + 1) + k
    <2>1. j \in 1..(Q + 1 - m) /\ j + m = Q - L + k
      OBVIOUS
    <2>2. p[j] = IF j + m = Q + 1 THEN item ELSE q[j + m]
      BY <2>1 DEF Logged
    <2> HIDE DEF j
    <2>3. CASE k = L + 1
      <3>1. j + m = Q + 1
        BY <2>1, <2>3
      <3>2. QED
        BY <2>2, <2>3, <3>1 DEF j
    <2>4. CASE k # L + 1
      <3>1. k \in 1..L /\ j + m # Q + 1
        BY <2>1, <2>4
      <3>2. d[k] = q[Q - L + k]
        BY <3>1 DEF Suffix
      <3>3. QED
        BY <2>1, <2>2, <3>1, <3>2 DEF j
    <2>5. QED
      BY <2>3, <2>4
  <1>2. ASSUME NEW k \in 1..((Q + 1 - m) - (L + 1)) PROVE window /\ p[k] <= w
    <2>1. k \in 1..(Q + 1 - m) /\ k + m \in 1..(Q - L) /\ k + m # Q + 1
      OBVIOUS
    <2>2. p[k] = q[k + m]
      BY <2>1 DEF Logged
    <2>3. QED
      BY <2>1, <2>2 DEF Suffix
  <1>3. QED
    BY <1>1, <1>2 DEF Suffix

LEMMA TurnedSuffix ==
  ASSUME NEW L \in Nat, NEW Q \in Nat, 0 < L, L <= Q, NEW m \in {0, 1},
         NEW c, NEW d, NEW q, NEW p, NEW item, NEW window, NEW w,
         Suffix(c, L, q, Q, window, w), Logged(q, Q, item, m, p),
         \A k \in 1..(L - 1) : d[k] = c[k + 1], d[L] = item,
         (m = 1 /\ Q = L) \/ (window /\ c[1] <= w)
  PROVE  Suffix(d, L, p, Q + 1 - m, window, w)
  <1>1. ASSUME NEW k \in 1..L PROVE d[k] = p[(Q + 1 - m) - L + k]
    <2> DEFINE j == (Q + 1 - m) - L + k
    <2>1. j \in 1..(Q + 1 - m) /\ j + m = Q - L + k + 1
      OBVIOUS
    <2>2. p[j] = IF j + m = Q + 1 THEN item ELSE q[j + m]
      BY <2>1 DEF Logged
    <2> HIDE DEF j
    <2>3. CASE k = L
      <3>1. j + m = Q + 1
        BY <2>1, <2>3
      <3>2. QED
        BY <2>2, <2>3, <3>1 DEF j
    <2>4. CASE k # L
      <3>1. k \in 1..(L - 1) /\ k + 1 \in 1..L /\ j + m # Q + 1 /\ Q - L + (k + 1) = j + m
        BY <2>1, <2>4
      <3>2. d[k] = q[Q - L + (k + 1)]
        BY <3>1 DEF Suffix
      <3>3. QED
        BY <2>2, <3>1, <3>2 DEF j
    <2>5. QED
      BY <2>3, <2>4
  <1>2. ASSUME NEW k \in 1..((Q + 1 - m) - L) PROVE window /\ p[k] <= w
    <2>1. /\ k \in 1..(Q + 1 - m) /\ k + m # Q + 1
          /\ k + m \in 1..(Q - L) \/ k + m = Q - L + 1
      OBVIOUS
    <2>2. p[k] = q[k + m]
      BY <2>1 DEF Logged
    <2>3. CASE k + m \in 1..(Q - L)
      BY <2>2, <2>3 DEF Suffix
    <2>4. CASE k + m = Q - L + 1
      <3>1. 1 \in 1..L
        OBVIOUS
      <3>2. c[1] = q[k + m]
        BY <2>4, <3>1 DEF Suffix
      <3>3. ~ (m = 1 /\ Q = L)
        BY <2>4
      <3>4. QED
        BY <2>2, <3>2, <3>3
    <2>5. QED
      BY <2>1, <2>3, <2>4
  <1>3. QED
    BY <1>1, <1>2 DEF Suffix

LEMMA HoldsSuffix ==
  ASSUME NEW r, NEW q, NEW w, length(r) \in Nat, Len(q) \in Nat
  PROVE  Holds(r, q, w) <=> /\ length(r) <= Len(q) /\ length(r) <= r.maximumSize
                            /\ Suffix(Cells(r), length(r), q, Len(q), r.window, w)
  BY DEF Holds, Suffix

\* The log and the ring, one message later.
LEMMA AddLog ==
  ASSUME NEW r \in Rings, Indexed(r), Sized(r), NEW q \in Seq(Nat), Holds(r, q, windowed),
         Len(q) <= r.maximumSize, NEW item \in Nat,
         NEW s \in Rings, Indexed(s), s.maximumSize = r.maximumSize, s.window = r.window, Sized(s),
         Grown(r, s, item) \/ Turned(r, s, item),
         NEW p, p = IF Len(Append(q, item)) > r.maximumSize THEN Tail(Append(q, item)) ELSE Append(q, item)
  PROVE  p \in Seq(Nat) /\ Len(p) <= s.maximumSize /\ Holds(s, p, windowed)
  <1>1. /\ length(r) \in Nat /\ length(s) \in Nat /\ r.maximumSize \in Nat /\ Len(q) \in Nat
    BY RingNumbers
  <1>2. length(r) <= Len(q) /\ length(r) <= r.maximumSize /\ Suffix(Cells(r), length(r), q, Len(q), r.window, windowed)
    BY <1>1, HoldsSuffix
  <1> DEFINE a == Append(q, item)
  <1>3. /\ a \in Seq(Nat) /\ Len(a) = Len(q) + 1 /\ a[Len(q) + 1] = item
        /\ \A k \in 1..Len(q) : a[k] = q[k]
    OBVIOUS
  <1>4. PICK m \in {0, 1} :
          /\ m = IF Len(q) = r.maximumSize THEN 1 ELSE 0
          /\ p \in Seq(Nat) /\ Len(p) = Len(q) + 1 - m /\ Logged(q, Len(q), item, m, p)
    <2>1. CASE Len(q) = r.maximumSize
      <3>1. p = Tail(a) /\ 0 < Len(a)
        BY <1>1, <1>3, <2>1
      <3> HIDE DEF a
      <3>2. Tail(a) \in Seq(Nat) /\ Len(Tail(a)) = Len(q) /\ \A k \in 1..Len(q) : Tail(a)[k] = a[k + 1]
        BY <1>1, <1>3, <3>1
      <3>3. ASSUME NEW k \in 1..(Len(q) + 1 - 1) PROVE Tail(a)[k] = IF k + 1 = Len(q) + 1 THEN item ELSE q[k + 1]
        <4>1. k \in 1..Len(q) /\ (k + 1 = Len(q) + 1 \/ k + 1 \in 1..Len(q))
          BY <1>1
        <4>2. Tail(a)[k] = a[k + 1]
          BY <3>2, <4>1
        <4>3. CASE k + 1 = Len(q) + 1
          BY <1>3, <4>2, <4>3
        <4>4. CASE k + 1 # Len(q) + 1 /\ k + 1 \in 1..Len(q)
          BY <1>3, <4>2, <4>4
        <4>5. QED
          BY <4>1, <4>3, <4>4
      <3>4. Logged(q, Len(q), item, 1, p)
        <4>1. Logged(q, Len(q), item, 1, Tail(a))
          BY <3>3, Zenon DEF Logged
        <4>2. QED
          BY <3>1, <4>1, Zenon
      <3>5. Len(q) = Len(q) + 1 - 1
        BY <1>1
      <3>6. QED
        BY <2>1, <3>1, <3>2, <3>4, <3>5
    <2>2. CASE Len(q) # r.maximumSize
      <3>1. p = a
        BY <1>1, <1>3, <2>2
      <3> HIDE DEF a
      <3>2. ASSUME NEW k \in 1..(Len(q) + 1 - 0) PROVE a[k] = IF k + 0 = Len(q) + 1 THEN item ELSE q[k + 0]
        <4>1. k + 0 = k /\ (k = Len(q) + 1 \/ k \in 1..Len(q))
          BY <1>1
        <4>2. QED
          BY <1>3, <4>1
      <3>3. Logged(q, Len(q), item, 0, p)
        BY <3>1, <3>2 DEF Logged
      <3>4. Len(q) + 1 = Len(q) + 1 - 0
        BY <1>1
      <3>5. QED
        BY <1>3, <2>2, <3>1, <3>3, <3>4
    <2>3. QED
      BY <2>1, <2>2
  <1>5. PICK L \in Nat, Q \in Nat, M \in Nat : L = length(r) /\ Q = Len(q) /\ M = r.maximumSize
    BY <1>1
  <1>6. /\ L <= Q /\ Q <= M /\ m \in {0, 1} /\ m = (IF Q = M THEN 1 ELSE 0) /\ Len(p) = Q + 1 - m
        /\ Suffix(Cells(r), L, q, Q, r.window, windowed) /\ Logged(q, Q, item, m, p)
    BY <1>2, <1>4, <1>5
  <1>7. Len(p) <= s.maximumSize
    BY <1>5, <1>6
  <1>8. CASE Grown(r, s, item)
    <2>1. /\ length(s) = L + 1 /\ L + 1 <= M /\ Cells(s)[L + 1] = item
          /\ \A k \in 1..L : Cells(s)[k] = Cells(r)[k]
      BY <1>5, <1>8 DEF Grown
    <2>2. m = 1 => L < Q
      BY <1>6, <2>1
    <2>3. Suffix(Cells(s), L + 1, p, Q + 1 - m, r.window, windowed)
      BY <1>6, <2>1, <2>2, GrownSuffix
    <2>4. L + 1 <= Q + 1 - m
      BY <1>6, <2>2
    <2>5. Holds(s, p, windowed)
      <3>1. length(s) <= Len(p) /\ length(s) <= s.maximumSize /\ Len(p) \in Nat
        BY <1>4, <1>5, <1>6, <2>1, <2>4
      <3>2. Suffix(Cells(s), length(s), p, Len(p), s.window, windowed)
        BY <1>6, <2>1, <2>3, Zenon
      <3>3. QED
        BY <1>1, <3>1, <3>2, HoldsSuffix
    <2>6. QED
      BY <1>4, <1>7, <2>5
  <1>9. CASE Turned(r, s, item)
    <2>1. /\ length(s) = L /\ 0 < L /\ Cells(s)[L] = item
          /\ \A k \in 1..(L - 1) : Cells(s)[k] = Cells(r)[k + 1]
          /\ L = M \/ (r.window /\ Cells(r)[1] <= windowed)
      BY <1>5, <1>9 DEF Turned
    <2>2. (m = 1 /\ Q = L) \/ (r.window /\ Cells(r)[1] <= windowed)
      BY <1>6, <2>1
    <2>3. Suffix(Cells(s), L, p, Q + 1 - m, r.window, windowed)
      BY <1>6, <2>1, <2>2, TurnedSuffix
    <2>4. L <= Q + 1 - m /\ L <= M
      BY <1>6
    <2>5. Holds(s, p, windowed)
      <3>1. length(s) <= Len(p) /\ length(s) <= s.maximumSize /\ Len(p) \in Nat
        BY <1>4, <1>5, <1>6, <2>1, <2>4
      <3>2. Suffix(Cells(s), length(s), p, Len(p), s.window, windowed)
        BY <1>6, <2>1, <2>3, Zenon
      <3>3. QED
        BY <1>1, <3>1, <3>2, HoldsSuffix
    <2>6. QED
      BY <1>4, <1>7, <2>5
  <1>10. QED
    BY <1>8, <1>9

\* A log that is cut to the ring, and both to the new setting.
LEMMA ResizeLog ==
  ASSUME NEW r \in Rings, Indexed(r), Sized(r), NEW q \in Seq(Nat), Holds(r, q, windowed), NEW n \in Nat,
         NEW s \in Rings, Indexed(s), Sized(s), s.maximumSize = n,
         KeepsLatest(r, s, IF n < length(r) THEN n ELSE length(r)),
         NEW p, p = Latest(Latest(q, length(r)), n)
  PROVE  p \in Seq(Nat) /\ Len(p) <= s.maximumSize /\ Holds(s, p, windowed)
  <1>1. PICK L \in Nat, Q \in Nat : L = length(r) /\ Q = Len(q)
    BY RingNumbers
  <1>2. L <= Q /\ \A k \in 1..L : Cells(r)[k] = q[Q - L + k]
    BY <1>1 DEF Holds
  <1>3. PICK q1 : q1 = Latest(q, L)
    OBVIOUS
  <1>4. q1 \in Seq(Nat) /\ Len(q1) = L /\ \A k \in 1..L : q1[k] = q[Q - L + k]
    <2>1. /\ q1 \in Seq(Nat)
          /\ Len(q1) = IF Len(q) > L THEN L ELSE Len(q)
          /\ \A k \in 1..Len(q1) : q1[k] = q[Len(q) - Len(q1) + k]
      BY <1>3, LatestIs
    <2>2. Len(q1) = L
      BY <2>1, <1>1, <1>2
    <2>3. QED
      BY <2>1, <2>2, <1>1
  <1>5. PICK N \in Nat : N = IF n < L THEN n ELSE L
    OBVIOUS
  <1>6. p \in Seq(Nat) /\ Len(p) = N /\ \A k \in 1..N : p[k] = q1[L - N + k]
    <2>1. p = Latest(q1, n) /\ q1 \in Seq(Nat)
      BY <1>1, <1>3, <1>4
    <2>2. /\ p \in Seq(Nat)
          /\ Len(p) = IF Len(q1) > n THEN n ELSE Len(q1)
          /\ \A k \in 1..Len(p) : p[k] = q1[Len(q1) - Len(p) + k]
      <3>1. /\ Latest(q1, n) \in Seq(Nat)
            /\ Len(Latest(q1, n)) = IF Len(q1) > n THEN n ELSE Len(q1)
            /\ \A k \in 1..Len(Latest(q1, n)) : Latest(q1, n)[k] = q1[Len(q1) - Len(Latest(q1, n)) + k]
        BY <2>1, LatestIs
      <3>2. QED
        BY <2>1, <3>1
    <2>3. Len(p) = N
      BY <2>2, <1>4, <1>5
    <2>4. QED
      BY <2>2, <2>3, <1>4
  <1>7. length(s) = N /\ \A k \in 1..N : Cells(s)[k] = Cells(r)[L - N + k]
    <2>1. KeepsLatest(r, s, N)
      BY <1>1, <1>5
    <2>2. QED
      BY <2>1, <1>1 DEF KeepsLatest
  <1>8. ASSUME NEW k \in 1..N PROVE Cells(s)[k] = p[0 + k]
    <2> DEFINE j == L - N + k
    <2>1. j \in 1..L /\ 0 + k = k
      BY <1>5
    <2>2. Cells(s)[k] = Cells(r)[j] /\ p[k] = q1[j]
      BY <1>6, <1>7
    <2> HIDE DEF j
    <2>3. Cells(r)[j] = q[Q - L + j] /\ q1[j] = q[Q - L + j]
      BY <2>1, <1>2, <1>4
    <2>4. QED
      BY <2>1, <2>2, <2>3
  <1>9. N <= s.maximumSize /\ N - N = 0
    BY <1>5
  <1>10. Holds(s, p, windowed)
    BY <1>6, <1>7, <1>8, <1>9 DEF Holds
  <1>11. QED
    BY <1>6, <1>9, <1>10

\* A log and a ring with the same messages emptied.
Emptied(q, its) == [k \in DOMAIN q |-> IF q[k] \in its THEN Blank ELSE q[k]]

LEMMA DeleteLog ==
  ASSUME NEW r \in Rings, Indexed(r), Sized(r), NEW q \in Seq(Nat), Holds(r, q, windowed), windowed \in Nat,
         NEW its, NEW s, s = Delete(r, its),
         NEW p, p = Emptied(q, its)
  PROVE  p \in Seq(Nat) /\ Len(p) = Len(q) /\ Holds(s, p, windowed)
  <1>1. PICK L \in Nat, Q \in Nat : L = length(r) /\ Q = Len(q)
    BY RingNumbers
  <1>2. /\ L <= Q /\ L <= r.maximumSize
        /\ \A k \in 1..L : Cells(r)[k] = q[Q - L + k]
        /\ \A k \in 1..(Q - L) : r.window /\ q[k] <= windowed
    BY <1>1 DEF Holds
  <1>3. q \in [1..Q -> Nat]
    BY <1>1
  <1>4. p \in [1..Q -> Nat] /\ \A k \in 1..Q : p[k] = IF q[k] \in its THEN Blank ELSE q[k]
    BY <1>3 DEF Blank, Emptied
  <1>5. p \in Seq(Nat) /\ Len(p) = Q
    BY <1>4
  <1>6. /\ s.maximumSize = r.maximumSize /\ s.window = r.window /\ length(s) = L
        /\ \A k \in 1..L : Cells(s)[k] = IF Cells(r)[k] \in its THEN Blank ELSE Cells(r)[k]
    BY <1>1, DeleteKeeps
  <1>7. ASSUME NEW k \in 1..L PROVE Cells(s)[k] = p[Q - L + k]
    <2>1. Q - L + k \in 1..Q
      BY <1>2
    <2>2. QED
      BY <2>1, <1>2, <1>4, <1>6
  <1>8. ASSUME NEW k \in 1..(Q - L) PROVE s.window /\ p[k] <= windowed
    <2>1. k \in 1..Q
      BY <1>2
    <2>2. r.window /\ q[k] <= windowed
      BY <1>2
    <2>3. QED
      BY <2>1, <2>2, <1>4, <1>6 DEF Blank
  <1>9. Q - L >= 0 /\ L <= s.maximumSize
    BY <1>2, <1>6
  <1>10. Holds(s, p, windowed)
    BY <1>5, <1>6, <1>7, <1>8, <1>9 DEF Holds
  <1>11. QED
    BY <1>1, <1>5, <1>10

\* What Add drops is known.
LEMMA AddDrops ==
  ASSUME NEW r \in Rings, Indexed(r), NEW s \in Rings, NEW item, Grown(r, s, item) \/ Turned(r, s, item)
  PROVE  LatestDropped(r, s) \in Nat /\ LatestDropped(r, s) <= s.lastDiscarded
  <1>1. length(r) \in Nat /\ s.lastDiscarded \in Nat
    BY RingNumbers DEF Rings
  <1>2. ASSUME NEW k \in 1..length(r)
        PROVE  Cells(r)[k] \in Range(Cells(s)) \/ Cells(r)[k] <= s.lastDiscarded
    <2>1. CASE Grown(r, s, item)
      <3>1. k \in 1..length(s) /\ Cells(s)[k] = Cells(r)[k]
        BY <1>1, <2>1 DEF Grown
      <3>2. QED
        BY <3>1, InCells
    <2>2. CASE Turned(r, s, item) /\ k = 1
      BY <2>2 DEF Turned
    <2>3. CASE Turned(r, s, item) /\ k # 1
      <3>1. k - 1 \in 1..(length(r) - 1) /\ k - 1 + 1 = k
        BY <1>1, <2>3
      <3>2. length(s) = length(r) /\ Cells(s)[k - 1] = Cells(r)[k - 1 + 1]
        BY <3>1, <2>3 DEF Turned
      <3>3. k - 1 \in 1..length(s)
        BY <1>1, <3>1, <3>2
      <3>4. Cells(s)[k - 1] \in Range(Cells(s))
        BY <3>3, InCells
      <3>5. QED
        BY <3>1, <3>2, <3>4
    <2>4. QED
      BY <2>1, <2>2, <2>3
  <1>3. QED
    BY <1>1, <1>2, DroppedIsBounded

\* What Resize drops is known.
LEMMA ResizeDrops ==
  ASSUME NEW r \in Rings, Indexed(r), NEW s \in Rings, NEW n \in Nat, n <= length(r), KeepsLatest(r, s, n),
         \A k \in 1..(length(r) - length(s)) : Cells(r)[k] <= s.lastDiscarded
  PROVE  LatestDropped(r, s) \in Nat /\ LatestDropped(r, s) <= s.lastDiscarded
  <1>1. length(r) \in Nat /\ s.lastDiscarded \in Nat /\ length(s) = n
    BY RingNumbers DEF Rings, KeepsLatest
  <1>2. ASSUME NEW k \in 1..length(r)
        PROVE  Cells(r)[k] \in Range(Cells(s)) \/ Cells(r)[k] <= s.lastDiscarded
    <2>1. CASE k <= length(r) - n
      <3>1. k \in 1..(length(r) - length(s))
        BY <1>1, <2>1
      <3>2. QED
        BY <3>1
    <2>2. CASE ~ (k <= length(r) - n)
      <3> DEFINE j == k - (length(r) - n)
      <3>1. j \in 1..n /\ length(r) - n + j = k
        BY <1>1, <2>2
      <3> HIDE DEF j
      <3>2. Cells(s)[j] = Cells(r)[length(r) - n + j]
        BY <3>1 DEF KeepsLatest
      <3>3. Cells(s)[j] \in Range(Cells(s))
        BY <1>1, <3>1, InCells
      <3>4. QED
        BY <3>1, <3>2, <3>3
    <2>3. QED
      BY <2>1, <2>2
  <1>3. QED
    BY <1>1, <1>2, DroppedIsBounded

-----------------------------------------------------------------------------
LEMMA InitBuffer == HistoryBufferInit => BufferInv
  <1>1. SUFFICES ASSUME HistoryBufferInit PROVE BufferInv
    OBVIOUS
  <1>2. PICK size \in Lengths, window \in BOOLEAN : ring = Initialize(size, window)
    BY <1>1 DEF HistoryBufferInit
  <1>3. /\ log = [items |-> <<>>, pending |-> {}, dropped |-> 0] /\ windowed = 0 /\ unsent = RingItems
    BY <1>1 DEF HistoryBufferInit
  <1>4. size \in Nat /\ initialAutoSize \in Nat /\ initialAutoSize # 0
    BY HistoryBufferAssumption
  <1>5. PICK n \in Nat : /\ n = initialSize(size, window) /\ n <= size /\ (n = 0 => size = 0) /\ (window \/ n = size)
    <2>1. CASE window
      <3>1. initialSize(size, window) = IF size < initialAutoSize THEN size ELSE initialAutoSize
        BY <2>1 DEF initialSize
      <3>2. CASE size < initialAutoSize
        BY <3>1, <3>2, <2>1, <1>4
      <3>3. CASE ~ (size < initialAutoSize)
        BY <3>1, <3>3, <2>1, <1>4
      <3>4. QED
        BY <3>2, <3>3
    <2>2. CASE ~window
      BY <2>2, <1>4 DEF initialSize
    <2>3. QED
      BY <2>1, <2>2
  <1> DEFINE b == [p \in 0..(n - 1) |-> Blank]
  <1>6. b \in [0..(n - 1) -> Nat]
    BY DEF Blank
  <1>7. ring = [buffer |-> b, start |-> -1, end |-> -1, maximumSize |-> size, window |-> window, lastDiscarded |-> 0]
    BY <1>2, <1>5 DEF Initialize
  <1> HIDE DEF b
  <1>8. b \in Buffers
    BY <1>6, InBuffers
  <1>9. /\ ring \in Rings /\ ring.buffer = b /\ ring.start = -1 /\ ring.end = -1
        /\ ring.maximumSize = size /\ ring.window = window /\ ring.lastDiscarded = 0
    BY <1>4, <1>7, <1>8 DEF Rings
  <1>10. Size(ring) = n
    BY <1>6, <1>9, SizeOf
  <1>11. Indexed(ring) /\ Sized(ring) /\ length(ring) = 0
    BY <1>5, <1>9, <1>10 DEF Indexed, Sized, length
  <1>12. log \in Logs /\ log.items = <<>> /\ log.dropped = 0
    BY <1>3 DEF Logs
  <1>13. BufferType
    BY <1>3, <1>9, <1>11, <1>12 DEF BufferType
  <1>14. Len(log.items) = 0 /\ Len(log.items) <= ring.maximumSize
    BY <1>4, <1>9, <1>12
  <1>15. RingHoldsLatest
    BY <1>4, <1>9, <1>11, <1>14 DEF RingHoldsLatest
  <1>16. DiscardedIsKnown
    BY <1>9, <1>12 DEF DiscardedIsKnown
  <1>17. QED
    BY <1>13, <1>14, <1>15, <1>16 DEF BufferInv, RingExact

\* The parts of the invariant, for the steps.
LEMMA BufferFacts ==
  ASSUME BufferInv
  PROVE  /\ ring \in Rings /\ Indexed(ring) /\ Sized(ring)
         /\ windowed \in Nat /\ unsent \subseteq RingItems /\ log \in Logs
         /\ log.items \in Seq(Nat) /\ log.pending \in SUBSET RingItems /\ log.dropped \in Nat
         /\ Len(log.items) <= ring.maximumSize
         /\ Holds(ring, log.items, windowed) /\ log.dropped <= ring.lastDiscarded
         /\ ring.lastDiscarded \in Nat
  BY HoldsIs DEF BufferInv, BufferType, Logs, Rings, RingExact, DiscardedIsKnown

BufferParts ==
  /\ ring \in Rings /\ Indexed(ring) /\ Sized(ring)
  /\ windowed \in Nat /\ unsent \subseteq RingItems /\ log \in Logs
  /\ Len(log.items) <= ring.maximumSize /\ Holds(ring, log.items, windowed) /\ log.dropped <= ring.lastDiscarded

LEMMA BufferMade == BufferParts => BufferInv
  BY HoldsIs DEF BufferParts, BufferInv, BufferType, RingExact, DiscardedIsKnown

\* The time of a message is taken.
LEMMA TakeTimeKeeps == ASSUME BufferInv, TakeTime PROVE BufferInv'
  <1>1. PICK i \in unsent : unsent' = unsent \ {i} /\ log' = [log EXCEPT !.pending = @ \cup {i}]
    BY DEF TakeTime
  <1>2. ring' = ring /\ windowed' = windowed
    BY DEF TakeTime
  <1>3. i \in RingItems /\ unsent' \subseteq RingItems
    BY <1>1, BufferFacts
  <1>4. log' \in Logs /\ log'.items = log.items /\ log'.dropped = log.dropped
    BY <1>1, <1>3, BufferFacts DEF Logs
  <1>5. BufferParts'
    BY <1>2, <1>3, <1>4, BufferFacts DEF BufferParts, Holds, Indexed, Sized
  <1>6. QED
    BY <1>5, BufferMade, PTL

LEMMA GrowsKeeps == ASSUME BufferInv, Grows PROVE BufferInv'
  <1>1. /\ windowed' = windowed + 1 /\ ring' = ring /\ unsent' = unsent /\ log' = log
    BY DEF Grows
  <1>2. windowed + 1 \in Nat
    BY BufferFacts
  <1>3. Holds(ring, log.items, windowed + 1)
    <2>1. /\ Holds(ring, log.items, windowed) /\ windowed \in Nat /\ log.items \in Seq(Nat)
          /\ length(ring) \in Nat
      BY BufferFacts, RingNumbers
    <2>2. \A k \in 1..(Len(log.items) - length(ring)) : log.items[k] \in Nat
      BY <2>1
    <2>3. \A k \in 1..(Len(log.items) - length(ring)) : log.items[k] <= windowed + 1
      BY <2>1, <2>2 DEF Holds
    <2>4. QED
      BY <2>1, <2>3 DEF Holds
  <1>4. Holds(ring, log.items, windowed)'
    BY <1>1, <1>3 DEF Holds
  <1>5. BufferParts'
    BY <1>1, <1>2, <1>4, BufferFacts DEF BufferParts, Indexed, Sized
  <1>6. QED
    BY <1>5, BufferMade, PTL

\* A message is added.
LEMMA AddHistoryItemKeeps == ASSUME BufferInv, NEW i \in RingItems, AddHistoryItem(i) PROVE BufferInv'
  <1>1. /\ ring \in Rings /\ Indexed(ring) /\ Sized(ring)
        /\ windowed \in Nat /\ unsent \subseteq RingItems
        /\ log.items \in Seq(Nat) /\ log.pending \in SUBSET RingItems /\ log.dropped \in Nat
        /\ Len(log.items) <= ring.maximumSize
        /\ Holds(ring, log.items, windowed) /\ log.dropped <= ring.lastDiscarded
        /\ ring.lastDiscarded \in Nat /\ i \in Nat
    BY BufferFacts, ItemsAreNaturals
  <1>2. /\ ring' = IF status = "ephemeral" THEN Add(ring, i) ELSE ring
        /\ windowed' = windowed /\ unsent' = unsent
    BY DEF AddHistoryItem
  <1> DEFINE p == IF Len(Append(log.items, i)) > ring.maximumSize THEN Tail(Append(log.items, i)) ELSE Append(log.items, i)
             items == IF status = "ephemeral" /\ ring.maximumSize # 0 THEN p ELSE log.items
             dropped == Later(log.dropped, LatestDropped(ring, ring'))
  <1>3. log' = [pending |-> log.pending \ {i}, dropped |-> dropped, items |-> items]
    BY DEF AddHistoryItem
  <1>4. PICK r : r = ring'
    OBVIOUS
  <1>5. /\ r \in Rings /\ Indexed(r) /\ Sized(r)
        /\ items \in Seq(Nat) /\ Len(items) <= r.maximumSize /\ Holds(r, items, windowed)
        /\ ring.lastDiscarded <= r.lastDiscarded
        /\ LatestDropped(ring, r) \in Nat /\ LatestDropped(ring, r) <= r.lastDiscarded
    <2>1. CASE r = ring /\ items = log.items
      <3>1. \A k \in 1..length(ring) : Cells(ring)[k] \in Range(Cells(ring))
        BY InCells
      <3>2. LatestDropped(ring, ring) \in Nat /\ LatestDropped(ring, ring) <= ring.lastDiscarded
        BY <1>1, <3>1, DroppedIsBounded
      <3>3. ring.lastDiscarded <= ring.lastDiscarded
        BY <1>1
      <3>4. QED
        BY <1>1, <2>1, <3>2, <3>3
    <2>2. CASE status = "ephemeral" /\ ring.maximumSize # 0
      <3>1. Size(ring) # 0
        BY <1>1, <2>2 DEF Sized
      <3>2. r = Add(ring, i)
        BY <1>2, <1>4, <2>2
      <3>3. /\ r \in Rings /\ Indexed(r) /\ Sized(r)
            /\ r.maximumSize = ring.maximumSize /\ r.window = ring.window /\ ring.lastDiscarded <= r.lastDiscarded
            /\ Grown(ring, r, i) \/ Turned(ring, r, i)
        BY <1>1, <3>1, <3>2, AddKeeps
      <3>4. LatestDropped(ring, r) \in Nat /\ LatestDropped(ring, r) <= r.lastDiscarded
        BY <1>1, <3>3, AddDrops
      <3>5. PICK q : q = p
        OBVIOUS
      <3>6. q \in Seq(Nat) /\ Len(q) <= r.maximumSize /\ Holds(r, q, windowed)
        BY <1>1, <3>3, <3>5, AddLog
      <3>7. items = q
        BY <2>2, <3>5
      <3> HIDE DEF items
      <3>8. QED
        BY <3>3, <3>4, <3>6, <3>7
    <2>3. CASE status = "ephemeral" /\ ring.maximumSize = 0
      <3>1. Size(ring) = 0
        <4>1. Size(ring) \in Nat /\ Size(ring) <= ring.maximumSize
          BY <1>1, SizeType DEF Sized
        <4>2. QED
          BY <4>1, <2>3
      <3>2. Add(ring, i) = ring
        BY <3>1 DEF Add
      <3>3. r = ring /\ items = log.items
        BY <1>2, <1>4, <2>3, <3>2
      <3>4. QED
        BY <3>3, <2>1
    <2>4. CASE status # "ephemeral"
      <3>1. r = ring /\ items = log.items
        BY <1>2, <1>4, <2>4
      <3>2. QED
        BY <3>1, <2>1
    <2>5. QED
      BY <2>2, <2>3, <2>4
  <1>6. dropped \in Nat /\ dropped <= r.lastDiscarded
    <2>1. r.lastDiscarded \in Nat
      BY <1>5 DEF Rings
    <2>2. log.dropped <= r.lastDiscarded
      BY <2>1, <1>1, <1>5
    <2>3. QED
      BY <2>1, <2>2, <1>1, <1>4, <1>5, LaterBounds
  <1> HIDE DEF items, dropped
  <1>7. log' \in Logs /\ log'.items = items /\ log'.dropped = dropped
    BY <1>1, <1>3, <1>5, <1>6 DEF Logs
  <1>8. BufferParts'
    BY <1>1, <1>2, <1>4, <1>5, <1>6, <1>7 DEF BufferParts
  <1>9. QED
    BY <1>8, BufferMade, PTL

\* The sizes change.
LEMMA ResizeHistoryKeeps == ASSUME BufferInv, resizeHistory PROVE BufferInv'
  <1>1. /\ ring \in Rings /\ Indexed(ring) /\ Sized(ring)
        /\ windowed \in Nat /\ unsent \subseteq RingItems /\ log \in Logs
        /\ log.items \in Seq(Nat) /\ log.pending \in SUBSET RingItems /\ log.dropped \in Nat
        /\ Len(log.items) <= ring.maximumSize
        /\ Holds(ring, log.items, windowed) /\ log.dropped <= ring.lastDiscarded
        /\ ring.lastDiscarded \in Nat
    BY BufferFacts
  <1>2. windowed' = windowed /\ unsent' = unsent
    BY DEF resizeHistory
  <1>3. PICK s \in Statuses, size \in Lengths, window \in BOOLEAN :
          LET n == IF s = "ephemeral" THEN size ELSE 0
          IN /\ ring' = IF s = "ephemeral" THEN Resize(ring, size, window) ELSE Resize(ring, 0, FALSE)
             /\ log' = [log EXCEPT !.items = Latest(Latest(@, length(ring)), n),
                                   !.dropped = IF n = 0 THEN @ ELSE Later(@, LatestDropped(ring, ring'))]
    BY DEF resizeHistory
  <1>4. PICK n \in Nat, w \in BOOLEAN :
          /\ ring' = Resize(ring, n, w)
          /\ log' = [log EXCEPT !.items = Latest(Latest(@, length(ring)), n),
                                !.dropped = IF n = 0 THEN @ ELSE Later(@, LatestDropped(ring, ring'))]
    <2>1. size \in Nat
      BY HistoryBufferAssumption
    <2>2. CASE s = "ephemeral"
      BY <1>3, <2>1, <2>2
    <2>3. CASE s # "ephemeral"
      BY <1>3, <2>3
    <2>4. QED
      BY <2>2, <2>3
  <1>5. PICK r : r = ring'
    OBVIOUS
  <1>6. PICK items : items = Latest(Latest(log.items, length(ring)), n)
    OBVIOUS
  <1>7. PICK dropped : dropped = IF n = 0 THEN log.dropped ELSE Later(log.dropped, LatestDropped(ring, r))
    OBVIOUS
  <1>8. log' = [log EXCEPT !.items = items, !.dropped = dropped]
    BY <1>4, <1>5, <1>6, <1>7
  <1>9. PICK m \in Nat : m = (IF n < length(ring) THEN n ELSE length(ring)) /\ m <= length(ring)
    BY <1>1, RingNumbers
  <1>10. /\ r \in Rings /\ Indexed(r) /\ Sized(r)
         /\ r.maximumSize = n /\ r.window = w
         /\ KeepsLatest(ring, r, IF n < length(ring) THEN n ELSE length(ring))
         /\ ring.lastDiscarded <= r.lastDiscarded
         /\ n # 0 => \A k \in 1..(length(ring) - length(r)) : Cells(ring)[k] <= r.lastDiscarded
    <2>1. r = Resize(ring, n, w) /\ ring \in Rings /\ Indexed(ring) /\ Sized(ring)
      BY <1>1, <1>4, <1>5
    <2>2. QED
      BY <2>1, SettingKeeps
  <1>11. items \in Seq(Nat) /\ Len(items) <= r.maximumSize /\ Holds(r, items, windowed)
    BY <1>1, <1>6, <1>10, ResizeLog
  <1>12. dropped \in Nat /\ dropped <= r.lastDiscarded
    <2>1. r.lastDiscarded \in Nat
      BY <1>10 DEF Rings
    <2>2. log.dropped <= r.lastDiscarded
      BY <2>1, <1>1, <1>10
    <2>3. CASE n = 0
      BY <2>2, <2>3, <1>1, <1>7
    <2>4. CASE n # 0
      <3>1. KeepsLatest(ring, r, m)
        BY <1>9, <1>10
      <3>2. LatestDropped(ring, r) \in Nat /\ LatestDropped(ring, r) <= r.lastDiscarded
        BY <3>1, <2>4, <1>1, <1>9, <1>10, ResizeDrops
      <3>3. QED
        BY <3>2, <2>1, <2>2, <2>4, <1>1, <1>7, LaterBounds
    <2>5. QED
      BY <2>3, <2>4
  <1>13. log' \in Logs /\ log'.items = items /\ log'.dropped = dropped
    BY <1>1, <1>8, <1>11, <1>12 DEF Logs
  <1>14. BufferParts'
    BY <1>1, <1>2, <1>5, <1>10, <1>11, <1>12, <1>13 DEF BufferParts
  <1>15. QED
    BY <1>14, BufferMade, PTL

\* Messages are emptied, in the ring and in the log.
LEMMA EmptiedKeeps ==
  ASSUME BufferInv, NEW its, ring' = Delete(ring, its), windowed' = windowed, unsent' = unsent,
         log' = [log EXCEPT !.items = [k \in DOMAIN @ |-> IF @[k] \in its THEN Blank ELSE @[k]]]
  PROVE  BufferInv'
  <1>1. /\ ring \in Rings /\ Indexed(ring) /\ Sized(ring)
        /\ windowed \in Nat /\ unsent \subseteq RingItems /\ log \in Logs
        /\ log.items \in Seq(Nat) /\ log.dropped \in Nat
        /\ Len(log.items) <= ring.maximumSize
        /\ Holds(ring, log.items, windowed) /\ log.dropped <= ring.lastDiscarded
    BY BufferFacts
  <1>2. PICK r : r = ring'
    OBVIOUS
  <1>3. PICK items : items = Emptied(log.items, its)
    OBVIOUS
  <1>4. log' = [log EXCEPT !.items = items]
    BY <1>3 DEF Emptied
  <1>5. /\ r \in Rings /\ Indexed(r) /\ Sized(r)
        /\ r.maximumSize = ring.maximumSize /\ r.lastDiscarded = ring.lastDiscarded
    <2>1. r = Delete(ring, its) /\ ring \in Rings /\ Indexed(ring) /\ Sized(ring)
      BY <1>1, <1>2
    <2>2. QED
      BY <2>1, DeleteKeeps
  <1>6. items \in Seq(Nat) /\ Len(items) = Len(log.items) /\ Holds(r, items, windowed)
    <2>1. /\ r = Delete(ring, its) /\ ring \in Rings /\ Indexed(ring) /\ Sized(ring)
          /\ log.items \in Seq(Nat) /\ windowed \in Nat /\ Holds(ring, log.items, windowed)
      BY <1>1, <1>2
    <2>2. QED
      BY <2>1, <1>3, DeleteLog
  <1>7. log' \in Logs /\ log'.items = items /\ log'.dropped = log.dropped
    BY <1>1, <1>4, <1>6 DEF Logs
  <1>8. BufferParts'
    BY <1>1, <1>2, <1>5, <1>6, <1>7 DEF BufferParts
  <1>9. QED
    BY <1>8, BufferMade, PTL

\* REDACT and HistServ DELETE.
LEMMA DeleteAsKeeps ==
  ASSUME BufferInv, NEW who, NEW canDelete, NEW i \in RingItems, DeleteAs(who, canDelete, i)
  PROVE  BufferInv'
  <1>1. windowed' = windowed /\ unsent' = unsent
    BY DEF DeleteAs
  <1>2. PICK c : DeleteMessage(who, c, i)
    BY DEF DeleteAs
  <1>3. /\ ring' = Delete(ring, {i}) \/ ring' = ring
        /\ log' = [log EXCEPT !.items = [k \in DOMAIN @ |-> IF @[k] = i /\ ring' # ring THEN Blank ELSE @[k]]]
    BY <1>2 DEF DeleteMessage
  <1>4. CASE ring' = Delete(ring, {i}) /\ ring' # ring
    <2>1. log' = [log EXCEPT !.items = [k \in DOMAIN @ |-> IF @[k] \in {i} THEN Blank ELSE @[k]]]
      BY <1>3, <1>4
    <2>2. QED
      BY <1>1, <1>4, <2>1, EmptiedKeeps
  <1>5. CASE ring' = ring
    <2>1. log \in Logs /\ log.items \in Seq(Nat)
      BY BufferFacts
    <2>2. [k \in DOMAIN log.items |-> log.items[k]] = log.items
      BY <2>1
    <2>3. log' = [log EXCEPT !.items = [k \in DOMAIN log.items |-> log.items[k]]]
      BY <1>3, <1>5
    <2>4. log' = log
      BY <2>1, <2>2, <2>3 DEF Logs
    <2>5. BufferParts'
      BY <1>1, <1>5, <2>4, BufferFacts DEF BufferParts
    <2>6. QED
      BY <2>5, BufferMade, PTL
  <1>6. QED
    BY <1>3, <1>4, <1>5

LEMMA NextBuffer == ASSUME BufferInv, [HistoryBufferNext]_ringVars PROVE BufferInv'
  <1>1. CASE TakeTime
    BY <1>1, TakeTimeKeeps
  <1>2. CASE Grows
    BY <1>2, GrowsKeeps
  <1>3. CASE resizeHistory
    BY <1>3, ResizeHistoryKeeps
  <1>4. CASE \E i \in RingItems : AddHistoryItem(i)
    BY <1>4, AddHistoryItemKeeps
  <1>5. CASE \E i \in RingItems, who \in DOMAIN Deleters : redactHandler(who, i) \/ histservDeleteHandler(who, i)
    BY <1>5, DeleteAsKeeps DEF redactHandler, histservDeleteHandler
  <1>6. CASE \E a \in {RingItemTo[i].account : i \in RingItems} : ForgetHistory(a)
    <2>1. PICK a : ForgetHistory(a)
      BY <1>6
    <2> DEFINE its == {i \in RingItems : RingItemTo[i].account = a}
    <2>2. /\ ring' = Delete(ring, its) /\ windowed' = windowed /\ unsent' = unsent
          /\ log' = [log EXCEPT !.items = [k \in DOMAIN @ |-> IF @[k] \in its THEN Blank ELSE @[k]]]
      BY <2>1 DEF ForgetHistory
    <2> HIDE DEF its
    <2>3. QED
      BY <2>2, EmptiedKeeps
  <1>7. CASE UNCHANGED ringVars
    <2>1. ring' = ring /\ windowed' = windowed /\ unsent' = unsent /\ log' = log
      BY <1>7 DEF ringVars
    <2>2. BufferParts'
      BY <2>1, BufferFacts DEF BufferParts
    <2>3. QED
      BY <2>2, BufferMade, PTL
  <1>8. QED
    BY <1>1, <1>2, <1>3, <1>4, <1>5, <1>6, <1>7 DEF HistoryBufferNext

\* At every moment the ring is a ring (Rings), start and end count what is in it (Sized),
\* the items lie in it in the order they were added (Indexed), it is at most as long as the
\* configuration allows, and it holds the latest: Add, maybeExpand, resize, Delete, Resize.
THEOREM BufferInvariant == HistoryBufferSpec => []BufferInv
  BY InitBuffer, NextBuffer, PTL DEF HistoryBufferSpec

\* For every number of messages, length and window: the ring holds the latest of what was
\* added, and what it dropped is not later than lastDiscarded (Add, maybeExpand, resize, Delete).
THEOREM RingKeepsLatest == HistoryBufferSpec => []RingExact
  <1>1. BufferInv => RingExact
    BY DEF BufferInv
  <1>2. QED
    BY <1>1, BufferInvariant, PTL
=============================================================================
