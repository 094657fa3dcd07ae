--------------------------- MODULE HistoryBuffer ----------------------------
(***************************************************************************)
(* The in-memory history: the ring buffer of history/history.go, what is   *)
(* put into it (AddHistoryItem), taken out of it (REDACT, HistServ DELETE, *)
(* FORGET), the rehash and the channel setting that resize it, and the     *)
(* queries of CHATHISTORY on it.                                           *)
(*                                                                         *)
(* A message gets its time before it is added, by the goroutine of its     *)
(* sender, so messages can be added out of the order of their times.  A    *)
(* deleted item leaves an empty Item, whose time is zero.                  *)
(***************************************************************************)
EXTENDS Integers, Sequences, FiniteSets, SequencesExt

CONSTANTS
  RingItemTo,       \* [1..n -> [correspondent, account]]: messages, in the order of their times
  Anyone,           \* the empty correspondent: the whole buffer
  Deleters,         \* [people who delete -> [account, chanop, oper]]
  initialAutoSize,
  Lengths,          \* values of channel-length / client-length
  MaxResizes,       \* bound: rehashes and settings
  MaxDeletions      \* bound: REDACT and FORGET commands

ASSUME HistoryBufferAssumption ==
  /\ DOMAIN RingItemTo \subseteq Nat \ {0}
  /\ initialAutoSize \in Nat \ {0} /\ Lengths \subseteq Nat /\ MaxResizes \in Nat /\ MaxDeletions \in Nat

RingItems == DOMAIN RingItemTo
HQ == INSTANCE HistoryQueries WITH ItemTo <- RingItemTo, NoName <- Anyone

VARIABLES
  ring,       \* Buffer: [buffer, start, end, maximumSize, window, lastDiscarded]
  status,     \* historyStatus of the channel or client
  unsent,     \* messages without a time yet: the first of them is the next
  resizes, deletions,
  windowed,   \* messages up to this one are older than the autoresize window
  log,        \* ghost: what was added, as long as it need not have been dropped, and the latest dropped
  disorder    \* ghost: messages were added out of order, or deleted

ringVars == <<ring, status, unsent, resizes, deletions, windowed, log, disorder>>

Blank == 0

-----------------------------------------------------------------------------
(* The ring.  `buffer` is a function on 0..size-1. *)

Size(r) == Cardinality(DOMAIN r.buffer)

length(r) ==
  CASE r.start = -1 -> 0
    [] r.start # -1 /\ r.start < r.end -> r.end - r.start
    [] r.start # -1 /\ r.start >= r.end -> Size(r) - (r.start - r.end)

\* The positions in use, oldest first.
Position(r, k) == (r.start + k - 1) % Size(r)

Later(a, b) == IF a < b THEN b ELSE a
Newest(S) == CHOOSE m \in S : \A x \in S : x <= m

\* What if: the earliest entries stay.
resize_Earliest(r, size) ==
  LET newbuffer == [p \in 0..(size - 1) |-> Blank]
      n == IF size < length(r) THEN size ELSE length(r)
  IN CASE r.start = -1 -> [r EXCEPT !.buffer = newbuffer]
       [] r.start # -1 /\ size = 0 -> [r EXCEPT !.buffer = newbuffer, !.start = -1, !.end = -1]
       [] r.start # -1 /\ size > 0 ->
            [r EXCEPT !.buffer = [p \in 0..(size - 1) |->
                                    IF p < n THEN r.buffer[Position(r, p + 1)] ELSE Blank],
                      !.start = 0, !.end = n % size]

\* Copy into a buffer of another size; when it is smaller the latest entries stay.
resize(r, size) ==
  LET newbuffer == [p \in 0..(size - 1) |-> Blank]
      n == IF size < length(r) THEN size ELSE length(r)
      dropped == {r.buffer[Position(r, k)] : k \in 1..(length(r) - n)}
  IN CASE r.start = -1 -> [r EXCEPT !.buffer = newbuffer]
       [] r.start # -1 /\ size = 0 -> [r EXCEPT !.buffer = newbuffer, !.start = -1, !.end = -1]
       [] r.start # -1 /\ size > 0 ->
            [r EXCEPT !.buffer = [p \in 0..(size - 1) |->
                                    IF p < n THEN r.buffer[Position(r, length(r) - n + p + 1)] ELSE Blank],
                      !.start = 0, !.end = n % size,
                      !.lastDiscarded = Newest({@} \cup dropped)]

initialSize(size, window) ==
  IF window THEN (IF size < initialAutoSize THEN size ELSE initialAutoSize) ELSE size

Initialize(size, window) ==
  [buffer |-> [p \in 0..(initialSize(size, window) - 1) |-> Blank], start |-> -1, end |-> -1,
   maximumSize |-> size, window |-> window, lastDiscarded |-> 0]

PowerOfTwo[k \in Nat] == IF k = 0 THEN 1 ELSE 2 * PowerOfTwo[k - 1]
RoundUpToPowerOfTwo(n) ==
  LET powers == {PowerOfTwo[k] : k \in 0..n}
  IN CHOOSE p \in powers : n <= p /\ \A q \in powers : n <= q => p <= q

\* Grow, unless the item to be overwritten is old enough; an empty item counts as old.
maybeExpand(r) ==
  LET new == RoundUpToPowerOfTwo(length(r) + 1)
  IN IF ~r.window \/ length(r) < Size(r) \/ Size(r) = r.maximumSize \/ r.buffer[r.start] <= windowed
     THEN r
     ELSE resize(r, IF r.maximumSize < new THEN r.maximumSize ELSE new)

Add(old, item) ==
  LET r == maybeExpand(old)
  IN CASE Size(old) = 0 -> old
       [] Size(old) # 0 /\ r.start = -1 ->
            [r EXCEPT !.buffer[0] = item, !.start = 0, !.end = 1 % Size(r)]
       [] Size(old) # 0 /\ r.start # -1 /\ r.start # r.end ->
            [r EXCEPT !.buffer[r.end] = item, !.end = (@ + 1) % Size(r)]
       [] Size(old) # 0 /\ r.start # -1 /\ r.start = r.end ->
            [r EXCEPT !.buffer[r.end] = item, !.end = (@ + 1) % Size(r), !.start = (@ + 1) % Size(r),
                      !.lastDiscarded = Later(@, r.buffer[r.end])]

\* Empty the items of a set.
Delete(r, items) ==
  [r EXCEPT !.buffer = [p \in DOMAIN @ |-> IF @[p] \in items THEN Blank ELSE @[p]]]

Resize(r, maximumSize, window) ==
  LET s == [r EXCEPT !.maximumSize = maximumSize, !.window = window]
  IN CASE r.maximumSize = maximumSize /\ r.window = window -> r
       [] (r.maximumSize # maximumSize \/ r.window # window) /\ (~window \/ maximumSize < Size(r)) -> resize(s, maximumSize)
       [] (r.maximumSize # maximumSize \/ r.window # window) /\ window /\ maximumSize >= Size(r) ->
            IF Size(r) < initialSize(maximumSize, window) THEN resize(s, initialSize(maximumSize, window)) ELSE s

\* All cells in use, oldest first.
Cells(r) == [k \in 1..length(r) |-> r.buffer[Position(r, k)]]

-----------------------------------------------------------------------------
(* Queries. *)

\* The first matches from one end; a limit of 0 is none.
matchInternal(r, matching, ascending, limit) ==
  LET all == SelectSeq(IF ascending THEN Cells(r) ELSE Reverse(Cells(r)), LAMBDA i : i \in matching)
  IN IF limit = 0 \/ Len(all) < limit THEN all ELSE SubSeq(all, 1, limit)

\* An id that is not in the buffer gives no results.
betweenHelper(r, start, end, cutoff, correspondent, limit) ==
  LET Missing(s) == s.id # 0 /\ s.id \notin Range(Cells(r))
      TimeOf(s) == IF s.id # 0 THEN s.id ELSE s.time
      w == HQ!MinMaxAsc(TimeOf(start), TimeOf(end), cutoff)
      satisfies(i) == /\ HQ!Inside(i, w)
                      /\ correspondent # Anyone => i # Blank /\ RingItemTo[i].correspondent = correspondent
      found == matchInternal(r, {i \in Range(Cells(r)) : satisfies(i)}, w.asc, limit)
  IN IF Missing(start) \/ Missing(end) THEN <<>>
     ELSE IF w.asc THEN found ELSE Reverse(found)

\* The correspondents with the time of the latest item of each, latest first.
allCorrespondents(r) ==
  LET rev == Reverse(Cells(r))
      Who(k) == IF rev[k] = Blank THEN Anyone ELSE RingItemTo[rev[k]].correspondent
      first == {k \in DOMAIN rev : \A q \in 1..(k - 1) : Who(q) # Who(k)}
  IN [k \in 1..Cardinality(first) |-> LET p == SetToSortSeq(first, <)[k] IN [name |-> Who(p), time |-> rev[p]]]

ListCorrespondents(r, start, end, limit) ==
  LET w == HQ!MinMaxAsc(start, end, 0)
      inside == SelectSeq(IF w.asc THEN Reverse(allCorrespondents(r)) ELSE allCorrespondents(r),
                          LAMBDA c : HQ!Inside(c.time, w))
      page == IF limit = 0 \/ Len(inside) < limit THEN inside ELSE SubSeq(inside, 1, limit)
  IN IF w.asc THEN page ELSE Reverse(page)

\* Timestamps are sent with milliseconds, times are kept with more: a millisecond is two
\* ticks here.  A lower bound is rounded up to the next one, to be exclusive.
Truncate(time) == time - (time % 2)
\* What if: rounded down, so that the message itself is shown again.
roundUp_Down(s) == IF s.time = 0 THEN s ELSE [s EXCEPT !.time = Truncate(@)]
roundUp(s) == IF s.time = 0 THEN s ELSE [s EXCEPT !.time = Truncate(@) + 2]

\* CHATHISTORY: from the preposition and its arguments to a query; `now` is later than
\* every message.
chathistory(r, preposition, a, b, cutoff, correspondent, limit) ==
  LET now == [id |-> 0, time |-> Cardinality(RingItems) + 1]
      both == a.time # 0 /\ b.time # 0
      B(s, e, n) == betweenHelper(r, s, e, cutoff, correspondent, n)
  IN CASE preposition = "between" -> B(IF both /\ a.time < b.time THEN roundUp(a) ELSE a,
                                       IF both /\ a.time >= b.time THEN roundUp(b) ELSE b, limit)
       [] preposition = "before"  -> B(HQ!Zero, a, limit)
       [] preposition = "after"   -> B(roundUp(a), HQ!Zero, limit)
       [] preposition = "latest"  -> IF a = HQ!Zero THEN B(HQ!Zero, HQ!Zero, limit) ELSE B(now, roundUp(a), limit)
       [] preposition = "around"  -> HQ!GenericAround(B, a, limit)

-----------------------------------------------------------------------------
(* Who keeps history where (channelHistoryStatus, historyEnabled). *)

historyEnabled(serverSetting, localSetting) ==
  CASE serverSetting = "mandatory" -> "persistent"
    [] serverSetting = "opt-out"   -> IF localSetting = "default" THEN "persistent" ELSE localSetting
    [] serverSetting = "opt-in"    -> IF localSetting = "default" THEN "ephemeral" ELSE localSetting
    [] serverSetting = "disabled"  -> IF localSetting = "disabled" THEN "disabled" ELSE "ephemeral"

channelHistoryStatus(enabled, registered, serverSetting, unregisteredChannels, stored) ==
  CASE ~enabled -> "disabled"
    [] enabled /\ registered -> historyEnabled(serverSetting, stored)
    [] enabled /\ ~registered -> IF unregisteredChannels THEN "persistent" ELSE "ephemeral"

-----------------------------------------------------------------------------
HistoryBufferInit ==
  /\ status = "ephemeral"
  /\ \E size \in Lengths, window \in BOOLEAN : ring = Initialize(size, window)
  /\ unsent = RingItems /\ resizes = 0 /\ deletions = 0 /\ windowed = 0
  /\ log = [items |-> <<>>, pending |-> {}, dropped |-> 0] /\ disorder = FALSE

\* The sender's goroutine takes the time.
TakeTime ==
  /\ \E i \in unsent : (\A k \in unsent : i <= k) /\ unsent' = unsent \ {i}
                       /\ log' = [log EXCEPT !.pending = @ \cup {i}]
  /\ UNCHANGED <<ring, status, resizes, deletions, windowed, disorder>>

\* Ghost: the latest message that a buffer r had and its successor s has not.
LatestDropped(r, s) == Newest({0} \cup (Range(Cells(r)) \ Range(Cells(s))))

\* channel.AddHistoryItem, client.addHistoryItem: in memory only when the history is
\* ephemeral.
AddHistoryItem(i) ==
  /\ i \in log.pending
  /\ ring' = IF status = "ephemeral" THEN Add(ring, i) ELSE ring
  /\ log' = [pending |-> log.pending \ {i},
             dropped |-> Later(log.dropped, LatestDropped(ring, ring')),
             items |-> LET s == Append(log.items, i)
                       IN CASE status # "ephemeral" \/ ring.maximumSize = 0 -> log.items
                            [] status = "ephemeral" /\ ring.maximumSize # 0 ->
                                 IF Len(s) > ring.maximumSize THEN Tail(s) ELSE s]
  /\ disorder' = (disorder \/ \E k \in log.pending : k < i)
  /\ UNCHANGED <<status, unsent, resizes, deletions, windowed>>

\* What the configuration and the channel's settings can come to.
Statuses ==
  {channelHistoryStatus(enabled, registered, server, unregistered, stored) :
     enabled \in BOOLEAN, registered \in BOOLEAN, unregistered \in BOOLEAN,
     server \in {"mandatory", "opt-out", "opt-in", "disabled"},
     stored \in {"default", "persistent", "ephemeral", "disabled"}}

Latest(s, n) == IF Len(s) > n THEN SubSeq(s, Len(s) - n + 1, Len(s)) ELSE s

\* resizeHistory: after a rehash, CS SET HISTORY or a registration.
resizeHistory ==
  /\ resizes < MaxResizes /\ resizes' = resizes + 1
  /\ \E s \in Statuses, size \in Lengths, window \in BOOLEAN :
       LET n == IF s = "ephemeral" THEN size ELSE 0
       IN /\ status' = s
          /\ ring' = IF s = "ephemeral" THEN Resize(ring, size, window) ELSE Resize(ring, 0, FALSE)
          /\ log' = [log EXCEPT !.items = Latest(Latest(@, length(ring)), n),
                                 !.dropped = IF n = 0 THEN @ ELSE Later(@, LatestDropped(ring, ring'))]
  /\ UNCHANGED <<unsent, deletions, windowed, disorder>>

\* Time passes: a message gets older than the window.
Grows ==
  /\ windowed + 1 \in RingItems \ unsent /\ windowed' = windowed + 1
  /\ UNCHANGED <<ring, status, unsent, resizes, deletions, log, disorder>>

\* What a person may delete: everything, what is in the channel, their own.
deletionPolicy(who, allowIndividualDelete) ==
  CASE Deleters[who].oper -> "any"
    [] ~Deleters[who].oper /\ allowIndividualDelete -> IF Deleters[who].chanop THEN "channel" ELSE "self"
    [] ~Deleters[who].oper /\ ~allowIndividualDelete -> "none"

\* DeleteMessage of an ephemeral buffer.
DeleteMessage(who, canDelete, i) ==
  LET allowed == canDelete = "self" => RingItemTo[i].account = Deleters[who].account
  IN /\ ring' = IF canDelete # "none" /\ status = "ephemeral" /\ allowed THEN Delete(ring, {i}) ELSE ring
     /\ disorder' = (disorder \/ ring' # ring)
     /\ log' = [log EXCEPT !.items = [k \in DOMAIN @ |-> IF @[k] = i /\ ring' # ring THEN Blank ELSE @[k]]]

\* What REDACT and HistServ DELETE share: without an account nothing of one's own.
DeleteAs(who, canDelete, i) ==
  /\ deletions < MaxDeletions /\ deletions' = deletions + 1
  /\ DeleteMessage(who, IF canDelete = "self" /\ Deleters[who].account = "*" THEN "none" ELSE canDelete, i)
  /\ UNCHANGED <<status, unsent, resizes, windowed>>

\* REDACT: to a person (a direct message) one's own may be deleted whatever the policy.
redactHandler(who, i) ==
  \E policy \in {deletionPolicy(who, b) : b \in BOOLEAN} \cup {"self"} : DeleteAs(who, policy, i)

histservDeleteHandler(who, i) == \E allow \in BOOLEAN : DeleteAs(who, deletionPolicy(who, allow), i)

\* FORGET, NS ERASE: everything of an account.
ForgetHistory(account) ==
  LET its == {i \in RingItems : RingItemTo[i].account = account}
  IN /\ deletions < MaxDeletions /\ deletions' = deletions + 1
     /\ ring' = Delete(ring, its)
     /\ disorder' = (disorder \/ ring' # ring)
     /\ log' = [log EXCEPT !.items = [k \in DOMAIN @ |-> IF @[k] \in its THEN Blank ELSE @[k]]]
     /\ UNCHANGED <<status, unsent, resizes, windowed>>

HistoryBufferNext ==
  \/ TakeTime \/ Grows \/ resizeHistory
  \/ \E i \in RingItems : AddHistoryItem(i) 
                            \/ \E who \in DOMAIN Deleters : redactHandler(who, i) \/ histservDeleteHandler(who, i)
  \/ \E a \in {RingItemTo[i].account : i \in RingItems} : ForgetHistory(a)

HistoryBufferSpec == HistoryBufferInit /\ [][HistoryBufferNext]_ringVars

-----------------------------------------------------------------------------
(* Properties. *)

\* The ring holds the latest of what was added, in the order it was added: all that fits
\* into the configured length, or, with autoresize, at least what is in the window.
RingHoldsLatest ==
  LET missing == Len(log.items) - length(ring)
  IN /\ missing >= 0 /\ length(ring) <= ring.maximumSize
     /\ \A k \in 1..length(ring) : Cells(ring)[k] = log.items[missing + k]
     /\ \A k \in 1..missing : ring.window /\ log.items[k] <= windowed

\* No item later than lastDiscarded was dropped, unless the whole history was switched off
\* (resize to 0 does not set it).
DiscardedIsKnown == log.dropped <= ring.lastDiscarded

\* CHATHISTORY answers by the times and ids of the messages as its definition says, when
\* the messages were added in order and none is deleted.
AnswersAreExact ==
  LET cells == Cells(ring)
      Sel(i) == [id |-> i, time |-> 0]
      Some(c, lo, hi) == {i \in Range(cells) : lo < i /\ i < hi /\ (c = Anyone \/ RingItemTo[i].correspondent = c)}
      top == Cardinality(RingItems) + 1
      Q(p, a, b, c, n) == chathistory(ring, p, a, b, 0, c, n)
      Between(s, e, n) == Q("between", s, e, Anyone, n)
      Around(s, n) == Q("around", s, HQ!Zero, Anyone, n)
  IN ~disorder =>
       /\ HQ!PagesAreWhole(Between, Around)
       /\ \A a \in Range(cells), c \in {Anyone} \cup {RingItemTo[i].correspondent : i \in RingItems}, n \in 1..2 :
            /\ Q("before", Sel(a), HQ!Zero, c, n) = HQ!Page(Some(c, 0, a), FALSE, n)
            /\ Q("after", Sel(a), HQ!Zero, c, n) = HQ!Page(Some(c, a, top), TRUE, n)
            /\ Q("latest", Sel(a), HQ!Zero, c, n) = HQ!Page(Some(c, a, top), FALSE, n)
       \* After the timestamp a message was shown with: not that message again, and all of
       \* the later milliseconds, but for what falls on the very start of the next one.
       /\ \A a \in Range(cells) :
            LET after == Range(Q("after", [id |-> 0, time |-> Truncate(a)], HQ!Zero, Anyone, top))
            IN Truncate(a) > 0 => /\ a \notin after
                                  /\ {i \in Some(Anyone, a, top) : i > Truncate(a) + 2} \subseteq after

\* The targets of a client are those it has messages with, each with the latest time.
TargetsAreExact ==
  ~disorder =>
    LET listed == ListCorrespondents(ring, 0, 0, 0)
        have == {i \in Range(Cells(ring)) : \A k \in Range(Cells(ring)) : RingItemTo[k].correspondent = RingItemTo[i].correspondent => k <= i}
    IN listed = [k \in 1..Cardinality(have) |-> LET i == SetToSortSeq(have, <)[k] IN [name |-> RingItemTo[i].correspondent, time |-> i]]

\* The in-memory history keeps what it should, through wrap-around, growth, rehashes and
\* deletions (Add, maybeExpand, resize, Delete).
RingExact == RingHoldsLatest /\ DiscardedIsKnown

\* ... and answers from it what was asked for (betweenHelper, allCorrespondents, roundUp).
BufferAnswers == AnswersAreExact /\ TargetsAreExact
=============================================================================
