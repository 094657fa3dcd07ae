--------------------------- MODULE SQLiteHistory ----------------------------
(***************************************************************************)
(* sqlite/history.go: what each statement does to the tables, and which    *)
(* statements an operation runs, in order.  No statement has a timeout;    *)
(* one can still fail (the busy timeout, the disk).                        *)
(***************************************************************************)
EXTENDS HistoryQueries

CONSTANT cleanupRowLimit

-----------------------------------------------------------------------------
(* The schema. *)

createCorrespondentsTable == <<"correspondents">>

createComplianceTables == <<"account_messages", "forget">>

createTables == <<"history", "sequence", "conversations">> \o createCorrespondentsTable \o createComplianceTables

\* The statements that bring the database up to date; CREATE TABLE fails on a table
\* that exists.  There is no older version; a missing minor version is let pass.
fixSchemas(meta) ==
  IF meta.version THEN <<>> ELSE createTables \o <<"version", "minor">>

-----------------------------------------------------------------------------
(* Writing. *)

insertBase(t, i) == [t EXCEPT !.history = @ \cup {i}]

insertSequenceEntry(t, i) == [t EXCEPT !.sequence = @ \cup {i}]

insertConversationEntry(t, target, correspondent, i) ==
  [t EXCEPT !.conversations = @ \cup {<<target, correspondent, i>>}]

insertCorrespondentsEntry(t, target, correspondent, i) ==
  [t EXCEPT !.correspondents = Upsert(@, target, correspondent, i)]

insertAccountMessageEntry(t, i, tracking) ==
  IF ItemTo[i].account = NoName \/ ~tracking THEN t ELSE [t EXCEPT !.account_messages = @ \cup {i}]

AddChannelItem(i) == <<"base", "sequence", "account">>

AddDirectMessage(i) ==
  LET it == ItemTo[i]
  IN IF it.account = NoName /\ it.toAccount = NoName THEN <<>>
     ELSE <<"base">>
          \o (IF it.account # NoName THEN <<"convFrom", "corrFrom">> ELSE <<>>)
          \o (IF it.toAccount # NoName /\ it.from # it.to THEN <<"convTo", "corrTo">> ELSE <<>>)
          \o <<"account">>

\* One prepared statement.
Exec(t, statement, i, tracking) ==
  LET it == ItemTo[i]
  IN CASE statement = "base"     -> insertBase(t, i)
       [] statement = "sequence" -> insertSequenceEntry(t, i)
       [] statement = "convFrom" -> insertConversationEntry(t, it.account, it.to, i)
       [] statement = "corrFrom" -> insertCorrespondentsEntry(t, it.account, it.to, i)
       [] statement = "convTo"   -> insertConversationEntry(t, it.toAccount, it.from, i)
       [] statement = "corrTo"   -> insertCorrespondentsEntry(t, it.toAccount, it.from, i)
       [] statement = "account"  -> insertAccountMessageEntry(t, i, tracking)

-----------------------------------------------------------------------------
(* Removing. *)

\* The tables from which rows go, in order: what lists an item goes before the item.
DeletionOrder == <<"conversations", "sequence", "account_messages", "history">>

\* One of its statements.
deleteHistoryIDs(t, table, ids, tracking) ==
  CASE table = "conversations"    -> [t EXCEPT !.conversations = {r \in @ : r[3] \notin ids}]
    [] table = "sequence"         -> [t EXCEPT !.sequence = @ \ ids]
    [] table = "account_messages" -> IF tracking THEN [t EXCEPT !.account_messages = @ \ ids] ELSE t
    [] table = "history"          -> [t EXCEPT !.history = @ \ ids]

\* The time of an item, from whatever lists it; 0 when nothing does.
extractNanotime(t, i) == IF i \in t.sequence \/ \E r \in t.conversations : r[3] = i THEN i ELSE 0

\* Of the first rows (the join has one per conversation), those older than the threshold.
selectCleanupIDs(t, threshold) ==
  LET rows == {<<r[3], r[1]>> : r \in t.conversations} \cup {<<i, NoName>> : i \in t.history}
      Before(i) == {r \in rows : r[1] \in t.history /\ r[1] < i /\ (r[2] # NoName \/ \A q \in t.conversations : q[3] # r[1])}
      first == {i \in t.history : Cardinality(Before(i)) < cleanupRowLimit}
  IN {i \in first : extractNanotime(t, i) < threshold}

deleteCorrespondents(t, threshold) == [t EXCEPT !.correspondents = {r \in @ : r[3] > threshold}]

\* A batch of the account's items: LIMIT without ORDER BY.
doForgetIteration(t, account) ==
  LET mine == {i \in t.account_messages : ItemTo[i].account = account}
      n == IF Cardinality(mine) < cleanupRowLimit THEN Cardinality(mine) ELSE cleanupRowLimit
  IN {ids \in SUBSET mine : Cardinality(ids) = n}

-----------------------------------------------------------------------------
(* Reading. *)

\* The item's time, 0 for sql.ErrNoRows.
lookupMsgid(t, i) == IF i \in t.history THEN extractNanotime(t, i) ELSE 0

LoadMsgid(t, i) == lookupMsgid(t, i) # 0

betweenTimestamps(t, target, correspondent, after, before, cutoff, limit) ==
  LET w == MinMaxAsc(after, before, cutoff)
      listed == IF correspondent = NoName THEN {i \in t.sequence : ItemTo[i].to = target}
                ELSE {i \in Items : <<target, correspondent, i>> \in t.conversations}
  IN Page({i \in listed \cap t.history : Inside(i, w)}, w.asc, limit)

Between(t, target, correspondent, cutoff, start, end, limit) ==
  LET TimeOf(s) == IF s.id # 0 THEN lookupMsgid(t, s.id) ELSE s.time
  IN IF \E s \in {start, end} : s.id # 0 /\ lookupMsgid(t, s.id) = 0 THEN <<>>
     ELSE betweenTimestamps(t, target, correspondent, TimeOf(start), TimeOf(end), cutoff, limit)

Around(t, target, correspondent, cutoff, start, limit) ==
  LET B(s, e, n) == Between(t, target, correspondent, cutoff, s, e, n)
  IN GenericAround(B, start, limit)

listCorrespondentsInternal(t, target, after, before, limit) ==
  LET w == MinMaxAsc(after, before, 0)
      rows == {r \in t.correspondents : r[1] = target /\ Inside(r[3], w)}
  IN PageBy(rows, [r \in rows |-> r[3]], w.asc, limit)

\* selectChannelTime for each channel; those without rows are skipped.
ListChannels(t, channels) ==
  LET selectChannelTime(c) == Page({i \in t.sequence : ItemTo[i].to = c}, FALSE, 1)
  IN {<<c, selectChannelTime(c)[1]>> : c \in {c \in channels : selectChannelTime(c) # <<>>}}

Export(t, account) ==
  {i \in t.account_messages \cap t.history \cap t.sequence : ItemTo[i].account = account}
=============================================================================
