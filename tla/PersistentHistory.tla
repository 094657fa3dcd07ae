------------------------- MODULE PersistentHistory --------------------------
(***************************************************************************)
(* The persistent history: goroutines that store messages, REDACT and      *)
(* HistServ DELETE, the cleanup and the forget routine share one database. *)
(* The same control is in all three backends; `backend` says which one the *)
(* server was configured with, and the statements are that backend's.      *)
(* Any statement can fail, by a timeout after it has taken effect too; the *)
(* server can crash between any two.                                       *)
(***************************************************************************)
EXTENDS HistoryQueries

CONSTANTS
  cleanupRowLimit,
  MaxRemovals,      \* bound, per backend: REDACT and ERASE commands
  MaxHistoryFaults  \* bound, per backend: failing statements, crashes, rehashes

Backends == {"mysql", "postgres", "sqlite"}

ASSUME PersistentHistoryAssumption ==
  /\ cleanupRowLimit \in Nat \ {0}
  /\ \A b \in Backends : MaxRemovals[b] \in Nat /\ MaxHistoryFaults[b] \in Nat
  /\ Items \subseteq Nat \ {0} /\ IsFiniteSet(Items)
  /\ \A i \in Items :
       /\ ItemTo[i].sort \in {"channel", "direct"} /\ ItemTo[i].to # NoName /\ ItemTo[i].from # NoName
       \* to oneself: one nick has one account
       /\ ItemTo[i].sort = "direct" /\ ItemTo[i].from = ItemTo[i].to => ItemTo[i].account = ItemTo[i].toAccount

My == INSTANCE MySQLHistory
Pg == INSTANCE PostgreSQLHistory
Lite == INSTANCE SQLiteHistory

VARIABLES
  backend,    \* "mysql", "postgres", "sqlite"
  meta,       \* the metadata table, and which tables exist
  tb,         \* the tables
  opened,     \* open(): [st : {"no", "opening", "yes"}, left : statements]
  write,      \* [Items -> [st, left]]: the goroutine that stores the item
  job,        \* [Jobs -> ...]: the deletions under way
  woken,      \* wakeForgetter
  aged,       \* items up to this one are older than the expire time
  tracking,   \* trackAccountMessages
  removals, historyFaults,
  requested,  \* ghost: items whose removal was asked for
  gone,       \* ghost: items that were reported as removed
  caught      \* ghost: items that a deletion found while they were being written

historyVars == <<backend, meta, tb, opened, write, job, woken, aged, tracking,
                 removals, historyFaults, requested, gone, caught>>

Jobs == {"cleaner", "forgetter", "redactor"}
NoJob == [at |-> "rest", ids |-> {}, left |-> <<>>, account |-> NoName]

TrackedAccounts == {ItemTo[i].account : i \in Items} \ {NoName}

-----------------------------------------------------------------------------
(* The configured backend. *)

ByBackend(mysql, postgres, sqlite) ==
  CASE backend = "mysql" -> mysql [] backend = "postgres" -> postgres [] backend = "sqlite" -> sqlite

fixSchemas(m) == ByBackend(My!fixSchemas(m), Pg!fixSchemas(m), Lite!fixSchemas(m))

Exec(t, s, i) ==
  ByBackend(My!Exec(t, s, i, tracking), Pg!Exec(t, s, i, tracking), Lite!Exec(t, s, i, tracking))

AddItem(i) ==
  IF ItemTo[i].sort = "direct"
  THEN ByBackend(My!AddDirectMessage(i), Pg!AddDirectMessage(i), Lite!AddDirectMessage(i))
  ELSE ByBackend(My!AddChannelItem(i), Pg!AddChannelItem(i), Lite!AddChannelItem(i))

DeletionOrder == ByBackend(My!DeletionOrder, Pg!DeletionOrder, Lite!DeletionOrder)

DeleteFrom(t, table, ids) ==
  ByBackend(My!deleteHistoryIDs(t, table, ids, tracking), Pg!deleteHistoryIDs(t, table, ids, tracking),
            Lite!deleteHistoryIDs(t, table, ids, tracking))

CleanupIDs(t, threshold) ==
  ByBackend(My!selectCleanupIDs(t, threshold), Pg!selectCleanupIDs(t, threshold), Lite!selectCleanupIDs(t, threshold))

DropCorrespondents(t, threshold) ==
  ByBackend(My!deleteCorrespondents(t, threshold), Pg!deleteCorrespondents(t, threshold),
            Lite!deleteCorrespondents(t, threshold))

ForgetBatches(t, account) ==
  ByBackend(My!doForgetIteration(t, account), Pg!doForgetIteration(t, account), Lite!doForgetIteration(t, account))

TimeOfMsgid(t, i) == ByBackend(My!lookupMsgid(t, i), Pg!lookupMsgid(t, i), Lite!lookupMsgid(t, i))

-----------------------------------------------------------------------------
Fresh == [version |-> FALSE, minor |-> 0, tables |-> {}]

\* MySQL databases may be of version 2.0 (no compliance tables) or 2.1.
OlderMySQL ==
  {[version |-> TRUE, minor |-> 0, tables |-> {"history", "sequence", "conversations"}],
   [version |-> TRUE, minor |-> 1,
    tables |-> {"history", "sequence", "conversations", "account_messages", "forget"}]}

PersistentHistoryInit ==
  /\ \/ backend \in {"mysql", "postgres", "sqlite"} /\ meta = Fresh
     \/ backend = "mysql" /\ meta \in OlderMySQL
  /\ tb = EmptyTables /\ opened = [st |-> "no", left |-> <<>>]
  /\ write = [i \in Items |-> [st |-> "new", left |-> <<>>]]
  /\ job = [j \in Jobs |-> NoJob] /\ woken = FALSE /\ aged = 0 /\ tracking = TRUE
  /\ removals = 0 /\ historyFaults = 0 /\ requested = {} /\ gone = {} /\ caught = {}

\* A statement succeeds, or fails without or after its effect.
Outcome(ok) ==
  IF ok THEN UNCHANGED historyFaults
  ELSE historyFaults < MaxHistoryFaults[backend] /\ historyFaults' = historyFaults + 1

DbUp == opened.st = "yes"

-----------------------------------------------------------------------------
(* open. *)

\* The statements that the schema needs.
open ==
  /\ opened.st = "no" /\ opened' = [st |-> "opening", left |-> fixSchemas(meta)]
  /\ UNCHANGED <<backend, meta, tb, write, job, woken, aged, tracking, removals, historyFaults, requested, gone, caught>>

\* One of them; when all are done the routines are started.
OpenStatement ==
  /\ opened.st = "opening"
  /\ IF opened.left = <<>>
       THEN /\ opened' = [opened EXCEPT !.st = "yes"] /\ UNCHANGED meta
            /\ job' = [job EXCEPT !["forgetter"].at = "next"]
       ELSE LET s == Head(opened.left)
            IN /\ UNCHANGED job
               /\ IF s \in meta.tables
                    THEN opened' = [st |-> "no", left |-> <<>>] /\ UNCHANGED meta
                    ELSE /\ opened' = [opened EXCEPT !.left = Tail(@)]
                         /\ meta' = CASE s = "version" -> [meta EXCEPT !.version = TRUE]
                                      [] s = "minor"   -> [meta EXCEPT !.minor = 2]
                                      [] OTHER         -> [meta EXCEPT !.tables = @ \cup {s}]
  /\ UNCHANGED <<backend, tb, write, woken, aged, tracking, removals, historyFaults, requested, gone, caught>>

\* The server dies: what was under way is not finished.
HistoryCrash ==
  /\ opened.st # "no" /\ Outcome(FALSE)
  /\ opened' = [st |-> "no", left |-> <<>>] /\ job' = [j \in Jobs |-> NoJob] /\ woken' = FALSE
  /\ write' = [i \in Items |-> IF write[i].st = "busy" THEN [st |-> "failed", left |-> <<>>] ELSE write[i]]
  /\ UNCHANGED <<backend, meta, tb, aged, tracking, removals, requested, gone, caught>>

\* A rehash changes track-account-messages.
SetConfig ==
  /\ DbUp /\ Outcome(FALSE) /\ tracking' = ~tracking
  /\ UNCHANGED <<backend, meta, tb, opened, write, job, woken, aged, removals, requested, gone, caught>>

\* An item gets older than the expire time.
Ages ==
  /\ DbUp /\ aged + 1 \in Items /\ write[aged + 1].st \in {"stored", "failed"} /\ aged' = aged + 1
  /\ UNCHANGED <<backend, meta, tb, opened, write, job, woken, tracking, removals, historyFaults, requested, gone, caught>>

-----------------------------------------------------------------------------
(* Storing. *)

\* AddChannelItem or AddDirectMessage is called; rows get their numbers in the order of
\* the items.
Store(i) ==
  /\ DbUp /\ write[i].st = "new"
  /\ \A k \in Items : k < i => write[k].st # "new" /\ "base" \notin Range(write[k].left)
  /\ write' = [write EXCEPT ![i] = [st |-> IF AddItem(i) = <<>> THEN "failed" ELSE "busy", left |-> AddItem(i)]]
  /\ UNCHANGED <<backend, meta, tb, opened, job, woken, aged, tracking, removals, historyFaults, requested, gone, caught>>

\* Its next statement; an error ends it.
StoreStatement(i) ==
  \E ok, effect \in BOOLEAN :
    /\ DbUp /\ write[i].st = "busy" /\ (ok => effect) /\ Outcome(ok)
    /\ tb' = IF effect THEN Exec(tb, Head(write[i].left), i) ELSE tb
    /\ write' = [write EXCEPT ![i] =
                   IF ~ok THEN [st |-> "failed", left |-> <<>>]
                   ELSE [st |-> IF Len(@.left) = 1 THEN "stored" ELSE "busy", left |-> Tail(@.left)]]
    /\ UNCHANGED <<backend, meta, opened, job, woken, aged, tracking, removals, requested, gone, caught>>

-----------------------------------------------------------------------------
(* Removing. *)

\* deleteHistoryIDs: the next table; `then` is the job's state after the last one.
DeleteStatement(j, then) ==
  \E ok, effect \in BOOLEAN :
    /\ DbUp /\ job[j].at = "delete" /\ (ok => effect) /\ Outcome(ok)
    /\ tb' = IF effect THEN DeleteFrom(tb, Head(job[j].left), job[j].ids) ELSE tb
    /\ job' = [job EXCEPT ![j] = CASE ok /\ Len(@.left) > 1 -> [job[j] EXCEPT !.left = Tail(@)]
                                   [] ok /\ Len(@.left) = 1 -> then
                                   [] ~ok -> IF j = "forgetter" THEN [NoJob EXCEPT !.at = "next"] ELSE NoJob]
    /\ gone' = IF ok /\ Len(job[j].left) = 1 /\ j = "redactor" THEN gone \cup job[j].ids ELSE gone
    /\ UNCHANGED <<backend, meta, opened, write, woken, aged, tracking, removals, requested, caught>>

Deleting(ids, account) == [at |-> "delete", ids |-> ids, left |-> DeletionOrder, account |-> account]

\* DeleteMsgid: of an item that can be found.
DeleteMsgid(i) ==
  /\ DbUp /\ job["redactor"] = NoJob /\ removals < MaxRemovals[backend] /\ removals' = removals + 1
  /\ TimeOfMsgid(tb, i) # 0
  /\ job' = [job EXCEPT !["redactor"] = Deleting({i}, NoName)]
  /\ requested' = requested \cup {i} /\ caught' = caught \cup ({i} \cap {k \in Items : write[k].st = "busy"})
  /\ UNCHANGED <<backend, meta, tb, opened, write, woken, aged, tracking, historyFaults, gone>>

\* doCleanup: select, then the correspondents up to the newest of the selected, then the
\* rows.  An item that nothing lists yet counts as old.
doCleanup ==
  LET ids == CleanupIDs(tb, aged + 1)
      listed == {i \in ids : TimeOfMsgid(tb, i) # 0}
  IN /\ DbUp /\ job["cleaner"] = NoJob /\ ids # {}
     /\ tb' = IF listed = {} THEN tb
              ELSE DropCorrespondents(tb, CHOOSE i \in listed : \A k \in listed : k <= i)
     /\ job' = [job EXCEPT !["cleaner"] = Deleting(ids, NoName)]
     /\ caught' = caught \cup {i \in ids : write[i].st = "busy"}
     /\ UNCHANGED <<backend, meta, opened, write, woken, aged, tracking, removals, historyFaults, requested, gone>>

\* Forget: queue the account and wake the routine.  `stored` (ghost): what is to go.
Forget(a) ==
  /\ DbUp /\ removals < MaxRemovals[backend] /\ removals' = removals + 1
  /\ tb' = [tb EXCEPT !.forget = Append(@, [account |-> a,
              stored |-> {i \in tb.account_messages : ItemTo[i].account = a /\ write[i].st = "stored"}])]
  /\ woken' = TRUE
  /\ requested' = requested \cup {i \in Items : ItemTo[i].account = a}
  /\ UNCHANGED <<backend, meta, opened, write, job, aged, tracking, historyFaults, gone, caught>>

\* doForget: take a row of the queue, or wait.
TakeForget ==
  /\ DbUp /\ job["forgetter"].at = "next"
  /\ \E ok \in BOOLEAN :
       /\ Outcome(ok)
       /\ job' = [job EXCEPT !["forgetter"] =
                    IF ok /\ tb.forget # <<>> THEN [NoJob EXCEPT !.at = "iterate", !.account = tb.forget[1].account]
                    ELSE [NoJob EXCEPT !.at = "wait"]]
  /\ UNCHANGED <<backend, meta, tb, opened, write, woken, aged, tracking, removals, requested, gone, caught>>

\* forgetLoop: <-wakeForgetter
Woken ==
  /\ DbUp /\ job["forgetter"].at = "wait" /\ woken
  /\ woken' = FALSE /\ job' = [job EXCEPT !["forgetter"].at = "next"]
  /\ UNCHANGED <<backend, meta, tb, opened, write, aged, tracking, removals, historyFaults, requested, gone, caught>>

\* The next batch; when there is none the row of the queue is deleted.
IterateForget ==
  LET f == job["forgetter"]
  IN /\ DbUp /\ f.at = "iterate"
     /\ \/ \E ids \in ForgetBatches(tb, f.account) :
             /\ ids # {} /\ job' = [job EXCEPT !["forgetter"] = Deleting(ids, f.account)]
             /\ UNCHANGED <<tb, gone>>
        \/ /\ ForgetBatches(tb, f.account) = {{}}
           /\ job' = [job EXCEPT !["forgetter"] = [NoJob EXCEPT !.at = "next"]]
           /\ gone' = gone \cup (tb.forget[1].stored \ caught) /\ tb' = [tb EXCEPT !.forget = Tail(@)]
     /\ UNCHANGED <<backend, meta, opened, write, woken, aged, tracking, removals, historyFaults, requested, caught>>

CleanupStatement == DeleteStatement("cleaner", NoJob)
RedactStatement == DeleteStatement("redactor", NoJob)
ForgetStatement ==
  DeleteStatement("forgetter", [NoJob EXCEPT !.at = "iterate", !.account = job["forgetter"].account])

PersistentHistoryNext ==
  \/ open \/ OpenStatement \/ HistoryCrash \/ SetConfig \/ Ages
  \/ \E i \in Items : Store(i) \/ StoreStatement(i) \/ DeleteMsgid(i)
  \/ doCleanup \/ CleanupStatement \/ RedactStatement \/ ForgetStatement
  \/ TakeForget \/ Woken \/ IterateForget
  \/ \E a \in TrackedAccounts : Forget(a)

PersistentHistorySpec == PersistentHistoryInit /\ [][PersistentHistoryNext]_historyVars

-----------------------------------------------------------------------------
(* What a client can read. *)

\* The pairs (target, correspondent) under which an item is to be found.
HistoryReaders(i) ==
  LET it == ItemTo[i]
  IN IF it.sort = "channel" THEN {<<it.to, NoName>>}
     ELSE {r \in {<<it.account, it.to>>, <<it.toAccount, it.from>>} : r[1] # NoName}

Reads(t, r, start, end, limit) ==
  ByBackend(My!Between(t, r[1], r[2], 0, start, end, limit), Pg!Between(t, r[1], r[2], 0, start, end, limit),
            Lite!Between(t, r[1], r[2], 0, start, end, limit))

Readable(i, r) == i \in Range(Reads(tb, r, Zero, Zero, Cardinality(Items)))

Exported(a) == ByBackend(My!Export(tb, a), Pg!Export(tb, a), Lite!Export(tb, a))

Loaded(i) == ByBackend(My!LoadMsgid(tb, i), Pg!LoadMsgid(tb, i), Lite!LoadMsgid(tb, i))

Correspondents(target) ==
  LET n == Cardinality(tb.correspondents)
  IN ByBackend(My!listCorrespondentsInternal(tb, target, 0, 0, n), Pg!listCorrespondentsInternal(tb, target, 0, 0, n),
               Lite!listCorrespondentsInternal(tb, target, 0, 0, n))

\* A message whose storing succeeded is read by everyone it is for, and its conversation
\* is listed, until somebody asks for its removal or it is too old; the cleanup can take
\* one that was being written.
StoredIsReadable ==
  \A i \in Items : write[i].st = "stored" /\ i > aged /\ i \notin requested \cup caught
    => \A r \in HistoryReaders(i) :
         /\ Readable(i, r)
         /\ r[2] # NoName => \E c \in Range(Correspondents(r[1])) : c[2] = r[2] /\ c[3] >= i

\* A message that DeleteMsgid or the forget routine has reported as removed is not read,
\* loaded or exported again, whatever else was being written or deleted.  Not reported by
\* the forget routine: one that another deletion caught while it was written, which can lose
\* its account_messages row before what lists it.
RemovedIsGone ==
  \A i \in gone : /\ ~Loaded(i) /\ \A a \in TrackedAccounts : i \notin Exported(a)
                  /\ \A r \in HistoryReaders(i) : ~Readable(i, r)

\* The backends answer ListChannels alike, each with a query of its own.
BackendsAgree ==
  LET chans == {ItemTo[i].to : i \in {i \in Items : ItemTo[i].sort = "channel"}}
  IN My!ListChannels(tb, chans) = Pg!ListChannels(tb, chans) /\ Pg!ListChannels(tb, chans) = Lite!ListChannels(tb, chans)

\* The history database: stored messages are read, removed ones are not, also when
\* writers, deleters, the cleanup, failures and crashes interleave, and the backends agree
\* (AddChannelItem, AddDirectMessage, DeleteMsgid, doForget, doCleanup).
HistoryExact == StoredIsReadable /\ RemovedIsGone /\ BackendsAgree
=============================================================================
