---------------------------- MODULE MCHistory ----------------------------
(***************************************************************************)
(* What is kept and who reads it, on small instances: the persistent       *)
(* history with its three backends, the history buffer, the access to it,  *)
(* and the data of an always-on client.  At the level they are modelled at *)
(* they share no state: a behaviour is a behaviour of one of them (`part`),*)
(* and the others stay in one initial state.                               *)
(***************************************************************************)
EXTENDS PersistentHistory, HistoryBuffer, HistoryAccess, AccountData

VARIABLE part

-----------------------------------------------------------------------------
(* PersistentHistory: a direct message, a channel message of somebody       *)
(* without an account, one fault. *)
MCItemTo == << [sort |-> "direct", from |-> "a", account |-> "a", to |-> "b", toAccount |-> "b"],
               [sort |-> "channel", from |-> "d", account |-> "", to |-> "c", toAccount |-> ""] >>
MCFaults == [b \in Backends |-> IF b = "mysql" THEN 1 ELSE 0]
MCRemovals == [b \in Backends |-> IF b = "sqlite" THEN 2 ELSE 1]

(* HistoryBuffer: messages of two accounts with two correspondents; an      *)
(* operator, an author and a channel operator delete them. *)
MCRingItemTo == [i \in 1..4 |-> [correspondent |-> IF i \in {2, 3} THEN "x" ELSE "y",
                                 account |-> IF i = 1 THEN "a" ELSE "b"]]
MCDeleters == [o |-> [account |-> "*", chanop |-> FALSE, oper |-> TRUE],
               p |-> [account |-> "a", chanop |-> FALSE, oper |-> FALSE],
               q |-> [account |-> "*", chanop |-> TRUE, oper |-> FALSE]]

(* The pages the three backends cut from a channel's history are whole, for *)
(* every set of five stored messages. *)
Q == 1..5
QItemTo == [i \in Q |-> [sort |-> "channel", from |-> "a", account |-> "a", to |-> "c", toAccount |-> ""]]
QM == INSTANCE MySQLHistory WITH ItemTo <- QItemTo
QP == INSTANCE PostgreSQLHistory WITH ItemTo <- QItemTo
QL == INSTANCE SQLiteHistory WITH ItemTo <- QItemTo

ASSUME QueriesPage ==
  \A S \in SUBSET Q :
    LET t == [EmptyTables EXCEPT !.history = S, !.sequence = S]
        BM(s, e, n) == QM!Between(t, "c", NoName, 0, s, e, n)
        BP(s, e, n) == QP!Between(t, "c", NoName, 0, s, e, n)
        BL(s, e, n) == QL!Between(t, "c", NoName, 0, s, e, n)
        AM(s, n) == QM!Around(t, "c", NoName, 0, s, n)
        AP(s, n) == QP!Around(t, "c", NoName, 0, s, n)
        AL(s, n) == QL!Around(t, "c", NoName, 0, s, n)
    IN QM!PagesAreWhole(BM, AM) /\ QP!PagesAreWhole(BP, AP) /\ QL!PagesAreWhole(BL, AL)

-----------------------------------------------------------------------------
keptVars == <<historyVars, ringVars, accessVars, dataVars, part>>

KeptInit ==
  /\ part \in {"persistent history", "history buffer", "history access", "account data"}
  /\ PersistentHistoryInit /\ (part # "persistent history" => backend = "sqlite")
  /\ HistoryBufferInit /\ (part # "history buffer" => ring = Initialize(0, FALSE))
  /\ HistoryAccessInit /\ (part # "history access" => queryCutoff = "none" /\ limits.expire = 0)
  /\ AccountDataInit /\ (part # "account data" => ~disk.always)

KeptNext ==
  \/ /\ part = "persistent history" /\ PersistentHistoryNext
     /\ UNCHANGED <<ringVars, accessVars, dataVars, part>>
  \/ /\ part = "history buffer" /\ HistoryBufferNext
     /\ UNCHANGED <<historyVars, accessVars, dataVars, part>>
  \/ /\ part = "history access" /\ HistoryAccessNext
     /\ UNCHANGED <<historyVars, ringVars, dataVars, part>>
  \/ /\ part = "account data" /\ AccountDataNext
     /\ UNCHANGED <<historyVars, ringVars, accessVars, part>>

KeptSpec == KeptInit /\ [][KeptNext]_keptVars
=============================================================================
