--------------------------- MODULE HistoryQueries ---------------------------
(***************************************************************************)
(* What the history backends share: the items, and how the arguments of a  *)
(* CHATHISTORY command become an interval of times (history/queries.go).   *)
(* An item is a number: the order in which items are stored, which is also *)
(* the order of their times.  0 is the zero time.                          *)
(***************************************************************************)
EXTENDS Naturals, FiniteSets, Sequences, SequencesExt

CONSTANTS
  ItemTo,     \* [Items -> [sort : {"channel", "direct"}, from, account, to, toAccount]]
  NoName      \* the empty string: no account, no correspondent

Items == DOMAIN ItemTo

\* CHATHISTORY arguments as a window of times and a direction.
MinMaxAsc(after, before, cutoff) ==
  LET backwards == after # 0 /\ before # 0 /\ before < after
      lo == IF backwards THEN before ELSE after
      hi == IF backwards THEN after ELSE before
  IN [min |-> IF lo < cutoff THEN cutoff ELSE lo,
      max |-> hi,
      asc |-> after # 0 /\ ~backwards]

Inside(time, w) == (w.min # 0 => time > w.min) /\ (w.max # 0 => time < w.max)

\* ORDER BY: rows of the same time are in any order.
OrderBy(rows, time) ==
  LET s == SetToSeq(rows)
      Upto(k) == {j \in DOMAIN s : time[s[j]] < time[s[k]] \/ (time[s[j]] = time[s[k]] /\ j <= k)}
  IN [n \in DOMAIN s |-> s[CHOOSE k \in DOMAIN s : Cardinality(Upto(k)) = n]]

\* The first `limit` in the direction asked for, returned oldest first.
PageBy(rows, time, asc, limit) ==
  LET s == OrderBy(rows, time)
      n == IF limit < Len(s) THEN limit ELSE Len(s)
  IN IF asc THEN SubSeq(s, 1, n) ELSE SubSeq(s, Len(s) - n + 1, Len(s))

Page(times, asc, limit) == PageBy(times, [i \in times |-> i], asc, limit)

\* The empty selector.
Zero == [id |-> 0, time |-> 0]

\* AROUND by two queries: half of the items before, and the items after those.
GenericAround(Between(_, _, _), start, limit) ==
  LET before == Between(Zero, start, (limit + 1) \div 2)
  IN IF before = <<>> THEN <<>>
     ELSE Between([id |-> 0, time |-> before[1]], Zero, limit)

\* What the queries promise a client that pages: LATEST, and then BEFORE the first item of
\* each page, shows what one query of everything returns; so do AFTER from the start; and
\* AROUND any item but the first shows that item.
PagesAreWhole(Between(_, _, _), Around(_, _)) ==
  LET all == Between(Zero, Zero, Cardinality(Items) + 1)
      Sel(i) == [id |-> i, time |-> 0]
  IN \A k \in DOMAIN all :
       /\ \A n \in 1..k :
            Between(Zero, IF k = Len(all) THEN Zero ELSE Sel(all[k + 1]), n) = SubSeq(all, k - n + 1, k)
       /\ \A n \in 1..(Len(all) - k) : Between(Sel(all[k]), Zero, n) = SubSeq(all, k + 1, k + n)
       /\ \A j \in DOMAIN all : k < j =>
            \A n \in 1..(j - k - 1) :
              /\ Between(Sel(all[k]), Sel(all[j]), n) = SubSeq(all, k + 1, k + n)
              /\ Between(Sel(all[j]), Sel(all[k]), n) = SubSeq(all, j - n, j - 1)
       /\ k > 1 => \A n \in 1..Len(all) : all[k] \in Range(Around(Sel(all[k]), n))

\* The tables of a history database; `correspondents` has one row per pair.
EmptyTables ==
  [history |-> {}, sequence |-> {}, conversations |-> {}, correspondents |-> {},
   account_messages |-> {}, forget |-> <<>>]

\* Insert the pair, or move its time forward.
Upsert(rows, target, correspondent, time) ==
  LET same == {r \in rows : r[1] = target /\ r[2] = correspondent}
  IN IF \E r \in same : r[3] >= time THEN rows
     ELSE (rows \ same) \cup {<<target, correspondent, time>>}
=============================================================================
