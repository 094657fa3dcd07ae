---------------------- MODULE PersistentHistoryProofs -----------------------
(***************************************************************************)
(* Theorems about PersistentHistory, for any messages, accounts and        *)
(* targets, on each backend, with any removals and faults: what is in the  *)
(* tables, what the queries return, and what clients are told.             *)
(***************************************************************************)
EXTENDS PersistentHistory, FiniteSetTheorems, WellFoundedInduction, TLAPS

-----------------------------------------------------------------------------
(* The invariant *)

(* The statements that store an item, and those that are still to run.     *)
StoringSteps(i) == IF ItemTo[i].sort = "direct" THEN My!AddDirectMessage(i) ELSE My!AddChannelItem(i)
Unwritten(i) == Range(write[i].left)

DbNames == {NoName} \cup UNION {{ItemTo[i].from, ItemTo[i].account, ItemTo[i].to, ItemTo[i].toAccount} : i \in Items}
DbRows == DbNames \X DbNames \X Items
Statements == {"base", "sequence", "convFrom", "corrFrom", "convTo", "corrTo", "account"}
ForgetRows == [account : DbNames, stored : SUBSET Items]
DeletionSuffixes ==
  {<<"conversations", "sequence", "account_messages", "history">>, <<"sequence", "account_messages", "history">>,
   <<"account_messages", "history">>, <<"history">>}

DbTables ==
  [history : SUBSET Items, sequence : SUBSET Items, conversations : SUBSET DbRows,
   correspondents : SUBSET DbRows, account_messages : SUBSET Items, forget : Seq(ForgetRows)]

JobsType ==
  job \in [Jobs -> [at : {"rest", "next", "wait", "iterate", "delete"}, ids : SUBSET Items,
                    left : DeletionSuffixes \cup {<<>>}, account : DbNames]]

DbType ==
  /\ backend \in Backends /\ tb \in DbTables /\ IsFiniteSet(tb.correspondents) /\ JobsType
  /\ write \in [Items -> [st : {"new", "busy", "stored", "failed"}, left : Seq(Statements)]]
  /\ aged \in Nat /\ requested \subseteq Items /\ gone \subseteq Items /\ caught \subseteq Items

(* Only a goroutine at work has statements left: the item first, and the   *)
(* row of the account last.                                                *)
WriteInv ==
  \A i \in Items :
    LET left == write[i].left
    IN /\ write[i].st # "busy" => left = <<>>
       /\ write[i].st = "busy" => left # <<>> /\ left[Len(left)] = "account"
       /\ Range(left) \subseteq Range(StoringSteps(i))
       /\ \A k \in DOMAIN left : /\ k > 1 => left[k] # "base"
                                 /\ left[k] = "account" => k = Len(left)
       /\ write[i].st = "stored" => StoringSteps(i) # <<>>

Begun(i) == write[i].st # "new" /\ "base" \notin Unwritten(i)

Unlisted(t, i) == i \notin t.sequence /\ \A r \in t.conversations : r[3] # i

RowsInv ==
  /\ \A i \in tb.history : Begun(i)
  /\ \A i \in tb.account_messages : write[i].st \in {"stored", "failed"}

(* What each statement of an item has left in the tables.                  *)
Listed(rows, target, correspondent, i) == \E c \in rows : c[1] = target /\ c[2] = correspondent /\ c[3] >= i

Effect(t, s, i) ==
  LET it == ItemTo[i]
  IN /\ s = "base" => i \in t.history
     /\ s = "sequence" => i \in t.sequence
     /\ s = "convFrom" => <<it.account, it.to, i>> \in t.conversations
     /\ s = "corrFrom" => Listed(t.correspondents, it.account, it.to, i)
     /\ s = "convTo" => <<it.toAccount, it.from, i>> \in t.conversations
     /\ s = "corrTo" => Listed(t.correspondents, it.toAccount, it.from, i)

Kept(i) == i > aged /\ i \notin requested \cup caught /\ write[i].st \in {"busy", "stored"}

PresentInv == \A i \in Items : Kept(i) => \A s \in Range(StoringSteps(i)) \ Unwritten(i) : Effect(tb, s, i)

(* A deletion is of old items, of items to be removed, and of items that   *)
(* were caught; what it has passed is gone.                                *)
JobOk(j) ==
  /\ job[j].left \in DeletionSuffixes
  /\ \A i \in job[j].ids :
       /\ Begun(i) /\ ~Kept(i) /\ (write[i].st = "busy" => i \in caught)
       /\ write[i].st = "stored" /\ i \notin caught =>
            /\ job[j].left # My!DeletionOrder => \A r \in tb.conversations : r[3] # i
            /\ Len(job[j].left) < 3 => i \notin tb.sequence

JobInv == \A j \in Jobs : job[j].at = "delete" => JobOk(j)

(* The queue: what is to go is asked for, and no longer listed once the    *)
(* account's row of it is gone.                                            *)
ForgetInv ==
  /\ \A k \in DOMAIN tb.forget :
       LET f == tb.forget[k]
       IN /\ \A i \in Items : ItemTo[i].account = f.account => i \in requested
          /\ \A i \in f.stored : /\ ItemTo[i].account = f.account /\ write[i].st = "stored"
                                 /\ i \in tb.account_messages \/ i \in caught \/ Unlisted(tb, i)
  /\ job["forgetter"].at \in {"iterate", "delete"} => tb.forget # <<>> /\ tb.forget[1].account = job["forgetter"].account

GoneInv == \A i \in gone : Begun(i) /\ (i \notin tb.history \/ (write[i].st = "stored" /\ Unlisted(tb, i)))

DbInv == DbType /\ WriteInv /\ RowsInv /\ PresentInv /\ JobInv /\ ForgetInv /\ GoneInv

-----------------------------------------------------------------------------
(* PersistentHistory: rows in the order of their times *)

(* SetToSeq lists each element of a finite set once.                       *)
LEMMA Enumeration ==
  ASSUME NEW S, IsFiniteSet(S)
  PROVE  /\ Cardinality(S) \in Nat /\ SetToSeq(S) \in [1..Cardinality(S) -> S] /\ DOMAIN SetToSeq(S) = 1..Cardinality(S)
         /\ \A j, k \in 1..Cardinality(S) : SetToSeq(S)[j] = SetToSeq(S)[k] => j = k
         /\ \A x \in S : \E k \in 1..Cardinality(S) : SetToSeq(S)[k] = x
<1> DEFINE n == Cardinality(S)
           s == SetToSeq(S)
<1>1. n \in Nat /\ ExistsBijection(1..n, S)
  BY FS_CardinalityType
<1>2. PICK b \in Bijection(1..n, S) : TRUE
  BY <1>1 DEF ExistsBijection
<1>3. b \in [1..n -> S] /\ IsInjective(b)
  BY <1>2 DEF Bijection, Injection
<1>4. s \in [1..n -> S] /\ IsInjective(s)
  BY <1>3 DEF SetToSeq
<1>5. IsFiniteSet(1..n) /\ Cardinality(1..n) = n
  BY <1>1, FS_Interval
<1> HIDE DEF s, n
<1>6. s \in Injection(1..n, S)
  BY <1>4 DEF Injection
<1>7. s \in Surjection(1..n, S)
  BY <1>5, <1>6, FS_Injection DEF n
<1>8. \A x \in S : \E k \in 1..n : s[k] = x
  BY <1>7 DEF Surjection
<1>9. \A j, k \in 1..n : s[j] = s[k] => j = k
  BY <1>4 DEF IsInjective
<1> QED BY <1>1, <1>4, <1>8, <1>9 DEF s, n

(* Ranks: in a finite total order of 1..n every k has its own one.         *)
LEMMA Ranks ==
  ASSUME NEW n \in Nat, NEW upto, upto \in [1..n -> SUBSET (1..n)],
         \A k \in 1..n : k \in upto[k],
         \A j, k \in 1..n : j \in upto[k] => upto[j] \subseteq upto[k],
         \A j, k \in 1..n : j \in upto[k] \/ k \in upto[j],
         \A j, k \in 1..n : j \in upto[k] /\ k \in upto[j] => j = k
  PROVE  /\ \A k \in 1..n : Cardinality(upto[k]) \in 1..n
         /\ \A i \in 1..n : \E k \in 1..n : Cardinality(upto[k]) = i
         /\ \A j, k \in 1..n : j \notin upto[k] => Cardinality(upto[k]) < Cardinality(upto[j])
<1>1. IsFiniteSet(1..n) /\ Cardinality(1..n) = n
  BY FS_Interval
<1>2. ASSUME NEW T \in SUBSET (1..n) PROVE IsFiniteSet(T) /\ Cardinality(T) \in Nat /\ Cardinality(T) <= n
  <2>1. IsFiniteSet(T) /\ Cardinality(T) <= Cardinality(1..n)
    BY <1>1, FS_Subset
  <2> QED BY <1>1, <2>1, FS_CardinalityType
<1> DEFINE rank == [k \in 1..n |-> Cardinality(upto[k])]
<1>3. ASSUME NEW k \in 1..n PROVE rank[k] \in 1..n
  <2>1. IsFiniteSet(upto[k]) /\ Cardinality(upto[k]) \in Nat /\ Cardinality(upto[k]) <= n
    BY <1>2
  <2>2. Cardinality(upto[k]) # 0
    BY <2>1, FS_EmptySet
  <2> QED BY <2>1, <2>2
<1>4. ASSUME NEW j \in 1..n, NEW k \in 1..n, j \notin upto[k] PROVE Cardinality(upto[k]) < Cardinality(upto[j])
  <2>1. upto[k] \subseteq upto[j] /\ upto[k] # upto[j]
    BY <1>4
  <2>2. IsFiniteSet(upto[j]) /\ Cardinality(upto[j]) \in Nat /\ Cardinality(upto[k]) \in Nat
    BY <1>2
  <2>3. Cardinality(upto[k]) <= Cardinality(upto[j]) /\ Cardinality(upto[j]) # Cardinality(upto[k])
    BY <2>1, <2>2, FS_Subset
  <2> QED BY <2>2, <2>3
<1>5. \A k \in 1..n : Cardinality(upto[k]) \in Nat
  BY <1>2
<1>6. rank \in Injection(1..n, 1..n)
  <2>1. rank \in [1..n -> 1..n]
    BY <1>3
  <2>2. ASSUME NEW j \in 1..n, NEW k \in 1..n, rank[j] = rank[k] PROVE j = k
    <3>1. ~(Cardinality(upto[k]) < Cardinality(upto[j])) /\ ~(Cardinality(upto[j]) < Cardinality(upto[k]))
      BY <1>5, <2>2
    <3>2. j \in upto[k] /\ k \in upto[j]
      BY <1>4, <3>1
    <3> QED BY <3>2
  <2> QED BY <2>1, <2>2 DEF Injection, IsInjective
<1>7. rank \in Surjection(1..n, 1..n)
  BY <1>1, <1>6, FS_Injection
<1>8. \A i \in 1..n : \E k \in 1..n : rank[k] = i
  BY <1>7 DEF Surjection
<1> QED BY <1>3, <1>4, <1>8

(* ORDER BY gives every row once, and later ones after earlier ones.       *)
LEMMA Ordered ==
  ASSUME NEW S, IsFiniteSet(S), NEW time, \A x \in S : time[x] \in Nat
  PROVE  LET s == OrderBy(S, time)
             n == Cardinality(S)
         IN /\ n \in Nat /\ s \in Seq(S) /\ Len(s) = n /\ DOMAIN s = 1..n
            /\ \A x \in S : \E k \in 1..n : s[k] = x
            /\ \A j, k \in 1..n : j <= k => time[s[j]] <= time[s[k]]
<1> DEFINE n == Cardinality(S)
           e == SetToSeq(S)
           s == OrderBy(S, time)
           upto == [k \in 1..n |-> {j \in 1..n : time[e[j]] < time[e[k]] \/ (time[e[j]] = time[e[k]] /\ j <= k)}]
           At(i) == CHOOSE k \in 1..n :
                      Cardinality({j \in 1..n : time[e[j]] < time[e[k]] \/ (time[e[j]] = time[e[k]] /\ j <= k)}) = i
<1>1. /\ n \in Nat /\ e \in [1..n -> S] /\ DOMAIN e = 1..n
      /\ \A x \in S : \E k \in 1..n : e[k] = x
  BY Enumeration
<1> HIDE DEF e, n
<1>2. \A k \in 1..n : time[e[k]] \in Nat
  BY <1>1
<1>3. s = [i \in 1..n |-> e[At(i)]]
  BY <1>1 DEF OrderBy, e
<1>4. /\ upto \in [1..n -> SUBSET (1..n)]
      /\ \A k \in 1..n : k \in upto[k]
      /\ \A j, k \in 1..n : j \in upto[k] \/ k \in upto[j]
      /\ \A j, k \in 1..n : j \in upto[k] /\ k \in upto[j] => j = k
  BY <1>1, <1>2
<1>a. \A k \in 1..n : upto[k] = {j \in 1..n : time[e[j]] < time[e[k]] \/ (time[e[j]] = time[e[k]] /\ j <= k)}
  OBVIOUS
<1>5. \A j, k \in 1..n : j \in upto[k] => upto[j] \subseteq upto[k] /\ time[e[j]] <= time[e[k]]
  <2> SUFFICES ASSUME NEW j \in 1..n, NEW k \in 1..n, j \in upto[k]
               PROVE  upto[j] \subseteq upto[k] /\ time[e[j]] <= time[e[k]]
    OBVIOUS
  <2> HIDE DEF upto
  <2>1. time[e[j]] < time[e[k]] \/ (time[e[j]] = time[e[k]] /\ j <= k)
    BY <1>a
  <2>2. ASSUME NEW i \in upto[j] PROVE i \in upto[k]
    <3>1. i \in 1..n /\ (time[e[i]] < time[e[j]] \/ (time[e[i]] = time[e[j]] /\ i <= j))
      BY <1>a, <2>2
    <3>2. time[e[i]] < time[e[k]] \/ (time[e[i]] = time[e[k]] /\ i <= k)
      BY <1>2, <2>1, <3>1
    <3> QED BY <1>a, <3>1, <3>2
  <2> QED BY <1>2, <2>1, <2>2
<1> HIDE DEF upto
<1>6. /\ \A k \in 1..n : Cardinality(upto[k]) \in 1..n
      /\ \A i \in 1..n : \E k \in 1..n : Cardinality(upto[k]) = i
      /\ \A j, k \in 1..n : j \notin upto[k] => Cardinality(upto[k]) < Cardinality(upto[j])
  BY <1>1, <1>4, <1>5, Ranks
<1>7. ASSUME NEW i \in 1..n PROVE At(i) \in 1..n /\ Cardinality(upto[At(i)]) = i
  <2>1. \E k \in 1..n : Cardinality({j \in 1..n : time[e[j]] < time[e[k]] \/ (time[e[j]] = time[e[k]] /\ j <= k)}) = i
    BY <1>6, <1>a
  <2>2. At(i) \in 1..n /\ Cardinality({j \in 1..n : time[e[j]] < time[e[At(i)]] \/ (time[e[j]] = time[e[At(i)]] /\ j <= At(i))}) = i
    BY <2>1
  <2> HIDE DEF At
  <2> QED BY <1>a, <2>2
<1>8. ASSUME NEW x \in S PROVE \E k \in 1..n : s[k] = x
  <2>1. PICK j \in 1..n : e[j] = x
    BY <1>1
  <2> DEFINE i == Cardinality(upto[j])
  <2>2. i \in 1..n
    BY <1>6
  <2>3. At(i) = j
    <3>1. \A k \in 1..n : Cardinality(upto[k]) = i => k = j
      <4>1. \A k \in 1..n : Cardinality(upto[k]) \in Nat
        BY <1>6
      <4>2. ASSUME NEW k \in 1..n, Cardinality(upto[k]) = i PROVE k = j
        <5>1. j \in upto[k] /\ k \in upto[j]
          BY <1>6, <4>1, <4>2
        <5> QED BY <1>4, <5>1
      <4> QED BY <4>2
    <3> HIDE DEF i
    <3> QED BY <1>7, <2>2, <3>1
  <2> HIDE DEF i, At
  <2> QED BY <1>3, <2>1, <2>2, <2>3
<1>9. ASSUME NEW j \in 1..n, NEW k \in 1..n, j <= k PROVE time[s[j]] <= time[s[k]]
  <2>1. At(j) \in upto[At(k)]
    <3>1. Cardinality(upto[At(j)]) = j /\ Cardinality(upto[At(k)]) = k /\ At(j) \in 1..n /\ At(k) \in 1..n
      BY <1>7
    <3> HIDE DEF At
    <3>2. ~(k < j)
      BY <1>1, <1>9
    <3> QED BY <1>6, <3>1, <3>2
  <2>2. At(j) \in 1..n /\ At(k) \in 1..n
    BY <1>7
  <2> HIDE DEF At
  <2> QED BY <1>3, <1>5, <2>1, <2>2
<1>10. s \in Seq(S) /\ Len(s) = n /\ DOMAIN s = 1..n
  <2>1. \A i \in 1..n : e[At(i)] \in S
    BY <1>1, <1>7
  <2> HIDE DEF At, s
  <2> QED BY <1>1, <1>3, <2>1
<1> HIDE DEF s
<1> QED BY <1>1, <1>8, <1>9, <1>10 DEF s, n

(* A page as long as the set has all of its rows.                          *)
LEMMA WholePage ==
  ASSUME NEW S, IsFiniteSet(S), NEW time, \A x \in S : time[x] \in Nat, NEW asc \in BOOLEAN,
         NEW limit \in Nat, limit >= Cardinality(S)
  PROVE  Range(PageBy(S, time, asc, limit)) = S
<1> DEFINE n == Cardinality(S)
           s == OrderBy(S, time)
<1>1. /\ n \in Nat /\ s \in Seq(S) /\ Len(s) = n /\ DOMAIN s = 1..n
      /\ \A x \in S : \E k \in 1..n : s[k] = x
  BY Ordered
<1>2. PageBy(S, time, asc, limit) = SubSeq(s, 1, n)
  <2>1. (IF limit < Len(s) THEN limit ELSE Len(s)) = n /\ n - n + 1 = 1
    BY <1>1
  <2> HIDE DEF s
  <2> QED BY <1>1, <2>1 DEF PageBy, s
<1> HIDE DEF s, n
<1>3. SubSeq(s, 1, n) = s
  BY <1>1
<1>4. \A k \in DOMAIN s : s[k] \in S
  BY <1>1
<1> QED BY <1>1, <1>2, <1>3, <1>4 DEF Range

(* A finite set of numbers has a largest one.                              *)
LEMMA LastPage ==
  ASSUME NEW T, IsFiniteSet(T), T \subseteq Nat
  PROVE  /\ T = {} => Page(T, FALSE, 1) = <<>>
         /\ T # {} => /\ Page(T, FALSE, 1) # <<>> /\ Page(T, FALSE, 1)[1] \in T
                      /\ \A j \in T : j <= Page(T, FALSE, 1)[1]
<1> DEFINE n == Cardinality(T)
           id == [i \in T |-> i]
           s == OrderBy(T, id)
<1>1. /\ n \in Nat /\ s \in Seq(T) /\ Len(s) = n /\ DOMAIN s = 1..n
      /\ \A x \in T : \E k \in 1..n : s[k] = x
      /\ \A j, k \in 1..n : j <= k => id[s[j]] <= id[s[k]]
  <2>1. \A x \in T : id[x] \in Nat
    OBVIOUS
  <2> HIDE DEF id
  <2> QED BY <2>1, Ordered
<1>2. \A k \in 1..n : s[k] \in T
  BY <1>1
<1>3. \A j, k \in 1..n : j <= k => s[j] <= s[k]
  BY <1>1, <1>2
<1>4. Page(T, FALSE, 1) = SubSeq(s, n - (IF 1 < n THEN 1 ELSE n) + 1, n)
  <2>1. Page(T, FALSE, 1) = PageBy(T, id, FALSE, 1)
    BY DEF Page
  <2> HIDE DEF id
  <2>2. PageBy(T, id, FALSE, 1) = SubSeq(s, Len(s) - (IF 1 < Len(s) THEN 1 ELSE Len(s)) + 1, Len(s))
    BY DEF PageBy
  <2> HIDE DEF s
  <2> QED BY <1>1, <2>1, <2>2
<1> HIDE DEF s, n, id
<1>5. T = {} <=> n = 0
  <2>1. T = {} => n = 0
    BY FS_EmptySet DEF n
  <2>2. ASSUME NEW x \in T, n = 0 PROVE FALSE
    BY <1>1, <2>2
  <2> QED BY <2>1, <2>2
<1>6. CASE n = 0
  <2>1. Len(SubSeq(s, 1, 0)) = 0 /\ SubSeq(s, 1, 0) \in Seq(T)
    BY <1>1, <1>2
  <2>2. SubSeq(s, 1, 0) = <<>>
    BY <2>1
  <2>3. Page(T, FALSE, 1) = SubSeq(s, 1, 0)
    <3>1. n - (IF 1 < n THEN 1 ELSE n) + 1 = 1
      BY <1>6
    <3> QED BY <1>4, <1>6, <3>1
  <2> QED BY <1>5, <1>6, <2>2, <2>3
<1>7. CASE n # 0
  <2>1. Page(T, FALSE, 1) = SubSeq(s, n, n)
    <3>1. n - (IF 1 < n THEN 1 ELSE n) + 1 = n
      BY <1>1, <1>7
    <3> QED BY <1>4, <3>1
  <2>2. SubSeq(s, n, n) # <<>> /\ SubSeq(s, n, n)[1] = s[n]
    BY <1>1, <1>7
  <2>3. n \in 1..n
    BY <1>1, <1>7
  <2>4. \A j \in T : j <= s[n]
    BY <1>1, <1>3, <2>3
  <2>5. s[n] \in T
    BY <1>2, <2>3
  <2> QED BY <1>5, <1>7, <2>1, <2>2, <2>4, <2>5
<1> QED BY <1>6, <1>7

(* The backends' pages are those of HistoryQueries.                        *)
LEMMA MyPage ==
  ASSUME NEW T, NEW time, NEW asc, NEW n
  PROVE  My!PageBy(T, time, asc, n) = PageBy(T, time, asc, n) /\ My!Page(T, asc, n) = Page(T, asc, n)
<1>1. My!PageBy(T, time, asc, n) = PageBy(T, time, asc, n)
  BY DEF My!PageBy, PageBy, My!OrderBy, OrderBy, My!SetToSeq, SetToSeq, My!IsInjective, IsInjective, My!Cardinality, Cardinality
<1>2. My!Page(T, asc, n) = Page(T, asc, n)
  BY DEF My!Page, Page, My!PageBy, PageBy, My!OrderBy, OrderBy, My!SetToSeq, SetToSeq, My!IsInjective, IsInjective,
    My!Cardinality, Cardinality
<1> QED BY <1>1, <1>2

LEMMA PgPage ==
  ASSUME NEW T, NEW time, NEW asc, NEW n
  PROVE  Pg!PageBy(T, time, asc, n) = PageBy(T, time, asc, n) /\ Pg!Page(T, asc, n) = Page(T, asc, n)
<1>1. Pg!PageBy(T, time, asc, n) = PageBy(T, time, asc, n)
  BY DEF Pg!PageBy, PageBy, Pg!OrderBy, OrderBy, Pg!SetToSeq, SetToSeq, Pg!IsInjective, IsInjective, Pg!Cardinality, Cardinality
<1>2. Pg!Page(T, asc, n) = Page(T, asc, n)
  BY DEF Pg!Page, Page, Pg!PageBy, PageBy, Pg!OrderBy, OrderBy, Pg!SetToSeq, SetToSeq, Pg!IsInjective, IsInjective,
    Pg!Cardinality, Cardinality
<1> QED BY <1>1, <1>2

LEMMA LitePage ==
  ASSUME NEW T, NEW time, NEW asc, NEW n
  PROVE  Lite!PageBy(T, time, asc, n) = PageBy(T, time, asc, n) /\ Lite!Page(T, asc, n) = Page(T, asc, n)
<1>1. Lite!PageBy(T, time, asc, n) = PageBy(T, time, asc, n)
  BY DEF Lite!PageBy, PageBy, Lite!OrderBy, OrderBy, Lite!SetToSeq, SetToSeq, Lite!IsInjective, IsInjective, Lite!Cardinality, Cardinality
<1>2. Lite!Page(T, asc, n) = Page(T, asc, n)
  BY DEF Lite!Page, Page, Lite!PageBy, PageBy, Lite!OrderBy, OrderBy, Lite!SetToSeq, SetToSeq, Lite!IsInjective, IsInjective,
    Lite!Cardinality, Cardinality
<1> QED BY <1>1, <1>2

(* The backends run the same statements.                                   *)
LEMMA SameStatements ==
  ASSUME backend \in Backends, NEW t, NEW s, NEW i
  PROVE  /\ Exec(t, s, i) = My!Exec(t, s, i, tracking)
         /\ AddItem(i) = StoringSteps(i)
<1>1. Exec(t, s, i) = My!Exec(t, s, i, tracking)
  <2>1. Pg!Upsert(t.correspondents, ItemTo[i].account, ItemTo[i].to, i) = My!Upsert(t.correspondents, ItemTo[i].account, ItemTo[i].to, i)
    BY DEF Pg!Upsert, My!Upsert
  <2> QED BY DEF Backends, Exec, ByBackend, My!Exec, Pg!Exec, Lite!Exec, My!insertBase, Pg!insertBase, Lite!insertBase,
    My!insertSequenceEntry, Pg!insertSequenceEntry, Lite!insertSequenceEntry,
    My!insertConversationEntry, Pg!insertConversationEntry, Lite!insertConversationEntry,
    My!insertCorrespondentsEntry, Pg!insertCorrespondentsEntry, Lite!insertCorrespondentsEntry,
    My!insertAccountMessageEntry, Pg!insertAccountMessageEntry, Lite!insertAccountMessageEntry, My!Upsert, Pg!Upsert, Lite!Upsert
<1>2. AddItem(i) = StoringSteps(i)
  BY DEF Backends, AddItem, StoringSteps, ByBackend, My!AddDirectMessage, Pg!AddDirectMessage, Lite!AddDirectMessage,
    My!AddChannelItem, Pg!AddChannelItem, Lite!AddChannelItem
<1> QED BY <1>1, <1>2

(* The backends delete the same rows, from the tables in the same order.   *)
LEMMA SameDeletions ==
  ASSUME backend \in Backends, NEW t, NEW table, NEW ids
  PROVE  /\ DeleteFrom(t, table, ids) = My!deleteHistoryIDs(t, table, ids, tracking)
         /\ DeletionOrder = My!DeletionOrder
<1>1. DeleteFrom(t, table, ids) = My!deleteHistoryIDs(t, table, ids, tracking)
  BY DEF Backends, DeleteFrom, ByBackend, My!deleteHistoryIDs, Pg!deleteHistoryIDs, Lite!deleteHistoryIDs
<1>2. DeletionOrder = My!DeletionOrder
  BY DEF Backends, DeletionOrder, ByBackend, My!DeletionOrder, Pg!DeletionOrder, Lite!DeletionOrder
<1> QED BY <1>1, <1>2

(* The backends select the same rows.                                      *)
LEMMA SameSelections ==
  ASSUME backend \in Backends, NEW t, NEW i, NEW a
  PROVE  /\ CleanupIDs(t, i) = My!selectCleanupIDs(t, i)
         /\ DropCorrespondents(t, i) = My!deleteCorrespondents(t, i)
         /\ ForgetBatches(t, a) = My!doForgetIteration(t, a)
         /\ TimeOfMsgid(t, i) = My!lookupMsgid(t, i)
         /\ Loaded(i) = (My!lookupMsgid(tb, i) # 0)
         /\ Exported(a) = {k \in tb.account_messages \cap tb.history \cap tb.sequence : ItemTo[k].account = a}
<1>1. CleanupIDs(t, i) = My!selectCleanupIDs(t, i)
  BY DEF Backends, CleanupIDs, ByBackend, My!selectCleanupIDs, Pg!selectCleanupIDs, Lite!selectCleanupIDs,
    My!extractNanotime, Pg!extractNanotime, Lite!extractNanotime, My!Cardinality, Pg!Cardinality, Lite!Cardinality
<1>2. DropCorrespondents(t, i) = My!deleteCorrespondents(t, i)
  BY DEF Backends, DropCorrespondents, ByBackend, My!deleteCorrespondents, Pg!deleteCorrespondents, Lite!deleteCorrespondents
<1>3. ForgetBatches(t, a) = My!doForgetIteration(t, a)
  BY DEF Backends, ForgetBatches, ByBackend, My!doForgetIteration, Pg!doForgetIteration, Lite!doForgetIteration,
    My!Cardinality, Pg!Cardinality, Lite!Cardinality
<1>4. TimeOfMsgid(t, i) = My!lookupMsgid(t, i)
  BY DEF Backends, TimeOfMsgid, ByBackend, My!lookupMsgid, Pg!lookupMsgid, Lite!lookupMsgid,
    My!extractNanotime, Pg!extractNanotime, Lite!extractNanotime
<1>5. Loaded(i) = (My!lookupMsgid(tb, i) # 0)
  BY DEF Backends, Loaded, ByBackend, My!lookupMsgid, Pg!lookupMsgid, Lite!lookupMsgid, My!LoadMsgid, Pg!LoadMsgid, Lite!LoadMsgid,
    My!extractNanotime, Pg!extractNanotime, Lite!extractNanotime
<1>6. Exported(a) = {k \in tb.account_messages \cap tb.history \cap tb.sequence : ItemTo[k].account = a}
  BY DEF Backends, Exported, ByBackend, My!Export, Pg!Export, Lite!Export
<1> QED BY <1>1, <1>2, <1>3, <1>4, <1>5, <1>6

(* A row lists its own time.                                               *)
LEMMA ListedSelf ==
  ASSUME NEW rows \in SUBSET DbRows, NEW c \in rows
  PROVE  Listed(rows, c[1], c[2], c[3])
<1>1. c[3] \in Nat
  BY PersistentHistoryAssumption DEF DbRows
<1> QED BY <1>1 DEF Listed

(* An upsert lists the item, and forgets no other correspondent.           *)
LEMMA UpsertFacts ==
  ASSUME NEW rows \in SUBSET DbRows, IsFiniteSet(rows), NEW a \in DbNames, NEW b \in DbNames, NEW i \in Items
  PROVE  LET new == My!Upsert(rows, a, b, i)
         IN /\ new \in SUBSET DbRows /\ IsFiniteSet(new) /\ Listed(new, a, b, i)
            /\ \A c \in rows : Listed(new, c[1], c[2], c[3])
<1> DEFINE same == {r \in rows : r[1] = a /\ r[2] = b}
           new == My!Upsert(rows, a, b, i)
           row == <<a, b, i>>
<1>1. Items \subseteq Nat /\ row \in DbRows /\ row[1] = a /\ row[2] = b /\ row[3] = i
  BY PersistentHistoryAssumption DEF DbRows
<1>2. \A r \in DbRows : r[3] \in Nat
  BY <1>1 DEF DbRows
<1>3. new = IF \E r \in same : r[3] >= i THEN rows ELSE (rows \ same) \cup {row}
  BY DEF My!Upsert
<1> HIDE DEF row, new
<1>4. CASE \E r \in same : r[3] >= i
  <2>1. new = rows
    BY <1>3, <1>4
  <2>2. Listed(rows, a, b, i)
    BY <1>4 DEF Listed
  <2>3. \A c \in rows : Listed(rows, c[1], c[2], c[3])
    BY ListedSelf
  <2> QED BY <2>1, <2>2, <2>3 DEF new
<1>5. CASE ~\E r \in same : r[3] >= i
  <2>1. new = (rows \ same) \cup {row}
    BY <1>3, <1>5
  <2>2. IsFiniteSet(new)
    <3>1. IsFiniteSet(rows \ same)
      BY FS_Subset
    <3> HIDE DEF same
    <3> QED BY <2>1, <3>1, FS_AddElement
  <2>3. row \in new /\ i \in Nat
    BY <1>1, <2>1
  <2>4. Listed(new, a, b, i)
    BY <1>1, <2>3 DEF Listed
  <2>5. ASSUME NEW c \in rows PROVE Listed(new, c[1], c[2], c[3])
    <3>1. CASE c \in same
      <4>1. c[1] = a /\ c[2] = b /\ c[3] \in Nat /\ ~(c[3] >= i)
        BY <1>2, <1>5, <3>1
      <4> QED BY <1>1, <2>3, <4>1 DEF Listed
    <3>2. CASE c \notin same
      <4>1. c \in new /\ c[3] \in Nat
        BY <1>2, <2>1, <3>2
      <4> QED BY <4>1 DEF Listed
    <3> QED BY <3>1, <3>2
  <2>6. new \in SUBSET DbRows
    BY <1>1, <2>1
  <2> QED BY <2>2, <2>4, <2>5, <2>6 DEF new
<1> QED BY <1>4, <1>5 DEF new

(* The names an item has.                                                  *)
LEMMA NamesType ==
  ASSUME NEW i \in Items
  PROVE  {ItemTo[i].from, ItemTo[i].account, ItemTo[i].to, ItemTo[i].toAccount, NoName} \subseteq DbNames
BY DEF DbNames

(* One statement: its row, and nothing else.                               *)
StatementDone(t, u, s, i) ==
  /\ u \in DbTables /\ IsFiniteSet(u.correspondents) /\ u.forget = t.forget
  /\ u.history = IF s = "base" THEN t.history \cup {i} ELSE t.history
  /\ t.sequence \subseteq u.sequence /\ u.sequence \subseteq t.sequence \cup {i}
  /\ t.conversations \subseteq u.conversations /\ \A r \in u.conversations \ t.conversations : r[3] = i
  /\ \A c \in t.correspondents : Listed(u.correspondents, c[1], c[2], c[3])
  /\ t.account_messages \subseteq u.account_messages /\ u.account_messages \subseteq t.account_messages \cup {i}
  /\ s # "account" => u.account_messages = t.account_messages
  /\ Effect(u, s, i)

(* Each backend's statement is such a statement.                           *)
LEMMA ExecFacts ==
  ASSUME NEW t \in DbTables, IsFiniteSet(t.correspondents), NEW i \in Items, NEW s \in Statements
  PROVE  StatementDone(t, My!Exec(t, s, i, tracking), s, i)
<1> DEFINE it == ItemTo[i]
           u == My!Exec(t, s, i, tracking)
<1>1. it.from \in DbNames /\ it.account \in DbNames /\ it.to \in DbNames /\ it.toAccount \in DbNames
  BY NamesType
<1>2. <<it.account, it.to, i>> \in DbRows /\ <<it.toAccount, it.from, i>> \in DbRows
  BY <1>1 DEF DbRows
<1>3. \A c \in t.correspondents : Listed(t.correspondents, c[1], c[2], c[3])
  BY ListedSelf DEF DbTables
<1> HIDE DEF it
<1>4. CASE s = "base"
  <2>1. u = [t EXCEPT !.history = @ \cup {i}]
    BY <1>4 DEF My!Exec, My!insertBase
  <2> HIDE DEF u
  <2> QED BY <1>3, <1>4, <2>1 DEF StatementDone, DbTables, Effect, u
<1>5. CASE s = "sequence"
  <2>1. u = [t EXCEPT !.sequence = @ \cup {i}]
    BY <1>5 DEF My!Exec, My!insertSequenceEntry
  <2> HIDE DEF u
  <2> QED BY <1>3, <1>5, <2>1 DEF StatementDone, DbTables, Effect, u
<1>6. CASE s = "account"
  <2>1. u = t \/ u = [t EXCEPT !.account_messages = @ \cup {i}]
    BY <1>6 DEF My!Exec, My!insertAccountMessageEntry
  <2> HIDE DEF u
  <2> QED BY <1>3, <1>6, <2>1 DEF StatementDone, DbTables, Effect, u
<1>7. ASSUME NEW a \in DbNames, NEW b \in DbNames, u = [t EXCEPT !.conversations = @ \cup {<<a, b, i>>}],
             <<a, b, i>> \in u.conversations => Effect(u, s, i), s # "base", s # "account"
      PROVE  StatementDone(t, u, s, i)
  <2>1. <<a, b, i>> \in DbRows /\ <<a, b, i>>[3] = i
    BY <1>7 DEF DbRows
  <2> HIDE DEF u
  <2>2. u \in DbTables /\ u.conversations = t.conversations \cup {<<a, b, i>>} /\ u.history = t.history
        /\ u.sequence = t.sequence /\ u.correspondents = t.correspondents /\ u.account_messages = t.account_messages
        /\ u.forget = t.forget
    BY <1>7, <2>1 DEF DbTables
  <2> QED BY <1>3, <1>7, <2>1, <2>2 DEF StatementDone
<1>8. ASSUME NEW a \in DbNames, NEW b \in DbNames, u = [t EXCEPT !.correspondents = My!Upsert(@, a, b, i)],
             Listed(u.correspondents, a, b, i) => Effect(u, s, i), s # "base", s # "account"
      PROVE  StatementDone(t, u, s, i)
  <2> DEFINE new == My!Upsert(t.correspondents, a, b, i)
  <2>1. /\ new \in SUBSET DbRows /\ IsFiniteSet(new) /\ Listed(new, a, b, i)
        /\ \A c \in t.correspondents : Listed(new, c[1], c[2], c[3])
    BY UpsertFacts DEF DbTables
  <2>2. u = [t EXCEPT !.correspondents = new]
    BY <1>8
  <2> HIDE DEF u, new
  <2>3. u \in DbTables /\ u.conversations = t.conversations /\ u.history = t.history
        /\ u.sequence = t.sequence /\ u.correspondents = new /\ u.account_messages = t.account_messages
        /\ u.forget = t.forget
    BY <2>1, <2>2 DEF DbTables
  <2> QED BY <1>8, <2>1, <2>3 DEF StatementDone
<1>9. CASE s = "convFrom"
  <2>1. u = [t EXCEPT !.conversations = @ \cup {<<it.account, it.to, i>>}]
    BY <1>9 DEF My!Exec, My!insertConversationEntry, it
  <2> HIDE DEF u
  <2>2. <<it.account, it.to, i>> \in u.conversations => Effect(u, s, i)
    BY <1>9 DEF Effect, it
  <2> QED BY <1>1, <1>7, <1>9, <2>1, <2>2 DEF u
<1>10. CASE s = "convTo"
  <2>1. u = [t EXCEPT !.conversations = @ \cup {<<it.toAccount, it.from, i>>}]
    BY <1>10 DEF My!Exec, My!insertConversationEntry, it
  <2> HIDE DEF u
  <2>2. <<it.toAccount, it.from, i>> \in u.conversations => Effect(u, s, i)
    BY <1>10 DEF Effect, it
  <2> QED BY <1>1, <1>7, <1>10, <2>1, <2>2 DEF u
<1>11. CASE s = "corrFrom"
  <2>1. u = [t EXCEPT !.correspondents = My!Upsert(@, it.account, it.to, i)]
    BY <1>11 DEF My!Exec, My!insertCorrespondentsEntry, it
  <2> HIDE DEF u
  <2>2. Listed(u.correspondents, it.account, it.to, i) => Effect(u, s, i)
    BY <1>11 DEF Effect, it
  <2> QED BY <1>1, <1>8, <1>11, <2>1, <2>2 DEF u
<1>12. CASE s = "corrTo"
  <2>1. u = [t EXCEPT !.correspondents = My!Upsert(@, it.toAccount, it.from, i)]
    BY <1>12 DEF My!Exec, My!insertCorrespondentsEntry, it
  <2> HIDE DEF u
  <2>2. Listed(u.correspondents, it.toAccount, it.from, i) => Effect(u, s, i)
    BY <1>12 DEF Effect, it
  <2> QED BY <1>1, <1>8, <1>12, <2>1, <2>2 DEF u
<1> HIDE DEF u
<1> QED BY <1>4, <1>5, <1>6, <1>9, <1>10, <1>11, <1>12 DEF Statements, u

(* One statement of a deletion.                                            *)
DeletionDone(t, u, table, ids) ==
  /\ u \in DbTables /\ IsFiniteSet(u.correspondents) /\ u.forget = t.forget /\ u.correspondents = t.correspondents
  /\ u.history = IF table = "history" THEN t.history \ ids ELSE t.history
  /\ u.sequence = IF table = "sequence" THEN t.sequence \ ids ELSE t.sequence
  /\ u.conversations = IF table = "conversations" THEN {r \in t.conversations : r[3] \notin ids} ELSE t.conversations
  /\ u.account_messages \subseteq t.account_messages /\ t.account_messages \ ids \subseteq u.account_messages
  /\ table # "account_messages" => u.account_messages = t.account_messages

(* Each backend's deletion from one table is such a deletion.              *)
LEMMA DeletionFacts ==
  ASSUME NEW t \in DbTables, IsFiniteSet(t.correspondents), NEW ids,
         NEW table \in {"conversations", "sequence", "account_messages", "history"}
  PROVE  DeletionDone(t, My!deleteHistoryIDs(t, table, ids, tracking), table, ids)
<1> DEFINE u == My!deleteHistoryIDs(t, table, ids, tracking)
<1>1. CASE table = "conversations"
  <2>1. u = [t EXCEPT !.conversations = {r \in t.conversations : r[3] \notin ids}]
    BY <1>1 DEF My!deleteHistoryIDs, DbTables
  <2> HIDE DEF u
  <2> QED BY <1>1, <2>1 DEF DeletionDone, DbTables, u
<1>2. CASE table = "sequence"
  <2>1. u = [t EXCEPT !.sequence = @ \ ids]
    BY <1>2 DEF My!deleteHistoryIDs
  <2> HIDE DEF u
  <2> QED BY <1>2, <2>1 DEF DeletionDone, DbTables, u
<1>3. CASE table = "account_messages"
  <2>1. u = t \/ u = [t EXCEPT !.account_messages = @ \ ids]
    BY <1>3 DEF My!deleteHistoryIDs
  <2> HIDE DEF u
  <2> QED BY <1>3, <2>1 DEF DeletionDone, DbTables, u
<1>4. CASE table = "history"
  <2>1. u = [t EXCEPT !.history = @ \ ids]
    BY <1>4 DEF My!deleteHistoryIDs
  <2> HIDE DEF u
  <2> QED BY <1>4, <2>1 DEF DeletionDone, DbTables, u
<1> HIDE DEF u
<1> QED BY <1>1, <1>2, <1>3, <1>4 DEF u

(* The time of an item that nothing lists is 0.                            *)
LEMMA TimeFacts ==
  ASSUME NEW t, NEW i \in Items
  PROVE  /\ My!extractNanotime(t, i) = IF Unlisted(t, i) THEN 0 ELSE i
         /\ My!lookupMsgid(t, i) # 0 <=> i \in t.history /\ ~Unlisted(t, i)
<1>1. i # 0
  BY PersistentHistoryAssumption
<1> QED BY <1>1 DEF My!extractNanotime, My!lookupMsgid, Unlisted

(* The cleanup selects items that are old or that nothing lists.           *)
LEMMA CleanupFacts ==
  ASSUME NEW t \in DbTables, aged \in Nat, NEW i \in My!selectCleanupIDs(t, aged + 1)
  PROVE  /\ i \in t.history /\ i \in Items
         /\ i <= aged \/ Unlisted(t, i)
<1>1. i \in t.history /\ My!extractNanotime(t, i) < aged + 1
  BY DEF My!selectCleanupIDs
<1>2. i \in Items /\ i \in Nat
  BY <1>1, PersistentHistoryAssumption DEF DbTables
<1> QED BY <1>1, <1>2, TimeFacts

(* A batch of the forget routine is of the account; no batch: it has no rows left.*)
LEMMA BatchFacts ==
  ASSUME NEW t \in DbTables, NEW a
  PROVE  /\ \A ids \in My!doForgetIteration(t, a) : \A i \in ids : i \in t.account_messages /\ ItemTo[i].account = a
         /\ My!doForgetIteration(t, a) = {{}} => \A i \in t.account_messages : ItemTo[i].account # a
<1> DEFINE mine == {i \in t.account_messages : ItemTo[i].account = a}
<1>1. IsFiniteSet(mine) /\ Cardinality(mine) \in Nat
  <2>1. mine \subseteq Items /\ IsFiniteSet(Items)
    BY PersistentHistoryAssumption DEF DbTables
  <2> HIDE DEF mine
  <2> QED BY <2>1, FS_Subset, FS_CardinalityType
<1>2. \A S : My!Cardinality(S) = Cardinality(S)
  BY DEF My!Cardinality, Cardinality
<1> DEFINE n == IF Cardinality(mine) < cleanupRowLimit THEN Cardinality(mine) ELSE cleanupRowLimit
<1>3. My!doForgetIteration(t, a) = {ids \in SUBSET mine : Cardinality(ids) = n}
  <2>1. My!doForgetIteration(t, a) = {ids \in SUBSET mine : My!Cardinality(ids) =
          IF My!Cardinality(mine) < cleanupRowLimit THEN My!Cardinality(mine) ELSE cleanupRowLimit}
    BY DEF My!doForgetIteration
  <2> HIDE DEF mine
  <2> QED BY <1>2, <2>1
<1>4. ASSUME My!doForgetIteration(t, a) = {{}}, mine # {} PROVE FALSE
  <2>1. Cardinality(mine) # 0
    BY <1>1, <1>4, FS_EmptySet
  <2>2. n # 0
    BY <1>1, <2>1, PersistentHistoryAssumption
  <2>3. Cardinality({}) = n
    <3>1. {} \in {ids \in SUBSET mine : Cardinality(ids) = n}
      BY <1>3, <1>4
    <3> QED BY <3>1
  <2> QED BY <2>2, <2>3, FS_EmptySet
<1>5. \A ids \in My!doForgetIteration(t, a) : ids \subseteq mine
  BY <1>3
<1> QED BY <1>4, <1>5

-----------------------------------------------------------------------------
(* What a query without a selector shows of either backend.                *)
LEMMA MyQueries ==
  ASSUME tb \in DbTables, NEW r, NEW n, NEW target
  PROVE  /\ My!Between(tb, r[1], r[2], 0, Zero, Zero, n) =
              Page((IF r[2] = NoName THEN {i \in tb.sequence : ItemTo[i].to = r[1]}
                    ELSE {i \in Items : <<r[1], r[2], i>> \in tb.conversations}) \cap tb.history, FALSE, n)
         /\ LET rows == {c \in tb.correspondents : c[1] = target}
            IN My!listCorrespondentsInternal(tb, target, 0, 0, n) = PageBy(rows, [c \in rows |-> c[3]], FALSE, n)
<1> DEFINE listed == IF r[2] = NoName THEN {i \in tb.sequence : ItemTo[i].to = r[1]}
                     ELSE {i \in Items : <<r[1], r[2], i>> \in tb.conversations}
           w == My!MinMaxAsc(0, 0, 0)
           rows == {c \in tb.correspondents : c[1] = target}
<1>1. w.min = 0 /\ w.max = 0 /\ w.asc = FALSE
  BY DEF My!MinMaxAsc
<1> HIDE DEF w
<1>2. \A x : My!Inside(x, w)
  BY <1>1 DEF My!Inside
<1>3. My!betweenTimestamps(tb, r[1], r[2], 0, 0, 0, n) = My!Page(listed \cap tb.history, FALSE, n)
  <2>1. My!betweenTimestamps(tb, r[1], r[2], 0, 0, 0, n) =
          My!Page({i \in listed \cap tb.history : My!Inside(i, w)}, w.asc, n)
    BY DEF My!betweenTimestamps, My!Items, Items, w
  <2>2. {i \in listed \cap tb.history : My!Inside(i, w)} = listed \cap tb.history
    BY <1>2
  <2> HIDE DEF listed
  <2> QED BY <1>1, <2>1, <2>2
<1>4. My!Between(tb, r[1], r[2], 0, Zero, Zero, n) = My!betweenTimestamps(tb, r[1], r[2], 0, 0, 0, n)
  BY DEF My!Between, Zero
<1>5. My!listCorrespondentsInternal(tb, target, 0, 0, n) = My!PageBy(rows, [c \in rows |-> c[3]], FALSE, n)
  <2> DEFINE same == {c \in tb.correspondents : c[1] = target /\ My!Inside(c[3], w)}
  <2>1. My!listCorrespondentsInternal(tb, target, 0, 0, n) = My!PageBy(same, [c \in same |-> c[3]], w.asc, n)
    BY DEF My!listCorrespondentsInternal, w
  <2>2. same = rows
    BY <1>2
  <2> HIDE DEF same, rows
  <2> QED BY <1>1, <2>1, <2>2
<1> HIDE DEF listed, rows
<1> QED BY <1>3, <1>4, <1>5, MyPage DEF listed, rows

(* What PostgreSQL's queries return.                                       *)
LEMMA PgQueries ==
  ASSUME tb \in DbTables, NEW r, NEW n, NEW target
  PROVE  /\ Pg!Between(tb, r[1], r[2], 0, Zero, Zero, n) =
              Page((IF r[2] = NoName THEN {i \in tb.sequence : ItemTo[i].to = r[1]}
                    ELSE {i \in Items : <<r[1], r[2], i>> \in tb.conversations}) \cap tb.history, FALSE, n)
         /\ LET rows == {c \in tb.correspondents : c[1] = target}
            IN Pg!listCorrespondentsInternal(tb, target, 0, 0, n) = PageBy(rows, [c \in rows |-> c[3]], FALSE, n)
<1> DEFINE listed == IF r[2] = NoName THEN {i \in tb.sequence : ItemTo[i].to = r[1]}
                     ELSE {i \in Items : <<r[1], r[2], i>> \in tb.conversations}
           w == Pg!MinMaxAsc(0, 0, 0)
           rows == {c \in tb.correspondents : c[1] = target}
<1>1. w.min = 0 /\ w.max = 0 /\ w.asc = FALSE
  BY DEF Pg!MinMaxAsc
<1> HIDE DEF w
<1>2. \A x : Pg!Inside(x, w)
  BY <1>1 DEF Pg!Inside
<1>3. Pg!betweenTimestamps(tb, r[1], r[2], 0, 0, 0, n) = Pg!Page(listed \cap tb.history, FALSE, n)
  <2>1. Pg!betweenTimestamps(tb, r[1], r[2], 0, 0, 0, n) =
          Pg!Page({i \in listed \cap tb.history : Pg!Inside(i, w)}, w.asc, n)
    BY DEF Pg!betweenTimestamps, Pg!Items, Items, w
  <2>2. {i \in listed \cap tb.history : Pg!Inside(i, w)} = listed \cap tb.history
    BY <1>2
  <2> HIDE DEF listed
  <2> QED BY <1>1, <2>1, <2>2
<1>4. Pg!Between(tb, r[1], r[2], 0, Zero, Zero, n) = Pg!betweenTimestamps(tb, r[1], r[2], 0, 0, 0, n)
  BY DEF Pg!Between, Zero
<1>5. Pg!listCorrespondentsInternal(tb, target, 0, 0, n) = Pg!PageBy(rows, [c \in rows |-> c[3]], FALSE, n)
  <2> DEFINE same == {c \in tb.correspondents : c[1] = target /\ Pg!Inside(c[3], w)}
  <2>1. Pg!listCorrespondentsInternal(tb, target, 0, 0, n) = Pg!PageBy(same, [c \in same |-> c[3]], w.asc, n)
    BY DEF Pg!listCorrespondentsInternal, w
  <2>2. same = rows
    BY <1>2
  <2> HIDE DEF same, rows
  <2> QED BY <1>1, <2>1, <2>2
<1> HIDE DEF listed, rows
<1> QED BY <1>3, <1>4, <1>5, PgPage DEF listed, rows

(* What SQLite's queries return.                                           *)
LEMMA LiteQueries ==
  ASSUME tb \in DbTables, NEW r, NEW n, NEW target
  PROVE  /\ Lite!Between(tb, r[1], r[2], 0, Zero, Zero, n) =
              Page((IF r[2] = NoName THEN {i \in tb.sequence : ItemTo[i].to = r[1]}
                    ELSE {i \in Items : <<r[1], r[2], i>> \in tb.conversations}) \cap tb.history, FALSE, n)
         /\ LET rows == {c \in tb.correspondents : c[1] = target}
            IN Lite!listCorrespondentsInternal(tb, target, 0, 0, n) = PageBy(rows, [c \in rows |-> c[3]], FALSE, n)
<1> DEFINE listed == IF r[2] = NoName THEN {i \in tb.sequence : ItemTo[i].to = r[1]}
                     ELSE {i \in Items : <<r[1], r[2], i>> \in tb.conversations}
           w == Lite!MinMaxAsc(0, 0, 0)
           rows == {c \in tb.correspondents : c[1] = target}
<1>1. w.min = 0 /\ w.max = 0 /\ w.asc = FALSE
  BY DEF Lite!MinMaxAsc
<1> HIDE DEF w
<1>2. \A x : Lite!Inside(x, w)
  BY <1>1 DEF Lite!Inside
<1>3. Lite!betweenTimestamps(tb, r[1], r[2], 0, 0, 0, n) = Lite!Page(listed \cap tb.history, FALSE, n)
  <2>1. Lite!betweenTimestamps(tb, r[1], r[2], 0, 0, 0, n) =
          Lite!Page({i \in listed \cap tb.history : Lite!Inside(i, w)}, w.asc, n)
    BY DEF Lite!betweenTimestamps, Lite!Items, Items, w
  <2>2. {i \in listed \cap tb.history : Lite!Inside(i, w)} = listed \cap tb.history
    BY <1>2
  <2> HIDE DEF listed
  <2> QED BY <1>1, <2>1, <2>2
<1>4. Lite!Between(tb, r[1], r[2], 0, Zero, Zero, n) = Lite!betweenTimestamps(tb, r[1], r[2], 0, 0, 0, n)
  BY DEF Lite!Between, Zero
<1>5. Lite!listCorrespondentsInternal(tb, target, 0, 0, n) = Lite!PageBy(rows, [c \in rows |-> c[3]], FALSE, n)
  <2> DEFINE same == {c \in tb.correspondents : c[1] = target /\ Lite!Inside(c[3], w)}
  <2>1. Lite!listCorrespondentsInternal(tb, target, 0, 0, n) = Lite!PageBy(same, [c \in same |-> c[3]], w.asc, n)
    BY DEF Lite!listCorrespondentsInternal, w
  <2>2. same = rows
    BY <1>2
  <2> HIDE DEF same, rows
  <2> QED BY <1>1, <2>1, <2>2
<1> HIDE DEF listed, rows
<1> QED BY <1>3, <1>4, <1>5, LitePage DEF listed, rows

(* A client reads what the tables list and the history holds, on each backend.*)
LEMMA ReadsAre ==
  ASSUME backend \in Backends, tb \in DbTables, NEW r
  PROVE  Range(Reads(tb, r, Zero, Zero, Cardinality(Items))) =
           (IF r[2] = NoName THEN {i \in tb.sequence : ItemTo[i].to = r[1]}
            ELSE {i \in Items : <<r[1], r[2], i>> \in tb.conversations}) \cap tb.history
<1> DEFINE listed == (IF r[2] = NoName THEN {i \in tb.sequence : ItemTo[i].to = r[1]}
                      ELSE {i \in Items : <<r[1], r[2], i>> \in tb.conversations}) \cap tb.history
           n == Cardinality(Items)
<1>1. /\ My!Between(tb, r[1], r[2], 0, Zero, Zero, n) = Page(listed, FALSE, n)
      /\ Pg!Between(tb, r[1], r[2], 0, Zero, Zero, n) = Page(listed, FALSE, n)
      /\ Lite!Between(tb, r[1], r[2], 0, Zero, Zero, n) = Page(listed, FALSE, n)
  BY MyQueries, PgQueries, LiteQueries
<1>4. listed \subseteq Items
  BY DEF DbTables
<1> HIDE DEF listed, n
<1>5. Reads(tb, r, Zero, Zero, n) = Page(listed, FALSE, n)
  BY <1>1 DEF Reads, ByBackend, Backends
<1>6. IsFiniteSet(listed) /\ Cardinality(listed) \in Nat /\ n \in Nat /\ n >= Cardinality(listed)
  <2>1. IsFiniteSet(Items)
    BY PersistentHistoryAssumption
  <2>2. IsFiniteSet(listed) /\ Cardinality(listed) <= n
    BY <1>4, <2>1, FS_Subset DEF n
  <2> QED BY <2>1, <2>2, FS_CardinalityType DEF n
<1>7. listed \subseteq Nat
  BY <1>4, PersistentHistoryAssumption
<1> DEFINE id == [i \in listed |-> i]
<1>8. \A x \in listed : id[x] \in Nat
  BY <1>7
<1>9. Page(listed, FALSE, n) = PageBy(listed, id, FALSE, n)
  BY DEF Page
<1> HIDE DEF id
<1>10. Range(PageBy(listed, id, FALSE, n)) = listed
  BY <1>6, <1>8, WholePage
<1> QED BY <1>5, <1>9, <1>10 DEF n, listed

(* A client is told of every correspondent, on each backend.               *)
LEMMA CorrespondentsAre ==
  ASSUME backend \in Backends, tb \in DbTables, IsFiniteSet(tb.correspondents), NEW target
  PROVE  Range(Correspondents(target)) = {r \in tb.correspondents : r[1] = target}
<1> DEFINE rows == {r \in tb.correspondents : r[1] = target}
           time == [r \in rows |-> r[3]]
           n == Cardinality(tb.correspondents)
<1>1. /\ My!listCorrespondentsInternal(tb, target, 0, 0, n) = PageBy(rows, time, FALSE, n)
      /\ Pg!listCorrespondentsInternal(tb, target, 0, 0, n) = PageBy(rows, time, FALSE, n)
      /\ Lite!listCorrespondentsInternal(tb, target, 0, 0, n) = PageBy(rows, time, FALSE, n)
  BY MyQueries, PgQueries, LiteQueries
<1>4. rows \subseteq tb.correspondents
  OBVIOUS
<1>5. \A x \in rows : time[x] \in Nat
  BY PersistentHistoryAssumption DEF DbTables, DbRows
<1> HIDE DEF rows, time, n
<1>6. Correspondents(target) = PageBy(rows, time, FALSE, n)
  BY <1>1 DEF Correspondents, ByBackend, Backends, n
<1>7. IsFiniteSet(rows) /\ n \in Nat /\ n >= Cardinality(rows)
  <2>1. IsFiniteSet(rows) /\ Cardinality(rows) <= n
    BY <1>4, FS_Subset DEF n
  <2> QED BY <2>1, FS_CardinalityType DEF n
<1>8. Range(PageBy(rows, time, FALSE, n)) = rows
  BY <1>5, <1>7, WholePage
<1> QED BY <1>6, <1>8 DEF rows

(* A set of natural numbers has a least one.                               *)
LEMMA LeastNatural ==
  ASSUME NEW T \in SUBSET Nat, NEW t \in T
  PROVE  \E m \in T : \A k \in T : m <= k
  <1> DEFINE below(n) == {k \in Nat : k < n}
             U == {below(n) : n \in T}
  <1>1. ASSUME NEW n \in Nat PROVE IsFiniteSet(below(n))
    <2>1. below(n) = 0..(n - 1)
      OBVIOUS
    <2>2. IsFiniteSet(0..(n - 1))
      <3>1. 0 \in Int /\ n - 1 \in Int
        OBVIOUS
      <3>2. QED
        BY <3>1, FS_Interval, Zenon
    <2>3. QED
      BY <2>1, <2>2, Zenon
  <1>2. U \subseteq FiniteSubsetsOf(Nat)
    BY <1>1 DEF FiniteSubsetsOf
  <1>3. IsWellFoundedOn(StrictSubsetOrdering(Nat), FiniteSubsetsOf(Nat))
    BY FS_StrictSubsetOrderingWellFounded
  <1>4. below(t) \in U
    OBVIOUS
  <1>5. PICK u \in U : \A v \in U : ~ (<<v, u>> \in StrictSubsetOrdering(Nat))
    <2> HIDE DEF U
    <2>1. U # {}
      BY <1>4
    <2>2. QED
      BY <1>2, <1>3, <2>1, WFMin
  <1>6. PICK m \in T : u = below(m)
    OBVIOUS
  <1>7. ASSUME NEW k \in T, ~(m <= k) PROVE FALSE
    <2>1. k \in Nat /\ m \in Nat /\ k < m
      BY <1>7
    <2>2. below(k) \subseteq below(m)
      BY <2>1
    <2>3. k \in below(m) /\ k \notin below(k)
      BY <2>1
    <2>4. below(k) # below(m)
      BY <2>3
    <2>5. <<below(k), below(m)>> \in StrictSubsetOrdering(Nat)
      BY <2>2, <2>4, Zenon DEF StrictSubsetOrdering
    <2>6. QED
      BY <2>5, <1>5, <1>6, Zenon
  <1>8. QED
    BY <1>7

(* Reversing a sequence keeps what it lists.                               *)
LEMMA Reversed ==
  ASSUME NEW T, IsFiniteSet(T), T \subseteq Nat
  PROVE  LET rows == Reverse(OrderBy(T, [i \in T |-> i]))
         IN /\ Len(rows) \in Nat /\ \A k \in 1..Len(rows) : rows[k] \in T
            /\ \A x \in T : \E k \in 1..Len(rows) : rows[k] = x
            /\ \A j, k \in 1..Len(rows) : j <= k => rows[k] <= rows[j]
<1> DEFINE id == [i \in T |-> i]
           s == OrderBy(T, id)
           n == Cardinality(T)
           rows == Reverse(s)
<1>5. /\ n \in Nat /\ s \in Seq(T) /\ Len(s) = n /\ DOMAIN s = 1..n
      /\ \A x \in T : \E k \in 1..n : s[k] = x
      /\ \A j, k \in 1..n : j <= k => id[s[j]] <= id[s[k]]
  <2>1. \A x \in T : id[x] \in Nat
    OBVIOUS
  <2> HIDE DEF id
  <2> QED BY <2>1, Ordered
<1>6. \A k \in 1..n : s[k] \in T
  BY <1>5
<1>7. \A j, k \in 1..n : j <= k => s[j] <= s[k]
  BY <1>5, <1>6
<1> HIDE DEF s, n, id
<1>8. rows = [k \in 1..n |-> s[n - k + 1]]
  BY <1>5 DEF Reverse
<1>9. Len(rows) = n /\ \A k \in 1..n : rows[k] = s[n - k + 1]
  BY <1>5, <1>8
<1> HIDE DEF rows
<1>10. ASSUME NEW k \in 1..n PROVE n - k + 1 \in 1..n /\ n - (n - k + 1) + 1 = k
  BY <1>5
<1>11. ASSUME NEW x \in T PROVE \E k \in 1..n : rows[k] = x
  <2>1. PICK k \in 1..n : s[k] = x
    BY <1>5
  <2>2. rows[n - k + 1] = x
    BY <1>9, <1>10, <2>1
  <2> QED BY <1>10, <2>2
<1>12. ASSUME NEW j \in 1..n, NEW k \in 1..n, j <= k PROVE rows[k] <= rows[j]
  <2>1. n - k + 1 <= n - j + 1
    BY <1>5, <1>12
  <2>2. s[n - k + 1] <= s[n - j + 1]
    BY <1>7, <1>10, <2>1
  <2> QED BY <1>9, <2>2
<1> QED BY <1>5, <1>6, <1>9, <1>10, <1>11, <1>12 DEF rows, s, id

(* The newest item of a set, by the query of each backend.                 *)
NewestIn(of) == CHOOSE i \in of : \A j \in of : j <= i
PlacesIn(rows, of) == {k \in 1..Len(rows) : rows[k] \in of}
FirstIn(rows, of) == CHOOSE x \in PlacesIn(rows, of) : \A y \in PlacesIn(rows, of) : x =< y

(* The newest item of a channel, as each backend asks for it.              *)
LEMMA NewestOf ==
  ASSUME NEW T, IsFiniteSet(T), T \subseteq Nat, NEW of, of \subseteq T
  PROVE  LET newest == NewestIn(of)
             rows == Reverse(OrderBy(T, [i \in T |-> i]))
             I == PlacesIn(rows, of)
             first == FirstIn(rows, of)
         IN /\ Page(of, FALSE, 1) # <<>> <=> of # {}
            /\ of # {} => Page(of, FALSE, 1)[1] = newest
            /\ I # {} <=> of # {}
            /\ I # {} => first # 0
            /\ of # {} => rows[first] = newest
<1> DEFINE newest == NewestIn(of)
           rows == Reverse(OrderBy(T, [i \in T |-> i]))
           I == PlacesIn(rows, of)
           first == FirstIn(rows, of)
           p == Page(of, FALSE, 1)
           p1 == p[1]
<1>1. IsFiniteSet(of) /\ of \subseteq Nat
  BY FS_Subset
<1>2. /\ of = {} => p = <<>>
      /\ of # {} => p # <<>> /\ p1 \in of /\ \A j \in of : j <= p1
  BY <1>1, LastPage
<1> HIDE DEF p1
<1>3. of # {} => newest \in of /\ \A j \in of : j <= newest
  BY <1>2 DEF NewestIn
<1> HIDE DEF newest, p
<1>4. of # {} => p1 = newest
  <2>1. of # {} => p1 <= newest /\ newest <= p1 /\ p1 \in Nat /\ newest \in Nat
    BY <1>1, <1>2, <1>3
  <2> QED BY <2>1
<1>5. /\ Len(rows) \in Nat /\ \A k \in 1..Len(rows) : rows[k] \in T
      /\ \A x \in T : \E k \in 1..Len(rows) : rows[k] = x
      /\ \A j, k \in 1..Len(rows) : j <= k => rows[k] <= rows[j]
  BY Reversed
<1> HIDE DEF rows
<1>6. I # {} <=> of # {}
  BY <1>5 DEF PlacesIn
<1>7. I \in SUBSET Nat
  BY DEF PlacesIn
<1>8. ASSUME I # {} PROVE first \in I /\ \A y \in I : first =< y
  <2> HIDE DEF I, first
  <2>1. \E x \in I : \A y \in I : x =< y
    BY <1>7, <1>8, LeastNatural
  <2> QED BY <2>1 DEF first, FirstIn, I
<1> HIDE DEF first
<1>9. ASSUME of # {} PROVE rows[first] = newest
  <2>1. first \in 1..Len(rows) /\ rows[first] \in of
    BY <1>6, <1>8, <1>9 DEF PlacesIn
  <2>2. PICK k \in 1..Len(rows) : rows[k] = newest
    BY <1>3, <1>5, <1>9
  <2>3. first <= k
    BY <1>3, <1>6, <1>8, <1>9, <2>2 DEF PlacesIn
  <2>4. newest <= rows[first]
    BY <1>5, <2>1, <2>2, <2>3
  <2>5. rows[first] <= newest /\ newest \in Nat /\ rows[first] \in Nat
    BY <1>1, <1>3, <1>9, <2>1
  <2> QED BY <2>4, <2>5
<1>10. I # {} => first # 0
  BY <1>8 DEF PlacesIn
<1> HIDE DEF I
<1>11. (p # <<>> <=> of # {}) /\ (of # {} => p[1] = newest)
  BY <1>2, <1>4 DEF p1
<1> QED BY <1>6, <1>9, <1>10, <1>11 DEF rows, newest, p, first, I

(* ListChannels: the three queries give one answer on any tables.          *)
LEMMA BackendsAgreeAlways == tb \in DbTables => BackendsAgree
<1> SUFFICES ASSUME tb \in DbTables PROVE BackendsAgree
  OBVIOUS
<1> DEFINE T == tb.sequence
           of(c) == {i \in T : ItemTo[i].to = c}
           newest(c) == NewestIn(of(c))
           chans == {ItemTo[i].to : i \in {i \in Items : ItemTo[i].sort = "channel"}}
           rows == Reverse(OrderBy(T, [i \in T |-> i]))
           I(c) == {k \in 1..Len(rows) : ItemTo[rows[k]].to = c}
           first(c) == IF I(c) # {} THEN (CHOOSE x \in I(c) : \A y \in I(c) : x =< y) ELSE 0
<1>1. IsFiniteSet(T) /\ T \subseteq Nat
  <2>1. T \subseteq Items /\ IsFiniteSet(Items) /\ Items \subseteq Nat
    BY PersistentHistoryAssumption DEF DbTables
  <2> QED BY <2>1, FS_Subset
<1> HIDE DEF T
<1>2. My!ListChannels(tb, chans) = {<<c, newest(c)>> : c \in {c \in chans : of(c) # {}}}
  BY DEF My!ListChannels, T, NewestIn
<1>3. Lite!ListChannels(tb, chans) = {<<c, Page(of(c), FALSE, 1)[1]>> : c \in {c \in chans : Page(of(c), FALSE, 1) # <<>>}}
  <2>1. \A c : Lite!Page(of(c), FALSE, 1) = Page(of(c), FALSE, 1)
    BY LitePage
  <2>2. Lite!ListChannels(tb, chans) = {<<c, Lite!Page(of(c), FALSE, 1)[1]>> : c \in {c \in chans : Lite!Page(of(c), FALSE, 1) # <<>>}}
    BY DEF Lite!ListChannels, T
  <2> HIDE DEF of, chans
  <2> QED BY <2>1, <2>2
<1>4. Pg!ListChannels(tb, chans) = {<<c, rows[first(c)]>> : c \in {c \in chans : first(c) # 0}}
  BY DEF Pg!ListChannels, Pg!SelectInSeq, Pg!Min, Pg!Reverse, Reverse, Pg!OrderBy, OrderBy, Pg!SetToSeq, SetToSeq,
     Pg!IsInjective, IsInjective, Pg!Cardinality, Cardinality, T
<1>5. ASSUME NEW c
      PROVE  /\ Page(of(c), FALSE, 1) # <<>> <=> of(c) # {}
             /\ first(c) # 0 <=> of(c) # {}
             /\ of(c) # {} => Page(of(c), FALSE, 1)[1] = newest(c) /\ rows[first(c)] = newest(c)
  <2>1. of(c) \subseteq T
    OBVIOUS
  <2>2. I(c) = {k \in 1..Len(rows) : rows[k] \in of(c)}
    <3>1. \A k \in 1..Len(rows) : rows[k] \in T
      BY <1>1, Reversed
    <3> HIDE DEF rows
    <3> QED BY <3>1
  <2> DEFINE J == PlacesIn(rows, of(c))
             g == FirstIn(rows, of(c))
             o == of(c)
  <2>3. /\ Page(o, FALSE, 1) # <<>> <=> o # {}
        /\ o # {} => Page(o, FALSE, 1)[1] = newest(c)
        /\ J # {} <=> o # {}
        /\ J # {} => g # 0
        /\ o # {} => rows[g] = newest(c)
    <3> HIDE DEF o
    <3> QED BY <1>1, <2>1, NewestOf DEF o
  <2>4. first(c) = IF J # {} THEN g ELSE 0
    <3> HIDE DEF rows, of
    <3>1. I(c) = J
      BY <2>2 DEF PlacesIn
    <3> HIDE DEF I, J
    <3>2. g = CHOOSE x \in J : \A y \in J : x =< y
      BY DEF FirstIn, J
    <3> HIDE DEF g
    <3> QED BY <3>1, <3>2
  <2> HIDE DEF J, g, first, newest, rows, of
  <2> QED BY <2>3, <2>4
<1> HIDE DEF of, newest, rows, first
<1>6. {<<c, Page(of(c), FALSE, 1)[1]>> : c \in {c \in chans : Page(of(c), FALSE, 1) # <<>>}}
        = {<<c, newest(c)>> : c \in {c \in chans : of(c) # {}}}
  <2> HIDE DEF chans
  <2> QED BY <1>5
<1>7. {<<c, rows[first(c)]>> : c \in {c \in chans : first(c) # 0}} = {<<c, newest(c)>> : c \in {c \in chans : of(c) # {}}}
  <2> HIDE DEF chans
  <2> QED BY <1>5
<1> QED BY <1>2, <1>3, <1>4, <1>6, <1>7 DEF BackendsAgree

(* Sequences are what their elements are.                                  *)
LEMMA FourInARow ==
  ASSUME NEW S, NEW s \in Seq(S), Len(s) = 4
  PROVE  s = <<s[1], s[2], s[3], s[4]>>
OBVIOUS

LEMMA SixInARow ==
  ASSUME NEW S, NEW s \in Seq(S), Len(s) = 6
  PROVE  s = <<s[1], s[2], s[3], s[4], s[5], s[6]>>
OBVIOUS

LEMMA Concatenations ==
  \A a, b, c, d, e, f :
    /\ <<a>> \o <<b, c>> \o <<>> \o <<d>> = <<a, b, c, d>>
    /\ <<a>> \o <<>> \o <<b, c>> \o <<d>> = <<a, b, c, d>>
    /\ <<a>> \o <<b, c>> \o <<d, e>> \o <<f>> = <<a, b, c, d, e, f>>
<1> TAKE a, b, c, d, e, f
<1> DEFINE S == {a, b, c, d, e, f}
           x == <<a>> \o <<b, c>> \o <<>> \o <<d>>
           y == <<a>> \o <<>> \o <<b, c>> \o <<d>>
           z == <<a>> \o <<b, c>> \o <<d, e>> \o <<f>>
<1>1. <<a>> \in Seq(S) /\ <<b, c>> \in Seq(S) /\ <<d>> \in Seq(S) /\ <<>> \in Seq(S) /\ <<d, e>> \in Seq(S) /\ <<f>> \in Seq(S)
  OBVIOUS
<1>2. x \in Seq(S) /\ y \in Seq(S) /\ z \in Seq(S)
  <2> HIDE DEF S
  <2> QED BY <1>1
<1>3. Len(x) = 4 /\ x[1] = a /\ x[2] = b /\ x[3] = c /\ x[4] = d
  OBVIOUS
<1>4. Len(y) = 4 /\ y[1] = a /\ y[2] = b /\ y[3] = c /\ y[4] = d
  OBVIOUS
<1>5. Len(z) = 6 /\ z[1] = a /\ z[2] = b /\ z[3] = c /\ z[4] = d /\ z[5] = e /\ z[6] = f
  OBVIOUS
<1> HIDE DEF x, y, z
<1>6. x = <<x[1], x[2], x[3], x[4]>> /\ y = <<y[1], y[2], y[3], y[4]>>
  BY <1>2, <1>3, <1>4, FourInARow
<1>7. z = <<z[1], z[2], z[3], z[4], z[5], z[6]>>
  BY <1>2, <1>5, SixInARow
<1> QED BY <1>3, <1>4, <1>5, <1>6, <1>7 DEF x, y, z

(* The statements that an item needs, by who takes part.                   *)
LEMMA StepsAre ==
  ASSUME NEW i \in Items
  PROVE  LET it == ItemTo[i]
             s == StoringSteps(i)
         IN /\ it.sort = "channel" => s = <<"base", "sequence", "account">>
            /\ it.sort = "direct" =>
                 \/ it.account = NoName /\ it.toAccount = NoName /\ s = <<>>
                 \/ it.account # NoName /\ (it.toAccount = NoName \/ it.from = it.to)
                    /\ s = <<"base", "convFrom", "corrFrom", "account">>
                 \/ it.account # NoName /\ it.toAccount # NoName /\ it.from # it.to
                    /\ s = <<"base", "convFrom", "corrFrom", "convTo", "corrTo", "account">>
                 \/ it.account = NoName /\ it.toAccount # NoName /\ it.from # it.to
                    /\ s = <<"base", "convTo", "corrTo", "account">>
<1> DEFINE it == ItemTo[i]
           s == StoringSteps(i)
           from == IF it.account # NoName THEN <<"convFrom", "corrFrom">> ELSE <<>>
           to == IF it.toAccount # NoName /\ it.from # it.to THEN <<"convTo", "corrTo">> ELSE <<>>
<1>1. it.sort = "channel" => s = <<"base", "sequence", "account">>
  BY DEF StoringSteps, My!AddChannelItem
<1>2. it.sort = "direct" => s = IF it.account = NoName /\ it.toAccount = NoName THEN <<>> ELSE <<"base">> \o from \o to \o <<"account">>
  BY DEF StoringSteps, My!AddDirectMessage
<1>3. it.sort = "direct" /\ it.from = it.to => it.account = it.toAccount
  BY PersistentHistoryAssumption
<1> HIDE DEF it, s
<1>4. /\ <<"base">> \o <<"convFrom", "corrFrom">> \o <<>> \o <<"account">> = <<"base", "convFrom", "corrFrom", "account">>
      /\ <<"base">> \o <<>> \o <<"convTo", "corrTo">> \o <<"account">> = <<"base", "convTo", "corrTo", "account">>
      /\ <<"base">> \o <<"convFrom", "corrFrom">> \o <<"convTo", "corrTo">> \o <<"account">>
           = <<"base", "convFrom", "corrFrom", "convTo", "corrTo", "account">>
  <2>1. <<"base">> \o <<"convFrom", "corrFrom">> \o <<>> \o <<"account">> = <<"base", "convFrom", "corrFrom", "account">>
    BY Concatenations
  <2>2. <<"base">> \o <<>> \o <<"convTo", "corrTo">> \o <<"account">> = <<"base", "convTo", "corrTo", "account">>
    BY Concatenations
  <2>3. <<"base">> \o <<"convFrom", "corrFrom">> \o <<"convTo", "corrTo">> \o <<"account">>
           = <<"base", "convFrom", "corrFrom", "convTo", "corrTo", "account">>
    BY Concatenations
  <2> QED BY <2>1, <2>2, <2>3
<1>5. /\ it.account # NoName => from = <<"convFrom", "corrFrom">>
      /\ it.account = NoName => from = <<>>
      /\ it.toAccount # NoName /\ it.from # it.to => to = <<"convTo", "corrTo">>
      /\ it.toAccount = NoName \/ it.from = it.to => to = <<>>
  OBVIOUS
<1> HIDE DEF from, to
<1> QED BY <1>1, <1>2, <1>3, <1>4, <1>5 DEF it, s

(* What the proofs use of them: the item's row is written first, the account's last.*)
LEMMA StepsFacts ==
  ASSUME NEW i \in Items
  PROVE  LET it == ItemTo[i]
             s == StoringSteps(i)
         IN /\ s \in Seq(Statements)
            /\ it.sort = "channel" => {"base", "sequence"} \subseteq Range(s)
            /\ it.sort = "direct" /\ it.account # NoName => {"base", "convFrom", "corrFrom"} \subseteq Range(s)
            /\ it.sort = "direct" /\ it.toAccount # NoName => "base" \in Range(s)
            /\ it.sort = "direct" /\ it.toAccount # NoName /\ it.from # it.to => {"convTo", "corrTo"} \subseteq Range(s)
            /\ s # <<>> => /\ s[1] = "base" /\ s[Len(s)] = "account"
                           /\ \E k \in DOMAIN s : s[k] \in {"sequence", "convFrom", "convTo"}
            /\ \A k \in DOMAIN s : (k > 1 => s[k] # "base") /\ (s[k] = "account" => k = Len(s))
<1> DEFINE it == ItemTo[i]
           s == StoringSteps(i)
<1> HIDE DEF s, it
<1>1. it.sort \in {"channel", "direct"}
  BY PersistentHistoryAssumption DEF it
<1>2. /\ s = <<>> \/ s = <<"base", "sequence", "account">> \/ s = <<"base", "convFrom", "corrFrom", "account">>
         \/ s = <<"base", "convTo", "corrTo", "account">>
         \/ s = <<"base", "convFrom", "corrFrom", "convTo", "corrTo", "account">>
      /\ it.sort = "channel" => s = <<"base", "sequence", "account">>
      /\ it.sort = "direct" /\ it.account # NoName =>
           \/ s = <<"base", "convFrom", "corrFrom", "account">>
           \/ s = <<"base", "convFrom", "corrFrom", "convTo", "corrTo", "account">>
      /\ it.sort = "direct" /\ it.toAccount # NoName => s # <<>>
      /\ it.sort = "direct" /\ it.toAccount # NoName /\ it.from # it.to =>
           \/ s = <<"base", "convTo", "corrTo", "account">>
           \/ s = <<"base", "convFrom", "corrFrom", "convTo", "corrTo", "account">>
  BY <1>1, StepsAre DEF s, it
<1>3. /\ s \in Seq(Statements)
      /\ s # <<>> => /\ s[1] = "base" /\ s[Len(s)] = "account"
                     /\ \E k \in DOMAIN s : s[k] \in {"sequence", "convFrom", "convTo"}
      /\ \A k \in DOMAIN s : (k > 1 => s[k] # "base") /\ (s[k] = "account" => k = Len(s))
  <2>1. CASE s = <<>>
    BY <2>1
  <2>2. CASE s = <<"base", "sequence", "account">>
    BY <2>2 DEF Statements
  <2>3. CASE s = <<"base", "convFrom", "corrFrom", "account">>
    BY <2>3 DEF Statements
  <2>4. CASE s = <<"base", "convTo", "corrTo", "account">>
    BY <2>4 DEF Statements
  <2>5. CASE s = <<"base", "convFrom", "corrFrom", "convTo", "corrTo", "account">>
    BY <2>5 DEF Statements
  <2> QED BY <1>2, <2>1, <2>2, <2>3, <2>4, <2>5
<1>4. s # <<>> => 1 \in DOMAIN s
  BY <1>3
<1>5. s # <<>> => "base" \in Range(s)
  BY <1>3, <1>4 DEF Range
<1>6. ASSUME NEW k \in DOMAIN s PROVE s[k] \in Range(s)
  BY DEF Range
<1>7. s = <<"base", "sequence", "account">> => "sequence" \in Range(s)
  BY <1>6
<1>8. s = <<"base", "convFrom", "corrFrom", "account">> \/ s = <<"base", "convFrom", "corrFrom", "convTo", "corrTo", "account">>
        => {"convFrom", "corrFrom"} \subseteq Range(s)
  <2>1. s = <<"base", "convFrom", "corrFrom", "account">> \/ s = <<"base", "convFrom", "corrFrom", "convTo", "corrTo", "account">>
          => {2, 3} \subseteq DOMAIN s /\ s[2] = "convFrom" /\ s[3] = "corrFrom"
    OBVIOUS
  <2> QED BY <1>6, <2>1
<1>9. s = <<"base", "convTo", "corrTo", "account">> \/ s = <<"base", "convFrom", "corrFrom", "convTo", "corrTo", "account">>
        => {"convTo", "corrTo"} \subseteq Range(s)
  <2>1. s = <<"base", "convTo", "corrTo", "account">> => {2, 3} \subseteq DOMAIN s /\ s[2] = "convTo" /\ s[3] = "corrTo"
    OBVIOUS
  <2>2. s = <<"base", "convFrom", "corrFrom", "convTo", "corrTo", "account">>
          => {4, 5} \subseteq DOMAIN s /\ s[4] = "convTo" /\ s[5] = "corrTo"
    OBVIOUS
  <2> QED BY <1>6, <2>1, <2>2
<1>10. s = <<"base", "sequence", "account">> \/ s = <<"base", "convFrom", "corrFrom", "account">>
       \/ s = <<"base", "convFrom", "corrFrom", "convTo", "corrTo", "account">> => s # <<>>
  OBVIOUS
<1> QED BY <1>2, <1>3, <1>5, <1>7, <1>8, <1>9, <1>10 DEF s, it

(* The invariant says what clients read.                                   *)
LEMMA InvImpliesExact == DbInv => HistoryExact
<1> SUFFICES ASSUME DbInv PROVE HistoryExact
  OBVIOUS
<1>1. backend \in Backends /\ tb \in DbTables /\ IsFiniteSet(tb.correspondents)
  BY DEF DbInv, DbType
<1>2. StoredIsReadable
  <2> SUFFICES ASSUME NEW i \in Items, write[i].st = "stored", i > aged, i \notin requested \cup caught,
                      NEW r \in HistoryReaders(i)
               PROVE  /\ Readable(i, r)
                      /\ r[2] # NoName => \E c \in Range(Correspondents(r[1])) : c[2] = r[2] /\ c[3] >= i
    BY DEF StoredIsReadable
  <2> DEFINE it == ItemTo[i]
             steps == StoringSteps(i)
  <2>1. Unwritten(i) = {}
    <3>1. write[i].left = <<>>
      BY DEF DbInv, WriteInv
    <3> QED BY <3>1 DEF Unwritten, Range
  <2>2. \A s \in Range(steps) : Effect(tb, s, i)
    BY <2>1 DEF DbInv, PresentInv, Kept
  <2>3. /\ it.sort \in {"channel", "direct"} /\ it.to # NoName /\ it.from # NoName
        /\ it.sort = "direct" /\ it.from = it.to => it.account = it.toAccount
    BY PersistentHistoryAssumption
  <2>4. /\ it.sort = "channel" => {"base", "sequence"} \subseteq Range(steps)
        /\ it.sort = "direct" /\ it.account # NoName => {"base", "convFrom", "corrFrom"} \subseteq Range(steps)
        /\ it.sort = "direct" /\ it.toAccount # NoName => "base" \in Range(steps)
        /\ it.sort = "direct" /\ it.toAccount # NoName /\ it.from # it.to => {"convTo", "corrTo"} \subseteq Range(steps)
    BY StepsFacts
  <2>5. \A target : Range(Correspondents(target)) = {c \in tb.correspondents : c[1] = target}
    BY <1>1, CorrespondentsAre
  <2>6. Readable(i, r) <=> i \in (IF r[2] = NoName THEN {k \in tb.sequence : ItemTo[k].to = r[1]}
            ELSE {k \in Items : <<r[1], r[2], k>> \in tb.conversations}) \cap tb.history
    BY <1>1, ReadsAre DEF Readable
  <2>7. CASE it.sort = "channel"
    <3>1. r[1] = it.to /\ r[2] = NoName
      BY <2>7 DEF HistoryReaders
    <3>2. i \in tb.sequence /\ i \in tb.history
      BY <2>2, <2>4, <2>7 DEF Effect
    <3> QED BY <2>6, <3>1, <3>2
  <2>8. CASE it.sort = "direct"
    <3>1. r \in {<<it.account, it.to>>, <<it.toAccount, it.from>>} /\ r[1] # NoName
      BY <2>8 DEF HistoryReaders
    <3>2. \/ r[1] = it.account /\ r[2] = it.to /\ it.account # NoName
          \/ r[1] = it.toAccount /\ r[2] = it.from /\ it.toAccount # NoName
      BY <3>1
    <3>3. CASE r[1] = it.account /\ r[2] = it.to /\ it.account # NoName
      <4>1. i \in tb.history /\ <<it.account, it.to, i>> \in tb.conversations /\ Listed(tb.correspondents, it.account, it.to, i)
        BY <2>2, <2>4, <2>8, <3>3 DEF Effect
      <4>2. Readable(i, r)
        BY <2>3, <2>6, <3>3, <4>1
      <4> QED BY <2>5, <3>3, <4>1, <4>2 DEF Listed
    <3>4. CASE r[1] = it.toAccount /\ r[2] = it.from /\ it.toAccount # NoName
      <4>1. CASE it.from = it.to
        BY <2>3, <2>8, <3>3, <3>4, <4>1
      <4>2. CASE it.from # it.to
        <5>1. /\ i \in tb.history /\ <<it.toAccount, it.from, i>> \in tb.conversations
              /\ Listed(tb.correspondents, it.toAccount, it.from, i)
          BY <2>2, <2>4, <2>8, <3>4, <4>2 DEF Effect
        <5>2. Readable(i, r)
          BY <2>3, <2>6, <3>4, <5>1
        <5> QED BY <2>5, <3>4, <5>1, <5>2 DEF Listed
      <4> QED BY <4>1, <4>2
    <3> QED BY <3>2, <3>3, <3>4
  <2> QED BY <2>3, <2>7, <2>8
<1>3. RemovedIsGone
  <2> SUFFICES ASSUME NEW i \in gone
               PROVE  /\ ~Loaded(i) /\ \A a \in TrackedAccounts : i \notin Exported(a)
                      /\ \A r \in HistoryReaders(i) : ~Readable(i, r)
    BY DEF RemovedIsGone
  <2>1. i \in Items /\ (i \notin tb.history \/ Unlisted(tb, i))
    BY DEF DbInv, DbType, GoneInv
  <2>2. ~Loaded(i) /\ \A a : i \notin Exported(a)
    <3>1. /\ Loaded(i) = (My!lookupMsgid(tb, i) # 0)
          /\ \A a : Exported(a) = {k \in tb.account_messages \cap tb.history \cap tb.sequence : ItemTo[k].account = a}
      BY <1>1, SameSelections
    <3> QED BY <2>1, <3>1, TimeFacts DEF Unlisted
  <2>3. ASSUME NEW r, Readable(i, r) PROVE FALSE
    <3>1. i \in (IF r[2] = NoName THEN {k \in tb.sequence : ItemTo[k].to = r[1]}
            ELSE {k \in Items : <<r[1], r[2], k>> \in tb.conversations}) \cap tb.history
      BY <1>1, <2>3, ReadsAre DEF Readable
    <3>2. CASE <<r[1], r[2], i>> \in tb.conversations
      <4>1. <<r[1], r[2], i>>[3] = i
        OBVIOUS
      <4> QED BY <2>1, <3>1, <3>2, <4>1 DEF Unlisted
    <3> QED BY <2>1, <3>1, <3>2 DEF Unlisted
  <2> QED BY <2>2, <2>3
<1>4. BackendsAgree
  BY <1>1, BackendsAgreeAlways
<1> QED BY <1>2, <1>3, <1>4 DEF HistoryExact

(* An empty database is in the invariant.                                  *)
LEMMA InitHolds == PersistentHistoryInit => DbInv
<1> SUFFICES ASSUME PersistentHistoryInit PROVE DbInv
  OBVIOUS
<1> USE DEF PersistentHistoryInit, EmptyTables
<1>1. tb \in DbTables /\ IsFiniteSet(tb.correspondents)
  <2>1. IsFiniteSet({})
    BY FS_EmptySet
  <2>2. <<>> \in Seq(ForgetRows)
    OBVIOUS
  <2> QED BY <2>1, <2>2 DEF DbTables
<1>2. \A i \in Items : write[i] = [st |-> "new", left |-> <<>>]
  OBVIOUS
<1>3. \A j \in Jobs : job[j] = NoJob
  OBVIOUS
<1>4. DbType
  <2>1. backend \in Backends /\ aged \in Nat /\ requested = {} /\ gone = {} /\ caught = {}
    BY DEF Backends
  <2>2. JobsType
    BY DEF JobsType, NoJob, DbNames
  <2>3. write \in [Items -> [st : {"new", "busy", "stored", "failed"}, left : Seq(Statements)]]
    OBVIOUS
  <2> QED BY <1>1, <2>1, <2>2, <2>3 DEF DbType
<1>5. WriteInv /\ RowsInv /\ PresentInv /\ JobInv /\ ForgetInv /\ GoneInv
  <2>1. WriteInv
    BY <1>2 DEF WriteInv, Range
  <2>2. RowsInv /\ GoneInv
    BY DEF RowsInv, GoneInv
  <2>3. PresentInv
    BY <1>2 DEF PresentInv, Kept
  <2>4. JobInv
    BY <1>3 DEF JobInv, NoJob
  <2>5. ForgetInv
    BY <1>3 DEF ForgetInv, NoJob, Jobs
  <2> QED BY <2>1, <2>2, <2>3, <2>4, <2>5
<1> QED BY <1>4, <1>5 DEF DbInv

(* The cleanup drops rows of correspondents that are old.                  *)
Trimmed(t, u) ==
  /\ u \in DbTables /\ IsFiniteSet(u.correspondents) /\ u.history = t.history /\ u.sequence = t.sequence
  /\ u.conversations = t.conversations /\ u.account_messages = t.account_messages /\ u.forget = t.forget
  /\ \A c \in t.correspondents : c[3] > aged => c \in u.correspondents

(* Items, rows and what was removed stay as they are; what is kept and     *)
(* caught may change, and jobs end, or begin with what may be deleted.     *)
LEMMA QuietStep ==
  ASSUME DbInv, UNCHANGED <<backend, write, gone>>, UNCHANGED tb \/ Trimmed(tb, tb'), JobsType', aged' \in Nat, aged' >= aged,
         requested \subseteq requested', requested' \subseteq Items, caught \subseteq caught', caught' \subseteq Items,
         \A j \in Jobs : job'[j].at = "delete" => job'[j] = job[j] \/ JobOk(j)',
         job'["forgetter"].at \in {"iterate", "delete"} =>
           tb.forget # <<>> /\ tb.forget[1].account = job'["forgetter"].account
  PROVE  DbInv'
<1>1. Trimmed(tb, tb')
  BY DEF Trimmed, DbInv, DbType
<1>2. tb' \in DbTables /\ IsFiniteSet(tb'.correspondents) /\ tb'.history = tb.history /\ tb'.sequence = tb.sequence
      /\ tb'.conversations = tb.conversations /\ tb'.account_messages = tb.account_messages /\ tb'.forget = tb.forget
  BY <1>1 DEF Trimmed
<1>3. DbType'
  BY <1>2 DEF DbInv, DbType
<1>4. \A i \in Items : Begun(i)' = Begun(i) /\ Unwritten(i)' = Unwritten(i) /\ (Kept(i)' => Kept(i))
  <2> SUFFICES ASSUME NEW i \in Items PROVE Begun(i)' = Begun(i) /\ Unwritten(i)' = Unwritten(i) /\ (Kept(i)' => Kept(i))
    OBVIOUS
  <2>1. Begun(i)' = Begun(i) /\ Unwritten(i)' = Unwritten(i)
    BY DEF Begun, Unwritten
  <2>2. i \in Nat /\ aged \in Nat
    BY PersistentHistoryAssumption DEF DbInv, DbType
  <2>3. Kept(i)' => Kept(i)
    BY <2>2 DEF Kept
  <2> QED BY <2>1, <2>3
<1>5. \A i : Unlisted(tb, i)' = Unlisted(tb, i)
  BY <1>2 DEF Unlisted
<1>6. WriteInv' /\ RowsInv' /\ GoneInv'
  <2>1. WriteInv'
    BY DEF DbInv, WriteInv
  <2>2. RowsInv'
    BY <1>2, <1>4 DEF DbInv, RowsInv, DbType, DbTables
  <2>3. GoneInv'
    BY <1>2, <1>4, <1>5 DEF DbInv, GoneInv, DbType
  <2> QED BY <2>1, <2>2, <2>3
<1>7. PresentInv'
  <2> SUFFICES ASSUME NEW i \in Items, Kept(i)', NEW s \in Range(StoringSteps(i)) \ Unwritten(i) PROVE Effect(tb', s, i)
    BY <1>4 DEF PresentInv
  <2>1. Effect(tb, s, i) /\ i > aged /\ i \in Nat /\ aged \in Nat
    BY <1>4, PersistentHistoryAssumption DEF DbInv, DbType, PresentInv, Kept
  <2>2. \A a, b : Listed(tb.correspondents, a, b, i) => Listed(tb'.correspondents, a, b, i)
    <3> SUFFICES ASSUME NEW a, NEW b, NEW c \in tb.correspondents, c[1] = a, c[2] = b, c[3] >= i
                 PROVE  Listed(tb'.correspondents, a, b, i)
      BY DEF Listed
    <3>1. c[3] \in Nat
      BY PersistentHistoryAssumption DEF DbInv, DbType, DbTables, DbRows
    <3>2. c \in tb'.correspondents
      BY <1>1, <2>1, <3>1 DEF Trimmed
    <3> QED BY <3>2 DEF Listed
  <2> QED BY <1>2, <2>1, <2>2 DEF Effect
<1>8. JobInv'
  <2> SUFFICES ASSUME NEW j \in Jobs, job'[j].at = "delete" PROVE JobOk(j)'
    BY DEF JobInv
  <2>1. CASE job'[j] = job[j]
    <3>1. JobOk(j) /\ job[j].ids \subseteq Items
      BY <2>1 DEF DbInv, JobInv, DbType, JobsType
    <3> QED BY <1>2, <1>4, <2>1, <3>1 DEF JobOk
  <2> QED BY <2>1
<1>9. ForgetInv'
  BY <1>2, <1>5 DEF DbInv, ForgetInv
<1> QED BY <1>3, <1>6, <1>7, <1>8, <1>9 DEF DbInv

(* A record is what its fields are.                                        *)
LEMMA JobRecord ==
  ASSUME NEW x, NEW y, NEW z, NEW a, NEW r \in [at : {x}, ids : {y}, left : {z}, account : {a}]
  PROVE  r = [at |-> x, ids |-> y, left |-> z, account |-> a]
OBVIOUS

(* What the forget routine is, between deletions.                          *)
LEMMA ForgetterStates ==
  ASSUME NEW a
  PROVE  /\ [NoJob EXCEPT !.at = "iterate", !.account = a] = [at |-> "iterate", ids |-> {}, left |-> <<>>, account |-> a]
         /\ [NoJob EXCEPT !.at = "wait"] = [at |-> "wait", ids |-> {}, left |-> <<>>, account |-> NoName]
         /\ [NoJob EXCEPT !.at = "next"] = [at |-> "next", ids |-> {}, left |-> <<>>, account |-> NoName]
<1> DEFINE r == [NoJob EXCEPT !.at = "iterate", !.account = a]
           s == [NoJob EXCEPT !.at = "wait"]
           t == [NoJob EXCEPT !.at = "next"]
<1>1. NoJob \in [at : {"rest"}, ids : {{}}, left : {<<>>}, account : {NoName}]
  BY DEF NoJob
<1>2. r \in [at : {"iterate"}, ids : {{}}, left : {<<>>}, account : {a}]
  BY <1>1
<1>3. s \in [at : {"wait"}, ids : {{}}, left : {<<>>}, account : {NoName}]
  BY <1>1
<1>4. t \in [at : {"next"}, ids : {{}}, left : {<<>>}, account : {NoName}]
  BY <1>1
<1> HIDE DEF r, s, t
<1>5. r = [at |-> "iterate", ids |-> {}, left |-> <<>>, account |-> a]
  BY <1>2, JobRecord
<1>6. s = [at |-> "wait", ids |-> {}, left |-> <<>>, account |-> NoName]
  BY <1>3, JobRecord
<1>7. t = [at |-> "next", ids |-> {}, left |-> <<>>, account |-> NoName]
  BY <1>4, JobRecord
<1> QED BY <1>5, <1>6, <1>7 DEF r, s, t

(* Opening the database.                                                   *)
LEMMA OpenHolds == ASSUME DbInv, open PROVE DbInv'
<1>1. UNCHANGED <<backend, tb, write, gone, job, aged, requested, caught>>
  BY DEF open
<1>2. JobsType' /\ aged \in Nat /\ aged >= aged /\ requested \subseteq Items /\ caught \subseteq Items
  BY <1>1 DEF DbInv, DbType, JobsType
<1>3. job["forgetter"].at \in {"iterate", "delete"} => tb.forget # <<>> /\ tb.forget[1].account = job["forgetter"].account
  BY DEF DbInv, ForgetInv
<1> QED BY <1>1, <1>2, <1>3, QuietStep

(* The forgetter begins anew, or takes the first row of the queue; the     *)
(* other jobs stay as they are.                                            *)
LEMMA ForgetterStep ==
  ASSUME DbInv, UNCHANGED <<backend, tb, write, gone, requested, caught, aged>>,
         NEW at \in {"next", "wait", "iterate"}, NEW account \in DbNames,
         job' = [job EXCEPT !["forgetter"] = [at |-> at, ids |-> {}, left |-> <<>>, account |-> account]],
         at = "iterate" => tb.forget # <<>> /\ tb.forget[1].account = account
  PROVE  DbInv'
<1> DEFINE new == [at |-> at, ids |-> {}, left |-> <<>>, account |-> account]
<1>1. new \in [at : {"rest", "next", "wait", "iterate", "delete"}, ids : SUBSET Items,
               left : DeletionSuffixes \cup {<<>>}, account : DbNames]
  OBVIOUS
<1>2. JobsType
  BY DEF DbInv, DbType
<1>3. new.at = at /\ new.account = account
  OBVIOUS
<1> HIDE DEF new
<1>4. JobsType' /\ job'["forgetter"] = new /\ \A j \in Jobs : j # "forgetter" => job'[j] = job[j]
  BY <1>1, <1>2 DEF JobsType, Jobs, new
<1>5. \A j \in Jobs : job'[j].at = "delete" => job'[j] = job[j]
  BY <1>3, <1>4
<1>6. job'["forgetter"].at \in {"iterate", "delete"} => tb.forget # <<>> /\ tb.forget[1].account = job'["forgetter"].account
  BY <1>3, <1>4
<1>7. aged' \in Nat /\ aged' >= aged /\ requested' \subseteq Items /\ caught' \subseteq Items
  BY DEF DbInv, DbType
<1> QED BY <1>4, <1>5, <1>6, <1>7, QuietStep

(* A statement of the schema; the forget routine starts after the last.    *)
LEMMA OpenStatementHolds == ASSUME DbInv, OpenStatement PROVE DbInv'
<1>1. UNCHANGED <<backend, tb, write, gone, aged, requested, caught>>
  BY DEF OpenStatement
<1>2. CASE UNCHANGED job
  <2>1. JobsType' /\ aged \in Nat /\ aged >= aged /\ requested \subseteq Items /\ caught \subseteq Items
    BY <1>2 DEF DbInv, DbType, JobsType
  <2>2. job["forgetter"].at \in {"iterate", "delete"} => tb.forget # <<>> /\ tb.forget[1].account = job["forgetter"].account
    BY DEF DbInv, ForgetInv
  <2> QED BY <1>1, <1>2, <2>1, <2>2, QuietStep
<1>3. CASE job' = [job EXCEPT !["forgetter"].at = "next"]
  <2>1. JobsType /\ "forgetter" \in Jobs
    BY DEF DbInv, DbType, Jobs
  <2>2. JobsType' /\ job'["forgetter"].at = "next" /\ \A j \in Jobs : j # "forgetter" => job'[j] = job[j]
    BY <1>3, <2>1 DEF JobsType
  <2>3. aged \in Nat /\ aged >= aged /\ requested \subseteq Items /\ caught \subseteq Items
    BY DEF DbInv, DbType
  <2>4. \A j \in Jobs : job'[j].at = "delete" => job'[j] = job[j]
    BY <2>2
  <2> QED BY <1>1, <2>2, <2>3, <2>4, QuietStep
<1> QED BY <1>2, <1>3 DEF OpenStatement

(* A rehash.                                                               *)
LEMMA SetConfigHolds == ASSUME DbInv, SetConfig PROVE DbInv'
<1>1. UNCHANGED <<backend, tb, write, gone, job, aged, requested, caught>>
  BY DEF SetConfig
<1>2. JobsType' /\ aged \in Nat /\ aged >= aged /\ requested \subseteq Items /\ caught \subseteq Items
  BY <1>1 DEF DbInv, DbType, JobsType
<1>3. job["forgetter"].at \in {"iterate", "delete"} => tb.forget # <<>> /\ tb.forget[1].account = job["forgetter"].account
  BY DEF DbInv, ForgetInv
<1> QED BY <1>1, <1>2, <1>3, QuietStep

(* An item gets too old to be kept.                                        *)
LEMMA AgesHolds == ASSUME DbInv, Ages PROVE DbInv'
<1>1. UNCHANGED <<backend, tb, write, gone, job, requested, caught>> /\ aged' = aged + 1
  BY DEF Ages
<1>2. JobsType' /\ aged' \in Nat /\ aged' >= aged /\ requested \subseteq Items /\ caught \subseteq Items
  BY <1>1 DEF DbInv, DbType, JobsType
<1>3. job["forgetter"].at \in {"iterate", "delete"} => tb.forget # <<>> /\ tb.forget[1].account = job["forgetter"].account
  BY DEF DbInv, ForgetInv
<1> QED BY <1>1, <1>2, <1>3, QuietStep

(* doForget takes the first row of the queue.                              *)
LEMMA TakeForgetHolds == ASSUME DbInv, TakeForget PROVE DbInv'
<1>1. UNCHANGED <<backend, tb, write, gone, requested, caught, aged>>
  BY DEF TakeForget
<1>2. PICK ok \in BOOLEAN :
        job' = [job EXCEPT !["forgetter"] =
                  IF ok /\ tb.forget # <<>> THEN [NoJob EXCEPT !.at = "iterate", !.account = tb.forget[1].account]
                  ELSE [NoJob EXCEPT !.at = "wait"]]
  BY DEF TakeForget
<1>3. CASE ok /\ tb.forget # <<>>
  <2>1. job' = [job EXCEPT !["forgetter"] = [at |-> "iterate", ids |-> {}, left |-> <<>>, account |-> tb.forget[1].account]]
    BY <1>2, <1>3, ForgetterStates
  <2>2. tb.forget[1].account \in DbNames
    <3>1. tb.forget \in Seq(ForgetRows)
      BY DEF DbInv, DbType, DbTables
    <3>2. tb.forget[1] \in ForgetRows
      BY <1>3, <3>1
    <3> QED BY <3>2 DEF ForgetRows
  <2> QED BY <1>1, <1>3, <2>1, <2>2, ForgetterStep
<1>4. CASE ~(ok /\ tb.forget # <<>>)
  <2>1. job' = [job EXCEPT !["forgetter"] = [at |-> "wait", ids |-> {}, left |-> <<>>, account |-> NoName]]
    BY <1>2, <1>4, ForgetterStates
  <2>2. NoName \in DbNames
    BY DEF DbNames
  <2> QED BY <1>1, <2>1, <2>2, ForgetterStep
<1> QED BY <1>3, <1>4

(* The forget routine is woken.                                            *)
LEMMA WokenHolds == ASSUME DbInv, Woken PROVE DbInv'
<1>1. UNCHANGED <<backend, tb, write, gone, requested, caught, aged>> /\ job' = [job EXCEPT !["forgetter"].at = "next"]
  BY DEF Woken
<1>2. JobsType /\ "forgetter" \in Jobs
  BY DEF DbInv, DbType, Jobs
<1>3. JobsType' /\ job'["forgetter"].at = "next" /\ \A j \in Jobs : j # "forgetter" => job'[j] = job[j]
  BY <1>1, <1>2 DEF JobsType
<1>4. aged \in Nat /\ aged >= aged /\ requested \subseteq Items /\ caught \subseteq Items
  BY DEF DbInv, DbType
<1>5. \A j \in Jobs : job'[j].at = "delete" => job'[j] = job[j]
  BY <1>3
<1> QED BY <1>1, <1>3, <1>4, <1>5, QuietStep

(* A deletion begins, of items that may be deleted and are not being       *)
(* written, or are caught.                                                 *)
LEMMA DeletingStep ==
  ASSUME DbInv, UNCHANGED <<backend, write, gone, aged>>, UNCHANGED tb \/ Trimmed(tb, tb'), NEW j \in Jobs, NEW ids \in SUBSET Items,
         NEW account \in DbNames,
         requested \subseteq requested', requested' \subseteq Items, caught \subseteq caught', caught' \subseteq Items,
         job' = [job EXCEPT ![j] = Deleting(ids, account)],
         \A i \in ids : /\ Begun(i) /\ (write[i].st = "busy" => i \in caught')
                        /\ i <= aged \/ i \in requested' \cup caught' \/ write[i].st \notin {"busy", "stored"},
         j = "forgetter" => tb.forget # <<>> /\ tb.forget[1].account = account
  PROVE  DbInv'
<1> DEFINE new == Deleting(ids, account)
<1>1. new = [at |-> "delete", ids |-> ids, left |-> My!DeletionOrder, account |-> account]
  BY SameDeletions DEF Deleting, DbInv, DbType
<1>2. JobsType /\ aged \in Nat
  BY DEF DbInv, DbType
<1> HIDE DEF new
<1>3. new.at = "delete" /\ new.ids = ids /\ new.left = My!DeletionOrder /\ new.account = account
  BY <1>1
<1>4. My!DeletionOrder = <<"conversations", "sequence", "account_messages", "history">>
  BY DEF My!DeletionOrder
<1>5. My!DeletionOrder \in DeletionSuffixes /\ Len(My!DeletionOrder) = 4
  BY <1>4 DEF DeletionSuffixes
<1>6. new \in [at : {"rest", "next", "wait", "iterate", "delete"}, ids : SUBSET Items,
               left : DeletionSuffixes \cup {<<>>}, account : DbNames]
  BY <1>1, <1>5
<1>7. JobsType' /\ job'[j] = new /\ \A k \in Jobs : k # j => job'[k] = job[k]
  BY <1>2, <1>6 DEF JobsType, new
<1>8. JobOk(j)'
  <2>1. job'[j].left = My!DeletionOrder /\ job'[j].ids = ids
    BY <1>3, <1>7
  <2>2. ASSUME NEW i \in ids PROVE Begun(i)' /\ ~Kept(i)' /\ (write'[i].st = "busy" => i \in caught')
    <3>1. i \in Nat
      BY PersistentHistoryAssumption
    <3>2. Begun(i)'
      BY DEF Begun, Unwritten
    <3>3. ~Kept(i)'
      BY <1>2, <3>1 DEF Kept
    <3> QED BY <3>2, <3>3
  <2>3. job'[j].left \in DeletionSuffixes /\ ~(Len(job'[j].left) < 3)
    <3> DEFINE l == job'[j].left
    <3>1. l = My!DeletionOrder
      BY <2>1
    <3> HIDE DEF l
    <3>2. l \in DeletionSuffixes /\ Len(l) = 4
      BY <1>5, <3>1
    <3>3. ~(Len(l) < 3)
      BY <3>2
    <3> QED BY Zenon, <3>2, <3>3 DEF l
  <2> QED BY <2>1, <2>2, <2>3 DEF JobOk
<1>9. \A k \in Jobs : job'[k].at = "delete" => job'[k] = job[k] \/ JobOk(k)'
  BY <1>7, <1>8
<1>10. job'["forgetter"].at \in {"iterate", "delete"} => tb.forget # <<>> /\ tb.forget[1].account = job'["forgetter"].account
  <2>1. CASE j = "forgetter"
    BY <1>3, <1>7, <2>1
  <2>2. CASE j # "forgetter"
    BY <1>7, <2>2 DEF DbInv, ForgetInv, Jobs
  <2> QED BY <2>1, <2>2
<1>11. aged' \in Nat /\ aged' >= aged
  BY <1>2
<1> QED BY <1>7, <1>9, <1>10, <1>11, QuietStep

(* DeleteMsgid: the item is asked for, and caught if it is being written.  *)
LEMMA DeleteMsgidHolds == ASSUME DbInv, NEW i \in Items, DeleteMsgid(i) PROVE DbInv'
<1>1. /\ UNCHANGED <<backend, tb, write, gone, aged>>
      /\ job' = [job EXCEPT !["redactor"] = Deleting({i}, NoName)]
      /\ requested' = requested \cup {i} /\ caught' = caught \cup ({i} \cap {k \in Items : write[k].st = "busy"})
      /\ TimeOfMsgid(tb, i) # 0
  BY DEF DeleteMsgid
<1>2. backend \in Backends /\ requested \subseteq Items /\ caught \subseteq Items
  BY DEF DbInv, DbType
<1>3. Begun(i)
  <2>1. My!lookupMsgid(tb, i) # 0
    BY <1>1, <1>2, SameSelections
  <2>2. i \in tb.history
    BY <2>1, TimeFacts
  <2> QED BY <2>2 DEF DbInv, RowsInv
<1>4. "redactor" \in Jobs /\ NoName \in DbNames /\ {i} \in SUBSET Items
  BY DEF Jobs, DbNames
<1>5. /\ requested \subseteq requested' /\ requested' \subseteq Items
      /\ caught \subseteq caught' /\ caught' \subseteq Items
  BY <1>1, <1>2
<1>6. \A k \in {i} : /\ Begun(k) /\ (write[k].st = "busy" => k \in caught')
                     /\ k <= aged \/ k \in requested' \cup caught' \/ write[k].st \notin {"busy", "stored"}
  BY <1>1, <1>3
<1> QED BY <1>1, <1>4, <1>5, <1>6, DeletingStep

(* An item that nothing lists is not kept, once it is stored.              *)
LEMMA KeptIsListed ==
  ASSUME DbInv, NEW i \in Items, Kept(i), write[i].st = "stored"
  PROVE  ~Unlisted(tb, i)
<1> DEFINE s == StoringSteps(i)
<1>1. s # <<>> /\ write[i].left = <<>>
  BY DEF DbInv, WriteInv
<1>2. PICK k \in DOMAIN s : s[k] \in {"sequence", "convFrom", "convTo"}
  BY <1>1, StepsFacts
<1>3. s[k] \in Range(s) \ Unwritten(i)
  BY <1>1 DEF Range, Unwritten
<1>4. Effect(tb, s[k], i)
  BY <1>3 DEF DbInv, PresentInv
<1>5. CASE s[k] = "sequence"
  BY <1>4, <1>5 DEF Effect, Unlisted
<1>6. CASE s[k] = "convFrom"
  <2>1. <<ItemTo[i].account, ItemTo[i].to, i>> \in tb.conversations /\ <<ItemTo[i].account, ItemTo[i].to, i>>[3] = i
    BY <1>4, <1>6 DEF Effect
  <2> QED BY <2>1 DEF Unlisted
<1>7. CASE s[k] = "convTo"
  <2>1. <<ItemTo[i].toAccount, ItemTo[i].from, i>> \in tb.conversations /\ <<ItemTo[i].toAccount, ItemTo[i].from, i>>[3] = i
    BY <1>4, <1>7 DEF Effect
  <2> QED BY <2>1 DEF Unlisted
<1> QED BY <1>2, <1>5, <1>6, <1>7

(* doCleanup: the items selected are old, or nothing lists them and they are caught.*)
LEMMA CleanupHolds == ASSUME DbInv, doCleanup PROVE DbInv'
<1> DEFINE ids == CleanupIDs(tb, aged + 1)
           listed == {i \in ids : TimeOfMsgid(tb, i) # 0}
           oldest == CHOOSE i \in listed : \A k \in listed : k <= i
<1>1. /\ UNCHANGED <<backend, write, gone, aged, requested>>
      /\ tb' = IF listed = {} THEN tb ELSE DropCorrespondents(tb, oldest)
      /\ job' = [job EXCEPT !["cleaner"] = Deleting(ids, NoName)]
      /\ caught' = caught \cup {i \in ids : write[i].st = "busy"}
  BY DEF doCleanup
<1>2. /\ backend \in Backends /\ tb \in DbTables /\ IsFiniteSet(tb.correspondents) /\ aged \in Nat
      /\ requested \subseteq Items /\ caught \subseteq Items
  BY DEF DbInv, DbType
<1>3. ids = My!selectCleanupIDs(tb, aged + 1) /\ DropCorrespondents(tb, oldest) = My!deleteCorrespondents(tb, oldest)
      /\ \A i : TimeOfMsgid(tb, i) = My!lookupMsgid(tb, i)
  BY <1>2, SameSelections
<1> HIDE DEF ids
<1>4. \A i \in ids : i \in tb.history /\ i \in Items /\ (i <= aged \/ Unlisted(tb, i))
  BY <1>2, <1>3, CleanupFacts
<1>5. \A i \in listed : i \in Items /\ i <= aged
  BY <1>3, <1>4, TimeFacts
<1> HIDE DEF listed
<1>6. ASSUME listed # {} PROVE oldest \in listed
  <2>1. IsFiniteSet(listed) /\ listed \subseteq Nat
    <3>1. IsFiniteSet(Items) /\ Items \subseteq Nat /\ listed \subseteq Items
      BY <1>5, PersistentHistoryAssumption
    <3> QED BY <3>1, FS_Subset
  <2>2. \E i \in listed : \A k \in listed : k <= i
    BY <1>6, <2>1, LastPage
  <2> QED BY <2>2
<1> HIDE DEF oldest
<1>7. UNCHANGED tb \/ Trimmed(tb, tb')
  <2>1. CASE listed = {}
    BY <1>1, <2>1
  <2>2. CASE listed # {}
    <3> DEFINE rows == {r \in tb.correspondents : r[3] > oldest}
    <3>1. tb' = [tb EXCEPT !.correspondents = rows]
      BY <1>1, <1>3, <2>2 DEF My!deleteCorrespondents
    <3>2. IsFiniteSet(rows) /\ rows \in SUBSET DbRows
      <4>1. rows \subseteq tb.correspondents
        OBVIOUS
      <4> HIDE DEF rows
      <4> QED BY <1>2, <4>1, FS_Subset DEF DbTables
    <3>3. \A c \in tb.correspondents : c[3] > aged => c \in rows
      <4>1. oldest \in Nat /\ oldest <= aged /\ \A c \in tb.correspondents : c[3] \in Nat
        BY <1>2, <1>5, <1>6, <2>2, PersistentHistoryAssumption DEF DbTables, DbRows
      <4> QED BY <1>2, <4>1
    <3> HIDE DEF rows
    <3> QED BY <1>2, <3>1, <3>2, <3>3 DEF Trimmed, DbTables
  <2> QED BY <2>1, <2>2
<1>8. \A i \in ids : /\ Begun(i) /\ (write[i].st = "busy" => i \in caught')
                     /\ i <= aged \/ i \in requested' \cup caught' \/ write[i].st \notin {"busy", "stored"}
  <2> SUFFICES ASSUME NEW i \in ids
               PROVE  /\ Begun(i) /\ (write[i].st = "busy" => i \in caught')
                      /\ i <= aged \/ i \in requested' \cup caught' \/ write[i].st \notin {"busy", "stored"}
    OBVIOUS
  <2>1. Begun(i) /\ (write[i].st = "busy" => i \in caught')
    BY <1>1, <1>4 DEF DbInv, RowsInv
  <2>2. ASSUME ~(i <= aged), i \notin requested' \cup caught', write[i].st \in {"busy", "stored"} PROVE FALSE
    <3>1. write[i].st = "stored" /\ i \notin requested \cup caught
      BY <1>1, <2>1, <2>2
    <3>2. i \in Items /\ i \in Nat /\ Unlisted(tb, i)
      BY <1>4, <2>2, PersistentHistoryAssumption
    <3>3. Kept(i)
      BY <1>2, <2>2, <3>1, <3>2 DEF Kept
    <3> QED BY <3>1, <3>2, <3>3, KeptIsListed
  <2> QED BY <2>1, <2>2
<1>9. ids \in SUBSET Items /\ "cleaner" \in Jobs /\ NoName \in DbNames
  BY <1>4 DEF Jobs, DbNames
<1>10. /\ requested \subseteq requested' /\ requested' \subseteq Items
       /\ caught \subseteq caught' /\ caught' \subseteq Items
  BY <1>1, <1>2, <1>4
<1> QED BY <1>1, <1>7, <1>8, <1>9, <1>10, DeletingStep

(* The queue of the forget routine changes, and what it reports is gone.   *)
LEMMA QueueStep ==
  ASSUME DbInv, UNCHANGED <<backend, write, aged, caught>>, NEW q \in Seq(ForgetRows), tb' = [tb EXCEPT !.forget = q],
         JobsType', requested \subseteq requested', requested' \subseteq Items, gone \subseteq gone', gone' \subseteq Items,
         \A j \in Jobs : job'[j].at = "delete" => job'[j] = job[j],
         \A i \in gone' \ gone : write[i].st = "stored" /\ Unlisted(tb, i),
         ForgetInv'
  PROVE  DbInv'
<1>1. tb \in DbTables /\ IsFiniteSet(tb.correspondents)
  BY DEF DbInv, DbType
<1>2. /\ tb' \in DbTables /\ tb'.history = tb.history /\ tb'.sequence = tb.sequence /\ tb'.conversations = tb.conversations
      /\ tb'.correspondents = tb.correspondents /\ tb'.account_messages = tb.account_messages
  BY <1>1 DEF DbTables
<1>3. DbType'
  BY <1>1, <1>2 DEF DbInv, DbType
<1>4. \A i \in Items : Begun(i)' = Begun(i) /\ Unwritten(i)' = Unwritten(i) /\ (Kept(i)' => Kept(i))
  BY DEF Begun, Unwritten, Kept
<1>5. \A i : Unlisted(tb, i)' = Unlisted(tb, i)
  BY <1>2 DEF Unlisted
<1>6. WriteInv' /\ RowsInv'
  <2>1. WriteInv'
    BY DEF DbInv, WriteInv
  <2>2. RowsInv'
    BY <1>1, <1>2, <1>4 DEF DbInv, RowsInv, DbTables
  <2> QED BY <2>1, <2>2
<1>7. GoneInv'
  <2> SUFFICES ASSUME NEW i \in gone'
               PROVE  Begun(i)' /\ (i \notin tb'.history \/ (write'[i].st = "stored" /\ Unlisted(tb, i)'))
    BY DEF GoneInv
  <2>1. CASE i \in gone
    BY <1>2, <1>4, <1>5, <2>1 DEF DbInv, GoneInv
  <2>2. CASE i \notin gone
    <3>1. write[i].st = "stored" /\ Unlisted(tb, i) /\ i \in Items
      BY <2>2
    <3>2. write[i].left = <<>>
      BY <3>1 DEF DbInv, WriteInv
    <3>3. Begun(i)
      BY <3>1, <3>2 DEF Begun, Unwritten, Range
    <3> QED BY <1>4, <1>5, <3>1, <3>3
  <2> QED BY <2>1, <2>2
<1>8. PresentInv'
  <2>1. \A s, i : Effect(tb, s, i) => Effect(tb', s, i)
    BY <1>2 DEF Effect
  <2> QED BY <1>4, <2>1 DEF DbInv, PresentInv
<1>9. JobInv'
  <2> SUFFICES ASSUME NEW j \in Jobs, job'[j].at = "delete" PROVE JobOk(j)'
    BY DEF JobInv
  <2>1. job'[j] = job[j]
    OBVIOUS
  <2>2. JobOk(j) /\ job[j].ids \subseteq Items
    BY <2>1 DEF DbInv, JobInv, DbType, JobsType
  <2> QED BY <1>2, <1>4, <2>1, <2>2 DEF JobOk
<1> QED BY <1>3, <1>6, <1>7, <1>8, <1>9 DEF DbInv

(* doForgetIteration: a batch of the account, or the end of its row of the queue.*)
LEMMA IterateHolds == ASSUME DbInv, IterateForget PROVE DbInv'
<1> DEFINE f == job["forgetter"]
<1>1. /\ f.at = "iterate" /\ UNCHANGED <<backend, write, aged, requested, caught>>
      /\ \/ \E ids \in ForgetBatches(tb, f.account) :
              /\ ids # {} /\ job' = [job EXCEPT !["forgetter"] = Deleting(ids, f.account)]
              /\ UNCHANGED <<tb, gone>>
         \/ /\ ForgetBatches(tb, f.account) = {{}}
            /\ job' = [job EXCEPT !["forgetter"] = [NoJob EXCEPT !.at = "next"]]
            /\ gone' = gone \cup (tb.forget[1].stored \ caught) /\ tb' = [tb EXCEPT !.forget = Tail(@)]
  BY DEF IterateForget
<1>2. /\ backend \in Backends /\ tb \in DbTables /\ requested \subseteq Items /\ caught \subseteq Items /\ gone \subseteq Items
      /\ JobsType
  BY DEF DbInv, DbType
<1>3. tb.forget # <<>> /\ tb.forget[1].account = f.account
  BY <1>1 DEF DbInv, ForgetInv
<1>4. "forgetter" \in Jobs /\ f.account \in DbNames /\ NoName \in DbNames
  BY <1>2 DEF JobsType, Jobs, DbNames
<1>5. ForgetBatches(tb, f.account) = My!doForgetIteration(tb, f.account)
  BY <1>2, SameSelections
<1> HIDE DEF f
<1>6. tb.forget \in Seq(ForgetRows) /\ 1 \in DOMAIN tb.forget
  BY <1>2, <1>3 DEF DbTables
<1>7. \A i \in Items : ItemTo[i].account = f.account => i \in requested
  BY <1>3, <1>6 DEF DbInv, ForgetInv
<1>8. ASSUME NEW ids \in ForgetBatches(tb, f.account),
             job' = [job EXCEPT !["forgetter"] = Deleting(ids, f.account)], UNCHANGED <<tb, gone>>
      PROVE  DbInv'
  <2>1. \A i \in ids : i \in tb.account_messages /\ ItemTo[i].account = f.account
    BY <1>2, <1>5, <1>8, BatchFacts
  <2>2. ids \in SUBSET Items
    BY <1>2, <2>1 DEF DbTables
  <2>3. \A i \in ids : /\ Begun(i) /\ (write[i].st = "busy" => i \in caught')
                       /\ i <= aged \/ i \in requested' \cup caught' \/ write[i].st \notin {"busy", "stored"}
    <3> SUFFICES ASSUME NEW i \in ids PROVE Begun(i) /\ write[i].st # "busy" /\ i \in requested
      BY <1>1
    <3>1. write[i].st \in {"stored", "failed"} /\ i \in Items
      BY <2>1, <2>2 DEF DbInv, RowsInv
    <3>2. write[i].left = <<>>
      BY <3>1 DEF DbInv, WriteInv
    <3>3. Begun(i)
      BY <3>1, <3>2 DEF Begun, Unwritten, Range
    <3> QED BY <1>7, <2>1, <3>1, <3>3
  <2>4. requested \subseteq requested' /\ requested' \subseteq Items /\ caught \subseteq caught' /\ caught' \subseteq Items
    BY <1>1, <1>2
  <2> QED BY <1>1, <1>3, <1>4, <1>8, <2>2, <2>3, <2>4, DeletingStep
<1>9. ASSUME ForgetBatches(tb, f.account) = {{}}, job' = [job EXCEPT !["forgetter"] = [NoJob EXCEPT !.at = "next"]],
             gone' = gone \cup (tb.forget[1].stored \ caught), tb' = [tb EXCEPT !.forget = Tail(@)]
      PROVE  DbInv'
  <2> DEFINE q == Tail(tb.forget)
  <2>1. \A i \in tb.account_messages : ItemTo[i].account # f.account
    BY <1>2, <1>5, <1>9, BatchFacts
  <2>2. q \in Seq(ForgetRows) /\ Len(q) = Len(tb.forget) - 1 /\ \A k \in DOMAIN q : k + 1 \in DOMAIN tb.forget /\ q[k] = tb.forget[k + 1]
    BY <1>3, <1>6
  <2>3. tb' = [tb EXCEPT !.forget = q]
    BY <1>9
  <2> HIDE DEF q
  <2>4. /\ tb'.forget = q /\ tb'.account_messages = tb.account_messages /\ tb'.sequence = tb.sequence
        /\ tb'.conversations = tb.conversations
    BY <1>2, <2>3 DEF DbTables
  <2>5. job'["forgetter"].at = "next" /\ \A j \in Jobs : j # "forgetter" => job'[j] = job[j]
    BY <1>2, <1>4, <1>9, ForgetterStates DEF JobsType
  <2>6. JobsType'
    <3> DEFINE new == [NoJob EXCEPT !.at = "next"]
    <3>1. new \in [at : {"rest", "next", "wait", "iterate", "delete"}, ids : SUBSET Items,
                   left : DeletionSuffixes \cup {<<>>}, account : DbNames]
      <4>1. new = [at |-> "next", ids |-> {}, left |-> <<>>, account |-> NoName]
        BY ForgetterStates
      <4> HIDE DEF new
      <4> QED BY <1>4, <4>1
    <3> HIDE DEF new
    <3> QED BY <1>2, <1>9, <3>1 DEF JobsType, new
  <2>7. \A i \in tb.forget[1].stored : i \in Items /\ write[i].st = "stored" /\ (i \in caught \/ Unlisted(tb, i))
    <3>1. tb.forget[1] \in ForgetRows
      BY <1>6
    <3> QED BY <1>3, <1>6, <2>1, <3>1 DEF DbInv, ForgetInv, ForgetRows
  <2>8. \A i : Unlisted(tb, i)' = Unlisted(tb, i)
    BY <2>4 DEF Unlisted
  <2>9. ForgetInv'
    <3>1. ASSUME NEW k \in DOMAIN q
          PROVE  /\ \A i \in Items : ItemTo[i].account = q[k].account => i \in requested'
                 /\ \A i \in q[k].stored : /\ ItemTo[i].account = q[k].account /\ write'[i].st = "stored"
                                           /\ i \in tb'.account_messages \/ i \in caught' \/ Unlisted(tb, i)'
      BY <1>1, <2>2, <2>4, <2>8 DEF DbInv, ForgetInv
    <3> QED BY <2>4, <2>5, <3>1 DEF ForgetInv
  <2>10. \A j \in Jobs : job'[j].at = "delete" => job'[j] = job[j]
    BY <2>5
  <2>11. /\ gone \subseteq gone' /\ gone' \subseteq Items /\ requested \subseteq requested' /\ requested' \subseteq Items
         /\ \A i \in gone' \ gone : write[i].st = "stored" /\ Unlisted(tb, i)
    BY <1>1, <1>2, <1>9, <2>7
  <2> QED BY <1>1, <2>2, <2>3, <2>6, <2>9, <2>10, <2>11, QueueStep
<1> QED BY <1>1, <1>8, <1>9

(* What a sequence is after Append.                                        *)
LEMMA Appended ==
  ASSUME NEW S, NEW s \in Seq(S), NEW e \in S
  PROVE  LET q == Append(s, e)
         IN /\ q \in Seq(S) /\ q # <<>> /\ \A k \in DOMAIN q : (k \in DOMAIN s /\ q[k] = s[k]) \/ q[k] = e
            /\ s # <<>> => q[1] = s[1]
<1> DEFINE q == Append(s, e)
<1>1. q \in Seq(S) /\ Len(q) = Len(s) + 1 /\ DOMAIN q = 1..(Len(s) + 1) /\ DOMAIN s = 1..Len(s) /\ Len(s) \in Nat
  OBVIOUS
<1>2. q[Len(s) + 1] = e /\ \A k \in 1..Len(s) : q[k] = s[k]
  OBVIOUS
<1> HIDE DEF q
<1>3. \A k \in DOMAIN q : (k \in DOMAIN s /\ q[k] = s[k]) \/ q[k] = e
  BY <1>1, <1>2
<1>4. s # <<>> => q[1] = s[1]
  BY <1>1, <1>2
<1> QED BY <1>1, <1>3, <1>4 DEF q

(* Forget: the account's items are asked for, and the stored ones are queued.*)
LEMMA ForgetHolds == ASSUME DbInv, NEW a \in TrackedAccounts, Forget(a) PROVE DbInv'
<1> DEFINE row == [account |-> a, stored |-> {i \in tb.account_messages : ItemTo[i].account = a /\ write[i].st = "stored"}]
           q == Append(tb.forget, row)
<1>1. /\ UNCHANGED <<backend, write, job, aged, gone, caught>>
      /\ tb' = [tb EXCEPT !.forget = q]
      /\ requested' = requested \cup {i \in Items : ItemTo[i].account = a}
  BY DEF Forget
<1>2. /\ backend \in Backends /\ tb \in DbTables /\ requested \subseteq Items /\ gone \subseteq Items /\ JobsType
  BY DEF DbInv, DbType
<1>3. row \in ForgetRows
  <2>1. a \in DbNames
    BY DEF TrackedAccounts, DbNames
  <2> QED BY <1>2, <2>1 DEF ForgetRows, DbTables
<1>4. row.account = a /\ row.stored = {i \in tb.account_messages : ItemTo[i].account = a /\ write[i].st = "stored"}
  OBVIOUS
<1> HIDE DEF row
<1>5. tb.forget \in Seq(ForgetRows)
  BY <1>2 DEF DbTables
<1>6. /\ q \in Seq(ForgetRows) /\ q # <<>> /\ \A k \in DOMAIN q : (k \in DOMAIN tb.forget /\ q[k] = tb.forget[k]) \/ q[k] = row
      /\ tb.forget # <<>> => q[1] = tb.forget[1]
  BY <1>3, <1>5, Appended
<1> HIDE DEF q
<1>7. /\ tb'.forget = q /\ tb'.account_messages = tb.account_messages /\ tb'.sequence = tb.sequence
      /\ tb'.conversations = tb.conversations
  BY <1>1, <1>2 DEF DbTables
<1>8. \A i : Unlisted(tb, i)' = Unlisted(tb, i)
  BY <1>7 DEF Unlisted
<1>9. ForgetInv'
  <2>1. ASSUME NEW k \in DOMAIN q
        PROVE  /\ \A i \in Items : ItemTo[i].account = q[k].account => i \in requested'
               /\ \A i \in q[k].stored : /\ ItemTo[i].account = q[k].account /\ write'[i].st = "stored"
                                         /\ i \in tb'.account_messages \/ i \in caught' \/ Unlisted(tb, i)'
    <3>1. CASE k \in DOMAIN tb.forget /\ q[k] = tb.forget[k]
      BY <1>1, <1>7, <1>8, <3>1 DEF DbInv, ForgetInv
    <3>2. CASE q[k] = row
      BY <1>1, <1>4, <1>7, <3>2
    <3> QED BY <1>6, <3>1, <3>2
  <2>2. job'["forgetter"].at \in {"iterate", "delete"} => q # <<>> /\ q[1].account = job'["forgetter"].account
    BY <1>1, <1>6 DEF DbInv, ForgetInv
  <2> QED BY <1>7, <2>1, <2>2 DEF ForgetInv
<1>10. JobsType' /\ gone' \subseteq Items /\ requested \subseteq requested' /\ requested' \subseteq Items
  BY <1>1, <1>2 DEF JobsType
<1> QED BY <1>1, <1>6, <1>9, <1>10, QueueStep

(* The rows of the queue hold items.                                       *)
LEMMA QueueType == ASSUME DbInv PROVE \A k \in DOMAIN tb.forget : tb.forget[k].stored \subseteq Items
<1>1. tb.forget \in Seq(ForgetRows)
  BY DEF DbInv, DbType, DbTables
<1>2. ASSUME NEW k \in DOMAIN tb.forget PROVE tb.forget[k].stored \subseteq Items
  <2>1. tb.forget[k] \in ForgetRows
    BY <1>1
  <2> QED BY <2>1 DEF ForgetRows
<1> QED BY <1>2

(* A crash: what was being written has failed, the deletions are forgotten.*)
LEMMA HistoryCrashHolds == ASSUME DbInv, HistoryCrash PROVE DbInv'
<1>1. /\ UNCHANGED <<backend, tb, aged, requested, gone, caught>> /\ job' = [j \in Jobs |-> NoJob]
      /\ write' = [i \in Items |-> IF write[i].st = "busy" THEN [st |-> "failed", left |-> <<>>] ELSE write[i]]
  BY DEF HistoryCrash
<1>2. DbType /\ write \in [Items -> [st : {"new", "busy", "stored", "failed"}, left : Seq(Statements)]]
  BY DEF DbInv, DbType
<1>3. \A i \in Items : /\ write[i].st = "busy" => write'[i].st = "failed" /\ write'[i].left = <<>>
                       /\ write[i].st # "busy" => write'[i] = write[i]
  BY <1>1
<1>4. DbType'
  <2>1. NoJob \in [at : {"rest", "next", "wait", "iterate", "delete"}, ids : SUBSET Items,
                   left : DeletionSuffixes \cup {<<>>}, account : DbNames]
    BY DEF NoJob, DbNames
  <2>2. JobsType'
    BY <1>1, <2>1 DEF JobsType
  <2>3. <<>> \in Seq(Statements)
    OBVIOUS
  <2>4. write' \in [Items -> [st : {"new", "busy", "stored", "failed"}, left : Seq(Statements)]]
    BY <1>1, <1>2, <2>3
  <2> QED BY <1>1, <1>2, <2>2, <2>4 DEF DbType
<1>5. \A i \in Items : Begun(i) => Begun(i)'
  BY <1>3 DEF Begun, Unwritten, Range
<1>6. WriteInv'
  <2> SUFFICES ASSUME NEW i \in Items
               PROVE LET left == write'[i].left
                     IN /\ write'[i].st # "busy" => left = <<>>
                        /\ write'[i].st = "busy" => left # <<>> /\ left[Len(left)] = "account"
                        /\ Range(left) \subseteq Range(StoringSteps(i))
                        /\ \A k \in DOMAIN left : /\ k > 1 => left[k] # "base"
                                                  /\ left[k] = "account" => k = Len(left)
                        /\ write'[i].st = "stored" => StoringSteps(i) # <<>>
    BY DEF WriteInv
  <2>1. CASE write[i].st = "busy"
    <3>1. DOMAIN write'[i].left = {} /\ Range(write'[i].left) = {}
      BY <1>3, <2>1 DEF Range
    <3> QED BY <1>3, <2>1, <3>1
  <2>2. CASE write[i].st # "busy"
    BY <1>3, <2>2 DEF DbInv, WriteInv
  <2> QED BY <2>1, <2>2
<1>7. RowsInv'
  <2>1. \A i \in tb.history : i \in Items
    BY <1>2 DEF DbType, DbTables
  <2>2. \A i \in tb.account_messages : i \in Items
    BY <1>2 DEF DbType, DbTables
  <2> QED BY <1>1, <1>3, <1>5, <2>1, <2>2 DEF DbInv, RowsInv
<1>8. PresentInv'
  <2> SUFFICES ASSUME NEW i \in Items, Kept(i)'
               PROVE  \A s \in Range(StoringSteps(i)) \ Unwritten(i)' : Effect(tb, s, i)
    BY <1>1 DEF PresentInv
  <2>1. Kept(i) /\ write'[i] = write[i]
    BY <1>1, <1>3 DEF Kept
  <2> QED BY <2>1 DEF DbInv, PresentInv, Unwritten
<1>9. JobInv'
  BY <1>1 DEF JobInv, NoJob
<1>10. \A i : Unlisted(tb, i)' = Unlisted(tb, i)
  BY <1>1 DEF Unlisted
<1>11. \A i \in Items : write[i].st = "stored" => write'[i].st = "stored"
  BY <1>3
<1>12. ForgetInv'
  <2>1. job'["forgetter"].at = "rest"
    BY <1>1 DEF Jobs, NoJob
  <2>2. \A k \in DOMAIN tb.forget : tb.forget[k].stored \subseteq Items
    BY QueueType
  <2>3. ASSUME NEW k \in DOMAIN tb.forget
        PROVE  /\ \A i \in Items : ItemTo[i].account = tb.forget[k].account => i \in requested
               /\ \A i \in tb.forget[k].stored :
                    /\ ItemTo[i].account = tb.forget[k].account /\ write'[i].st = "stored"
                    /\ i \in tb.account_messages \/ i \in caught \/ Unlisted(tb, i)
    BY <1>11, <2>2 DEF DbInv, ForgetInv
  <2> QED BY <1>1, <1>10, <2>1, <2>3 DEF ForgetInv
<1>13. GoneInv'
  <2>1. gone \subseteq Items
    BY <1>2 DEF DbType
  <2> QED BY <1>1, <1>5, <1>10, <1>11, <2>1 DEF DbInv, GoneInv
<1> QED BY <1>4, <1>6, <1>7, <1>8, <1>9, <1>12, <1>13 DEF DbInv

(* AddChannelItem and AddDirectMessage begin with all of their statements to run.*)
LEMMA StoreHolds == ASSUME DbInv, NEW i \in Items, Store(i) PROVE DbInv'
<1> DEFINE steps == StoringSteps(i)
           new == [st |-> IF steps = <<>> THEN "failed" ELSE "busy", left |-> steps]
<1>1. DbType /\ backend \in Backends
  BY DEF DbInv, DbType
<1>2. AddItem(i) = steps
  BY <1>1, SameStatements
<1>3. /\ UNCHANGED <<backend, tb, job, aged, requested, gone, caught>> /\ write[i].st = "new"
      /\ write' = [write EXCEPT ![i] = new]
  BY <1>2 DEF Store
<1>4. new.st = (IF steps = <<>> THEN "failed" ELSE "busy") /\ new.left = steps
  OBVIOUS
<1>5. /\ steps \in Seq(Statements)
      /\ steps # <<>> => steps[1] = "base" /\ steps[Len(steps)] = "account"
      /\ \A k \in DOMAIN steps : (k > 1 => steps[k] # "base") /\ (steps[k] = "account" => k = Len(steps))
  BY StepsFacts
<1> HIDE DEF new
<1>6. new \in [st : {"new", "busy", "stored", "failed"}, left : Seq(Statements)]
  BY <1>5 DEF new
<1>7. write \in [Items -> [st : {"new", "busy", "stored", "failed"}, left : Seq(Statements)]]
  BY <1>1 DEF DbType
<1>8. write'[i] = new /\ \A k \in Items : k # i => write'[k] = write[k]
  BY <1>3, <1>7
<1>9. DbType'
  <2>1. write' \in [Items -> [st : {"new", "busy", "stored", "failed"}, left : Seq(Statements)]]
    BY <1>3, <1>6, <1>7
  <2> QED BY <1>1, <1>3, <2>1 DEF DbType, JobsType
<1>10. ~Begun(i) /\ i \notin tb.history /\ i \notin tb.account_messages /\ i \notin gone
  BY <1>3 DEF Begun, DbInv, RowsInv, GoneInv
<1>11. \A k \in Items : k # i => Begun(k)' = Begun(k) /\ Unwritten(k)' = Unwritten(k) /\ Kept(k)' = Kept(k)
  BY <1>3, <1>8 DEF Begun, Unwritten, Kept
<1>12. WriteInv'
  <2> SUFFICES ASSUME NEW k \in Items
               PROVE LET left == write'[k].left
                     IN /\ write'[k].st # "busy" => left = <<>>
                        /\ write'[k].st = "busy" => left # <<>> /\ left[Len(left)] = "account"
                        /\ Range(left) \subseteq Range(StoringSteps(k))
                        /\ \A n \in DOMAIN left : /\ n > 1 => left[n] # "base"
                                                  /\ left[n] = "account" => n = Len(left)
                        /\ write'[k].st = "stored" => StoringSteps(k) # <<>>
    BY DEF WriteInv
  <2>1. CASE k = i
    <3> HIDE DEF steps
    <3> QED BY <1>4, <1>5, <1>8, <2>1 DEF steps
  <2>2. CASE k # i
    BY <1>8, <2>2 DEF DbInv, WriteInv
  <2> QED BY <2>1, <2>2
<1>13. RowsInv'
  BY <1>1, <1>3, <1>8, <1>10, <1>11 DEF DbInv, RowsInv, DbType, DbTables
<1>14. PresentInv'
  <2> SUFFICES ASSUME NEW k \in Items, Kept(k)'
               PROVE  \A s \in Range(StoringSteps(k)) \ Unwritten(k)' : Effect(tb, s, k)
    BY <1>3 DEF PresentInv
  <2>1. CASE k = i
    <3>1. Unwritten(k)' = Range(StoringSteps(k))
      BY <1>4, <1>8, <2>1 DEF Unwritten
    <3> QED BY <3>1
  <2>2. CASE k # i
    BY <1>11, <2>2 DEF DbInv, PresentInv
  <2> QED BY <2>1, <2>2
<1>15. \A k : Unlisted(tb, k)' = Unlisted(tb, k)
  BY <1>3 DEF Unlisted
<1>16. JobInv'
  <2> SUFFICES ASSUME NEW j \in Jobs, job'[j].at = "delete" PROVE JobOk(j)'
    BY DEF JobInv
  <2>1. JobOk(j) /\ job[j].ids \subseteq Items /\ i \notin job[j].ids
    BY <1>1, <1>3, <1>10 DEF DbInv, JobInv, JobOk, DbType, JobsType
  <2> QED BY <1>3, <1>8, <1>11, <2>1 DEF JobOk
<1>17. \A k \in Items : write[k].st = "stored" => write'[k].st = "stored"
  BY <1>3, <1>8
<1>18. ForgetInv'
  <2>1. \A k \in DOMAIN tb.forget : tb.forget[k].stored \subseteq Items
    BY QueueType
  <2>2. ASSUME NEW k \in DOMAIN tb.forget
        PROVE  /\ \A n \in Items : ItemTo[n].account = tb.forget[k].account => n \in requested
               /\ \A n \in tb.forget[k].stored :
                    /\ ItemTo[n].account = tb.forget[k].account /\ write'[n].st = "stored"
                    /\ n \in tb.account_messages \/ n \in caught \/ Unlisted(tb, n)
    BY <1>17, <2>1 DEF DbInv, ForgetInv
  <2>3. job["forgetter"].at \in {"iterate", "delete"} => tb.forget # <<>> /\ tb.forget[1].account = job["forgetter"].account
    BY DEF DbInv, ForgetInv
  <2> QED BY <1>3, <1>15, <2>2, <2>3 DEF ForgetInv
<1>19. GoneInv'
  <2>1. gone \subseteq Items
    BY <1>1 DEF DbType
  <2> QED BY <1>3, <1>10, <1>11, <1>15, <1>17, <2>1 DEF DbInv, GoneInv
<1> QED BY <1>9, <1>12, <1>13, <1>14, <1>16, <1>18, <1>19 DEF DbInv

(* What is left of a sequence after its first element.                     *)
LEMMA TailOf ==
  ASSUME NEW S, NEW s \in Seq(S), s # <<>>
  PROVE  /\ Head(s) = s[1] /\ s[1] \in S /\ Len(s) \in Nat /\ Len(s) >= 1 /\ DOMAIN s = 1..Len(s)
         /\ Tail(s) \in Seq(S) /\ Len(Tail(s)) = Len(s) - 1 /\ DOMAIN Tail(s) = 1..(Len(s) - 1)
         /\ \A k \in 1..(Len(s) - 1) : Tail(s)[k] = s[k + 1]
         /\ Range(s) = {s[1]} \cup Range(Tail(s)) /\ (Len(s) = 1 => Tail(s) = <<>>)
<1>1. /\ Head(s) = s[1] /\ s[1] \in S /\ Len(s) \in Nat /\ Len(s) >= 1 /\ DOMAIN s = 1..Len(s)
      /\ Tail(s) \in Seq(S) /\ Len(Tail(s)) = Len(s) - 1 /\ DOMAIN Tail(s) = 1..(Len(s) - 1)
      /\ \A k \in 1..(Len(s) - 1) : Tail(s)[k] = s[k + 1]
  OBVIOUS
<1> DEFINE t == Tail(s)
<1>4. Len(s) = 1 => t = <<>>
  BY <1>1
<1> HIDE DEF t
<1>2. Range(s) \subseteq {s[1]} \cup Range(t)
  <2> SUFFICES ASSUME NEW k \in 1..Len(s), k # 1 PROVE s[k] \in Range(t)
    BY <1>1 DEF Range
  <2>1. k - 1 \in 1..(Len(s) - 1) /\ t[k - 1] = s[k]
    BY <1>1 DEF t
  <2> QED BY <1>1, <2>1 DEF Range, t
<1>3. {s[1]} \cup Range(t) \subseteq Range(s)
  <2>1. s[1] \in Range(s)
    BY <1>1 DEF Range
  <2>2. \A k \in 1..(Len(s) - 1) : k + 1 \in 1..Len(s) /\ t[k] = s[k + 1]
    BY <1>1 DEF t
  <2>3. DOMAIN t = 1..(Len(s) - 1)
    BY <1>1 DEF t
  <2> QED BY <1>1, <2>1, <2>2, <2>3 DEF Range
<1> QED BY <1>1, <1>2, <1>3, <1>4 DEF t

(* What a statement of item i leaves alone.                                *)
LEMMA OthersKeep ==
  ASSUME tb \in DbTables, NEW i \in Items, NEW s, tb' = tb \/ StatementDone(tb, tb', s, i)
  PROVE  /\ \A k : k # i => /\ k \in tb'.history <=> k \in tb.history
                            /\ Unlisted(tb, k) => Unlisted(tb', k)
         /\ \A c : \A k \in Items : Effect(tb, c, k) => Effect(tb', c, k)
<1>1. /\ tb' \in DbTables /\ tb.history \subseteq tb'.history /\ tb'.history \subseteq tb.history \cup {i}
      /\ tb.sequence \subseteq tb'.sequence /\ tb'.sequence \subseteq tb.sequence \cup {i}
      /\ tb.conversations \subseteq tb'.conversations /\ \A r \in tb'.conversations \ tb.conversations : r[3] = i
      /\ \A c \in tb.correspondents : Listed(tb'.correspondents, c[1], c[2], c[3])
  <2>1. CASE tb' = tb
    <3>1. \A c \in tb.correspondents : Listed(tb.correspondents, c[1], c[2], c[3])
      BY ListedSelf DEF DbTables
    <3> QED BY <2>1, <3>1
  <2>2. CASE StatementDone(tb, tb', s, i)
    BY <2>2 DEF StatementDone
  <2> QED BY <2>1, <2>2
<1>2. \A a, b, k : k \in Items /\ Listed(tb.correspondents, a, b, k) => Listed(tb'.correspondents, a, b, k)
  <2> SUFFICES ASSUME NEW a, NEW b, NEW k \in Items, NEW c \in tb.correspondents, c[1] = a, c[2] = b, c[3] >= k
               PROVE  Listed(tb'.correspondents, a, b, k)
    BY DEF Listed
  <2>1. PICK d \in tb'.correspondents : d[1] = a /\ d[2] = b /\ d[3] >= c[3]
    BY <1>1 DEF Listed
  <2>2. c[3] \in Nat /\ d[3] \in Nat /\ k \in Nat
    BY <1>1, PersistentHistoryAssumption DEF DbTables, DbRows
  <2>3. d[3] >= k
    BY <2>1, <2>2
  <2> QED BY <2>1, <2>3 DEF Listed
<1>3. ASSUME NEW k, k # i PROVE (k \in tb'.history <=> k \in tb.history) /\ (Unlisted(tb, k) => Unlisted(tb', k))
  BY <1>1, <1>3 DEF Unlisted
<1>4. ASSUME NEW c, NEW k \in Items, Effect(tb, c, k) PROVE Effect(tb', c, k)
  BY <1>1, <1>2, <1>4 DEF Effect
<1> QED BY <1>3, <1>4

(* The next statement of an item.                                          *)
LEMMA StoreStatementHolds == ASSUME DbInv, NEW i \in Items, StoreStatement(i) PROVE DbInv'
<1> DEFINE left == write[i].left
           s == Head(left)
<1>1. DbType /\ backend \in Backends /\ tb \in DbTables /\ IsFiniteSet(tb.correspondents)
      /\ write \in [Items -> [st : {"new", "busy", "stored", "failed"}, left : Seq(Statements)]]
      /\ gone \subseteq Items
  BY DEF DbInv, DbType
<1>2. PICK ok \in BOOLEAN, effect \in BOOLEAN :
        /\ write[i].st = "busy" /\ (ok => effect)
        /\ tb' = IF effect THEN Exec(tb, s, i) ELSE tb
        /\ write' = [write EXCEPT ![i] =
                       IF ~ok THEN [st |-> "failed", left |-> <<>>]
                       ELSE [st |-> IF Len(@.left) = 1 THEN "stored" ELSE "busy", left |-> Tail(@.left)]]
  BY DEF StoreStatement
<1>3. UNCHANGED <<backend, job, aged, requested, gone, caught>>
  BY DEF StoreStatement
<1>4. /\ left # <<>> /\ left[Len(left)] = "account" /\ Range(left) \subseteq Range(StoringSteps(i))
      /\ \A k \in DOMAIN left : /\ k > 1 => left[k] # "base"
                                /\ left[k] = "account" => k = Len(left)
  BY <1>2 DEF DbInv, WriteInv
<1>5. left \in Seq(Statements)
  BY <1>1
<1>6. Exec(tb, s, i) = My!Exec(tb, s, i, tracking)
  BY <1>1, SameStatements
<1> HIDE DEF left, s
<1>7. /\ s = left[1] /\ s \in Statements /\ Len(left) \in Nat /\ Len(left) >= 1 /\ DOMAIN left = 1..Len(left)
      /\ Tail(left) \in Seq(Statements) /\ Len(Tail(left)) = Len(left) - 1 /\ DOMAIN Tail(left) = 1..(Len(left) - 1)
      /\ \A k \in 1..(Len(left) - 1) : Tail(left)[k] = left[k + 1]
      /\ Range(left) = {s} \cup Range(Tail(left)) /\ (Len(left) = 1 => Tail(left) = <<>>)
  BY <1>4, <1>5, TailOf DEF s
<1>8. StatementDone(tb, My!Exec(tb, s, i, tracking), s, i)
  BY <1>1, <1>7, ExecFacts
<1>9. (ok => StatementDone(tb, tb', s, i)) /\ (tb' = tb \/ StatementDone(tb, tb', s, i))
  BY <1>2, <1>6, <1>8
<1>10. /\ \A k \in Items : k # i => write'[k] = write[k]
       /\ ~ok => write'[i].st = "failed" /\ write'[i].left = <<>>
       /\ ok => write'[i].st = (IF Len(left) = 1 THEN "stored" ELSE "busy") /\ write'[i].left = Tail(left)
  BY <1>1, <1>2 DEF left
<1>11. DbType'
  <2>1. <<>> \in Seq(Statements)
    OBVIOUS
  <2>2. write' \in [Items -> [st : {"new", "busy", "stored", "failed"}, left : Seq(Statements)]]
    BY <1>1, <1>2, <1>7, <2>1 DEF left
  <2>3. tb' \in DbTables /\ IsFiniteSet(tb'.correspondents)
    BY <1>1, <1>9 DEF StatementDone
  <2> QED BY <1>1, <1>3, <2>2, <2>3 DEF DbType, JobsType
<1>12. "base" \notin Range(Tail(left)) /\ Range(<<>>) = {}
  <2>1. \A k \in 1..(Len(left) - 1) : Tail(left)[k] # "base"
    <3> SUFFICES ASSUME NEW k \in 1..(Len(left) - 1) PROVE left[k + 1] # "base"
      BY <1>7
    <3>1. k + 1 \in DOMAIN left /\ k + 1 > 1
      BY <1>7
    <3> QED BY <1>4, <3>1
  <2> QED BY <1>7, <2>1 DEF Range
<1>13. Begun(i)' /\ \A k \in Items : k # i => Begun(k)' = Begun(k) /\ Unwritten(k)' = Unwritten(k) /\ Kept(k)' = Kept(k)
  BY <1>3, <1>10, <1>12 DEF Begun, Unwritten, Kept
<1>14. Kept(i)' => ok /\ Kept(i)
  BY <1>2, <1>3, <1>10 DEF Kept
<1>15. /\ \A k : k # i => (k \in tb'.history <=> k \in tb.history) /\ (Unlisted(tb, k) => Unlisted(tb', k))
       /\ \A c : \A k \in Items : Effect(tb, c, k) => Effect(tb', c, k)
  BY <1>1, <1>9, OthersKeep
<1>16. WriteInv'
  <2> SUFFICES ASSUME NEW k \in Items
               PROVE LET new == write'[k].left
                     IN /\ write'[k].st # "busy" => new = <<>>
                        /\ write'[k].st = "busy" => new # <<>> /\ new[Len(new)] = "account"
                        /\ Range(new) \subseteq Range(StoringSteps(k))
                        /\ \A n \in DOMAIN new : /\ n > 1 => new[n] # "base"
                                                 /\ new[n] = "account" => n = Len(new)
                        /\ write'[k].st = "stored" => StoringSteps(k) # <<>>
    BY DEF WriteInv
  <2>1. CASE k # i
    BY <1>10, <2>1 DEF DbInv, WriteInv
  <2>2. CASE k = i /\ ~ok
    <3>1. DOMAIN write'[k].left = {} /\ Range(write'[k].left) = {}
      BY <1>10, <2>2 DEF Range
    <3> QED BY <1>10, <2>2, <3>1
  <2>3. CASE k = i /\ ok
    <3>1. Range(Tail(left)) \subseteq Range(StoringSteps(i)) /\ StoringSteps(i) # <<>>
      <4>1. s \in Range(StoringSteps(i))
        BY <1>4, <1>7
      <4> QED BY <1>4, <1>7, <1>12, <4>1
    <3>2. Len(left) = 1 => Tail(left) = <<>>
      BY <1>7
    <3>3. Len(left) # 1 => Tail(left) # <<>> /\ Tail(left)[Len(Tail(left))] = "account"
      <4> SUFFICES ASSUME Len(left) # 1 PROVE Tail(left) # <<>> /\ Tail(left)[Len(left) - 1] = "account"
        BY <1>7
      <4>1. Len(left) - 1 \in 1..(Len(left) - 1) /\ (Len(left) - 1) + 1 = Len(left)
        BY <1>7
      <4>2. Tail(left)[Len(left) - 1] = left[Len(left)]
        BY <1>7, <4>1
      <4>3. Tail(left)[Len(left) - 1] = "account"
        BY <1>4, <4>2
      <4>4. Tail(left) # <<>>
        <5>1. DOMAIN Tail(left) # {}
          BY <1>7, <4>1
        <5>2. DOMAIN <<>> = {}
          OBVIOUS
        <5> QED BY <5>1, <5>2
      <4> QED BY <4>3, <4>4
    <3>4. \A n \in DOMAIN Tail(left) : Tail(left)[n] # "base" /\ (Tail(left)[n] = "account" => n = Len(Tail(left)))
      <4> SUFFICES ASSUME NEW n \in 1..(Len(left) - 1)
                   PROVE  left[n + 1] # "base" /\ (left[n + 1] = "account" => n = Len(left) - 1)
        BY <1>7
      <4>1. n + 1 \in DOMAIN left /\ n + 1 > 1 /\ n \in Nat /\ Len(left) \in Nat
        BY <1>7
      <4>2. left[n + 1] # "base" /\ (left[n + 1] = "account" => n + 1 = Len(left))
        BY <1>4, <4>1
      <4>3. n + 1 = Len(left) => n = Len(left) - 1
        <5>1. \A l \in Nat : n + 1 = l => n = l - 1
          BY <4>1
        <5> QED BY <4>1, <5>1
      <4> QED BY <4>2, <4>3
    <3> QED BY <1>10, <2>3, <3>1, <3>2, <3>3, <3>4
  <2> QED BY <2>1, <2>2, <2>3
<1>17. RowsInv'
  <2>1. tb'.history \subseteq Items /\ tb'.account_messages \subseteq Items
    BY <1>11 DEF DbType, DbTables
  <2>2. \A k \in tb'.history : Begun(k)'
    BY <1>13, <1>15, <2>1 DEF DbInv, RowsInv
  <2>3. ASSUME NEW k \in tb'.account_messages PROVE write'[k].st \in {"stored", "failed"}
    <3>1. CASE k # i
      <4>1. k \in tb.account_messages
        BY <1>9, <2>3, <3>1 DEF StatementDone
      <4> QED BY <1>10, <2>1, <2>3, <3>1, <4>1 DEF DbInv, RowsInv
    <3>2. CASE k = i
      <4>1. i \notin tb.account_messages
        BY <1>2 DEF DbInv, RowsInv
      <4>2. s = "account"
        BY <1>9, <2>3, <3>2, <4>1 DEF StatementDone
      <4>3. Len(left) = 1
        <5>1. 1 \in DOMAIN left /\ left[1] = "account"
          BY <1>7, <4>2
        <5> QED BY <1>4, <5>1
      <4> QED BY <1>10, <3>2, <4>3
    <3> QED BY <3>1, <3>2
  <2> QED BY <2>2, <2>3 DEF RowsInv
<1>18. PresentInv'
  <2> SUFFICES ASSUME NEW k \in Items, Kept(k)', NEW c \in Range(StoringSteps(k)) \ Unwritten(k)'
               PROVE  Effect(tb', c, k)
    BY DEF PresentInv
  <2>1. CASE k # i
    BY <1>13, <1>15, <2>1 DEF DbInv, PresentInv
  <2>2. CASE k = i
    <3>1. ok /\ Kept(i)
      BY <1>14, <2>2
    <3>2. c \notin Range(Tail(left))
      BY <1>10, <2>2, <3>1 DEF Unwritten
    <3>3. CASE c = s
      BY <1>9, <2>2, <3>1, <3>3 DEF StatementDone
    <3>4. CASE c # s
      <4>1. c \notin Unwritten(i)
        BY <1>7, <3>2, <3>4 DEF Unwritten, left
      <4>2. Effect(tb, c, i)
        BY <2>2, <3>1, <4>1 DEF DbInv, PresentInv
      <4> QED BY <1>15, <2>2, <4>2
    <3> QED BY <3>3, <3>4
  <2> QED BY <2>1, <2>2
<1>19. JobInv'
  <2> SUFFICES ASSUME NEW j \in Jobs, job'[j].at = "delete" PROVE JobOk(j)'
    BY DEF JobInv
  <2>1. JobOk(j) /\ job'[j] = job[j] /\ job[j].ids \subseteq Items
    BY <1>1, <1>3 DEF DbInv, JobInv, DbType, JobsType
  <2>2. ASSUME NEW k \in job[j].ids
        PROVE  /\ Begun(k)' /\ ~Kept(k)' /\ (write'[k].st = "busy" => k \in caught')
               /\ write'[k].st = "stored" /\ k \notin caught' =>
                    /\ job[j].left # My!DeletionOrder => \A r \in tb'.conversations : r[3] # k
                    /\ Len(job[j].left) < 3 => k \notin tb'.sequence
    <3>1. CASE k = i
      <4>1. i \in caught /\ ~Kept(i)
        BY <1>2, <2>1, <2>2, <3>1 DEF JobOk
      <4> QED BY <1>3, <1>13, <1>14, <3>1, <4>1
    <3>2. CASE k # i
      <4>1. Begun(k)' /\ ~Kept(k)' /\ write'[k] = write[k] /\ (write[k].st = "busy" => k \in caught)
        BY <1>10, <1>13, <2>1, <2>2, <3>2 DEF JobOk
      <4>2. \A r \in tb'.conversations : r[3] = k => r \in tb.conversations
        BY <1>9, <3>2 DEF StatementDone
      <4>3. k \in tb'.sequence => k \in tb.sequence
        BY <1>9, <3>2 DEF StatementDone
      <4> QED BY <1>3, <2>1, <2>2, <4>1, <4>2, <4>3 DEF JobOk
    <3> QED BY <3>1, <3>2
  <2> QED BY <2>1, <2>2 DEF JobOk
<1>20. \A k \in Items : write[k].st = "stored" => k # i /\ write'[k].st = "stored"
  BY <1>2, <1>10
<1>21. ForgetInv'
  <2>1. tb'.forget = tb.forget /\ tb.account_messages \subseteq tb'.account_messages
    BY <1>9 DEF StatementDone
  <2>2. \A k \in DOMAIN tb.forget : tb.forget[k].stored \subseteq Items
    BY QueueType
  <2>3. ASSUME NEW k \in DOMAIN tb.forget
        PROVE  /\ \A n \in Items : ItemTo[n].account = tb.forget[k].account => n \in requested
               /\ \A n \in tb.forget[k].stored :
                    /\ ItemTo[n].account = tb.forget[k].account /\ write'[n].st = "stored"
                    /\ n \in tb'.account_messages \/ n \in caught \/ Unlisted(tb', n)
    BY <1>15, <1>20, <2>1, <2>2 DEF DbInv, ForgetInv
  <2>4. job["forgetter"].at \in {"iterate", "delete"} => tb.forget # <<>> /\ tb.forget[1].account = job["forgetter"].account
    BY DEF DbInv, ForgetInv
  <2>5. \A n : Unlisted(tb, n)' = Unlisted(tb', n)
    BY DEF Unlisted
  <2> QED BY <1>3, <2>1, <2>3, <2>4, <2>5 DEF ForgetInv
<1>22. GoneInv'
  <2>1. \A n : Unlisted(tb, n)' = Unlisted(tb', n)
    BY DEF Unlisted
  <2> SUFFICES ASSUME NEW n \in gone
               PROVE  Begun(n)' /\ (n \notin tb'.history \/ (write'[n].st = "stored" /\ Unlisted(tb', n)))
    BY <1>3, <2>1 DEF GoneInv
  <2>2. n \in Items /\ Begun(n) /\ (n \notin tb.history \/ (write[n].st = "stored" /\ Unlisted(tb, n)))
    BY <1>1 DEF DbInv, GoneInv
  <2>3. CASE n # i
    BY <1>13, <1>15, <1>20, <2>2, <2>3
  <2>4. CASE n = i
    <3>1. i \notin tb.history /\ s # "base"
      BY <1>2, <1>7, <2>2, <2>4 DEF Begun, Unwritten, left
    <3>2. i \notin tb'.history
      BY <1>9, <3>1 DEF StatementDone
    <3> QED BY <1>13, <2>4, <3>2
  <2> QED BY <2>3, <2>4
<1> QED BY <1>11, <1>16, <1>17, <1>18, <1>19, <1>21, <1>22 DEF DbInv

(* The statements that a deletion still has to run, and the next of them.  *)
LEMMA SuffixFacts ==
  ASSUME NEW left \in DeletionSuffixes
  PROVE  /\ Head(left) \in {"conversations", "sequence", "account_messages", "history"}
         /\ Len(left) > 1 => /\ Tail(left) \in DeletionSuffixes
                             /\ left # My!DeletionOrder \/ Head(left) = "conversations"
                             /\ Len(Tail(left)) < 3 => Len(left) < 3 \/ Head(left) = "sequence"
         /\ Len(left) \in Nat /\ (Len(left) > 1 \/ Len(left) = 1)
         /\ Len(left) = 1 => Head(left) = "history"
         /\ Head(left) = "account_messages" => left # My!DeletionOrder /\ Len(left) < 3
<1>1. CASE left = <<"conversations", "sequence", "account_messages", "history">>
  <2>1. /\ Head(left) = "conversations" /\ Len(left) = 4 /\ Len(Tail(left)) = 3
        /\ Tail(left) = <<"sequence", "account_messages", "history">>
    BY <1>1
  <2> QED BY <2>1 DEF DeletionSuffixes
<1>2. CASE left = <<"sequence", "account_messages", "history">>
  <2>1. /\ Head(left) = "sequence" /\ Len(left) = 3 /\ Len(Tail(left)) = 2
        /\ Tail(left) = <<"account_messages", "history">>
    BY <1>2
  <2>2. left # My!DeletionOrder
    BY <2>1 DEF My!DeletionOrder
  <2> QED BY <2>1, <2>2 DEF DeletionSuffixes
<1>3. CASE left = <<"account_messages", "history">>
  <2>1. /\ Head(left) = "account_messages" /\ Len(left) = 2 /\ Len(Tail(left)) = 1
        /\ Tail(left) = <<"history">>
    BY <1>3
  <2>2. left # My!DeletionOrder
    BY <2>1 DEF My!DeletionOrder
  <2> QED BY <2>1, <2>2 DEF DeletionSuffixes
<1>4. CASE left = <<"history">>
  <2>1. Head(left) = "history" /\ Len(left) = 1
    BY <1>4
  <2> QED BY <2>1
<1> QED BY <1>1, <1>2, <1>3, <1>4 DEF DeletionSuffixes

(* What a statement of a deletion leaves alone.                            *)
LEMMA RestKeeps ==
  ASSUME tb \in DbTables, NEW ids, NEW table, tb' = tb \/ DeletionDone(tb, tb', table, ids)
  PROVE  /\ tb'.history \subseteq tb.history /\ tb'.sequence \subseteq tb.sequence
         /\ tb'.conversations \subseteq tb.conversations /\ tb'.account_messages \subseteq tb.account_messages
         /\ tb'.forget = tb.forget
         /\ \A i : Unlisted(tb, i) => Unlisted(tb', i)
         /\ \A s : \A i \in Items : i \notin ids /\ Effect(tb, s, i) => Effect(tb', s, i)
<1>1. /\ tb'.history \subseteq tb.history /\ tb.history \ ids \subseteq tb'.history
      /\ tb'.sequence \subseteq tb.sequence /\ tb.sequence \ ids \subseteq tb'.sequence
      /\ tb'.conversations \subseteq tb.conversations /\ \A r \in tb.conversations : r[3] \notin ids => r \in tb'.conversations
      /\ tb'.account_messages \subseteq tb.account_messages /\ tb'.forget = tb.forget
      /\ tb'.correspondents = tb.correspondents
  BY DEF DeletionDone
<1>2. ASSUME NEW i, Unlisted(tb, i) PROVE Unlisted(tb', i)
  BY <1>1, <1>2 DEF Unlisted
<1>3. ASSUME NEW s, NEW i \in Items, i \notin ids, Effect(tb, s, i) PROVE Effect(tb', s, i)
  <2> DEFINE from == <<ItemTo[i].account, ItemTo[i].to, i>>
             to == <<ItemTo[i].toAccount, ItemTo[i].from, i>>
  <2>1. from[3] = i /\ to[3] = i
    OBVIOUS
  <2>2. (from \in tb.conversations => from \in tb'.conversations) /\ (to \in tb.conversations => to \in tb'.conversations)
    <3> HIDE DEF from, to
    <3> QED BY <1>1, <1>3, <2>1
  <2> QED BY <1>1, <1>3, <2>2 DEF Effect
<1> QED BY <1>1, <1>2, <1>3

(* The next statement of a deletion, and what the job does after it.       *)
LEMMA DeleteHolds ==
  ASSUME DbInv, NEW j \in Jobs, NEW then \in [at : {"rest", "iterate"}, ids : {{}}, left : {<<>>}, account : DbNames],
         then.at = "iterate" => j = "forgetter" /\ then.account = job[j].account, DeleteStatement(j, then)
  PROVE  DbInv'
<1> DEFINE left == job[j].left
           ids == job[j].ids
           h == Head(left)
           rest == [job[j] EXCEPT !.left = Tail(@)]
           fresh == IF j = "forgetter" THEN [NoJob EXCEPT !.at = "next"] ELSE NoJob
           Records == [at : {"rest", "next", "wait", "iterate", "delete"}, ids : SUBSET Items,
                       left : DeletionSuffixes \cup {<<>>}, account : DbNames]
<1>1. /\ DbType /\ backend \in Backends /\ tb \in DbTables /\ IsFiniteSet(tb.correspondents) /\ JobsType
      /\ gone \subseteq Items
  BY DEF DbInv, DbType
<1>2. job \in [Jobs -> Records] /\ job[j] \in Records /\ ids \subseteq Items
  BY <1>1 DEF JobsType
<1>3. PICK ok \in BOOLEAN, effect \in BOOLEAN :
        /\ job[j].at = "delete" /\ (ok => effect)
        /\ tb' = IF effect THEN DeleteFrom(tb, h, ids) ELSE tb
        /\ job' = [job EXCEPT ![j] = CASE ok /\ Len(left) > 1 -> rest [] ok /\ Len(left) = 1 -> then [] ~ok -> fresh]
        /\ gone' = IF ok /\ Len(left) = 1 /\ j = "redactor" THEN gone \cup ids ELSE gone
  BY DEF DeleteStatement
<1>4. UNCHANGED <<backend, write, aged, requested, caught>>
  BY DEF DeleteStatement
<1>5. JobOk(j)
  BY <1>3 DEF DbInv, JobInv
<1>6. left \in DeletionSuffixes
  BY <1>5 DEF JobOk
<1>7. /\ h \in {"conversations", "sequence", "account_messages", "history"}
      /\ Len(left) > 1 => /\ Tail(left) \in DeletionSuffixes
                          /\ left # My!DeletionOrder \/ h = "conversations"
                          /\ Len(Tail(left)) < 3 => Len(left) < 3 \/ h = "sequence"
      /\ Len(left) \in Nat /\ (Len(left) > 1 \/ Len(left) = 1)
      /\ Len(left) = 1 => h = "history"
      /\ h = "account_messages" => left # My!DeletionOrder /\ Len(left) < 3
  BY <1>6, SuffixFacts
<1>8. Len(left) > 1 \/ Len(left) = 1
  BY <1>7
<1>9. DeleteFrom(tb, h, ids) = My!deleteHistoryIDs(tb, h, ids, tracking)
  BY <1>1, SameDeletions
<1> HIDE DEF h
<1>10. DeletionDone(tb, My!deleteHistoryIDs(tb, h, ids, tracking), h, ids)
  BY <1>1, <1>7, DeletionFacts
<1>11. (ok => DeletionDone(tb, tb', h, ids)) /\ (tb' = tb \/ DeletionDone(tb, tb', h, ids))
  BY <1>3, <1>9, <1>10
<1>12. /\ Len(left) > 1 => rest \in Records /\ rest.left = Tail(left)
       /\ rest.at = "delete" /\ rest.ids = ids /\ rest.account = job[j].account
  BY <1>2, <1>3, <1>7
<1>13. fresh \in Records /\ fresh.at \in {"rest", "next"}
  <2>1. [NoJob EXCEPT !.at = "next"] = [at |-> "next", ids |-> {}, left |-> <<>>, account |-> NoName]
    BY ForgetterStates
  <2>2. NoName \in DbNames
    BY DEF DbNames
  <2>3. CASE j = "forgetter"
    BY <2>1, <2>2, <2>3
  <2>4. CASE j # "forgetter"
    BY <2>2, <2>4 DEF NoJob
  <2> QED BY <2>3, <2>4
<1> HIDE DEF rest, fresh, Records
<1>14. /\ \A k \in Jobs : k # j => job'[k] = job[k]
       /\ ok /\ Len(left) > 1 => job'[j] = rest
       /\ ok /\ Len(left) = 1 => job'[j] = then
       /\ ~ok => job'[j] = fresh
  <2> DEFINE new == CASE ok /\ Len(left) > 1 -> rest [] ok /\ Len(left) = 1 -> then [] ~ok -> fresh
  <2>1. job'[j] = new /\ \A k \in Jobs : k # j => job'[k] = job[k]
    <3> HIDE DEF new
    <3> QED BY <1>2, <1>3 DEF new
  <2>2. Len(left) > 1 => Len(left) # 1
    <3>1. \A n \in Nat : n > 1 => n # 1
      OBVIOUS
    <3> QED BY <1>7, <3>1
  <2> QED BY <1>8, <2>1, <2>2
<1>15. then \in Records
  BY DEF Records
<1>16. job' \in [Jobs -> Records]
  <2>1. job' = [k \in Jobs |-> job'[k]]
    <3> DEFINE new == CASE ok /\ Len(left) > 1 -> rest [] ok /\ Len(left) = 1 -> then [] ~ok -> fresh
    <3>1. job' = [job EXCEPT ![j] = new]
      BY <1>3
    <3> HIDE DEF new
    <3> QED BY <1>2, <3>1
  <2>2. \A k \in Jobs : job'[k] \in Records
    BY <1>2, <1>8, <1>12, <1>13, <1>14, <1>15
  <2> QED BY <2>1, <2>2
<1>17. DbType'
  <2>1. tb' \in DbTables /\ IsFiniteSet(tb'.correspondents)
    BY <1>1, <1>11 DEF DeletionDone
  <2>2. gone' \subseteq Items
    BY <1>1, <1>2, <1>3
  <2>3. JobsType'
    BY <1>16 DEF JobsType, Records
  <2> QED BY <1>1, <1>4, <2>1, <2>2, <2>3 DEF DbType
<1>18. /\ tb'.history \subseteq tb.history /\ tb'.sequence \subseteq tb.sequence
       /\ tb'.conversations \subseteq tb.conversations /\ tb'.account_messages \subseteq tb.account_messages
       /\ tb'.forget = tb.forget
       /\ \A i : Unlisted(tb, i) => Unlisted(tb', i)
       /\ \A s : \A i \in Items : i \notin ids /\ Effect(tb, s, i) => Effect(tb', s, i)
  BY <1>1, <1>11, RestKeeps
<1>19. \A i : Begun(i)' = Begun(i) /\ Unwritten(i)' = Unwritten(i) /\ Kept(i)' = Kept(i)
  BY <1>4 DEF Begun, Unwritten, Kept
<1>20. WriteInv' /\ RowsInv'
  <2>1. WriteInv'
    BY <1>4 DEF DbInv, WriteInv
  <2>2. RowsInv'
    BY <1>4, <1>18, <1>19 DEF DbInv, RowsInv
  <2> QED BY <2>1, <2>2
<1>21. \A i \in ids : /\ Begun(i) /\ ~Kept(i) /\ (write[i].st = "busy" => i \in caught)
                      /\ write[i].st = "stored" /\ i \notin caught =>
                           /\ left # My!DeletionOrder => \A r \in tb.conversations : r[3] # i
                           /\ Len(left) < 3 => i \notin tb.sequence
  BY <1>5 DEF JobOk
<1>22. PresentInv'
  <2> SUFFICES ASSUME NEW i \in Items, Kept(i), NEW s \in Range(StoringSteps(i)) \ Unwritten(i)
               PROVE  Effect(tb', s, i)
    BY <1>19 DEF PresentInv
  <2>1. i \notin ids /\ Effect(tb, s, i)
    BY <1>21 DEF DbInv, PresentInv
  <2> QED BY <1>18, <2>1
<1>23. JobInv'
  <2> SUFFICES ASSUME NEW k \in Jobs, job'[k].at = "delete" PROVE JobOk(k)'
    BY DEF JobInv
  <2>1. CASE k # j
    <3>1. job'[k] = job[k] /\ JobOk(k)
      BY <1>14, <2>1 DEF DbInv, JobInv
    <3> QED BY <1>4, <1>18, <1>19, <3>1 DEF JobOk
  <2>2. CASE k = j
    <3>1. ok /\ Len(left) > 1 /\ job'[j] = rest
      <4>1. then.at # "delete"
        OBVIOUS
      <4> QED BY <1>8, <1>13, <1>14, <2>2, <4>1
    <3>2. job'[j].left = Tail(left) /\ job'[j].ids = ids /\ Tail(left) \in DeletionSuffixes
      BY <1>7, <1>12, <3>1
    <3>3. DeletionDone(tb, tb', h, ids)
      BY <1>11, <3>1
    <3>4. ASSUME NEW i \in ids, write[i].st = "stored", i \notin caught
          PROVE  /\ \A r \in tb'.conversations : r[3] # i
                 /\ Len(Tail(left)) < 3 => i \notin tb'.sequence
      <4>1. CASE h = "conversations"
        <5>1. \A r \in tb'.conversations : r[3] # i
          BY <3>3, <3>4, <4>1 DEF DeletionDone
        <5>2. Len(Tail(left)) < 3 => i \notin tb.sequence
          BY <1>7, <1>21, <3>1, <3>4, <4>1
        <5> QED BY <1>18, <5>1, <5>2
      <4>2. CASE h # "conversations"
        <5>1. \A r \in tb'.conversations : r[3] # i
          BY <1>7, <1>18, <1>21, <3>1, <3>4, <4>2
        <5>2. h = "sequence" => i \notin tb'.sequence
          BY <3>3, <3>4 DEF DeletionDone
        <5>3. Len(Tail(left)) < 3 /\ h # "sequence" => i \notin tb.sequence
          BY <1>7, <1>21, <3>1, <3>4
        <5> QED BY <1>18, <5>1, <5>2, <5>3
      <4> QED BY <4>1, <4>2
    <3> QED BY <1>4, <1>19, <1>21, <2>2, <3>2, <3>4 DEF JobOk
  <2> QED BY <2>1, <2>2
<1>24. ForgetInv'
  <2>1. \A n : Unlisted(tb, n)' = Unlisted(tb', n)
    BY DEF Unlisted
  <2>2. ASSUME NEW n \in tb.account_messages \ tb'.account_messages, write[n].st = "stored"
        PROVE  n \in caught \/ Unlisted(tb', n)
    <3>1. DeletionDone(tb, tb', h, ids) /\ h = "account_messages"
      BY <1>11, <2>2 DEF DeletionDone
    <3>2. n \in ids
      BY <2>2, <3>1 DEF DeletionDone
    <3>3. left # My!DeletionOrder /\ Len(left) < 3
      BY <1>7, <3>1
    <3>4. n \in caught \/ Unlisted(tb, n)
      BY <1>21, <2>2, <3>2, <3>3 DEF Unlisted
    <3> QED BY <1>18, <3>4
  <2>3. ASSUME NEW k \in DOMAIN tb.forget
        PROVE  /\ \A n \in Items : ItemTo[n].account = tb.forget[k].account => n \in requested
               /\ \A n \in tb.forget[k].stored :
                    /\ ItemTo[n].account = tb.forget[k].account /\ write[n].st = "stored"
                    /\ n \in tb'.account_messages \/ n \in caught \/ Unlisted(tb', n)
    BY <1>18, <2>2 DEF DbInv, ForgetInv
  <2>4. job["forgetter"].at \in {"iterate", "delete"} => tb.forget # <<>> /\ tb.forget[1].account = job["forgetter"].account
    BY DEF DbInv, ForgetInv
  <2>5. job'["forgetter"].at \in {"iterate", "delete"} => tb.forget # <<>> /\ tb.forget[1].account = job'["forgetter"].account
    <3>1. CASE j # "forgetter"
      BY <1>14, <2>4, <3>1 DEF Jobs
    <3>2. CASE j = "forgetter"
      <4>1. tb.forget # <<>> /\ tb.forget[1].account = job[j].account
        BY <1>3, <2>4, <3>2
      <4>2. job'[j].at \in {"iterate", "delete"} => job'[j].account = job[j].account
        BY <1>8, <1>12, <1>13, <1>14
      <4> QED BY <3>2, <4>1, <4>2
    <3> QED BY <3>1, <3>2
  <2> QED BY <1>4, <1>18, <2>1, <2>3, <2>5 DEF ForgetInv
<1>25. GoneInv'
  <2>1. \A n : Unlisted(tb, n)' = Unlisted(tb', n)
    BY DEF Unlisted
  <2> SUFFICES ASSUME NEW n \in gone'
               PROVE  Begun(n) /\ (n \notin tb'.history \/ (write[n].st = "stored" /\ Unlisted(tb', n)))
    BY <1>4, <1>19, <2>1 DEF GoneInv
  <2>2. CASE n \in gone
    BY <1>18, <2>2 DEF DbInv, GoneInv
  <2>3. CASE n \notin gone
    <3>1. ok /\ Len(left) = 1 /\ n \in ids
      BY <1>3, <2>3
    <3>2. DeletionDone(tb, tb', h, ids) /\ h = "history"
      BY <1>7, <1>11, <3>1
    <3>3. n \notin tb'.history
      BY <3>1, <3>2 DEF DeletionDone
    <3> QED BY <1>21, <3>1, <3>3
  <2> QED BY <2>2, <2>3
<1> QED BY <1>17, <1>20, <1>22, <1>23, <1>24, <1>25 DEF DbInv

(* Nothing happens.                                                        *)
LEMMA HistoryStutterHolds == ASSUME DbInv, UNCHANGED historyVars PROVE DbInv'
<1>1. UNCHANGED <<backend, tb, write, gone, job, aged, requested, caught>>
  BY DEF historyVars
<1>2. JobsType' /\ aged \in Nat /\ aged >= aged /\ requested \subseteq Items /\ caught \subseteq Items
  BY <1>1 DEF DbInv, DbType, JobsType
<1>3. job["forgetter"].at \in {"iterate", "delete"} => tb.forget # <<>> /\ tb.forget[1].account = job["forgetter"].account
  BY DEF DbInv, ForgetInv
<1> QED BY <1>1, <1>2, <1>3, QuietStep

(* A statement of the cleanup, of REDACT or of the forget routine.         *)
LEMMA DeletionsHold ==
  ASSUME DbInv, CleanupStatement \/ RedactStatement \/ ForgetStatement
  PROVE  DbInv'
<1>1. NoName \in DbNames /\ job["forgetter"].account \in DbNames
  <2>1. JobsType
    BY DEF DbInv, DbType
  <2> QED BY <2>1 DEF DbNames, JobsType, Jobs
<1>2. NoJob \in [at : {"rest", "iterate"}, ids : {{}}, left : {<<>>}, account : DbNames] /\ NoJob.at = "rest"
  BY <1>1 DEF NoJob
<1>3. "cleaner" \in Jobs /\ "redactor" \in Jobs /\ "forgetter" \in Jobs
  BY DEF Jobs
<1>4. CASE CleanupStatement
  <2>1. DeleteStatement("cleaner", NoJob)
    BY <1>4 DEF CleanupStatement
  <2> QED BY <1>2, <1>3, <2>1, DeleteHolds
<1>5. CASE RedactStatement
  <2>1. DeleteStatement("redactor", NoJob)
    BY <1>5 DEF RedactStatement
  <2> QED BY <1>2, <1>3, <2>1, DeleteHolds
<1>6. CASE ForgetStatement
  <2> DEFINE then == [NoJob EXCEPT !.at = "iterate", !.account = job["forgetter"].account]
  <2>1. then = [at |-> "iterate", ids |-> {}, left |-> <<>>, account |-> job["forgetter"].account]
    BY ForgetterStates
  <2>2. DeleteStatement("forgetter", then)
    BY <1>6 DEF ForgetStatement
  <2> HIDE DEF then
  <2>3. then \in [at : {"rest", "iterate"}, ids : {{}}, left : {<<>>}, account : DbNames]
        /\ then.account = job["forgetter"].account
    BY <1>1, <2>1
  <2> QED BY <1>3, <2>2, <2>3, DeleteHolds
<1> QED BY <1>4, <1>5, <1>6

\* At every moment: the goroutine that stores an item has left a row in each table it has
\* passed (PresentInv), a deletion is only of items that may go, and what it has passed is
\* gone (JobInv), and what the forget routine is to report has no rows left once the
\* account's row of it is gone (ForgetInv, GoneInv).
THEOREM DbInvariant == PersistentHistorySpec => []DbInv
<1>1. PersistentHistoryInit => DbInv
  BY InitHolds
<1>2. DbInv /\ [PersistentHistoryNext]_historyVars => DbInv'
  <2> SUFFICES ASSUME DbInv, [PersistentHistoryNext]_historyVars PROVE DbInv'
    OBVIOUS
  <2>1. CASE open \/ OpenStatement \/ HistoryCrash \/ SetConfig \/ Ages
    BY <2>1, OpenHolds, OpenStatementHolds, HistoryCrashHolds, SetConfigHolds, AgesHolds
  <2>2. CASE \E i \in Items : Store(i) \/ StoreStatement(i) \/ DeleteMsgid(i)
    BY <2>2, StoreHolds, StoreStatementHolds, DeleteMsgidHolds
  <2>3. CASE doCleanup \/ IterateForget \/ TakeForget \/ Woken
    BY <2>3, CleanupHolds, IterateHolds, TakeForgetHolds, WokenHolds
  <2>4. CASE CleanupStatement \/ RedactStatement \/ ForgetStatement
    BY <2>4, DeletionsHold
  <2>5. CASE \E a \in TrackedAccounts : Forget(a)
    BY <2>5, ForgetHolds
  <2>6. CASE UNCHANGED historyVars
    BY <2>6, HistoryStutterHolds
  <2> QED BY <2>1, <2>2, <2>3, <2>4, <2>5, <2>6 DEF PersistentHistoryNext
<1> QED BY <1>1, <1>2, PTL DEF PersistentHistorySpec

\* For any messages, accounts and targets, on each of the three backends, with any number
\* of removals, failing statements, crashes and rehashes: a message that was stored is read by
\* everyone it is for until it is removed or too old, one that was reported as removed is not
\* read again, and the backends agree (AddChannelItem, DeleteMsgid, doForget, doCleanup).
THEOREM HistoryKept == PersistentHistorySpec => []HistoryExact
BY DbInvariant, InvImpliesExact, PTL
=============================================================================
