---------------------------- MODULE SocketProofs ----------------------------
(***************************************************************************)
(* Theorems about Socket, for any number of callers and send goroutines,   *)
(* any line lengths and any sendq limit.                                   *)
(***************************************************************************)
EXTENDS Socket, SequenceTheorems, TLAPS

(***************************************************************************)
(* The socket starts in the invariant.                                     *)
(***************************************************************************)
LEMMA InitType == Init => TypeOK /\ ControlInv
<1> SUFFICES ASSUME Init PROVE TypeOK /\ ControlInv
  OBVIOUS
<1> USE SocketAssumption DEF Init
<1>1. \A p \in Goroutines : pc[p] = "idle" /\ taken[p] = <<>>
  OBVIOUS
<1>2. /\ pc \in [Goroutines -> Locations]
      /\ sawClosed \in [Goroutines -> BOOLEAN]
  BY DEF Locations
<1>3. taken \in [Goroutines -> Seq(Line)]
  OBVIOUS
<1>4. last \in [Goroutines -> FinalLines \cup {NoLine}]
  OBVIOUS
<1>5. buffers \in Seq(Line) /\ wire \in Seq(Line \cup FinalLines)
  OBVIOUS
<1>6. totalLength \in Nat /\ calls \in 0 .. MaxCalls
  OBVIOUS
<1>7. TypeOK
  BY <1>2, <1>3, <1>4, <1>5, <1>6, Zenon DEF TypeOK
<1>8. ControlInv
  BY <1>1 DEF ControlInv, Holding, Goroutines
<1> QED BY <1>7, <1>8

(* Lines may follow whatever is on the wire.                               *)
LEMMA LineSeq ==
    ASSUME NEW w \in Seq(Line \cup FinalLines), NEW t \in Seq(Line)
    PROVE  w \o t \in Seq(Line \cup FinalLines)
<1>1. t \in Seq(Line \cup FinalLines)
  OBVIOUS
<1> QED BY <1>1

(***************************************************************************)
(* Every step keeps the types and the places where goroutines can be.      *)
(***************************************************************************)
LEMMA NextType == TypeOK /\ ControlInv /\ [Next]_vars => TypeOK' /\ ControlInv'
<1> SUFFICES ASSUME TypeOK, ControlInv, [Next]_vars PROVE TypeOK' /\ ControlInv'
  OBVIOUS
<1> USE SocketAssumption
<1>0. Owner \in Goroutines /\ Callers \subseteq Goroutines /\ Senders \subseteq Goroutines
  BY DEF Goroutines
<1>1. ASSUME NEW c \in Callers, NEW n \in Sizes, Write(c, n) PROVE TypeOK' /\ ControlInv'
  <2>1. NewLine(c, n, TRUE) \in Line
    BY <1>1 DEF Write, NewLine, Line, TypeOK
  <2>2. buffers' \in Seq(Line)
    <3>1. Append(buffers, NewLine(c, n, TRUE)) \in Seq(Line)
      BY <2>1, AppendProperties DEF TypeOK
    <3> QED BY <1>1, <3>1 DEF Write, TypeOK
  <2>3. totalLength' \in Nat /\ calls' \in 0 .. MaxCalls
    <3>1. totalLength + n \in Nat
      BY DEF TypeOK
    <3>2. calls < MaxCalls => calls + 1 \in 0 .. MaxCalls
      BY DEF TypeOK
    <3> QED BY <1>1, <3>1, <3>2, Zenon DEF Write, TypeOK
  <2>4. closed' \in BOOLEAN /\ sendQExceeded' \in BOOLEAN
    BY <1>1 DEF Write, TypeOK
  <2>5. pc' \in [Goroutines -> Locations]
    BY <1>0, <1>1 DEF Write, TypeOK, Locations, Goto
  <2>6. TypeOK'
    BY <1>1, <2>2, <2>3, <2>4, <2>5 DEF Write, TypeOK, locals
  <2>7. ControlInv'
    BY <1>0, <1>1 DEF Write, TypeOK, ControlInv, Holding, locals, Goto
  <2> QED BY <2>6, <2>7
<1>2. ASSUME NEW c \in Callers, Close(c) PROVE TypeOK' /\ ControlInv'
  BY <1>0, <1>2 DEF Close, TypeOK, ControlInv, Locations, Holding, shared, locals, Goto
<1>3. ASSUME NEW c \in Callers, SetFinalData(c) PROVE TypeOK' /\ ControlInv'
  BY <1>0, <1>3 DEF SetFinalData, TypeOK, ControlInv, Locations, Holding, shared, locals, Goto
<1>4. ASSUME NEW c \in Callers, NEW n \in Sizes, BlockingWrite(c, n) PROVE TypeOK' /\ ControlInv'
  <2>1. NewLine(c, n, FALSE) \in Line
    BY <1>4 DEF BlockingWrite, NewLine, Line, TypeOK
  <2>2. pc' \in [Goroutines -> Locations]
    BY <1>0, <1>4 DEF BlockingWrite, TypeOK, Locations, Goto
  <2>3. calls' \in 0 .. MaxCalls
    BY <1>4 DEF BlockingWrite, TypeOK
  <2>4. TypeOK'
    BY <1>4, <2>1, <2>2, <2>3 DEF BlockingWrite, TypeOK, shared
  <2>5. ControlInv'
    BY <1>0, <1>4, <2>1 DEF BlockingWrite, TypeOK, ControlInv, Holding, Goto
  <2> QED BY <2>4, <2>5
<1>5. ASSUME NEW c \in Callers, wakeWriter(c) PROVE TypeOK' /\ ControlInv'
  BY <1>0, <1>5, ZenonT(60) DEF wakeWriter, TypeOK, ControlInv, Locations, Holding, shared, locals, Goto
<1>6. CASE LockWrite(Owner)
  BY <1>0, <1>6 DEF LockWrite, TypeOK, ControlInv, Locations, Holding, shared, locals, Goto
<1>7. CASE WriteLine(Owner)
  <2>1. data \in Line
    BY <1>7 DEF WriteLine, ControlInv
  <2>2. wire' \in Seq(Line \cup FinalLines)
    <3>1. Append(wire, data) \in Seq(Line \cup FinalLines)
      BY <2>1, AppendProperties DEF TypeOK
    <3> QED BY <1>7, <3>1 DEF WriteLine, TypeOK
  <2>3. pc' \in [Goroutines -> Locations]
    BY <1>0, <1>7 DEF WriteLine, TypeOK, Locations, Holding, Goto
  <2>4. TypeOK'
    BY <1>7, <2>2, <2>3 DEF WriteLine, TypeOK, shared, locals
  <2>5. ControlInv'
    BY <1>0, <1>7 DEF WriteLine, TypeOK, ControlInv, Holding, locals, Goto
  <2> QED BY <2>4, <2>5
<1>8. ASSUME NEW s \in Senders, RetryLock(s) PROVE TypeOK' /\ ControlInv'
  BY <1>0, <1>8 DEF RetryLock, TypeOK, ControlInv, Locations, Holding, shared, locals, Goto
<1>9. ASSUME NEW p \in Goroutines, TakeBuffers(p) PROVE TypeOK' /\ ControlInv'
  BY <1>0, <1>9 DEF TakeBuffers, TypeOK, ControlInv, Locations, Holding, shared, locals, Goto
<1>10. ASSUME NEW p \in Goroutines, FlushLines(p) PROVE TypeOK' /\ ControlInv'
  <2>1. taken[p] \in Seq(Line)
    BY DEF TypeOK
  <2>2. \A k \in 0 .. Len(taken[p]) : SubSeq(taken[p], 1, k) \in Seq(Line)
    BY <2>1
  <2>3. wire' \in Seq(Line \cup FinalLines)
    BY <1>10, <2>1, <2>2, LineSeq, ZenonT(60) DEF FlushLines, TypeOK
  <2>4. taken' \in [Goroutines -> Seq(Line)]
    BY <1>10 DEF FlushLines, TypeOK
  <2>5. pc' \in [Goroutines -> Locations]
    BY <1>10 DEF FlushLines, AfterWrite, TypeOK, Locations, Holding, Goto
  <2>6. TypeOK'
    BY <1>10, <2>3, <2>4, <2>5 DEF FlushLines, TypeOK, shared
  <2>7. ControlInv'
    BY <1>0, <1>10 DEF FlushLines, AfterWrite, TypeOK, ControlInv, Holding, Goto
  <2> QED BY <2>6, <2>7
<1>11. ASSUME NEW p \in Goroutines, Finalize(p) PROVE TypeOK' /\ ControlInv'
  <2>1. last' \in [Goroutines -> FinalLines \cup {NoLine}]
    BY <1>11 DEF Finalize, TypeOK, FinalLines
  <2>2. pc' \in [Goroutines -> Locations]
    BY <1>11 DEF Finalize, TypeOK, Locations, Holding, Goto
  <2>3. TypeOK'
    BY <1>11, <2>1, <2>2 DEF Finalize, TypeOK
  <2>4. ControlInv'
    BY <1>0, <1>11 DEF Finalize, TypeOK, ControlInv, Holding, Goto
  <2> QED BY <2>3, <2>4
<1>12. ASSUME NEW p \in Goroutines, WriteFinalLine(p) PROVE TypeOK' /\ ControlInv'
  <2>1. wire' \in Seq(Line \cup FinalLines)
    <3>1. last[p] # NoLine => last[p] \in FinalLines
      BY DEF TypeOK
    <3>2. last[p] # NoLine => Append(wire, last[p]) \in Seq(Line \cup FinalLines)
      BY <3>1, AppendProperties DEF TypeOK
    <3> QED BY <1>12, <3>2 DEF WriteFinalLine, TypeOK
  <2>2. pc' \in [Goroutines -> Locations]
    BY <1>12 DEF WriteFinalLine, TypeOK, Locations, Holding, Goto
  <2>3. TypeOK'
    BY <1>12, <2>1, <2>2 DEF WriteFinalLine, TypeOK, shared, locals
  <2>4. ControlInv'
    BY <1>0, <1>12 DEF WriteFinalLine, TypeOK, ControlInv, Holding, locals, Goto
  <2> QED BY <2>3, <2>4
<1>13. ASSUME NEW p \in Goroutines, CloseConn(p) PROVE TypeOK' /\ ControlInv'
  BY <1>0, <1>13 DEF CloseConn, TypeOK, ControlInv, Locations, Holding, shared, locals, Goto
<1>14. ASSUME NEW p \in Goroutines, Unlock(p) PROVE TypeOK' /\ ControlInv'
  BY <1>0, <1>14 DEF Unlock, TypeOK, ControlInv, Locations, Holding, shared, locals, Goto
<1>15. ASSUME NEW p \in Goroutines, CheckReady(p) PROVE TypeOK' /\ ControlInv'
  BY <1>0, <1>15 DEF CheckReady, TypeOK, ControlInv, Locations, Holding, shared, locals, Goto
<1>20. CASE UNCHANGED vars
  BY <1>20 DEF vars, TypeOK, ControlInv
<1> QED
  BY <1>20, <1>1, <1>2, <1>3, <1>4, <1>5, <1>6, <1>7, <1>8, <1>9, <1>10, <1>11, <1>12, <1>13, <1>14, <1>15 DEF Next, Call, Step

(***************************************************************************)
(* Every step keeps the lock and its holder together.                      *)
(***************************************************************************)
LEMMA NextLock ==
    TypeOK /\ ControlInv /\ LockInv /\ [Next]_vars => LockInv'
<1> SUFFICES ASSUME TypeOK, ControlInv, LockInv, [Next]_vars PROVE LockInv'
  OBVIOUS
<1> USE SocketAssumption
<1>0. Owner \in Goroutines /\ Callers \subseteq Goroutines /\ Senders \subseteq Goroutines
  BY DEF Goroutines
<1>1. ASSUME NEW c \in Callers, NEW n \in Sizes, Write(c, n) PROVE LockInv'
  BY <1>0, <1>1 DEF Write, LockInv, MutualExclusion, TypeOK, Holding, Goto
<1>2. ASSUME NEW c \in Callers, Close(c) PROVE LockInv'
  BY <1>0, <1>2 DEF Close, LockInv, MutualExclusion, TypeOK, Holding, Goto
<1>3. ASSUME NEW c \in Callers, SetFinalData(c) PROVE LockInv'
  BY <1>0, <1>3 DEF SetFinalData, LockInv, MutualExclusion, TypeOK, Holding, Goto
<1>4. ASSUME NEW c \in Callers, NEW n \in Sizes, BlockingWrite(c, n) PROVE LockInv'
  BY <1>0, <1>4 DEF BlockingWrite, LockInv, MutualExclusion, TypeOK, Holding, Goto
<1>5. ASSUME NEW c \in Callers, wakeWriter(c) PROVE LockInv'
  BY <1>0, <1>5, ZenonT(60) DEF wakeWriter, LockInv, MutualExclusion, TypeOK, Holding, Goto
<1>6. CASE LockWrite(Owner)
  BY <1>0, <1>6 DEF LockWrite, LockInv, MutualExclusion, TypeOK, Holding, Goto
<1>7. CASE WriteLine(Owner)
  BY <1>0, <1>7 DEF WriteLine, LockInv, MutualExclusion, TypeOK, Holding, Goto
<1>8. ASSUME NEW s \in Senders, RetryLock(s) PROVE LockInv'
  BY <1>0, <1>8 DEF RetryLock, LockInv, MutualExclusion, TypeOK, Holding, Goto
<1>9. ASSUME NEW p \in Goroutines, TakeBuffers(p) PROVE LockInv'
  BY <1>0, <1>9 DEF TakeBuffers, LockInv, MutualExclusion, TypeOK, Holding, Goto
<1>10. ASSUME NEW p \in Goroutines, FlushLines(p) PROVE LockInv'
  BY <1>0, <1>10 DEF FlushLines, LockInv, MutualExclusion, TypeOK, Holding, Goto, AfterWrite
<1>11. ASSUME NEW p \in Goroutines, Finalize(p) PROVE LockInv'
  BY <1>0, <1>11 DEF Finalize, LockInv, MutualExclusion, TypeOK, Holding, Goto
<1>12. ASSUME NEW p \in Goroutines, WriteFinalLine(p) PROVE LockInv'
  BY <1>0, <1>12 DEF WriteFinalLine, LockInv, MutualExclusion, TypeOK, Holding, Goto
<1>13. ASSUME NEW p \in Goroutines, CloseConn(p) PROVE LockInv'
  BY <1>0, <1>13 DEF CloseConn, LockInv, MutualExclusion, TypeOK, Holding, Goto
<1>14. ASSUME NEW p \in Goroutines, Unlock(p) PROVE LockInv'
  BY <1>0, <1>14 DEF Unlock, LockInv, MutualExclusion, TypeOK, Holding, Goto
<1>15. ASSUME NEW p \in Goroutines, CheckReady(p) PROVE LockInv'
  BY <1>0, <1>15 DEF CheckReady, LockInv, MutualExclusion, TypeOK, Holding, Goto
<1>20. CASE UNCHANGED vars
  BY <1>20 DEF vars, LockInv, MutualExclusion
<1> QED
  BY <1>20, <1>1, <1>2, <1>3, <1>4, <1>5, <1>6, <1>7, <1>8, <1>9, <1>10, <1>11, <1>12, <1>13, <1>14, <1>15 DEF Next, Call, Step

(***************************************************************************)
(* No step leaves data behind that nobody is going to look at.             *)
(***************************************************************************)
LEMMA NextWakeup ==
    TypeOK /\ ControlInv /\ LockInv /\ NoLostWakeup /\ [Next]_vars => NoLostWakeup'
<1> SUFFICES ASSUME TypeOK, ControlInv, LockInv, NoLostWakeup, [Next]_vars
             PROVE  NoLostWakeup'
  OBVIOUS
<1> USE SocketAssumption
<1>0. Owner \in Goroutines /\ Callers \subseteq Goroutines /\ Senders \subseteq Goroutines
  BY DEF Goroutines
<1>1. ASSUME NEW c \in Callers, NEW n \in Sizes, Write(c, n) PROVE NoLostWakeup'
  BY <1>0, <1>1 DEF Write, LockInv, NoLostWakeup, readyToWrite, TypeOK, Holding, Goto
<1>2. ASSUME NEW c \in Callers, Close(c) PROVE NoLostWakeup'
  BY <1>0, <1>2 DEF Close, LockInv, NoLostWakeup, readyToWrite, TypeOK, Holding, Goto
<1>3. ASSUME NEW c \in Callers, SetFinalData(c) PROVE NoLostWakeup'
  BY <1>0, <1>3 DEF SetFinalData, LockInv, NoLostWakeup, readyToWrite, TypeOK, Holding, Goto
<1>4. ASSUME NEW c \in Callers, NEW n \in Sizes, BlockingWrite(c, n) PROVE NoLostWakeup'
  BY <1>0, <1>4 DEF BlockingWrite, LockInv, NoLostWakeup, readyToWrite, shared, TypeOK, Holding, Goto
<1>5. ASSUME NEW c \in Callers, wakeWriter(c) PROVE NoLostWakeup'
  BY <1>0, <1>5 DEF wakeWriter, LockInv, NoLostWakeup, readyToWrite, TypeOK, Holding, Goto
<1>6. CASE LockWrite(Owner)
  BY <1>0, <1>6 DEF LockWrite, LockInv, NoLostWakeup, readyToWrite, TypeOK, Holding, Goto
<1>7. CASE WriteLine(Owner)
  BY <1>0, <1>7 DEF WriteLine, LockInv, NoLostWakeup, readyToWrite, TypeOK, Holding, Goto
<1>8. ASSUME NEW s \in Senders, RetryLock(s) PROVE NoLostWakeup'
  BY <1>0, <1>8 DEF RetryLock, LockInv, NoLostWakeup, readyToWrite, TypeOK, Holding, Goto
<1>9. ASSUME NEW p \in Goroutines, TakeBuffers(p) PROVE NoLostWakeup'
  BY <1>0, <1>9 DEF TakeBuffers, LockInv, NoLostWakeup, readyToWrite, TypeOK, Holding, Goto
<1>10. ASSUME NEW p \in Goroutines, FlushLines(p) PROVE NoLostWakeup'
  BY <1>0, <1>10 DEF FlushLines, LockInv, NoLostWakeup, readyToWrite, TypeOK, Holding, Goto, AfterWrite
<1>11. ASSUME NEW p \in Goroutines, Finalize(p) PROVE NoLostWakeup'
  BY <1>0, <1>11 DEF Finalize, LockInv, NoLostWakeup, readyToWrite, TypeOK, Holding, Goto
<1>12. ASSUME NEW p \in Goroutines, WriteFinalLine(p) PROVE NoLostWakeup'
  BY <1>0, <1>12 DEF WriteFinalLine, LockInv, NoLostWakeup, readyToWrite, TypeOK, Holding, Goto
<1>13. ASSUME NEW p \in Goroutines, CloseConn(p) PROVE NoLostWakeup'
  BY <1>0, <1>13 DEF CloseConn, LockInv, NoLostWakeup, readyToWrite, TypeOK, Holding, Goto
<1>14. ASSUME NEW p \in Goroutines, Unlock(p) PROVE NoLostWakeup'
  BY <1>0, <1>14 DEF Unlock, LockInv, NoLostWakeup, readyToWrite, TypeOK, Holding, Goto
<1>15. ASSUME NEW p \in Goroutines, CheckReady(p) PROVE NoLostWakeup'
  BY <1>0, <1>15 DEF CheckReady, LockInv, NoLostWakeup, readyToWrite, shared, TypeOK, Holding, Goto
<1>20. CASE UNCHANGED vars
  BY <1>20 DEF vars, NoLostWakeup, readyToWrite
<1> QED
  BY <1>20, <1>1, <1>2, <1>3, <1>4, <1>5, <1>6, <1>7, <1>8, <1>9, <1>10, <1>11, <1>12, <1>13, <1>14, <1>15 DEF Next, Call, Step

(***************************************************************************)
(* The order of the lines.                                                 *)
(***************************************************************************)

(* A final line is not one of the lines that were submitted.               *)
LEMMA FinalNotLine == \A l \in FinalLines : l \notin Line
  BY DEF FinalLines, FinalLine, SendQExceededLine, Line

(* Steps that move no line, and do not move the owner into BlockingWrite   *)
(* or past its flush, leave the order alone.                               *)
LEMMA OrderFrame ==
    ASSUME OrderInv,
           UNCHANGED <<wire, buffers, taken, data, calls>>,
           pc'[Owner] \in {"lock", "take", "flush", "line"} =>
               pc[Owner] \in {"lock", "take", "flush", "line"},
           pc'[Owner] \in {"flush", "line"} => pc[Owner] \in {"flush", "line"}
    PROVE  OrderInv'
  BY DEF OrderInv, WireOrder, InOrder, Before, OwnersBefore

(* Every step keeps the order of the lines.                                *)
LEMMA NextOrder ==
    TypeOK /\ ControlInv /\ LockInv /\ OrderInv /\ [Next]_vars => OrderInv'
<1> SUFFICES ASSUME TypeOK, ControlInv, LockInv, OrderInv, [Next]_vars
             PROVE  OrderInv'
  OBVIOUS
<1> USE SocketAssumption
<1>0. /\ Owner \in Goroutines /\ Callers \subseteq Goroutines
      /\ Senders \subseteq Goroutines /\ Owner \notin Senders
  BY DEF Goroutines
<1>a. calls \in Nat /\ \A l \in Line : l.id \in Nat
  BY DEF TypeOK, Line
<1>b. Len(buffers) \in Nat /\ \A k \in 1 .. Len(buffers) : buffers[k] \in Line
  BY DEF TypeOK
<1>c. \A p \in Goroutines :
        Len(taken[p]) \in Nat /\ \A k \in 1 .. Len(taken[p]) : taken[p][k] \in Line
  BY DEF TypeOK
<1>d. Len(wire) \in Nat
  BY DEF TypeOK
<1>1. ASSUME NEW c \in Callers, NEW n \in Sizes, Write(c, n) PROVE OrderInv'
  <2> DEFINE m == NewLine(c, n, TRUE)
  <2>1. /\ m.id = calls + 1 /\ m.by = c /\ m.queued
        /\ calls' = calls + 1 /\ wire' = wire /\ taken' = taken /\ data' = data
        /\ pc[c] = "idle" /\ pc' = [pc EXCEPT ![c] = "wake"]
    BY <1>1 DEF Write, NewLine, Goto, locals
  <2>2. CASE buffers' = buffers
    <3>1. \A x \in Nat : x <= calls => x <= calls'
      BY <1>a, <2>1
    <3>2. InOrder(buffers)' /\ \A p \in Goroutines : InOrder(taken[p])'
      BY <1>a, <1>b, <1>c, <2>1, <2>2, <3>1 DEF OrderInv, InOrder
    <3>3. \A i \in 1 .. Len(wire') : wire'[i] \in Line => wire'[i].id <= calls'
      BY <1>a, <2>1, <3>1 DEF OrderInv
    <3>4. pc'[Owner] = pc[Owner] \/ pc'[Owner] = "wake"
      BY <1>0, <2>1 DEF TypeOK
    <3>5. pc[Owner] \in {"lock", "take", "flush", "line"} => data.id <= calls'
      BY <1>a, <2>1, <3>1 DEF OrderInv, ControlInv
    <3> QED
      BY <2>1, <2>2, <3>2, <3>3, <3>4, <3>5 DEF OrderInv, WireOrder, Before, OwnersBefore
  <2>3. CASE buffers' = Append(buffers, m)
    <3>1. /\ Len(buffers') = Len(buffers) + 1 /\ buffers'[Len(buffers) + 1] = m
          /\ \A k \in 1 .. Len(buffers) : buffers'[k] = buffers[k]
          /\ Len(buffers) \in Nat
      <4>1. m \in Line
        BY <1>1 DEF Write, NewLine, Line, TypeOK
      <4>2. buffers \in Seq(Line)
        BY DEF TypeOK
      <4> HIDE DEF m
      <4> QED BY <2>3, <4>1, <4>2
    <3> HIDE DEF m
    <3>2. InOrder(buffers)'
      <4>1. \A k \in 1 .. Len(buffers') : k \in 1 .. Len(buffers) \/ k = Len(buffers) + 1
        BY <3>1
      <4>2. \A k \in 1 .. Len(buffers) :
               buffers[k].queued /\ buffers[k].id <= calls /\ buffers[k].id \in Nat
        BY <1>a, <1>b DEF OrderInv, InOrder
      <4>3. \A k \in 1 .. Len(buffers') : buffers'[k].queued /\ buffers'[k].id <= calls'
        BY <1>a, <2>1, <3>1, <4>1, <4>2
      <4>4. \A i, j \in 1 .. Len(buffers) : i < j => buffers[i].id < buffers[j].id
        BY DEF OrderInv, InOrder
      <4>5. \A i, j \in 1 .. Len(buffers') : i < j => buffers'[i].id < buffers'[j].id
        BY <1>a, <2>1, <3>1, <4>1, <4>2, <4>4
      <4> QED BY <4>3, <4>5 DEF InOrder
    <3>3. \A p \in Goroutines : InOrder(taken[p])'
      <4> SUFFICES ASSUME NEW p \in Goroutines PROVE InOrder(taken[p])'
        OBVIOUS
      <4>1. InOrder(taken[p])
        BY DEF OrderInv
      <4>2. \A x \in Nat : x <= calls => x <= calls'
        BY <1>a, <2>1
      <4>3. \A i \in 1 .. Len(taken[p]) : taken[p][i].id \in Nat
        BY <1>a, <1>c
      <4> QED BY <2>1, <4>1, <4>2, <4>3 DEF InOrder
    <3>4. Before(wire, buffers)'
      <4>1. \A i \in 1 .. Len(wire) : wire[i] \in Line => wire[i].id < m.id
        BY <1>a, <2>1 DEF OrderInv
      <4>2. Before(wire, buffers)
        BY DEF OrderInv
      <4>3. \A k \in 1 .. Len(buffers') : k \in 1 .. Len(buffers) \/ k = Len(buffers) + 1
        BY <3>1
      <4> QED BY <2>1, <3>1, <4>1, <4>2, <4>3 DEF Before
    <3>5. \A p \in Goroutines : Before(taken[p], buffers)' /\ Before(wire, taken[p])'
      <4> SUFFICES ASSUME NEW p \in Goroutines
                   PROVE  Before(taken[p], buffers)' /\ Before(wire, taken[p])'
        OBVIOUS
      <4>1. \A i \in 1 .. Len(taken[p]) : taken[p][i].id <= calls /\ taken[p][i].id \in Nat
        BY <1>a, <1>c DEF OrderInv, InOrder
      <4>2. Before(taken[p], buffers)
        BY DEF OrderInv
      <4>3. Before(taken[p], buffers)'
        <5> SUFFICES ASSUME NEW i \in 1 .. Len(taken[p]), NEW j \in 1 .. Len(buffers'),
                            taken[p][i] \in Line
                     PROVE  taken[p][i].id < buffers'[j].id
          BY <2>1 DEF Before
        <5>1. CASE j \in 1 .. Len(buffers)
          BY <3>1, <4>2, <5>1 DEF Before
        <5>2. CASE j = Len(buffers) + 1
          BY <1>a, <2>1, <3>1, <4>1, <5>2
        <5> QED BY <3>1, <5>1, <5>2
      <4> QED BY <2>1, <4>3 DEF OrderInv, Before
    <3>6. /\ WireOrder'
          /\ \A i \in 1 .. Len(wire') : wire'[i] \in Line => wire'[i].id <= calls'
      BY <1>a, <1>b, <1>c, <1>d, <2>1 DEF OrderInv, WireOrder
    <3>7. CASE c = Owner
      <4>1. pc'[Owner] = "wake"
        BY <1>0, <2>1, <3>7 DEF TypeOK
      <4> QED BY <4>1, <3>2, <3>3, <3>4, <3>5, <3>6 DEF OrderInv
    <3>8. CASE c # Owner
      <4>1. pc'[Owner] = pc[Owner]
        BY <1>0, <2>1, <3>8 DEF TypeOK
      <4>2. ASSUME pc[Owner] \in {"lock", "take", "flush", "line"}
            PROVE  /\ data'.id <= calls' /\ data'.by = Owner /\ ~data'.queued
                   /\ OwnersBefore(wire)' /\ OwnersBefore(buffers)'
                   /\ \A p \in Goroutines : OwnersBefore(taken[p])'
        BY <1>a, <1>b, <1>c, <1>d, <2>1, <3>1, <3>8, <4>2, SMTT(30) DEF OrderInv, OwnersBefore, ControlInv
      <4>3. ASSUME pc[Owner] \in {"flush", "line"}
            PROVE  \A k \in 1 .. Len(buffers') : data'.id < buffers'[k].id
        BY <1>a, <1>b, <1>c, <1>d, <2>1, <3>1, <4>3 DEF OrderInv, ControlInv
      <4> QED BY <4>1, <4>2, <4>3, <3>2, <3>3, <3>4, <3>5, <3>6 DEF OrderInv
    <3> QED BY <3>7, <3>8
  <2> QED BY <1>1, <2>2, <2>3 DEF Write
<1>2. ASSUME NEW c \in Callers, Close(c) PROVE OrderInv'
  BY <1>0, <1>2, OrderFrame DEF Close, Goto, shared, locals, TypeOK, ControlInv, Holding
<1>3. ASSUME NEW c \in Callers, SetFinalData(c) PROVE OrderInv'
  BY <1>0, <1>3, OrderFrame DEF SetFinalData, Goto, shared, locals, TypeOK, ControlInv, Holding
<1>4. ASSUME NEW c \in Callers, NEW n \in Sizes, BlockingWrite(c, n) PROVE OrderInv'
  <2>1. /\ c = Owner /\ pc[Owner] = "idle" /\ calls' = calls + 1
        /\ wire' = wire /\ taken' = taken /\ buffers' = buffers
        /\ data' = [id |-> calls + 1, by |-> Owner, queued |-> FALSE, len |-> n]
        /\ pc' = [pc EXCEPT ![Owner] = "lock"]
    BY <1>4 DEF BlockingWrite, NewLine, Goto, shared
  <2>2. pc'[Owner] = "lock"
    BY <1>0, <2>1 DEF TypeOK
  <2>3. data'.id = calls + 1 /\ data'.by = Owner /\ ~data'.queued
    BY <2>1
  <2>4. /\ WireOrder' /\ Before(wire, buffers)' /\ InOrder(buffers)'
        /\ \A i \in 1 .. Len(wire') : wire'[i] \in Line => wire'[i].id <= calls'
    BY <1>a, <1>b, <1>c, <1>d, <2>1 DEF OrderInv, WireOrder, InOrder, Before
  <2>5. \A p \in Goroutines :
          InOrder(taken[p])' /\ Before(wire, taken[p])' /\ Before(taken[p], buffers)'
    BY <1>a, <1>b, <1>c, <1>d, <2>1 DEF OrderInv, InOrder, Before
  <2>6. OwnersBefore(wire)' /\ OwnersBefore(buffers)'
    BY <1>a, <1>b, <1>c, <1>d, <2>1, <2>3 DEF OrderInv, InOrder, OwnersBefore
  <2>7. \A p \in Goroutines : OwnersBefore(taken[p])'
    BY <1>a, <1>b, <1>c, <1>d, <2>1, <2>3 DEF OrderInv, InOrder, OwnersBefore
  <2> QED BY <2>1, <2>2, <2>3, <2>4, <2>5, <2>6, <2>7 DEF OrderInv, TypeOK
<1>5. ASSUME NEW c \in Callers, wakeWriter(c) PROVE OrderInv'
  BY <1>0, <1>5, OrderFrame DEF wakeWriter, Goto, shared, locals, TypeOK, ControlInv, Holding
<1>6. CASE LockWrite(Owner)
  BY <1>0, <1>6, OrderFrame DEF LockWrite, Goto, shared, locals, TypeOK, ControlInv, Holding
<1>7. CASE WriteLine(Owner)
  <2>1. /\ pc[Owner] = "line" /\ calls' = calls /\ buffers' = buffers
        /\ taken' = taken /\ data' = data
        /\ pc'[Owner] \in {"unlock", "finalize"}
    BY <1>0, <1>7 DEF WriteLine, Goto, shared, locals, TypeOK
  <2>2. data \in Line
    BY <2>1 DEF ControlInv
  <2>3. \A p \in Goroutines : taken[p] = <<>>
    BY <1>0, <2>1 DEF ControlInv, LockInv, MutualExclusion, Holding
  <2>4. CASE wire' = wire
    BY <1>a, <1>b, <1>c, <1>d, <2>1, <2>4 DEF OrderInv, WireOrder, InOrder, Before
  <2>5. CASE wire' = Append(wire, data)
    <3>1. /\ Len(wire') = Len(wire) + 1 /\ wire'[Len(wire) + 1] = data
          /\ \A k \in 1 .. Len(wire) : wire'[k] = wire[k]
          /\ Len(wire) \in Nat
      BY <2>5 DEF TypeOK
    <3>2. WireOrder'
      <4>1. \A i \in 1 .. Len(wire) : wire[i] \in Line /\ wire[i].by = Owner => wire[i].id < data.id
        BY <2>1 DEF OrderInv, OwnersBefore
      <4>2. data.by = Owner /\ ~data.queued
        BY <2>1 DEF OrderInv
      <4>3. \A k \in 1 .. Len(wire') : k \in 1 .. Len(wire) \/ k = Len(wire) + 1
        BY <3>1
      <4>4. WireOrder
        BY DEF OrderInv
      <4> SUFFICES ASSUME NEW i \in 1 .. Len(wire'), NEW j \in 1 .. Len(wire'), i < j,
                          wire'[i] \in Line, wire'[j] \in Line,
                          wire'[j].queued \/ wire'[i].by = wire'[j].by
                   PROVE  wire'[i].id < wire'[j].id
        BY DEF WireOrder
      <4>5. i \in 1 .. Len(wire)
        BY <3>1
      <4>6. CASE j \in 1 .. Len(wire)
        BY <3>1, <4>4, <4>5, <4>6 DEF WireOrder
      <4>7. CASE j = Len(wire) + 1
        BY <3>1, <4>1, <4>2, <4>5, <4>7
      <4> QED BY <4>3, <4>6, <4>7
    <3>3. Before(wire, buffers)'
      BY <1>a, <1>b, <1>c, <1>d, <2>1, <3>1, SMTT(30) DEF OrderInv, Before
    <3>4. \A p \in Goroutines : Before(wire, taken[p])'
      BY <2>1, <2>3 DEF Before
    <3>5. \A i \in 1 .. Len(wire') : wire'[i] \in Line => wire'[i].id <= calls'
      BY <2>1, <3>1 DEF OrderInv
    <3> QED BY <1>a, <1>b, <1>c, <1>d, <2>1, <3>2, <3>3, <3>4, <3>5 DEF OrderInv, InOrder, Before
  <2> QED BY <1>7, <2>4, <2>5 DEF WriteLine
<1>8. ASSUME NEW s \in Senders, RetryLock(s) PROVE OrderInv'
  BY <1>0, <1>8, OrderFrame DEF RetryLock, Goto, shared, locals, TypeOK, ControlInv, Holding
<1>9. ASSUME NEW p \in Goroutines, TakeBuffers(p) PROVE OrderInv'
  <2>1. /\ pc[p] = "take" /\ buffers' = <<>> /\ taken' = [taken EXCEPT ![p] = buffers]
        /\ wire' = wire /\ calls' = calls /\ data' = data
        /\ pc' = [pc EXCEPT ![p] = "flush"]
    BY <1>9 DEF TakeBuffers, Goto
  <2>2. Len(buffers') = 0 /\ taken'[p] = buffers
    BY <2>1 DEF TypeOK
  <2>3. \A q \in Goroutines : q # p => taken'[q] = taken[q]
    BY <2>1 DEF TypeOK
  <2>4. /\ WireOrder' /\ InOrder(buffers)' /\ Before(wire, buffers)'
        /\ \A i \in 1 .. Len(wire') : wire'[i] \in Line => wire'[i].id <= calls'
    BY <1>a, <1>b, <1>c, <1>d, <2>1, <2>2 DEF OrderInv, WireOrder, InOrder, Before
  <2>5. ASSUME NEW q \in Goroutines
        PROVE  InOrder(taken[q])' /\ Before(wire, taken[q])' /\ Before(taken[q], buffers)'
    <3>1. taken'[q] = taken[q] \/ taken'[q] = buffers
      BY <2>2, <2>3
    <3>2. CASE taken'[q] = taken[q]
      BY <2>1, <2>2, <3>2 DEF OrderInv, InOrder, Before
    <3>3. CASE taken'[q] = buffers
      BY <2>1, <2>2, <3>3 DEF OrderInv, InOrder, Before
    <3> QED BY <3>1, <3>2, <3>3
  <2>6. pc'[Owner] \in {"lock", "take", "flush", "line"} =>
          pc[Owner] \in {"lock", "take", "flush", "line"}
    BY <1>0, <2>1 DEF TypeOK
  <2>7. ASSUME pc[Owner] \in {"lock", "take", "flush", "line"}
        PROVE  /\ OwnersBefore(wire)' /\ OwnersBefore(buffers)'
               /\ \A q \in Goroutines : OwnersBefore(taken[q])'
    BY <1>a, <1>b, <1>c, <1>d, <2>1, <2>2, <2>3, <2>7 DEF OrderInv, OwnersBefore
  <2> QED BY <2>1, <2>2, <2>4, <2>5, <2>6, <2>7 DEF OrderInv
<1>10. ASSUME NEW p \in Goroutines, FlushLines(p) PROVE OrderInv'
  <2>1. /\ pc[p] = "flush" /\ buffers' = buffers /\ calls' = calls /\ data' = data
        /\ taken' = [taken EXCEPT ![p] = <<>>]
    BY <1>10 DEF FlushLines, shared
  <2>2. \A q \in Goroutines : taken'[q] = <<>>
    BY <2>1 DEF ControlInv, LockInv, MutualExclusion, Holding, TypeOK
  <2>3. PICK t \in Seq(Line) :
           /\ wire' = wire \o t
           /\ Len(t) <= Len(taken[p])
           /\ \A i \in 1 .. Len(t) : t[i] = taken[p][i]
    <3>1. taken[p] \in Seq(Line)
      BY DEF TypeOK
    <3>2. CASE wire' = wire \o taken[p]
      <4> DEFINE u == taken[p]
      <4>1. u \in Seq(Line) /\ wire' = wire \o u /\ Len(u) <= Len(taken[p])
        BY <1>c, <3>1, <3>2
      <4>2. \A i \in 1 .. Len(u) : u[i] = taken[p][i]
        OBVIOUS
      <4> HIDE DEF u
      <4> QED BY <4>1, <4>2
    <3>3. ASSUME NEW k \in 0 .. Len(taken[p]), wire' = wire \o SubSeq(taken[p], 1, k)
          PROVE  \E t \in Seq(Line) :
                   /\ wire' = wire \o t
                   /\ Len(t) <= Len(taken[p])
                   /\ \A i \in 1 .. Len(t) : t[i] = taken[p][i]
      <4>1. /\ SubSeq(taken[p], 1, k) \in Seq(Line)
            /\ Len(SubSeq(taken[p], 1, k)) = k
            /\ \A i \in 1 .. k : SubSeq(taken[p], 1, k)[i] = taken[p][i]
        BY <3>1
      <4> DEFINE u == SubSeq(taken[p], 1, k)
      <4>2. /\ u \in Seq(Line) /\ Len(u) = k /\ wire' = wire \o u
            /\ \A i \in 1 .. k : u[i] = taken[p][i]
        BY <3>3, <4>1
      <4>3. k <= Len(taken[p])
        OBVIOUS
      <4> HIDE DEF u
      <4> QED BY <4>2, <4>3
    <3> QED BY <1>10, <3>2, <3>3 DEF FlushLines
  <2>4. /\ Len(wire') = Len(wire) + Len(t) /\ Len(wire) \in Nat /\ Len(t) \in Nat
        /\ Len(taken[p]) \in Nat
        /\ \A i \in 1 .. Len(wire') :
              wire'[i] = IF i <= Len(wire) THEN wire[i] ELSE taken[p][i - Len(wire)]
    <3>1. t \in Seq(Line \cup FinalLines) /\ wire \in Seq(Line \cup FinalLines)
      BY SeqMonotonic DEF TypeOK
    <3>2. /\ Len(wire') = Len(wire) + Len(t)
          /\ \A i \in 1 .. Len(wire) + Len(t) :
                wire'[i] = IF i <= Len(wire) THEN wire[i] ELSE t[i - Len(wire)]
      BY <2>3, <3>1, ConcatProperties
    <3>3. Len(wire) \in Nat /\ Len(t) \in Nat
      BY <3>1
    <3>4. \A i \in 1 .. Len(wire) + Len(t) : i > Len(wire) => i - Len(wire) \in 1 .. Len(t)
      BY <3>3
    <3> QED BY <1>c, <2>3, <3>2, <3>3, <3>4
  <2>5. \A i \in 1 .. Len(wire') : i > Len(wire) => i - Len(wire) \in 1 .. Len(taken[p])
    BY <2>3, <2>4
  <2>6. \A i \in 1 .. Len(taken[p]) : taken[p][i] \in Line /\ taken[p][i].id \in Nat
    BY <1>a, <1>c
  <2>f. /\ InOrder(taken[p]) /\ Before(wire, taken[p]) /\ Before(taken[p], buffers)
        /\ WireOrder /\ Before(wire, buffers) /\ InOrder(buffers)
        /\ \A i \in 1 .. Len(wire) : wire[i] \in Line => wire[i].id <= calls
    BY DEF OrderInv
  <2>g. \A i \in 1 .. Len(wire') : i <= Len(wire) => i \in 1 .. Len(wire)
    BY <2>4
  <2>7. WireOrder'
    <3> SUFFICES ASSUME NEW i \in 1 .. Len(wire'), NEW j \in 1 .. Len(wire'), i < j,
                        wire'[i] \in Line, wire'[j] \in Line,
                        wire'[j].queued \/ wire'[i].by = wire'[j].by
                 PROVE  wire'[i].id < wire'[j].id
      BY DEF WireOrder
    <3>1. CASE j <= Len(wire)
      BY <2>4, <2>f, <3>1 DEF WireOrder
    <3>2. CASE i <= Len(wire) /\ j > Len(wire)
      <4>1. wire'[i] = wire[i] /\ i \in 1 .. Len(wire)
        BY <2>4, <3>2
      <4>2. wire'[j] = taken[p][j - Len(wire)] /\ j - Len(wire) \in 1 .. Len(taken[p])
        BY <2>4, <2>5, <3>2
      <4> QED BY <2>f, <4>1, <4>2 DEF Before
    <3>3. CASE i > Len(wire)
      <4>1. wire'[i] = taken[p][i - Len(wire)] /\ i - Len(wire) \in 1 .. Len(taken[p])
        BY <2>4, <2>5, <3>3
      <4>2. wire'[j] = taken[p][j - Len(wire)] /\ j - Len(wire) \in 1 .. Len(taken[p])
        BY <2>4, <2>5, <3>3
      <4>3. i - Len(wire) < j - Len(wire)
        BY <2>4
      <4> QED BY <2>f, <4>1, <4>2, <4>3 DEF InOrder
    <3> QED BY <2>4, <3>1, <3>2, <3>3
  <2>8. \A i \in 1 .. Len(wire') : wire'[i] \in Line => wire'[i].id <= calls'
    BY <2>1, <2>4, <2>5, <2>f, <2>g DEF InOrder
  <2>9. Before(wire, buffers)'
    <3> SUFFICES ASSUME NEW i \in 1 .. Len(wire'), NEW j \in 1 .. Len(buffers),
                        wire'[i] \in Line
                 PROVE  wire'[i].id < buffers[j].id
      BY <2>1 DEF Before
    <3>1. CASE i <= Len(wire)
      BY <2>4, <2>f, <2>g, <3>1 DEF Before
    <3>2. CASE i > Len(wire)
      <4>1. wire'[i] = taken[p][i - Len(wire)] /\ i - Len(wire) \in 1 .. Len(taken[p])
        BY <2>4, <2>5, <3>2
      <4> QED BY <2>6, <2>f, <4>1 DEF Before
    <3> QED BY <2>4, <3>1, <3>2
  <2>10. \A q \in Goroutines :
           InOrder(taken[q])' /\ Before(wire, taken[q])' /\ Before(taken[q], buffers)'
    BY <2>2 DEF InOrder, Before
  <2>11. InOrder(buffers)'
    BY <1>a, <1>b, <1>c, <1>d, <2>1 DEF OrderInv, InOrder
  <2>12. /\ pc'[Owner] \in {"lock", "take", "flush", "line"} =>
               pc[Owner] \in {"lock", "take", "flush", "line"}
         /\ pc'[Owner] \in {"flush", "line"} => pc[Owner] \in {"flush", "line"}
    BY <1>0, <1>10 DEF FlushLines, AfterWrite, Goto, TypeOK
  <2>13. ASSUME pc[Owner] \in {"lock", "take", "flush", "line"}
         PROVE  /\ OwnersBefore(wire)' /\ OwnersBefore(buffers)'
                /\ \A q \in Goroutines : OwnersBefore(taken[q])'
    <3>1. OwnersBefore(wire) /\ OwnersBefore(taken[p]) /\ OwnersBefore(buffers)
      BY <2>13 DEF OrderInv
    <3>2. OwnersBefore(wire)'
      <4> SUFFICES ASSUME NEW i \in 1 .. Len(wire'), wire'[i] \in Line, wire'[i].by = Owner
                   PROVE  wire'[i].id < data.id
        BY <2>1 DEF OwnersBefore
      <4>1. CASE i <= Len(wire)
        BY <2>4, <2>g, <3>1, <4>1 DEF OwnersBefore
      <4>2. CASE i > Len(wire)
        <5>1. wire'[i] = taken[p][i - Len(wire)] /\ i - Len(wire) \in 1 .. Len(taken[p])
          BY <2>4, <2>5, <4>2
        <5> QED BY <2>6, <3>1, <5>1 DEF OwnersBefore
      <4> QED BY <2>4, <4>1, <4>2
    <3> QED BY <2>1, <2>2, <3>1, <3>2 DEF OwnersBefore
  <2> QED
    BY <2>1, <2>7, <2>8, <2>9, <2>10, <2>11, <2>12, <2>13 DEF OrderInv
<1>11. ASSUME NEW p \in Goroutines, Finalize(p) PROVE OrderInv'
  BY <1>0, <1>11, OrderFrame DEF Finalize, Goto, shared, locals, TypeOK, ControlInv, Holding
<1>12. ASSUME NEW p \in Goroutines, WriteFinalLine(p) PROVE OrderInv'
  <2>1. /\ pc[p] = "final" /\ buffers' = buffers /\ calls' = calls /\ data' = data
        /\ taken' = taken /\ pc' = [pc EXCEPT ![p] = "close"]
    BY <1>12 DEF WriteFinalLine, Goto, shared, locals
  <2>2. /\ pc'[Owner] \in {"lock", "take", "flush", "line"} =>
              pc[Owner] \in {"lock", "take", "flush", "line"}
        /\ pc'[Owner] \in {"flush", "line"} => pc[Owner] \in {"flush", "line"}
    BY <1>0, <2>1 DEF TypeOK
  <2>3. CASE wire' = wire
    BY <2>1, <2>2, <2>3, OrderFrame
  <2>4. CASE last[p] # NoLine /\ wire' = Append(wire, last[p])
    <3>1. last[p] \in FinalLines
      BY <2>4 DEF TypeOK
    <3>2. last[p] \notin Line
      BY <3>1, FinalNotLine
    <3>3. /\ Len(wire') = Len(wire) + 1 /\ wire'[Len(wire) + 1] = last[p]
          /\ \A k \in 1 .. Len(wire) : wire'[k] = wire[k]
          /\ Len(wire) \in Nat
      BY <2>4 DEF TypeOK
    <3>4. \A k \in 1 .. Len(wire') :
             wire'[k] \in Line => k \in 1 .. Len(wire) /\ wire'[k] = wire[k]
      BY <3>2, <3>3
    <3>5. WireOrder' /\ Before(wire, buffers)'
      BY <1>a, <1>b, <1>c, <1>d, <2>1, <3>4 DEF OrderInv, WireOrder, Before
    <3>6. \A q \in Goroutines : Before(wire, taken[q])'
      BY <1>a, <1>b, <1>c, <1>d, <2>1, <3>4 DEF OrderInv, Before
    <3>7. \A i \in 1 .. Len(wire') : wire'[i] \in Line => wire'[i].id <= calls'
      BY <2>1, <3>4 DEF OrderInv
    <3>8. pc[Owner] \in {"lock", "take", "flush", "line"} => OwnersBefore(wire)'
      BY <1>a, <1>b, <1>c, <1>d, <2>1, <3>4 DEF OrderInv, OwnersBefore
    <3> QED
      BY <1>a, <1>b, <1>c, <1>d, <2>1, <2>2, <3>5, <3>6, <3>7, <3>8 DEF OrderInv, InOrder, Before, OwnersBefore
  <2> QED BY <1>12, <2>3, <2>4 DEF WriteFinalLine
<1>13. ASSUME NEW p \in Goroutines, CloseConn(p) PROVE OrderInv'
  BY <1>0, <1>13, OrderFrame DEF CloseConn, Goto, shared, locals, TypeOK, ControlInv, Holding
<1>14. ASSUME NEW p \in Goroutines, Unlock(p) PROVE OrderInv'
  <2>1. /\ pc[p] = "unlock" /\ buffers' = buffers /\ calls' = calls /\ wire' = wire
        /\ taken' = taken /\ pc' = [pc EXCEPT ![p] = "check"]
        /\ data' = IF p = Owner THEN NoLine ELSE data
    BY <1>14 DEF Unlock, Goto, shared
  <2>2. CASE p = Owner
    <3>1. pc'[Owner] = "check"
      BY <1>0, <2>1, <2>2 DEF TypeOK
    <3> QED BY <1>a, <1>b, <1>c, <1>d, <2>1, <3>1 DEF OrderInv, WireOrder, InOrder, Before
  <2>3. CASE p # Owner
    BY <1>0, <2>1, <2>3, OrderFrame DEF TypeOK
  <2> QED BY <2>2, <2>3
<1>15. ASSUME NEW p \in Goroutines, CheckReady(p) PROVE OrderInv'
  BY <1>0, <1>15, OrderFrame DEF CheckReady, Goto, shared, locals, TypeOK, ControlInv, Holding
<1>20. CASE UNCHANGED vars
  BY <1>20, OrderFrame DEF vars
<1> QED
  BY <1>20, <1>1, <1>2, <1>3, <1>4, <1>5, <1>6, <1>7, <1>8, <1>9, <1>10, <1>11, <1>12, <1>13, <1>14, <1>15 DEF Next, Call, Step

-----------------------------------------------------------------------------
(***************************************************************************)
(* The theorems.                                                           *)
(***************************************************************************)
LEMMA SocketInvariant == Spec => [](TypeOK /\ SocketInv)
<1>1. Init => TypeOK /\ SocketInv
  <2> SUFFICES ASSUME Init PROVE TypeOK /\ SocketInv
    OBVIOUS
  <2>1. TypeOK /\ ControlInv
    BY InitType
  <2>2. \A p \in Goroutines : pc[p] = "idle" /\ taken[p] = <<>>
    BY DEF Init
  <2>3. LockInv
    BY <2>2 DEF Init, LockInv, MutualExclusion, Holding
  <2>4. NoLostWakeup
    BY DEF Init, NoLostWakeup, readyToWrite
  <2>5. Owner \in Goroutines
    BY SocketAssumption DEF Goroutines
  <2>6. OrderInv
    BY <2>2, <2>5 DEF Init, OrderInv, WireOrder, InOrder, Before
  <2> QED BY <2>1, <2>3, <2>4, <2>6 DEF SocketInv
<1>2. TypeOK /\ SocketInv /\ [Next]_vars => (TypeOK /\ SocketInv)'
  BY NextType, NextLock, NextWakeup, NextOrder DEF SocketInv
<1> QED BY <1>1, <1>2, PTL DEF Spec

(* The variables of the socket keep their types, for every instance.       *)
THEOREM SocketTypeCorrect == Spec => []TypeOK
  BY SocketInvariant, PTL

(* "MUST provide mutual exclusion for socket.conn.Write" (socket.go:78):   *)
(* holds however many goroutines write, close and block on the socket.     *)
THEOREM SocketMutualExclusion == Spec => []MutualExclusion
<1>1. SocketInv => MutualExclusion
  BY DEF SocketInv, LockInv
<1> QED BY <1>1, SocketInvariant, PTL

(* A trylock that fails in wakeWriter or send never strands data: whenever *)
(* there is something to write, a goroutine still has to look.             *)
THEOREM SocketNoLostWakeup == Spec => []NoLostWakeup
<1>1. SocketInv => NoLostWakeup
  BY DEF SocketInv
<1> QED BY <1>1, SocketInvariant, PTL

(* "MUST NOT reorder messages" (socket.go:77), with BlockingWrite's lines  *)
(* under "the same ordering guarantees as Write".                          *)
THEOREM SocketWireOrder == Spec => []WireOrder
<1>1. SocketInv => WireOrder
  BY DEF SocketInv, OrderInv
<1> QED BY <1>1, SocketInvariant, PTL

-----------------------------------------------------------------------------
(***************************************************************************)
(* Refinement: the socket is an OutputStream.                              *)
(***************************************************************************)

(* The connection is closed by whoever finalized the socket, or about to   *)
(* be closed by it.                                                        *)
FinalInv ==
    /\ finalized => closed
    /\ \A p \in Goroutines : pc[p] \in {"final", "close"} => finalized
    /\ finalized => conn = "closed" \/ \E p \in Goroutines : pc[p] \in {"final", "close"}

(* Every step keeps the facts about the final line.                        *)
LEMMA NextFinal ==
    TypeOK /\ ControlInv /\ LockInv /\ FinalInv /\ [Next]_vars => FinalInv'
<1> SUFFICES ASSUME TypeOK, ControlInv, LockInv, FinalInv, [Next]_vars PROVE FinalInv'
  OBVIOUS
<1> USE SocketAssumption
<1>0. Owner \in Goroutines /\ Callers \subseteq Goroutines /\ Senders \subseteq Goroutines
  BY DEF Goroutines
<1>1. ASSUME NEW c \in Callers, NEW n \in Sizes, Write(c, n) PROVE FinalInv'
  <2>1. UNCHANGED <<finalized, conn>> /\ pc' = [pc EXCEPT ![c] = "wake"] /\ pc[c] = "idle"
    BY <1>1 DEF Write, Goto
  <2>2. closed' = closed \/ closed' = TRUE
    BY <1>1 DEF Write
  <2> QED BY <1>0, <2>1, <2>2 DEF FinalInv, TypeOK
<1>2. ASSUME NEW c \in Callers, Close(c) PROVE FinalInv'
  BY <1>0, <1>2 DEF Close, FinalInv, TypeOK, Goto
<1>3. ASSUME NEW c \in Callers, SetFinalData(c) PROVE FinalInv'
  BY <1>0, <1>3 DEF SetFinalData, FinalInv, TypeOK, Goto
<1>4. ASSUME NEW c \in Callers, NEW n \in Sizes, BlockingWrite(c, n) PROVE FinalInv'
  BY <1>0, <1>4 DEF BlockingWrite, FinalInv, TypeOK, Goto, shared
<1>5. ASSUME NEW c \in Callers, wakeWriter(c) PROVE FinalInv'
  BY <1>0, <1>5 DEF wakeWriter, FinalInv, TypeOK, Goto, shared
<1>6. CASE LockWrite(Owner)
  BY <1>0, <1>6 DEF LockWrite, FinalInv, TypeOK, Goto, shared
<1>7. CASE WriteLine(Owner)
  BY <1>0, <1>7 DEF WriteLine, FinalInv, TypeOK, Goto, shared
<1>8. ASSUME NEW s \in Senders, RetryLock(s) PROVE FinalInv'
  BY <1>0, <1>8 DEF RetryLock, FinalInv, TypeOK, Goto, shared
<1>9. ASSUME NEW p \in Goroutines, TakeBuffers(p) PROVE FinalInv'
  BY <1>9 DEF TakeBuffers, FinalInv, TypeOK, Goto
<1>10. ASSUME NEW p \in Goroutines, FlushLines(p) PROVE FinalInv'
  BY <1>10 DEF FlushLines, FinalInv, TypeOK, Goto, AfterWrite, shared
<1>11. ASSUME NEW p \in Goroutines, Finalize(p) PROVE FinalInv'
  BY <1>11 DEF Finalize, FinalInv, TypeOK, Goto
<1>12. ASSUME NEW p \in Goroutines, WriteFinalLine(p) PROVE FinalInv'
  BY <1>12 DEF WriteFinalLine, FinalInv, TypeOK, Goto, shared
<1>13. ASSUME NEW p \in Goroutines, CloseConn(p) PROVE FinalInv'
  BY <1>13 DEF CloseConn, FinalInv, TypeOK, Goto, shared
<1>14. ASSUME NEW p \in Goroutines, Unlock(p) PROVE FinalInv'
  BY <1>14 DEF Unlock, FinalInv, TypeOK, Goto, shared
<1>15. ASSUME NEW p \in Goroutines, CheckReady(p) PROVE FinalInv'
  BY <1>15 DEF CheckReady, FinalInv, TypeOK, Goto, shared
<1>20. CASE UNCHANGED vars
  BY <1>20 DEF vars, FinalInv
<1> QED
  BY <1>20, <1>1, <1>2, <1>3, <1>4, <1>5, <1>6, <1>7, <1>8, <1>9, <1>10, <1>11, <1>12, <1>13, <1>14, <1>15 DEF Next, Call, Step

(* The facts about the final line are invariant.                           *)
LEMMA FinalInvariant == Spec => []FinalInv
<1>1. Init => FinalInv
  BY DEF Init, FinalInv
<1> QED BY <1>1, NextFinal, SocketInvariant, PTL DEF Spec, SocketInv

(* What the stream holds: only the holder of writeLock has taken lines.    *)
LEMMA HolderPending ==
    ASSUME TypeOK, ControlInv, LockInv, NEW p \in Goroutines, pc[p] \in Holding
    PROVE  streamPending = IF streamUp THEN taken[p] \o buffers ELSE <<>>
<1>1. \A q \in Goroutines : taken[q] # <<>> => q = p
  BY DEF ControlInv, LockInv, MutualExclusion, Holding
<1>2. CASE taken[p] = <<>>
  <2>1. taken[p] \o buffers = buffers
    BY <1>2, ConcatEmptySeq DEF TypeOK
  <2> QED BY <1>1, <1>2, <2>1 DEF streamPending
<1>3. CASE taken[p] # <<>>
  <2>1. (CHOOSE q \in Goroutines : taken[q] # <<>>) = p
    BY <1>1, <1>3
  <2> QED BY <1>3, <2>1 DEF streamPending
<1> QED BY <1>2, <1>3

(* Between two writes the stream holds what is in the buffers.             *)
LEMMA NobodyPending ==
    ASSUME \A q \in Goroutines : taken[q] = <<>>
    PROVE  streamPending = IF streamUp THEN buffers ELSE <<>>
BY DEF streamPending

(* Steps that the stream does not notice.                                  *)
LEMMA Unnoticed ==
    ASSUME UNCHANGED <<closed, finalized, wire, taken, buffers>>,
           \A p \in Goroutines : pc'[p] = "finalize" <=> pc[p] = "finalize",
           \A p \in Goroutines : pc'[p] = "final" <=> pc[p] = "final"
    PROVE  UNCHANGED Stream!vars
<1>1. streamUp' = streamUp /\ streamEnded' = streamEnded
  BY DEF streamUp, streamEnded
<1>2. streamPending' = streamPending
  BY <1>1 DEF streamPending
<1> QED BY <1>1, <1>2 DEF Stream!vars

(* A line is appended: submitted, unless the stream is down.               *)
LEMMA WriteRefines ==
    ASSUME TypeOK, SocketInv, FinalInv, NEW c \in Callers, NEW n \in Sizes, Write(c, n)
    PROVE  [Stream!Next]_(Stream!vars)
<1> USE SocketAssumption
<1>0. c \in Goroutines
  BY DEF Goroutines
<1>1. /\ UNCHANGED <<finalized, wire, taken>> /\ pc' = [pc EXCEPT ![c] = "wake"] /\ pc[c] = "idle"
  BY DEF Write, Goto, locals
<1>2. /\ \A p \in Goroutines : pc'[p] = "finalize" <=> pc[p] = "finalize"
      /\ \A p \in Goroutines : pc'[p] = "final" <=> pc[p] = "final"
  BY <1>0, <1>1 DEF TypeOK
<1>3. CASE UNCHANGED <<buffers, closed>>
  BY <1>1, <1>2, <1>3, Unnoticed
<1>4. streamUp' = streamUp /\ streamEnded' = streamEnded
  BY <1>1, <1>2 DEF streamUp, streamEnded
<1>5. CASE buffers' = buffers /\ ~closed /\ closed'
  <2>1. streamPending' = streamPending
    BY <1>1, <1>4, <1>5 DEF streamPending
  <2>2. Stream!Close
    BY <1>1, <1>4, <1>5, <2>1 DEF Stream!Close
  <2> QED BY <2>2 DEF Stream!Next
<1>6. CASE ~closed /\ closed' = closed /\ buffers' = Append(buffers, NewLine(c, n, TRUE))
  <2>1. PICK l \in Line : l = NewLine(c, n, TRUE) /\ l.id = calls + 1
    <3>1. NewLine(c, n, TRUE) \in Line /\ NewLine(c, n, TRUE).id = calls + 1
      BY DEF Write, NewLine, Line, TypeOK
    <3> QED BY <3>1
  <2>2. buffers \in Seq(Line) /\ buffers' = Append(buffers, l)
    BY <1>6, <2>1 DEF TypeOK
  <2>3. CASE ~streamUp
    <3>1. streamPending = <<>> /\ streamPending' = <<>>
      BY <1>4, <2>3 DEF streamPending
    <3> QED BY <1>1, <1>4, <1>6, <3>1 DEF Stream!vars
  <2>4. CASE streamUp
    <3>1. PICK t \in Seq(Line) : /\ streamPending = t \o buffers
                                 /\ streamPending' = t \o buffers'
                                 /\ \A k \in 1 .. Len(t) : t[k].id <= calls
      <4>1. CASE \A p \in Goroutines : taken[p] = <<>>
        <5>1. streamPending = buffers /\ streamPending' = buffers'
          BY <1>1, <1>4, <2>4, <4>1 DEF streamPending
        <5>2. <<>> \o buffers = buffers /\ <<>> \o buffers' = buffers' /\ <<>> \in Seq(Line) /\ Len(<<>>) = 0
          BY <2>2, ConcatEmptySeq, AppendProperties
        <5>3. \A k \in 1 .. Len(<<>>) : <<>>[k].id <= calls
          BY <5>2
        <5> QED BY <5>1, <5>2, <5>3
      <4>2. CASE \E p \in Goroutines : taken[p] # <<>>
        <5>1. PICK p \in Goroutines : p = CHOOSE q \in Goroutines : taken[q] # <<>>
          BY <4>2
        <5>2. streamPending = taken[p] \o buffers /\ streamPending' = taken[p] \o buffers'
          BY <1>1, <1>4, <2>4, <4>2, <5>1 DEF streamPending
        <5>3. taken[p] \in Seq(Line) /\ \A k \in 1 .. Len(taken[p]) : taken[p][k].id <= calls
          BY DEF TypeOK, SocketInv, OrderInv, InOrder
        <5> QED BY <5>2, <5>3
      <4> QED BY <4>1, <4>2
    <3>2. streamPending' = Append(streamPending, l)
      BY <2>2, <3>1
    <3>3. \A k \in 1 .. Len(streamPending) : streamPending[k].id < l.id
      <4>1. calls \in Nat /\ \A m \in Line : m.id \in Nat
        BY DEF TypeOK, Line
      <4>2. \A k \in 1 .. Len(buffers) : buffers[k].id <= calls
        BY DEF SocketInv, OrderInv, InOrder
      <4>4. l.id = calls + 1 /\ calls \in Nat
        BY <2>1, <4>1
      <4>5. \A i \in Nat : i <= calls => i < l.id
        BY <4>4
      <4> SUFFICES ASSUME NEW k \in 1 .. Len(streamPending) PROVE streamPending[k].id < l.id
        OBVIOUS
      <4>3. SUFFICES streamPending[k].id <= calls /\ streamPending[k] \in Line
        BY <4>1, <4>5
      <4>6. CASE k <= Len(t)
        <5>1. streamPending[k] = t[k] /\ k \in 1 .. Len(t)
          BY <2>2, <3>1, <4>6
        <5> QED BY <3>1, <5>1
      <4>7. CASE k > Len(t)
        <5>1. streamPending[k] = buffers[k - Len(t)] /\ k - Len(t) \in 1 .. Len(buffers)
          BY <2>2, <3>1, <4>7
        <5> QED BY <2>2, <4>2, <5>1
      <4> QED BY <3>1, <4>6, <4>7
    <3>4. Stream!Submit
      BY <1>1, <1>4, <1>6, <2>4, <3>2, <3>3 DEF Stream!Submit
    <3> QED BY <3>4 DEF Stream!Next
  <2> QED BY <2>3, <2>4
<1> QED BY <1>3, <1>5, <1>6 DEF Write

(* Lines that were taken go out, or the connection fails.                  *)
LEMMA FlushRefines ==
    ASSUME TypeOK, SocketInv, FinalInv, NEW p \in Goroutines, FlushLines(p)
    PROVE  [Stream!Next]_(Stream!vars)
<1> DEFINE t == taken[p]
<1>0. /\ pc[p] = "flush" /\ t \in Seq(Line) /\ buffers \in Seq(Line) /\ wire \in Seq(Line \cup FinalLines)
      /\ UNCHANGED <<closed, finalized, buffers, conn>> /\ taken' = [taken EXCEPT ![p] = <<>>]
  BY DEF FlushLines, TypeOK, shared
<1>1. \A q \in Goroutines : q # p => pc[q] \notin Holding
  BY <1>0 DEF SocketInv, LockInv, MutualExclusion, Holding
<1>2. \A q \in Goroutines : q # p => pc'[q] = pc[q]
  BY DEF FlushLines, Goto, TypeOK
<1>3. \A q \in Goroutines : taken'[q] = <<>>
  BY <1>0, <1>1 DEF SocketInv, ControlInv, TypeOK, Holding
<1>4. streamUp <=> ~finalized
  BY <1>0, <1>1 DEF streamUp, Holding
<1>5. streamUp' <=> ~finalized /\ pc'[p] # "finalize"
  BY <1>0, <1>1, <1>2 DEF streamUp, Holding
<1>6. streamEnded' = streamEnded
  <2>1. pc'[p] # "final"
    BY DEF FlushLines, Goto, AfterWrite, TypeOK
  <2> QED BY <1>0, <1>1, <1>2, <2>1 DEF streamEnded, Holding
<1>7. streamPending = IF streamUp THEN t \o buffers ELSE <<>>
  BY <1>0, HolderPending DEF SocketInv, Holding
<1>8. streamPending' = IF streamUp' THEN buffers ELSE <<>>
  BY <1>0, <1>3 DEF streamPending
<1>9. PICK k \in 0 .. Len(t) : /\ wire' = wire \o SubSeq(t, 1, k)
                               /\ finalized => wire' = wire
                               /\ pc'[p] # "finalize" => k = Len(t)
  <2>1. CASE wire' = wire \o t /\ (conn = "open" \/ t = <<>>)
    <3>1. SubSeq(t, 1, Len(t)) = t /\ Len(t) \in 0 .. Len(t)
      BY <1>0, SubSeqFull
    <3>2. finalized => wire' = wire
      BY <1>0, <1>1, <2>1, ConcatEmptySeq DEF FinalInv, Holding, TypeOK
    <3> QED BY <2>1, <3>1, <3>2
  <2>2. ASSUME NEW k \in 0 .. Len(t), conn = "open" \/ k = 0, wire' = wire \o SubSeq(t, 1, k), pc'[p] = "finalize"
        PROVE  finalized => wire' = wire
    <3>1. SubSeq(t, 1, 0) = <<>> /\ wire \o <<>> = wire
      BY <1>0, SubSeqEmpty, ConcatEmptySeq
    <3> QED BY <1>0, <1>1, <2>2, <3>1 DEF FinalInv, Holding, TypeOK
  <2>3. pc' = [pc EXCEPT ![p] = "finalize"] => pc'[p] = "finalize"
    BY DEF TypeOK
  <2> QED BY <2>1, <2>2, <2>3 DEF FlushLines, Goto
<1> HIDE DEF t
<1>10. CASE finalized
  BY <1>0, <1>4, <1>5, <1>6, <1>7, <1>8, <1>9, <1>10 DEF Stream!vars
<1>11. CASE ~finalized
  <2>1. Len(t \o buffers) = Len(t) + Len(buffers) /\ Len(t) \in Nat /\ Len(buffers) \in Nat
    BY <1>0
  <2>2. SubSeq(t, 1, k) = SubSeq(t \o buffers, 1, k)
    BY <1>0, SubSeqOfConcat1, SubSeqEmpty
  <2>3. streamUp /\ streamPending = t \o buffers /\ k \in 0 .. Len(streamPending)
    BY <1>4, <1>7, <1>9, <1>11, <2>1
  <2>4. CASE pc'[p] = "finalize"
    <3>1. ~streamUp' /\ streamPending' = <<>>
      BY <1>5, <1>8, <2>4
    <3>2. \E i \in 0 .. Len(streamPending) : wire' = wire \o SubSeq(streamPending, 1, i)
      BY <1>9, <2>2, <2>3
    <3>3. streamUp' = FALSE /\ streamUp /\ (~closed)' = ~closed
      BY <1>0, <2>3, <3>1
    <3>4. Stream!Fail
      BY <1>6, <3>1, <3>2, <3>3 DEF Stream!Fail
    <3> QED BY <3>4 DEF Stream!Next
  <2>5. CASE pc'[p] # "finalize" /\ t = <<>>
    <3>1. wire' = wire /\ streamPending' = streamPending
      BY <1>0, <1>5, <1>8, <1>9, <1>11, <2>3, <2>5, SubSeqEmpty, ConcatEmptySeq
    <3> QED BY <1>0, <1>5, <1>6, <1>11, <2>3, <2>5, <3>1 DEF Stream!vars
  <2>6. CASE pc'[p] # "finalize" /\ t # <<>>
    <3>1. k = Len(t) /\ k \in 1 .. Len(streamPending)
      BY <1>0, <1>9, <2>1, <2>3, <2>6
    <3>2. SubSeq(t \o buffers, k + 1, Len(t \o buffers)) = buffers
      <4>1. CASE Len(buffers) = 0
        BY <1>0, <2>1, <3>1, <4>1, SubSeqEmpty
      <4>2. CASE Len(buffers) # 0
        <5>1. SubSeq(t \o buffers, k + 1, Len(t \o buffers)) = SubSeq(buffers, 1, Len(buffers))
          BY <1>0, <2>1, <3>1, <4>2, SubSeqOfConcat2
        <5> QED BY <1>0, <5>1, SubSeqFull
      <4> QED BY <4>1, <4>2
    <3>3. streamUp' = streamUp /\ streamPending' = SubSeq(streamPending, k + 1, Len(streamPending))
      BY <1>5, <1>8, <1>11, <2>3, <2>6, <3>2
    <3>4. Stream!Flush
      BY <1>0, <1>6, <1>9, <2>2, <2>3, <3>1, <3>3 DEF Stream!Flush
    <3> QED BY <3>4 DEF Stream!Next
  <2> QED BY <2>4, <2>5, <2>6
<1> QED BY <1>10, <1>11

(* A caller closes the socket.                                             *)
LEMMA CloseRefines ==
    ASSUME TypeOK, SocketInv, NEW c \in Callers, Close(c)
    PROVE  [Stream!Next]_(Stream!vars)
<1>0. c \in Goroutines
  BY DEF Goroutines
<1>1. /\ UNCHANGED <<finalized, wire, taken, buffers>> /\ closed' = TRUE
      /\ pc' = [pc EXCEPT ![c] = "wake"] /\ pc[c] = "idle"
  BY DEF Close, Goto, locals
<1>2. /\ \A p \in Goroutines : pc'[p] = "finalize" <=> pc[p] = "finalize"
      /\ \A p \in Goroutines : pc'[p] = "final" <=> pc[p] = "final"
  BY <1>0, <1>1 DEF TypeOK
<1>3. CASE closed
  <2>1. closed' = closed
    BY <1>1, <1>3 DEF TypeOK
  <2> QED BY <1>1, <1>2, <2>1, Unnoticed
<1>4. CASE ~closed
  <2>1. streamUp' = streamUp /\ streamEnded' = streamEnded
    BY <1>1, <1>2 DEF streamUp, streamEnded
  <2>2. streamPending' = streamPending
    BY <1>1, <2>1 DEF streamPending
  <2>3. Stream!Close
    BY <1>1, <1>4, <2>1, <2>2 DEF Stream!Close
  <2> QED BY <2>3 DEF Stream!Next
<1> QED BY <1>3, <1>4

(* The holder takes the lines: they still wait.                            *)
LEMMA TakeRefines ==
    ASSUME TypeOK, SocketInv, NEW p \in Goroutines, TakeBuffers(p)
    PROVE  [Stream!Next]_(Stream!vars)
<1>1. /\ pc[p] = "take" /\ UNCHANGED <<closed, finalized, wire>> /\ buffers' = <<>>
      /\ pc' = [pc EXCEPT ![p] = "flush"] /\ taken' = [taken EXCEPT ![p] = buffers]
  BY DEF TakeBuffers, Goto
<1>2. /\ \A q \in Goroutines : pc'[q] = "finalize" <=> pc[q] = "finalize"
      /\ \A q \in Goroutines : pc'[q] = "final" <=> pc[q] = "final"
  BY <1>1 DEF TypeOK
<1>3. streamUp' = streamUp /\ streamEnded' = streamEnded
  BY <1>1, <1>2 DEF streamUp, streamEnded
<1>4. \A q \in Goroutines : taken[q] = <<>> /\ (q # p => taken'[q] = <<>>)
  BY <1>1 DEF SocketInv, ControlInv, LockInv, MutualExclusion, Holding, TypeOK
<1>5. taken'[p] = buffers /\ buffers \o <<>> = buffers
  BY <1>1, ConcatEmptySeq DEF TypeOK
<1>6. streamPending = IF streamUp THEN buffers ELSE <<>>
  BY <1>4, NobodyPending
<1>7. streamPending' = IF streamUp' THEN buffers ELSE <<>>
  <2>1. CASE buffers = <<>>
    BY <1>1, <1>4, <1>5, <2>1 DEF streamPending
  <2>2. CASE buffers # <<>>
    <3>1. (CHOOSE q \in Goroutines : taken'[q] # <<>>) = p
      BY <1>4, <1>5, <2>2
    <3> QED BY <1>1, <1>5, <2>2, <3>1 DEF streamPending
  <2> QED BY <2>1, <2>2
<1> QED BY <1>1, <1>3, <1>6, <1>7 DEF Stream!vars

(* BlockingWrite's line: nothing older waits.                              *)
LEMMA LineRefines ==
    ASSUME TypeOK, SocketInv, FinalInv, WriteLine(Owner)
    PROVE  [Stream!Next]_(Stream!vars)
<1> USE SocketAssumption
<1>0. Owner \in Goroutines
  BY DEF Goroutines
<1>1. /\ pc[Owner] = "line" /\ UNCHANGED <<closed, finalized, taken, buffers>>
      /\ \/ conn = "open" /\ wire' = Append(wire, data) /\ pc' = [pc EXCEPT ![Owner] = "unlock"]
         \/ wire' = wire /\ pc' = [pc EXCEPT ![Owner] = "finalize"]
  BY DEF WriteLine, Goto, shared, locals
<1>2. \A q \in Goroutines : q # Owner => pc[q] \notin Holding /\ pc'[q] = pc[q]
  BY <1>0, <1>1 DEF SocketInv, LockInv, MutualExclusion, Holding, TypeOK
<1>3. \A q \in Goroutines : taken[q] = <<>>
  BY <1>1, <1>2 DEF SocketInv, ControlInv, Holding
<1>4. streamUp <=> ~finalized
  BY <1>1, <1>2 DEF streamUp, Holding
<1>5. streamPending = IF streamUp THEN buffers ELSE <<>>
  BY <1>3, NobodyPending
<1>6. streamPending' = IF streamUp' THEN buffers ELSE <<>>
  BY <1>1, <1>3 DEF streamPending
<1>7. pc'[Owner] \in {"unlock", "finalize"} /\ streamEnded' = streamEnded
  <2>1. pc'[Owner] \in {"unlock", "finalize"}
    BY <1>0, <1>1 DEF TypeOK
  <2> QED BY <1>1, <1>2, <2>1 DEF streamEnded, Holding
<1>8. CASE conn = "open" /\ wire' = Append(wire, data) /\ pc' = [pc EXCEPT ![Owner] = "unlock"]
  <2>1. ~finalized
    BY <1>1, <1>2, <1>8 DEF FinalInv, Holding
  <2>2. streamUp /\ streamUp' = streamUp
    BY <1>0, <1>1, <1>2, <1>4, <1>8, <2>1 DEF streamUp, Holding, TypeOK
  <2>3. streamPending = buffers /\ streamPending' = buffers
    BY <1>5, <1>6, <2>2
  <2>4. data \in Line /\ \A k \in 1 .. Len(buffers) : data.id < buffers[k].id
    BY <1>1 DEF SocketInv, ControlInv, OrderInv
  <2>5. Stream!Direct
    BY <1>1, <1>7, <1>8, <2>2, <2>3, <2>4 DEF Stream!Direct
  <2> QED BY <2>5 DEF Stream!Next
<1>9. CASE wire' = wire /\ pc' = [pc EXCEPT ![Owner] = "finalize"]
  <2>1. streamUp' = FALSE /\ streamPending' = <<>>
    BY <1>0, <1>6, <1>9 DEF streamUp, TypeOK
  <2>2. CASE finalized
    BY <1>1, <1>4, <1>5, <1>7, <1>9, <2>1, <2>2 DEF Stream!vars
  <2>3. CASE ~finalized
    <3>1. wire \o SubSeq(streamPending, 1, 0) = wire /\ 0 \in 0 .. Len(streamPending)
      BY <1>4, <1>5, <2>3, SubSeqEmpty, ConcatEmptySeq DEF TypeOK
    <3>2. \E k \in 0 .. Len(streamPending) : wire' = wire \o SubSeq(streamPending, 1, k)
      BY <1>9, <3>1
    <3>3. streamUp /\ (~closed)' = ~closed
      BY <1>1, <1>4, <2>3
    <3>4. Stream!Fail
      BY <1>7, <2>1, <3>2, <3>3 DEF Stream!Fail
    <3> QED BY <3>4 DEF Stream!Next
  <2> QED BY <2>2, <2>3
<1> QED BY <1>1, <1>8, <1>9

(* The socket is finalized once, and the final line is the stream's end.   *)
LEMMA FinalizeRefines ==
    ASSUME TypeOK, SocketInv, FinalInv, NEW p \in Goroutines, Finalize(p)
    PROVE  [Stream!Next]_(Stream!vars)
<1>1. /\ pc[p] = "finalize" /\ closed' = TRUE /\ finalized' = TRUE /\ UNCHANGED <<wire, taken, buffers>>
      /\ pc' = [pc EXCEPT ![p] = IF finalized THEN "unlock" ELSE "final"]
  BY DEF Finalize, Goto
<1>2. \A q \in Goroutines : q # p => pc[q] \notin Holding /\ pc'[q] = pc[q]
  BY <1>1 DEF SocketInv, LockInv, MutualExclusion, Holding, TypeOK
<1>3. streamUp = FALSE /\ streamUp' = FALSE
  BY <1>1 DEF streamUp
<1>4. streamPending = <<>> /\ streamPending' = <<>>
  BY <1>3 DEF streamPending
<1>5. pc'[p] = IF finalized THEN "unlock" ELSE "final"
  BY <1>1 DEF TypeOK
<1>6. streamEnded' = streamEnded
  BY <1>1, <1>2, <1>5 DEF streamEnded, Holding
<1>7. CASE closed
  <2>1. closed' = closed
    BY <1>1, <1>7 DEF TypeOK
  <2>2. streamUp' = streamUp
    BY <1>3
  <2>3. streamPending' = streamPending
    BY <1>4
  <2>4. (~closed)' = ~closed
    BY <2>1
  <2> QED BY <1>1, <1>6, <2>2, <2>3, <2>4 DEF Stream!vars
<1>8. CASE ~closed
  <2>1. Stream!Close
    BY <1>1, <1>3, <1>4, <1>6, <1>8 DEF Stream!Close
  <2> QED BY <2>1 DEF Stream!Next
<1> QED BY <1>7, <1>8

(* Sending the final line is a step of the stream.                         *)
LEMMA FinalLineRefines ==
    ASSUME TypeOK, SocketInv, FinalInv, NEW p \in Goroutines, WriteFinalLine(p)
    PROVE  [Stream!Next]_(Stream!vars)
<1>1. /\ pc[p] = "final" /\ UNCHANGED <<closed, finalized, taken, buffers>>
      /\ pc' = [pc EXCEPT ![p] = "close"]
      /\ \/ last[p] # NoLine /\ wire' = Append(wire, last[p])
         \/ wire' = wire
  BY DEF WriteFinalLine, Goto, shared, locals
<1>2. \A q \in Goroutines : q # p => pc[q] \notin Holding /\ pc'[q] = pc[q]
  BY <1>1 DEF SocketInv, LockInv, MutualExclusion, Holding, TypeOK
<1>3. finalized /\ closed
  BY <1>1 DEF FinalInv
<1>4. streamUp = FALSE /\ streamUp' = FALSE
  BY <1>1, <1>3 DEF streamUp
<1>5. streamPending = <<>> /\ streamPending' = <<>>
  BY <1>4 DEF streamPending
<1>6. streamEnded = FALSE
  BY <1>1 DEF streamEnded
<1>7. streamEnded' = TRUE
  BY <1>1, <1>2, <1>3 DEF streamEnded, Holding, TypeOK
<1>8. (\E l \in FinalLines : wire' = Append(wire, l)) \/ wire' = wire
  <2>1. last[p] # NoLine => last[p] \in FinalLines
    BY DEF TypeOK
  <2> QED BY <1>1, <2>1
<1>9. (~closed) = FALSE /\ (~closed)' = (~closed)
  BY <1>1, <1>3
<1>10. Stream!End
  BY <1>4, <1>5, <1>6, <1>7, <1>8, <1>9 DEF Stream!End
<1> QED BY <1>10 DEF Stream!Next

(* Every step of the socket is a step of the stream or leaves it as it is. *)
LEMMA NextRefines ==
    TypeOK /\ SocketInv /\ FinalInv /\ [Next]_vars => [Stream!Next]_(Stream!vars)
<1> SUFFICES ASSUME TypeOK, SocketInv, FinalInv, [Next]_vars PROVE [Stream!Next]_(Stream!vars)
  OBVIOUS
<1> USE SocketAssumption
<1>0. Owner \in Goroutines /\ Callers \subseteq Goroutines /\ Senders \subseteq Goroutines
  BY DEF Goroutines
<1>1. ASSUME NEW c \in Callers, NEW n \in Sizes, Write(c, n) PROVE [Stream!Next]_(Stream!vars)
  BY <1>1, WriteRefines
<1>2. ASSUME NEW c \in Callers, Close(c) PROVE [Stream!Next]_(Stream!vars)
  BY <1>2, CloseRefines
<1>3. ASSUME NEW c \in Callers, SetFinalData(c) PROVE [Stream!Next]_(Stream!vars)
  BY <1>0, <1>3, Unnoticed DEF SetFinalData, locals
<1>4. ASSUME NEW c \in Callers, NEW n \in Sizes, BlockingWrite(c, n) PROVE [Stream!Next]_(Stream!vars)
  BY <1>0, <1>4, Unnoticed DEF BlockingWrite, shared, Goto, TypeOK
<1>5. ASSUME NEW c \in Callers, wakeWriter(c) PROVE [Stream!Next]_(Stream!vars)
  BY <1>0, <1>5, Unnoticed DEF wakeWriter, shared, locals, Goto, TypeOK
<1>6. CASE LockWrite(Owner)
  BY <1>0, <1>6, Unnoticed DEF LockWrite, shared, locals, Goto, TypeOK
<1>7. CASE WriteLine(Owner)
  BY <1>7, LineRefines
<1>8. ASSUME NEW s \in Senders, RetryLock(s) PROVE [Stream!Next]_(Stream!vars)
  BY <1>0, <1>8, Unnoticed DEF RetryLock, shared, locals, Goto, TypeOK
<1>9. ASSUME NEW p \in Goroutines, TakeBuffers(p) PROVE [Stream!Next]_(Stream!vars)
  BY <1>9, TakeRefines
<1>10. ASSUME NEW p \in Goroutines, FlushLines(p) PROVE [Stream!Next]_(Stream!vars)
  BY <1>10, FlushRefines
<1>11. ASSUME NEW p \in Goroutines, Finalize(p) PROVE [Stream!Next]_(Stream!vars)
  BY <1>11, FinalizeRefines
<1>12. ASSUME NEW p \in Goroutines, WriteFinalLine(p) PROVE [Stream!Next]_(Stream!vars)
  BY <1>12, FinalLineRefines
<1>13. ASSUME NEW p \in Goroutines, CloseConn(p) PROVE [Stream!Next]_(Stream!vars)
  BY <1>13, Unnoticed DEF CloseConn, shared, locals, Goto, TypeOK
<1>14. ASSUME NEW p \in Goroutines, Unlock(p) PROVE [Stream!Next]_(Stream!vars)
  BY <1>14, Unnoticed DEF Unlock, shared, Goto, TypeOK
<1>15. ASSUME NEW p \in Goroutines, CheckReady(p) PROVE [Stream!Next]_(Stream!vars)
  BY <1>15, Unnoticed DEF CheckReady, shared, locals, Goto, TypeOK
<1>20. CASE UNCHANGED vars
  BY <1>20, Unnoticed DEF vars
<1> QED
  BY <1>20, <1>1, <1>2, <1>3, <1>4, <1>5, <1>6, <1>7, <1>8, <1>9, <1>10, <1>11, <1>12, <1>13, <1>14, <1>15 DEF Next, Call, Step

(* Through every interleaving of its goroutines the socket is the ordered  *)
(* stream that its callers are promised (socket.go): lines go out in the   *)
(* order of submission, nothing follows a failure but one final line, and  *)
(* nothing follows that.                                                   *)
THEOREM SocketImplementsStream == Spec => ImplementsOutputStream
<1>1. Init => Stream!Init
  <2> SUFFICES ASSUME Init PROVE Stream!Init
    OBVIOUS
  <2>1. \A p \in Goroutines : pc[p] = "idle" /\ taken[p] = <<>>
    BY DEF Init
  <2>2. streamUp = TRUE /\ streamEnded = FALSE
    BY <2>1 DEF Init, streamUp, streamEnded
  <2>3. streamPending = <<>>
    BY <2>1 DEF Init, streamPending
  <2> QED BY <2>2, <2>3 DEF Init, Stream!Init
<1> QED BY <1>1, NextRefines, SocketInvariant, FinalInvariant, PTL DEF Spec, ImplementsOutputStream, Stream!Spec

-----------------------------------------------------------------------------
(* The sendq. *)

(* What the socket counts is the sum of what waits.                        *)
Adds(sum, lines, total) ==
    /\ sum \in [0 .. Len(lines) -> 0 .. maxSendQBytes]
    /\ sum[0] = 0
    /\ \A k \in 1 .. Len(lines) : sum[k] = sum[k - 1] + lines[k].len
    /\ total = sum[Len(lines)]

LEMMA NextSendQ ==
    TypeOK /\ TypeOK' /\ SendQBounded /\ [Next]_vars => SendQBounded'
<1> SUFFICES ASSUME TypeOK, TypeOK', SendQBounded, [Next]_vars PROVE SendQBounded'
  OBVIOUS
<1>1. CASE UNCHANGED <<buffers, totalLength>>
  BY <1>1 DEF SendQBounded
<1>2. ASSUME buffers' = <<>>, totalLength' = 0
      PROVE  SendQBounded'
  <2>1. Len(buffers') = 0
    BY <1>2
  <2>2. Adds([k \in 0 .. 0 |-> 0], buffers', totalLength')
    BY <1>2, <2>1, SocketAssumption DEF Adds
  <2> QED BY Zenon, <2>2 DEF Adds, SendQBounded
<1>3. ASSUME NEW c \in Callers, NEW n \in Sizes, totalLength + n <= maxSendQBytes,
             buffers' = Append(buffers, NewLine(c, n, TRUE)), totalLength' = totalLength + n
      PROVE  SendQBounded'
  <2>1. PICK sum : Adds(sum, buffers, totalLength)
    BY Zenon DEF Adds, SendQBounded
  <2>2. n \in Nat /\ totalLength \in Nat /\ maxSendQBytes \in Nat /\ buffers \in Seq(Line) /\ Len(buffers) \in Nat
    BY SocketAssumption DEF TypeOK
  <2> DEFINE len == Len(buffers)
             more == [k \in 0 .. len + 1 |-> IF k = len + 1 THEN totalLength + n ELSE sum[k]]
  <2>3. /\ Len(buffers') = len + 1
        /\ \A k \in 1 .. len : buffers'[k] = buffers[k]
        /\ buffers'[len + 1].len = n
    BY <1>3, <2>2 DEF NewLine
  <2> HIDE DEF len
  <2>4. len \in Nat /\ len = Len(buffers)
    BY <2>2 DEF len
  <2>5. totalLength + n \in 0 .. maxSendQBytes
    BY <1>3, <2>2
  <2>6. /\ \A k \in 0 .. len : sum[k] \in 0 .. maxSendQBytes
        /\ sum[0] = 0 /\ totalLength = sum[len]
        /\ \A k \in 1 .. len : sum[k] = sum[k - 1] + buffers[k].len
    BY <2>1, <2>4 DEF Adds
  <2>7. /\ more \in [0 .. len + 1 -> 0 .. maxSendQBytes]
        /\ more[len + 1] = totalLength + n
        /\ \A k \in 0 .. len : more[k] = sum[k]
    BY <2>4, <2>5, <2>6
  <2> HIDE DEF more
  <2>8. ASSUME NEW k \in 1 .. len + 1
        PROVE  more[k] = more[k - 1] + buffers'[k].len
    <3>1. CASE k = len + 1
      BY <2>3, <2>4, <2>6, <2>7, <3>1
    <3>2. CASE k # len + 1
      <4>1. k \in 1 .. len /\ k \in 0 .. len /\ k - 1 \in 0 .. len
        BY <2>4, <3>2
      <4> QED BY <2>3, <2>6, <2>7, <4>1
    <3> QED BY <3>1, <3>2
  <2>9. more[0] = 0
    BY <2>4, <2>6, <2>7
  <2>10. Adds(more, buffers', totalLength')
    BY <1>3, <2>3, <2>7, <2>8, <2>9 DEF Adds
  <2> QED BY Zenon, <2>10 DEF Adds, SendQBounded
<1>4. \/ UNCHANGED <<buffers, totalLength>>
      \/ buffers' = <<>> /\ totalLength' = 0
      \/ \E c \in Callers, n \in Sizes :
           /\ totalLength + n <= maxSendQBytes
           /\ buffers' = Append(buffers, NewLine(c, n, TRUE)) /\ totalLength' = totalLength + n
  BY DEF Next, Call, Step, Write, Close, SetFinalData, BlockingWrite, wakeWriter, LockWrite, WriteLine, RetryLock,
         TakeBuffers, FlushLines, Finalize, WriteFinalLine, CloseConn, Unlock, CheckReady, vars, shared
<1> QED BY <1>1, <1>2, <1>3, <1>4

(* The lengths of the lines that wait add up to totalLength, which never   *)
(* exceeds the sendq limit, whoever writes while others flush, for lines   *)
(* and limits of any length (Write, performWrite).                         *)
THEOREM SocketSendQBounded == Spec => []SendQBounded
<1>1. Init => SendQBounded
  <2> SUFFICES ASSUME Init PROVE SendQBounded
    OBVIOUS
  <2>1. buffers = <<>> /\ totalLength = 0 /\ Len(buffers) = 0
    BY DEF Init
  <2>2. Adds([k \in 0 .. 0 |-> 0], buffers, totalLength)
    BY <2>1, SocketAssumption DEF Adds
  <2> QED BY Zenon, <2>2 DEF Adds, SendQBounded
<1> QED BY <1>1, NextSendQ, SocketTypeCorrect, PTL DEF Spec
=============================================================================
