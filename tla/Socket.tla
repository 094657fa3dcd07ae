------------------------------- MODULE Socket -------------------------------
(***************************************************************************)
(* The output side of one client connection (irc/socket.go).               *)
(*                                                                         *)
(* Any goroutine of the server may call Write or Close on a client's       *)
(* socket; the client's own goroutine may call BlockingWrite.  The lines   *)
(* that wait are kept in `buffers`; `writeLock` is used as a trylock that  *)
(* lets one goroutine at a time write to the connection: either a `send`   *)
(* goroutine started by wakeWriter or a caller inside BlockingWrite.       *)
(*                                                                         *)
(* One action is one critical section of the socket's mutex, one operation *)
(* on writeLock, or one call on the connection, so every interleaving of   *)
(* the goroutines at those points is a behaviour.                          *)
(***************************************************************************)
EXTENDS Integers, Sequences, FiniteSets

CONSTANTS
    Callers,        \* goroutines that use the socket
    Owner,          \* the client's own goroutine, which may block on it
    Senders,        \* bound: send goroutines that run at the same time
    Sizes,          \* the lengths of the lines that are written
    maxSendQBytes,  \* the sendq limit
    MaxCalls        \* bound: lines submitted in one behaviour

ASSUME SocketAssumption ==
    /\ Callers \cap Senders = {}
    /\ Owner \in Callers
    /\ Sizes \subseteq Nat \ {0}
    /\ maxSendQBytes \in Nat
    /\ MaxCalls \in Nat

VARIABLES
    buffers, totalLength, closed, sendQExceeded, finalData, finalized,
    writeLock,  \* is the trylock held?
    conn,       \* external: the IRCConn, "open" or "closed"
    wire,       \* what the peer was sent, in order
    calls,      \* lines submitted so far: the source of line ids
    pc,         \* where each goroutine is; "idle" is outside the socket
    taken,      \* performWrite's local copy of buffers
    sawClosed,  \* performWrite's local copy of closed
    data,       \* the line BlockingWrite was given
    last        \* finalize's local copy of the final line to send

vars == <<buffers, totalLength, closed, sendQExceeded, finalData, finalized,
          writeLock, conn, wire, calls, pc, taken, sawClosed, data, last>>

locals == <<taken, sawClosed, data, last>>
shared == <<buffers, totalLength, closed, sendQExceeded, finalData, finalized>>

Goroutines == Callers \cup Senders

(***************************************************************************)
(* A line carries its id: its place in the order of submission, which for  *)
(* Write is the moment of the append and for BlockingWrite the moment of   *)
(* the call.  `queued` tells a line of Write from a line of BlockingWrite. *)
(***************************************************************************)
Line == [id: 1 .. MaxCalls, by: Callers, queued: BOOLEAN, len: Sizes]
FinalLine == [id |-> 0, text |-> "quit"]
SendQExceededLine == [id |-> 0, text |-> "sendQExceeded"]
NoLine == [id |-> 0, text |-> "none"]
FinalLines == {FinalLine, SendQExceededLine}

NewLine(c, n, q) == [id |-> calls + 1, by |-> c, queued |-> q, len |-> n]

Goto(p, l) == pc' = [pc EXCEPT ![p] = l]

Init ==
    /\ buffers = <<>>
    /\ totalLength = 0
    /\ closed = FALSE
    /\ sendQExceeded = FALSE
    /\ finalData = FALSE
    /\ finalized = FALSE
    /\ writeLock = FALSE
    /\ conn = "open"
    /\ wire = <<>>
    /\ calls = 0
    /\ pc = [p \in Goroutines |-> "idle"]
    /\ taken = [p \in Goroutines |-> <<>>]
    /\ sawClosed = [p \in Goroutines |-> FALSE]
    /\ data = NoLine
    /\ last = [p \in Goroutines |-> NoLine]

-----------------------------------------------------------------------------
(***************************************************************************)
(* Calls.  Each ends in wakeWriter, or enters the blocking path.           *)
(***************************************************************************)

(* Write, a line of n bytes: rejected when the socket is closed, closes    *)
(* the socket when the sendq would overflow, appended otherwise.           *)
Write(c, n) ==
    /\ pc[c] = "idle"
    /\ calls < MaxCalls
    /\ calls' = calls + 1
    /\ \/ /\ closed
          /\ UNCHANGED <<buffers, totalLength, closed, sendQExceeded>>
       \/ /\ ~closed
          /\ totalLength + n > maxSendQBytes
          /\ sendQExceeded' = TRUE
          /\ closed' = TRUE
          /\ UNCHANGED <<buffers, totalLength>>
       \/ /\ ~closed
          /\ totalLength + n <= maxSendQBytes
          /\ buffers' = Append(buffers, NewLine(c, n, TRUE))
          /\ totalLength' = totalLength + n
          /\ UNCHANGED <<closed, sendQExceeded>>
    /\ Goto(c, "wake")
    /\ UNCHANGED <<finalData, finalized, writeLock, conn, wire, locals>>

(* What if: Close does not wake the writer.                                *)
CloseSilently(c) ==
    /\ pc[c] = "idle"
    /\ closed' = TRUE
    /\ UNCHANGED <<buffers, totalLength, sendQExceeded, finalData, finalized,
                   writeLock, conn, wire, calls, pc, locals>>

(* Close, called by anyone or by Read on EOF.                              *)
Close(c) ==
    /\ pc[c] = "idle"
    /\ closed' = TRUE
    /\ Goto(c, "wake")
    /\ UNCHANGED <<buffers, totalLength, sendQExceeded, finalData, finalized,
                   writeLock, conn, wire, calls, locals>>

SetFinalData(c) ==
    /\ pc[c] = "idle"
    /\ ~finalData
    /\ finalData' = TRUE
    /\ UNCHANGED <<buffers, totalLength, closed, sendQExceeded, finalized,
                   writeLock, conn, wire, calls, pc, locals>>

(* The call of BlockingWrite, by the client's own goroutine: it starts     *)
(* waiting for writeLock.                                                  *)
BlockingWrite(c, n) ==
    /\ c = Owner
    /\ pc[c] = "idle"
    /\ calls < MaxCalls
    /\ calls' = calls + 1
    /\ data' = NewLine(c, n, FALSE)
    /\ Goto(c, "lock")
    /\ UNCHANGED <<shared, writeLock, conn, wire, taken, sawClosed, last>>

(* What if: BlockingWrite goes on without having got writeLock.            *)
LockWriteNoWait(c) ==
    /\ pc[c] = "lock"
    /\ writeLock' = TRUE
    /\ Goto(c, "take")
    /\ UNCHANGED <<shared, conn, wire, calls, locals>>

(* writeLock.Lock() of BlockingWrite.                                      *)
LockWrite(c) ==
    /\ pc[c] = "lock"
    /\ ~writeLock
    /\ writeLock' = TRUE
    /\ Goto(c, "take")
    /\ UNCHANGED <<shared, conn, wire, calls, locals>>

(* wakeWriter: when the trylock succeeds a send goroutine starts with it.  *)
wakeWriter(c) ==
    /\ pc[c] = "wake"
    /\ \/ /\ writeLock
          /\ Goto(c, "idle")
          /\ UNCHANGED writeLock
       \/ /\ ~writeLock
          /\ writeLock' = TRUE
          /\ \E s \in Senders :
                /\ pc[s] = "idle"
                /\ pc' = [pc EXCEPT ![c] = "idle", ![s] = "take"]
    /\ UNCHANGED <<shared, conn, wire, calls, locals>>

-----------------------------------------------------------------------------
(***************************************************************************)
(* The holder of writeLock.                                                *)
(***************************************************************************)

(* What if: totalLength is not reset, or the buffer is not emptied.        *)
TakeBuffersKeepLength(p) ==
    /\ pc[p] = "take"
    /\ taken' = [taken EXCEPT ![p] = buffers]
    /\ sawClosed' = [sawClosed EXCEPT ![p] = closed]
    /\ buffers' = <<>>
    /\ Goto(p, "flush")
    /\ UNCHANGED <<totalLength, closed, sendQExceeded, finalData, finalized,
                   writeLock, conn, wire, calls, data, last>>

TakeBuffersKeepLines(p) ==
    /\ pc[p] = "take"
    /\ taken' = [taken EXCEPT ![p] = buffers]
    /\ sawClosed' = [sawClosed EXCEPT ![p] = closed]
    /\ totalLength' = 0
    /\ Goto(p, "flush")
    /\ UNCHANGED <<buffers, closed, sendQExceeded, finalData, finalized,
                   writeLock, conn, wire, calls, data, last>>

(* performWrite: take the buffered lines and empty the buffer.             *)
TakeBuffers(p) ==
    /\ pc[p] = "take"
    /\ taken' = [taken EXCEPT ![p] = buffers]
    /\ sawClosed' = [sawClosed EXCEPT ![p] = closed]
    /\ buffers' = <<>>
    /\ totalLength' = 0
    /\ Goto(p, "flush")
    /\ UNCHANGED <<closed, sendQExceeded, finalData, finalized, writeLock,
                   conn, wire, calls, data, last>>

AfterWrite(p) == IF p = Owner THEN "line" ELSE "unlock"

(* WriteLines(buffers): all lines are written, or the connection fails     *)
(* after some prefix of them.                                              *)
FlushLines(p) ==
    /\ pc[p] = "flush"
    /\ \/ /\ conn = "open" \/ taken[p] = <<>>
          /\ wire' = wire \o taken[p]
          /\ Goto(p, IF sawClosed[p] THEN "finalize" ELSE AfterWrite(p))
       \/ /\ taken[p] # <<>>
          /\ \E k \in 0 .. Len(taken[p]) :
                /\ conn = "open" \/ k = 0
                /\ wire' = wire \o SubSeq(taken[p], 1, k)
          /\ Goto(p, "finalize")
    /\ taken' = [taken EXCEPT ![p] = <<>>]
    /\ UNCHANGED <<shared, writeLock, conn, calls, sawClosed, data, last>>

(* BlockingWrite's own line, after everything that was buffered.           *)
WriteLine(c) ==
    /\ pc[c] = "line"
    /\ \/ /\ conn = "open"
          /\ wire' = Append(wire, data)
          /\ Goto(c, "unlock")
       \/ /\ Goto(c, "finalize")
          /\ UNCHANGED wire
    /\ UNCHANGED <<shared, writeLock, conn, calls, locals>>

(* finalize, the critical section: the first one to get here sends the     *)
(* final line and closes the connection.                                   *)
Finalize(p) ==
    /\ pc[p] = "finalize"
    /\ closed' = TRUE
    /\ finalized' = TRUE
    /\ Goto(p, IF finalized THEN "unlock" ELSE "final")
    /\ last' = [last EXCEPT ![p] =
                  IF sendQExceeded THEN SendQExceededLine
                  ELSE IF finalData THEN FinalLine ELSE NoLine]
    /\ UNCHANGED <<buffers, totalLength, sendQExceeded, finalData, writeLock,
                   conn, wire, calls, taken, sawClosed, data>>

(* finalize, the final line: an error of this write is ignored.            *)
WriteFinalLine(p) ==
    /\ pc[p] = "final"
    /\ \/ last[p] # NoLine /\ conn = "open" /\ wire' = Append(wire, last[p])
       \/ UNCHANGED wire
    /\ Goto(p, "close")
    /\ UNCHANGED <<shared, writeLock, conn, calls, locals>>

CloseConn(p) ==
    /\ pc[p] = "close"
    /\ conn' = "closed"
    /\ Goto(p, "unlock")
    /\ UNCHANGED <<shared, writeLock, wire, calls, locals>>

(* What if: the trylock is not released.                                   *)
UnlockForgotten(p) ==
    /\ pc[p] = "unlock"
    /\ sawClosed' = [sawClosed EXCEPT ![p] = FALSE]
    /\ last' = [last EXCEPT ![p] = NoLine]
    /\ data' = IF p = Owner THEN NoLine ELSE data
    /\ Goto(p, "check")
    /\ UNCHANGED <<shared, writeLock, conn, wire, calls, taken>>

Unlock(p) ==
    /\ pc[p] = "unlock"
    /\ writeLock' = FALSE
    /\ sawClosed' = [sawClosed EXCEPT ![p] = FALSE]
    /\ last' = [last EXCEPT ![p] = NoLine]
    /\ data' = IF p = Owner THEN NoLine ELSE data
    /\ Goto(p, "check")
    /\ UNCHANGED <<shared, conn, wire, calls, taken>>

(* What if: only a closed socket counts as ready.                          *)
readyIfClosed == ~finalized /\ closed

readyToWrite == ~finalized /\ (totalLength > 0 \/ closed)

(* What if: nobody looks for more data after releasing the trylock.        *)
CheckReadyNever(p) ==
    /\ pc[p] = "check"
    /\ Goto(p, "idle")
    /\ UNCHANGED <<shared, writeLock, conn, wire, calls, locals>>

(* After releasing the trylock, look for data that came in meanwhile.      *)
CheckReady(p) ==
    /\ pc[p] = "check"
    /\ Goto(p, IF ~readyToWrite THEN "idle"
               ELSE IF p = Owner THEN "wake" ELSE "retry")
    /\ UNCHANGED <<shared, writeLock, conn, wire, calls, locals>>

(* What if: send does not look at the result of TryLock.                   *)
RetryLockUnchecked(s) ==
    /\ pc[s] = "retry"
    /\ Goto(s, "take")
    /\ writeLock' = TRUE
    /\ UNCHANGED <<shared, conn, wire, calls, locals>>

(* send: take the trylock again, or leave the data to its new holder.      *)
RetryLock(s) ==
    /\ pc[s] = "retry"
    /\ Goto(s, IF writeLock THEN "idle" ELSE "take")
    /\ writeLock' = TRUE
    /\ UNCHANGED <<shared, conn, wire, calls, locals>>

-----------------------------------------------------------------------------
Call(c) ==
    \/ \E n \in Sizes : Write(c, n) \/ BlockingWrite(c, n)
    \/ Close(c)
    \/ SetFinalData(c)

Step(p) ==
    \/ TakeBuffers(p) \/ FlushLines(p)
    \/ Finalize(p) \/ WriteFinalLine(p) \/ CloseConn(p)
    \/ Unlock(p) \/ CheckReady(p)

Next ==
    \/ \E c \in Callers : Call(c) \/ wakeWriter(c)
    \/ LockWrite(Owner) \/ WriteLine(Owner)
    \/ \E s \in Senders : RetryLock(s)
    \/ \E p \in Goroutines : Step(p)

(***************************************************************************)
(* A goroutine inside the socket keeps running, a call on the connection   *)
(* returns, and Go's mutex does not starve a goroutine that waits in Lock. *)
(* Nobody has to call the socket.  TryLock never blocks: wakeWriter gets   *)
(* strong fairness because only the bound Senders can disable it.          *)
(***************************************************************************)
Fairness ==
    /\ WF_vars(WriteLine(Owner)) /\ SF_vars(LockWrite(Owner))
    /\ \A c \in Callers : SF_vars(wakeWriter(c))
    /\ \A s \in Senders : WF_vars(RetryLock(s))
    /\ \A p \in Goroutines : WF_vars(Step(p))

Spec == Init /\ [][Next]_vars
FairSpec == Spec /\ Fairness

-----------------------------------------------------------------------------
(***************************************************************************)
(* Properties.                                                             *)
(***************************************************************************)

Holding == {"take", "flush", "line", "finalize", "final", "close", "unlock"}
Locations == Holding \cup {"idle", "wake", "lock", "check", "retry"}

(* The variables of a Socket have their types.                             *)
TypeOK ==
    /\ buffers \in Seq(Line)
    /\ totalLength \in Nat
    /\ closed \in BOOLEAN
    /\ sendQExceeded \in BOOLEAN
    /\ finalData \in BOOLEAN
    /\ finalized \in BOOLEAN
    /\ writeLock \in BOOLEAN
    /\ conn \in {"open", "closed"}
    /\ wire \in Seq(Line \cup FinalLines)
    /\ calls \in 0 .. MaxCalls
    /\ pc \in [Goroutines -> Locations]
    /\ taken \in [Goroutines -> Seq(Line)]
    /\ sawClosed \in [Goroutines -> BOOLEAN]
    /\ data \in Line \cup {NoLine}
    /\ last \in [Goroutines -> FinalLines \cup {NoLine}]

(* "MUST provide mutual exclusion for socket.conn.Write": no two           *)
(* goroutines are between taking and releasing writeLock, although it is   *)
(* handed from wakeWriter to the goroutine it starts and taken by trylocks.*)
MutualExclusion ==
    \A p, q \in Goroutines : pc[p] \in Holding /\ pc[q] \in Holding => p = q

(* "else: do nothing, the holder will check for more data after releasing  *)
(* it": whenever there is something to write, or a closed socket to        *)
(* finalize, some goroutine still has its look at it ahead.                *)
NoLostWakeup ==
    readyToWrite =>
        \E p \in Goroutines : pc[p] \in Holding \cup {"wake", "check", "retry"}

(* "MUST NOT reorder messages" and "MUST respect the same ordering         *)
(* guarantees as Write": a queued line is on the wire after every line     *)
(* submitted before it, and the lines of one goroutine are in its order.   *)
WireOrder ==
    \A i, j \in 1 .. Len(wire) :
        /\ i < j
        /\ wire[i] \in Line /\ wire[j] \in Line
        /\ wire[j].queued \/ wire[i].by = wire[j].by
        => wire[i].id < wire[j].id

(* The sendq limit is honoured by what really waits: the lengths of the    *)
(* buffered lines add up to totalLength and never exceed maxSendQBytes.    *)
(* sum[k] is the length of the first k of them.                            *)
SendQBounded ==
    \E sum \in [0 .. Len(buffers) -> 0 .. maxSendQBytes] :
        /\ sum[0] = 0
        /\ \A k \in 1 .. Len(buffers) : sum[k] = sum[k - 1] + buffers[k].len
        /\ totalLength = sum[Len(buffers)]

(* A socket that was closed, by anyone and for any reason, has its         *)
(* connection closed eventually (as long as writes return).                *)
CloseReachesConn == closed ~> conn = "closed"

OnWire(i) == \E k \in 1 .. Len(wire) : wire[k].id = i

(* A line Write accepted reaches the wire unless the socket gets closed.   *)
AcceptedIsSent ==
    \A i \in 1 .. MaxCalls :
        (\E k \in 1 .. Len(buffers) : buffers[k].id = i)
            ~> (OnWire(i) \/ closed)

(* BlockingWrite is not stuck behind the send goroutines: it returns.      *)
BlockingWriteReturns ==
    pc[Owner] = "lock" ~> pc[Owner] = "idle"

(***************************************************************************)
(* The inductive invariant behind MutualExclusion, NoLostWakeup and        *)
(* WireOrder.                                                              *)
(***************************************************************************)

(* Who can be where, and when BlockingWrite's argument is live.            *)
ControlInv ==
    /\ \A p \in Goroutines :
          /\ pc[p] = "wake" => p \in Callers
          /\ pc[p] \in {"lock", "line"} => p = Owner
          /\ pc[p] = "retry" => p \in Senders
          /\ pc[p] \in Holding \cup {"check"} => p = Owner \/ p \in Senders
          /\ taken[p] # <<>> => pc[p] = "flush"
    /\ pc[Owner] \in {"lock", "take", "flush", "line"} => data \in Line

(* writeLock is held exactly when some goroutine is at the connection.     *)
LockInv ==
    /\ MutualExclusion
    /\ writeLock <=> \E p \in Goroutines : pc[p] \in Holding

(* Every line of s was submitted before every line of t.                   *)
Before(s, t) ==
    \A i \in 1 .. Len(s), j \in 1 .. Len(t) :
        s[i] \in Line => s[i].id < t[j].id

(* s holds lines of Write in the order of their submission.                *)
InOrder(s) ==
    /\ \A i \in 1 .. Len(s) : s[i].queued /\ s[i].id <= calls
    /\ \A i, j \in 1 .. Len(s) : i < j => s[i].id < s[j].id

(* Every line of the client's own goroutine in s is older than data.       *)
OwnersBefore(s) ==
    \A i \in 1 .. Len(s) :
        s[i] \in Line /\ s[i].by = Owner => s[i].id < data.id

(* Lines move from buffers to taken to the wire without overtaking, and    *)
(* BlockingWrite's line overtakes only lines appended after it took them.  *)
OrderInv ==
    /\ WireOrder
    /\ \A i \in 1 .. Len(wire) : wire[i] \in Line => wire[i].id <= calls
    /\ InOrder(buffers)
    /\ Before(wire, buffers)
    /\ \A p \in Goroutines :
          /\ InOrder(taken[p])
          /\ Before(wire, taken[p]) /\ Before(taken[p], buffers)
    /\ pc[Owner] \in {"lock", "take", "flush", "line"} =>
          /\ data.id <= calls /\ data.by = Owner /\ ~data.queued
          /\ OwnersBefore(wire) /\ OwnersBefore(buffers)
          /\ \A p \in Goroutines : OwnersBefore(taken[p])
    /\ pc[Owner] \in {"flush", "line"} =>
          \A k \in 1 .. Len(buffers) : data.id < buffers[k].id

SocketInv == ControlInv /\ LockInv /\ NoLostWakeup /\ OrderInv

(***************************************************************************)
(* What the socket promises its callers: OutputStream.  The stream is up   *)
(* while lines may still go out, and what it holds is what the lock        *)
(* holder took followed by what is buffered.                               *)
(***************************************************************************)
streamUp == ~finalized /\ \A p \in Goroutines : pc[p] # "finalize"

streamPending ==
    IF ~streamUp THEN <<>>
    ELSE IF \E p \in Goroutines : taken[p] # <<>>
         THEN taken[CHOOSE p \in Goroutines : taken[p] # <<>>] \o buffers
         ELSE buffers

streamEnded == finalized /\ \A p \in Goroutines : pc[p] # "final"

Stream == INSTANCE OutputStream WITH
            open <- ~closed, up <- streamUp, ended <- streamEnded,
            pending <- streamPending, wire <- wire

(* Refinement: through every interleaving the socket is an OutputStream.   *)
ImplementsOutputStream == Stream!Spec
=============================================================================
