------------------------------ MODULE Messages ------------------------------
(***************************************************************************)
(* The command loop of a session: fakelag, the response                    *)
(* buffer with its labels and batches, the client-to-server batches        *)
(* (multiline messages and TOKEN VALIDATE), and where a message goes.      *)
(*                                                                         *)
(* A session runs its commands one after another; the sessions of a client *)
(* run at the same time, and OPER or DEOPER in one of them resets the      *)
(* fakelag of all of them, although fakelag is not made for that.          *)
(*                                                                         *)
(* A line sent is [kind, id, batch, label]: a start or an end of a batch,  *)
(* or another line; the batch it is tagged with; the label it carries.     *)
(***************************************************************************)
EXTENDS Integers, Sequences, FiniteSets, SequencesExt

CONSTANTS
  SessionCaps,      \* sets of capabilities a session may have
  BurstLimit, CommandBudget, MessagesPerWindow,    \* fakelag configuration
  MaxLines,         \* lines of a multiline batch
  MaxTokenChunks,   \* MaxAuthTokenLength, in chunks
  MaxCommands       \* bound: commands of one session

ASSUME MessagesAssumption ==
  /\ BurstLimit \in Nat /\ CommandBudget \in Nat /\ MessagesPerWindow \in Nat /\ MaxLines \in Nat \ {0}
  /\ MaxTokenChunks \in Nat /\ MaxCommands \in Nat

VARIABLES
  cmdSession,   \* [multiline, token, fl, bill, n]
  sessionCaps,  \* its capabilities
  nofakelag,    \* the client is an operator without fakelag
  owed,         \* ghost: labels without an answer
  stray,        \* ghost: lines sent that are not a proper answer to the command
  foreign,      \* ghost: the fakelag was reset during a multiline batch
  quick         \* ghost: commands in a row without a pause or a delay

messageVars == <<cmdSession, sessionCaps, nofakelag, owed, stray, foreign, quick>>

HasCap(c) == c \in sessionCaps

-----------------------------------------------------------------------------
(* Fakelag.  The time since the last command: within the spacing of a      *)
(* throttled client, longer than that, or longer than the cooldown.        *)

FakelagInitialize(fl, enabled) == [fl EXCEPT !.enabled = enabled, !.budget = CommandBudget, !.state = "bursting"]

SuspendFakelag(fl) == IF fl.enabled THEN [fl EXCEPT !.suspended = TRUE, !.enabled = FALSE] ELSE fl

\* What if: fakelag stays off.
Unsuspend_Stays(fl) == [fl EXCEPT !.suspended = FALSE]

Unsuspend(fl) == IF fl.suspended THEN [fl EXCEPT !.suspended = FALSE, !.enabled = TRUE] ELSE fl

\* Without messages per window, wait for the cooldown and burst again.
Throttle(fl, elapsed) ==
  CASE elapsed = "long" -> [fl EXCEPT !.state = "bursting", !.burst = 1, !.slept = FALSE]
    [] elapsed # "long" /\ MessagesPerWindow > 0 -> [fl EXCEPT !.state = "throttled", !.slept = (elapsed = "short")]
    [] elapsed # "long" /\ MessagesPerWindow = 0 -> [fl EXCEPT !.state = "bursting", !.burst = 1, !.slept = TRUE]

\* `slept`: the command was delayed.
Touch(fl, budgeted, elapsed) ==
  LET count == IF elapsed = "long" THEN 1 ELSE fl.burst + 1
  IN CASE ~fl.enabled -> [fl EXCEPT !.slept = FALSE]
       [] fl.enabled /\ budgeted /\ fl.budget > 0 -> [fl EXCEPT !.budget = @ - 1, !.slept = FALSE]
       [] fl.enabled /\ ~(budgeted /\ fl.budget > 0) /\ fl.state = "bursting" ->
            IF count > BurstLimit THEN Throttle([fl EXCEPT !.burst = 0], elapsed)
            ELSE [fl EXCEPT !.burst = count, !.slept = FALSE]
       [] fl.enabled /\ ~(budgeted /\ fl.budget > 0) /\ fl.state = "throttled" -> Throttle(fl, elapsed)

-----------------------------------------------------------------------------
(* The response buffer: [label, batchID, nested, messages, next, sent]. *)

NewResponseBuffer(label) ==
  [label |-> label, batchID |-> 0, nested |-> <<>>, messages |-> <<>>, next |-> 1, sent |-> <<>>]

Line(kind, id) == [kind |-> kind, id |-> id, batch |-> 0, label |-> 0]

setNestedBatchTag(rb, m) == IF rb.nested = <<>> THEN m ELSE [m EXCEPT !.batch = Last(rb.nested)]

AddMessage(rb, m) == [rb EXCEPT !.messages = Append(@, setNestedBatchTag(rb, m))]

Reply(rb) == AddMessage(rb, Line("line", 0))

StartNestedBatch(rb) ==
  IF ~HasCap("batch") THEN rb
  ELSE [AddMessage(rb, Line("start", rb.next)) EXCEPT !.nested = Append(@, rb.next), !.next = @ + 1]

EndNestedBatch(rb) ==
  IF rb.nested = <<>> THEN rb
  ELSE LET id == Last(rb.nested) IN AddMessage([rb EXCEPT !.nested = Front(@)], Line("end", id))

\* A message of several lines is a batch of its own for those who can read one.
AddSplitMessageFromClient(rb, lines) ==
  LET id == rb.next
      batch == <<setNestedBatchTag(rb, Line("start", id))>>
               \o [k \in 1..lines |-> [Line("line", 0) EXCEPT !.batch = id]]
               \o <<setNestedBatchTag(rb, Line("end", id))>>
  IN CASE lines = 0 -> Reply(rb)
       [] lines > 0 /\ HasCap("multiline") -> [rb EXCEPT !.messages = @ \o batch, !.next = @ + 1]
       [] lines > 0 /\ ~HasCap("multiline") ->
            [rb EXCEPT !.messages = @ \o [k \in 1..lines |-> setNestedBatchTag(rb, Line("line", 0))]]

addEchoMessage(rb, lines) == IF HasCap("echo") THEN AddSplitMessageFromClient(rb, lines) ELSE rb

\* One nested batch and nothing else.
isCollapsible(rb) ==
  /\ rb.batchID = 0 /\ Len(rb.messages) >= 2
  /\ rb.messages[1].kind = "start" /\ Last(rb.messages).kind = "end"
  /\ rb.messages[1].id = Last(rb.messages).id

sendBatchStart(rb) ==
  IF rb.batchID # 0 THEN rb
  ELSE [rb EXCEPT !.batchID = rb.next, !.next = @ + 1,
                  !.sent = Append(@, [Line("start", rb.next) EXCEPT !.label = rb.label])]

sendBatchEnd(rb) == IF rb.batchID = 0 THEN rb ELSE [rb EXCEPT !.sent = Append(@, Line("end", rb.batchID))]

flushInternal(rb, final) ==
  LET labelled == HasCap("labeled-response") /\ rb.label # 0
      first == [rb EXCEPT !.messages[1].label = rb.label]
      begun == CASE ~labelled -> rb
                 [] labelled /\ final /\ isCollapsible(rb) -> first
                 [] labelled /\ ~(final /\ isCollapsible(rb)) /\ (~final \/ Len(rb.messages) >= 2) -> sendBatchStart(rb)
                 [] labelled /\ final /\ Len(rb.messages) = 1 -> IF rb.batchID = 0 THEN first ELSE rb
                 [] labelled /\ final /\ rb.messages = <<>> ->
                      IF rb.batchID = 0 THEN [rb EXCEPT !.sent = Append(@, [Line("line", 0) EXCEPT !.label = rb.label])] ELSE rb
      Tagged(m) == IF begun.batchID # 0 /\ m.batch = 0 THEN [m EXCEPT !.batch = begun.batchID] ELSE m
      out == [begun EXCEPT !.sent = @ \o [k \in DOMAIN begun.messages |-> Tagged(begun.messages[k])], !.messages = <<>>]
  IN IF final THEN sendBatchEnd(out) ELSE out

\* What other commands do with the buffer, as a sequence of calls.
Call(rb, c) ==
  CASE c = "line"  -> Reply(rb)
    [] c = "start" -> StartNestedBatch(rb)
    [] c = "end"   -> EndNestedBatch(rb)
    [] c = "echo"  -> addEchoMessage(rb, 0)
    [] c = "flush" -> flushInternal(rb, FALSE)

Calls(rb, script) ==
  LET after[k \in 0..Len(script)] == IF k = 0 THEN rb ELSE Call(after[k - 1], script[k])
  IN after[Len(script)]

-----------------------------------------------------------------------------
(* Where a message goes.  A situation is [to, flags, role, ...]; the result *)
(* is what is answered, who gets it and whether it is put into the history. *)

MessageRanks == [absent |-> 0, member |-> 1, voice |-> 2, halfop |-> 3, op |-> 4]
ChannelRoles == {"member", "voice", "halfop", "op"}     \* the other members, one of each

CanSpeak(x) ==
  /\ x.role = "absent" => "NoOutside" \notin x.flags
  /\ MessageRanks[x.role] <= 1 => /\ ~x.muted /\ "Moderated" \notin x.flags
                                  /\ "RegisteredOnlySpeak" \in x.flags => x.account

\* With OpModerated ordinary members are heard by half-operators and above.
SendSplitMessage(x) ==
  LET min == IF "OpModerated" \in x.flags /\ MessageRanks[x.role] <= 1 /\ MessageRanks[x.prefix] <= 2
             THEN "halfop" ELSE x.prefix
      error == IF x.notice THEN <<>> ELSE <<"line">>
  IN CASE ~CanSpeak(x) \/ (x.ctcp /\ "NoCTCP" \in x.flags) -> [calls |-> error, to |-> {}, stored |-> FALSE]
       [] ~(~CanSpeak(x) \/ (x.ctcp /\ "NoCTCP" \in x.flags)) ->
            [calls |-> <<"echo">>,
             to |-> {m \in ChannelRoles : MessageRanks[m] >= MessageRanks[min]},
             stored |-> min = "absent"]

\* A direct message: +T, defcon, +R and accepts.
SendDirectMessage(x) ==
  CASE x.ctcp /\ "UserNoCTCP" \in x.flags -> [calls |-> <<>>, to |-> {}, stored |-> FALSE]
    [] ~(x.ctcp /\ "UserNoCTCP" \in x.flags) /\ ~x.account
         /\ ("Defcon" \in x.flags \/ ("RegisteredOnly" \in x.flags /\ "Accepted" \notin x.flags)) ->
         [calls |-> <<"line">>, to |-> {}, stored |-> FALSE]
    [] ~(x.ctcp /\ "UserNoCTCP" \in x.flags)
         /\ (x.account \/ ("Defcon" \notin x.flags /\ ("RegisteredOnly" \in x.flags => "Accepted" \in x.flags))) ->
         [calls |-> IF "Away" \in x.flags /\ ~x.notice THEN <<"echo", "line">> ELSE <<"echo">>,
          to |-> {"member"}, stored |-> TRUE]

dispatchMessageToTarget(x) ==
  CASE x.to = "channel" -> SendSplitMessage(x)
    [] x.to = "user"    -> SendDirectMessage(x)
    [] x.to = "nobody"  -> [calls |-> IF x.notice THEN <<>> ELSE <<"line">>, to |-> {}, stored |-> FALSE]
    [] x.to = "service" -> [calls |-> IF x.notice THEN <<"echo">> ELSE <<"echo", "line">>, to |-> {}, stored |-> FALSE]
    [] x.to = "everyone" -> [calls |-> <<>>, to |-> {"member"}, stored |-> FALSE]    \* $$mask, by an operator

Situations ==
  [to : {"channel"}, role : DOMAIN MessageRanks, prefix : {"absent", "voice", "halfop", "op"}, muted : BOOLEAN, account : BOOLEAN,
   ctcp : BOOLEAN, notice : BOOLEAN, flags : SUBSET {"NoOutside", "Moderated", "RegisteredOnlySpeak", "OpModerated", "NoCTCP"}]
  \cup
  [to : {"user", "nobody", "service", "everyone"}, role : {"absent"}, prefix : {"absent"}, muted : {FALSE}, account : BOOLEAN,
   ctcp : BOOLEAN, notice : BOOLEAN, flags : SUBSET {"UserNoCTCP", "Defcon", "RegisteredOnly", "Accepted", "Away"}]

\* The answers a message can get.
Answers == {dispatchMessageToTarget(x).calls : x \in Situations}

\* A message is kept in the history exactly when everybody it is meant for gets it, and a
\* sender who is told it failed has reached nobody.
DeliveryIsComplete ==
  \A x \in Situations :
    LET d == dispatchMessageToTarget(x)
    IN /\ d.stored /\ x.to = "channel" => d.to = ChannelRoles
       /\ d.calls = <<"line">> => d.to = {} /\ ~d.stored

\* RELAYMSG: a copy to all sessions of all members, the sender's own like the others.
relaymsgHandler(x) ==
  IF x.enabled /\ x.exists /\ (x.oper \/ (x.chanopsMay /\ x.op)) /\ ~x.blank /\ x.validNick /\ ~x.mutedNick
  THEN [calls |-> IF x.op \/ x.member THEN <<"line">> ELSE <<>>, to |-> ChannelRoles, stored |-> TRUE]
  ELSE [calls |-> <<"line">>, to |-> {}, stored |-> FALSE]

RelayAnswers ==
  {relaymsgHandler(x).calls :
     x \in [enabled : BOOLEAN, exists : BOOLEAN, oper : BOOLEAN, chanopsMay : BOOLEAN, op : BOOLEAN, member : BOOLEAN,
            blank : BOOLEAN, validNick : BOOLEAN, mutedNick : BOOLEAN]}

-----------------------------------------------------------------------------
(* Client-to-server batches. *)

NoBatch == [tag |-> "", label |-> 0, notice |-> FALSE, lines |-> 0]

StartMultilineBatch(ses, tag, label) ==
  [ses EXCEPT !.multiline = [NoBatch EXCEPT !.tag = tag, !.label = label], !.fl = SuspendFakelag(@)]

\* The commands the batch is billed for are touched after the command.
EndMultilineBatch(ses) == [ses EXCEPT !.multiline = NoBatch, !.fl = Unsuspend(@), !.bill = 1]

Result(ses, rb) == [ses |-> ses, rb |-> rb]

failBatch(ses, rb) == Result(ses, Reply(rb))

\* BATCH + or - of a multiline batch; a failed batch loses its label.
batchHandlerMultiline(ses, rb, m) ==
  LET ended == EndMultilineBatch(ses)
      failed == Result(ended, IF ses.multiline.notice THEN rb ELSE Reply(rb))
      dispatched == LET r == [rb EXCEPT !.label = ses.multiline.label]
                    IN IF m.answer # <<>> /\ m.answer[1] = "echo"
                       THEN Calls(addEchoMessage(r, ses.multiline.lines), Tail(m.answer)) ELSE Calls(r, m.answer)
  IN CASE m.op = "+" -> IF m.short THEN failed ELSE Result(StartMultilineBatch(ses, m.tag, rb.label), [rb EXCEPT !.label = 0])
       [] m.op = "-" -> IF m.tag # ses.multiline.tag \/ ses.multiline.lines = 0 THEN failed ELSE Result(ended, dispatched)

batchHandlerTokenStart(ses, rb, m) ==
  IF m.short THEN failBatch(ses, rb)       \* or not permitted
  ELSE Result([ses EXCEPT !.token = [NoBatch EXCEPT !.tag = m.tag, !.label = rb.label]], [rb EXCEPT !.label = 0])

\* TOKEN VALIDATE: a failure, or the claims in a batch.
performTokenValidate(rb, valid) == IF valid THEN Calls(rb, <<"start", "line", "line", "end">>) ELSE Reply(rb)

\* What if: the answer bears the label of the end of the batch.
batchHandlerTokenEnd_OwnLabel(ses, rb, m) ==
  LET ended == [ses EXCEPT !.token = NoBatch]
  IN IF m.tag # ses.token.tag THEN failBatch(ended, rb) ELSE Result(ended, performTokenValidate(rb, m.valid))

batchHandlerTokenEnd(ses, rb, m) ==
  LET ended == [ses EXCEPT !.token = NoBatch]
  IN IF m.tag # ses.token.tag THEN failBatch(ended, rb)
     ELSE Result(ended, performTokenValidate([rb EXCEPT !.label = ses.token.label], m.valid))

batchHandler(ses, rb, m) ==
  LET open == ses.multiline.tag # "" \/ ses.token.tag # ""
      reset == [EndMultilineBatch(ses) EXCEPT !.token = NoBatch]
  IN CASE m.tag # "invalid" /\ m.op = "+" /\ ~open /\ m.type = "multiline" -> batchHandlerMultiline(ses, rb, m)
       [] m.tag # "invalid" /\ m.op = "+" /\ ~open /\ m.type = "token" -> batchHandlerTokenStart(ses, rb, m)
       [] m.tag # "invalid" /\ m.op = "-" /\ ses.multiline.tag # "" -> batchHandlerMultiline(ses, rb, m)
       [] m.tag # "invalid" /\ m.op = "-" /\ ses.multiline.tag = "" /\ ses.token.tag # "" -> batchHandlerTokenEnd(ses, rb, m)
       [] m.tag = "invalid" \/ (m.op = "+" /\ open) \/ (m.op = "-" /\ ~open) -> failBatch(reset, rb)

\* A PRIVMSG or NOTICE with a batch tag.
absorbBatchedMessage(ses, rb, m) ==
  LET ok == [ses EXCEPT !.multiline.lines = @ + 1, !.multiline.notice = m.notice]
  IN IF m.tag # ses.multiline.tag \/ m.short \/ ok.multiline.lines > MaxLines
     THEN Result(EndMultilineBatch(ses), IF m.notice THEN rb ELSE Reply(rb))
     ELSE Result(ok, rb)

messageHandler(ses, rb, m) ==
  IF m.tag # "" THEN absorbBatchedMessage(ses, rb, m) ELSE Result(ses, Calls(rb, m.answer))

\* TOKEN: with a batch tag a chunk, which another tag drops without a word.
tokenValidateHandler(ses, rb, m) ==
  CASE ~HasCap("batch") \/ m.short -> Result(ses, Reply(rb))
    [] HasCap("batch") /\ ~m.short /\ m.tag = "" -> Result(ses, performTokenValidate(rb, m.valid))
    [] HasCap("batch") /\ ~m.short /\ m.tag # "" ->
         CASE m.tag # ses.token.tag -> Result(ses, rb)
           [] m.tag = ses.token.tag /\ ses.token.lines < MaxTokenChunks -> Result([ses EXCEPT !.token.lines = @ + 1], rb)
           [] m.tag = ses.token.tag /\ ses.token.lines >= MaxTokenChunks -> failBatch([ses EXCEPT !.token = NoBatch], rb)

\* A list of services, or a note that there are none.
tokenServicelistHandler(rb, some) == IF some THEN Calls(rb, <<"start", "line", "end">>) ELSE Reply(rb)

\* A token in a batch; an error without the capability, an account or a service.
tokenGenerateHandler(rb, issued) ==
  IF HasCap("batch") /\ issued THEN Calls(rb, <<"start", "line", "line", "end">>) ELSE Reply(rb)

tokenHandler(ses, rb, m) ==
  CASE m.type = "servicelist" -> Result(ses, tokenServicelistHandler(rb, m.valid))
    [] m.type = "generate" -> Result(ses, tokenGenerateHandler(rb, m.valid))
    [] m.type = "validate" -> tokenValidateHandler(ses, rb, m)
    [] m.type = "unknown" -> Result(ses, Reply(rb))      \* or TOKEN is disabled

\* What other commands answer: nothing, lines, a batch (CHATHISTORY, METADATA), lines
\* that are sent at once (JOIN, playback).
Scripts == {<<>>, <<"line">>, <<"line", "line">>, <<"start", "line", "end">>, <<"line", "start", "line", "end">>,
            <<"line", "flush", "start", "line", "end", "flush">>, <<"start", "start", "line", "end", "end">>,
            <<"start", "line", "end", "start", "line", "end">>, <<"line", "flush", "line">>}

\* RunCommand: what a batch allows while it is open, and the handler.
RunCommand(ses, rb, m) ==
  CASE ses.multiline.tag # "" /\ m.command \notin {"BATCH", "MESSAGE"} -> Result(EndMultilineBatch(ses), Reply(rb))
    [] ses.token.tag # "" /\ m.command \notin {"BATCH", "TOKEN"} -> Result([ses EXCEPT !.token = NoBatch], Reply(rb))
    [] ~(ses.multiline.tag # "" /\ m.command \notin {"BATCH", "MESSAGE"})
         /\ ~(ses.token.tag # "" /\ m.command \notin {"BATCH", "TOKEN"}) ->
         CASE m.command = "BATCH" -> batchHandler(ses, rb, m)
           [] m.command = "MESSAGE" -> messageHandler(ses, rb, m)
           [] m.command = "TOKEN" -> tokenHandler(ses, rb, m)
           [] m.command = "OTHER" -> Result(ses, Calls(rb, m.answer))

-----------------------------------------------------------------------------
MessagesInit ==
  /\ cmdSession =
       [multiline |-> NoBatch, token |-> NoBatch, bill |-> 0, n |-> 0,
        fl |-> [enabled |-> TRUE, suspended |-> FALSE, state |-> "bursting", burst |-> 0, budget |-> CommandBudget, slept |-> FALSE]]
  /\ sessionCaps \in SessionCaps
  /\ nofakelag = FALSE /\ stray = FALSE /\ foreign = FALSE /\ owed = {} /\ quick = 0

\* A line of the client, with what will come of the message or token it completes.
Lines(command) ==
  CASE command = "BATCH" ->
         [command : {command}, op : {"+"}, type : {"multiline", "token"}, tag : {"a", "invalid"}, short : BOOLEAN,
          notice : {FALSE}, answer : {<<>>}, valid : {TRUE}]
         \cup [command : {command}, op : {"-"}, type : {""}, tag : {"a", "b"}, short : {FALSE},
               notice : {FALSE}, answer : Answers, valid : BOOLEAN]
    [] command = "MESSAGE" ->
         [command : {command}, op : {""}, type : {""}, tag : {"a", "b"}, short : BOOLEAN, notice : BOOLEAN,
          answer : {<<>>}, valid : {TRUE}]
         \cup [command : {command}, op : {""}, type : {""}, tag : {""}, short : {FALSE}, notice : {FALSE},
               answer : Answers \cup RelayAnswers, valid : {TRUE}]
    [] command = "TOKEN" ->
         [command : {command}, op : {""}, type : {"validate"}, tag : {"", "a", "b"}, short : BOOLEAN,
          notice : {FALSE}, answer : {<<>>}, valid : BOOLEAN]
         \cup [command : {command}, op : {""}, type : {"servicelist", "generate", "unknown"}, tag : {""}, short : {FALSE},
               notice : {FALSE}, answer : {<<>>}, valid : BOOLEAN]
    [] command = "OTHER" -> [command : {command}, op : {""}, type : {""}, tag : {""}, short : {FALSE},
                             notice : {FALSE}, answer : Scripts, valid : {TRUE}]

LabelsIn(lines) == {lines[k].label : k \in DOMAIN lines} \ {0}

\* What a client relies on: batches are opened once and closed once, lines of a batch are
\* sent while it is open, and at most one line, outside all batches, bears the label.
ProperAnswer(lines) ==
  LET At(kind, id) == {k \in DOMAIN lines : lines[k].kind = kind /\ lines[k].id = id}
      ids == {lines[k].id : k \in {q \in DOMAIN lines : lines[q].kind # "line"}}
  IN /\ \A id \in ids : Cardinality(At("start", id)) = 1 /\ Cardinality(At("end", id)) = 1
     /\ \A id \in ids, a \in DOMAIN lines, z \in DOMAIN lines :
          a \in At("start", id) /\ z \in At("end", id) =>
            a < z /\ \A k \in DOMAIN lines : lines[k].batch = id => a < k /\ k < z
     /\ \A k \in DOMAIN lines : lines[k].batch # 0 => lines[k].batch \in ids
     /\ \A k \in DOMAIN lines : lines[k].label # 0 =>
          lines[k].batch = 0 /\ \A l \in DOMAIN lines : lines[l].label # 0 => l = k
     /\ LabelsIn(lines) # {} => \A k \in DOMAIN lines : lines[k].batch = 0 => lines[k].label # 0 \/ lines[k].kind = "end"

\* What a round of client.run comes to: `touched` is the session after fakelag, `r` the outcome
\* of the line `m`, whose label is `label`, and `lines` what is sent; the bill of a batch is paid.
Settle(m, elapsed, labelled, label, touched, r, lines) ==
  LET \* the label of a BATCH - gives way to that of the batch it ends
      replaced == m.op = "-" /\ r.rb.label # label
      asked == IF labelled /\ ~replaced THEN owed \cup {label} ELSE owed
      waiting == {r.ses.multiline.label, r.ses.token.label}
      complete == m.op = "-" /\ m.tag = (IF touched.multiline.tag # "" THEN touched.multiline.tag ELSE touched.token.tag)
                  /\ (touched.multiline.tag # "" => touched.multiline.lines > 0)
      \* a batch that failed took its label with it
      dropped == IF complete THEN {} ELSE {touched.multiline.label, touched.token.label} \ waiting
  IN /\ cmdSession' = [r.ses EXCEPT !.fl = IF r.ses.bill = 0 THEN @ ELSE Touch(@, FALSE, "short"), !.bill = 0]
     /\ stray' = (stray \/ ~(LabelsIn(lines) \subseteq asked) \/ ~ProperAnswer(lines))
     /\ owed' = asked \ (LabelsIn(lines) \cup dropped)
     /\ quick' = IF ~touched.fl.enabled \/ touched.fl.slept \/ cmdSession'.fl.slept \/ elapsed # "short" THEN 0 ELSE quick + 1

\* One round of client.run: fakelag, the command `m`, the bill of a batch.
RunLoop(command) ==
  /\ cmdSession.n < MaxCommands
  /\ \E m \in Lines(command), elapsed \in {"short", "spaced", "long"}, labelled \in {FALSE, HasCap("labeled-response")} :
     \E label \in {IF labelled THEN cmdSession.n + 1 ELSE 0},
        touched \in {[cmdSession EXCEPT !.n = @ + 1, !.bill = 0, !.fl = Touch(@, command = "OTHER", elapsed)]} :
     \E r \in {RunCommand(touched, NewResponseBuffer(label), m)} :
       Settle(m, elapsed, labelled, label, touched, r, flushInternal(r.rb, TRUE).sent)
  /\ UNCHANGED <<sessionCaps, nofakelag, foreign>>

\* applyOper, in this session (a command like others) or in another session of the client
\* at any time: every session gets its fakelag anew.
applyOper(here) ==
  /\ cmdSession.n < MaxCommands
  /\ here => cmdSession.multiline = NoBatch /\ cmdSession.token = NoBatch
  /\ nofakelag' = ~nofakelag
  /\ cmdSession' = [cmdSession EXCEPT !.fl = FakelagInitialize(@, nofakelag), !.n = @ + 1]
  /\ quick' = 0 /\ foreign' = (foreign \/ cmdSession.multiline # NoBatch)
  /\ UNCHANGED <<sessionCaps, owed, stray>>

MessagesNext ==
  \/ RunLoop("BATCH") \/ RunLoop("MESSAGE") \/ RunLoop("TOKEN") \/ RunLoop("OTHER")
  \/ \E here \in BOOLEAN : applyOper(here)

MessagesSpec == MessagesInit /\ [][MessagesNext]_messageVars

-----------------------------------------------------------------------------
\* Every labelled command is answered under its label exactly once, with its batches
\* opened and closed around their lines, also when the answer is given only at the end of a
\* client's batch; only a batch that fails takes its label with it (flushInternal, RunCommand,
\* batchHandlerMultiline, batchHandlerTokenEnd).
ResponsesAreLabelled ==
  /\ ~stray
  /\ HasCap("labeled-response") => owed = {cmdSession.multiline.label, cmdSession.token.label} \ {0}

\* Fakelag is off during a multiline batch and for operators who are exempt, on again
\* afterwards however the batch ended, and while it is on a client that does not pause is
\* delayed after its burst.  Except: OPER or DEOPER in another session during the batch
\* (StartMultilineBatch, EndMultilineBatch, resetFakelag, Touch).
FakelagExact ==
  ~foreign => /\ cmdSession.fl.enabled = (cmdSession.multiline.tag = "" /\ ~nofakelag)
              /\ quick <= BurstLimit + CommandBudget
=============================================================================
