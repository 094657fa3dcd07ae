---------------------------- MODULE AccountData ----------------------------
(***************************************************************************)
(* What the server keeps in the datastore for a client that stays          *)
(* connected without sessions (an always-on client): its channels, user    *)
(* modes, realname, push subscriptions and metadata, written back by a     *)
(* goroutine that holds writebackLock; its read markers, flushed by        *)
(* periodic maintenance and at shutdown; and the queue of its push         *)
(* messages, served by a goroutine that holds workerLock.                  *)
(*                                                                         *)
(* One client, one channel, one conversation.  Every access under          *)
(* stateMutex is one step; markDirty and wakeWriter come after it, as do   *)
(* the steps of the writer, of the push worker and of the maintenance.     *)
(* Subscriptions' time stamps are left out: maintenance may find any       *)
(* subscription expired, due or fresh, and a push may end in any way.      *)
(***************************************************************************)
EXTENDS Integers, FiniteSets, Sequences

CONSTANTS
  MetaKeys, MaxKeys,          \* the metadata keys, how many of them may be set
  Endpoints, MaxSubscriptions,\* the push endpoints, how many may subscribe
  PushKeys,                   \* the keys a subscription is registered with
  Unset,                      \* no value: not a key, not a set of push keys
  PushQueueLength,            \* pushQueueLengthPerClient
  MaxStamp,                   \* times are 1..MaxStamp
  MaxDataOps,                 \* the client and others issue this many commands
  MaxStops                    \* and the server stops this many times

ASSUME DataAssumption ==
  /\ MaxKeys \in Nat /\ MaxSubscriptions \in Nat /\ PushQueueLength \in Nat \ {0}
  /\ {MaxStamp, MaxDataOps, MaxStops} \subseteq Nat
  /\ Unset \notin PushKeys

VARIABLES
  me,       \* the client in memory
  disk,     \* the account and its rows
  writer,   \* the holder of writebackLock
  owing,    \* changes made, markDirty not yet called
  wakes,    \* calls of wakeWriter (or the loop's TryLock) under way
  after,    \* writers that unlocked and have not looked at dirtyBits again
  push,     \* the push queue and its worker
  chores,   \* joins, parts, WEBPUSH REGISTER and maintenance under way
  life,     \* "up", the steps of Shutdown, "down"
  dataOps, stops,
  lapse     \* what went past the write-back or the worker (see DataSettles)

dataVars == <<me, disk, writer, owing, wakes, after, push, chores, life, dataOps, stops, lapse>>

-----------------------------------------------------------------------------
(* The dirty bits, in the order performWrite looks at them. *)
AttrOrder == <<"channels", "modes", "realname", "push", "metadata">>
IncludeAllAttrs == {AttrOrder[i] : i \in DOMAIN AttrOrder}

NoSubs == [e \in Endpoints |-> Unset]
NoMeta == [k \in MetaKeys |-> FALSE]
CountMetadata(m) == Cardinality({k \in MetaKeys : m[k]})

(* A client that has just completed registration and is logged in. *)
FreshMe == [account |-> TRUE, always |-> FALSE, chan |-> FALSE, status |-> "none", modes |-> {},
            realname |-> "first", subs |-> NoSubs, meta |-> NoMeta,
            prereg |-> NoMeta, marker |-> 0, pushed |-> 0, dirty |-> {}, dirtyTimes |-> FALSE]

(* What the write-back stores for each attribute: the channel only if both *)
(* sides have it, the user modes without the operator's. *)
Persisted == [channels |-> IF me.chan THEN me.status ELSE "none",
              modes |-> me.modes \ {"o"}, realname |-> me.realname,
              push |-> me.subs, metadata |-> me.meta]

NoRows == [channels |-> "none", modes |-> {}, realname |-> "", push |-> NoSubs, metadata |-> NoMeta]

(* AddAlwaysOnClient from the rows that were loaded; its joins are not      *)
(* marked dirty. *)
LoadedMe == [FreshMe EXCEPT
   !.always = TRUE,
   !.chan = disk.rows.channels # "none", !.status = disk.rows.channels,
   !.modes = disk.rows.modes, !.realname = disk.rows.realname,
   !.subs = disk.rows.push,
   !.meta = disk.rows.metadata, !.marker = disk.marker]

IdleWriter == [pc |-> "idle", bits |-> {}, attr |-> "channels", row |-> NoRows, for |-> "loop"]
NoPush == [queue |-> << >>, worker |-> "off", msg |-> [time |-> 0, from |-> Unset], todo |-> {}]
NoChores == [join |-> "none", part |-> FALSE, test |-> << >>, maint |-> "off", todo |-> {}]
NoLapse == [join |-> FALSE, flush |-> FALSE, worker |-> FALSE]

SubscriptionRows(e, keys) == [NoRows EXCEPT !.push = [NoSubs EXCEPT ![e] = keys], !.realname = "first"]

(* A new client of a new account, or an always-on client loaded from its    *)
(* rows with a subscription (one command has been used up for that). *)
AccountDataInit ==
  /\ disk \in {[exists |-> TRUE, always |-> FALSE, rows |-> NoRows, marker |-> 0]} \cup
              {[exists |-> TRUE, always |-> TRUE,
                rows |-> SubscriptionRows(e, keys), marker |-> 0] :
                  e \in Endpoints, keys \in PushKeys}
  /\ me = IF disk.always THEN LoadedMe ELSE FreshMe
  /\ writer = IdleWriter /\ owing = {} /\ wakes = 0 /\ after = 0
  /\ push = NoPush /\ chores = NoChores /\ life = "up"
  /\ dataOps = (IF disk.always THEN 1 ELSE 0) /\ stops = 0 /\ lapse = NoLapse

Locked == writer.pc # "idle"
Owe(bits) == owing' = owing \cup {bits}
Keep == UNCHANGED owing
DataCommand == life # "down" /\ dataOps < MaxDataOps /\ dataOps' = dataOps + 1

-----------------------------------------------------------------------------
(* The write-back. *)

markDirty ==
  \E bits \in owing :
    /\ me' = [me EXCEPT !.dirty = @ \cup bits]
    /\ owing' = owing \ {bits}
    /\ wakes' = IF me.always THEN wakes + 1 ELSE wakes
    /\ UNCHANGED <<disk, writer, after, push, chores, life, dataOps, stops, lapse>>

(* TryLock: whoever fails leaves the work to the holder. *)
wakeWriter ==
  /\ wakes > 0 /\ wakes' = wakes - 1
  /\ writer' = IF Locked THEN writer ELSE [IdleWriter EXCEPT !.pc = "start"]
  /\ UNCHANGED <<me, disk, owing, after, push, chores, life, dataOps, stops, lapse>>

(* performWrite takes and clears the bits; a logged-out client is dropped. *)
performWrite ==
  /\ writer.pc = "start"
  /\ writer' = [writer EXCEPT !.pc = "save",
                              !.bits = IF me.account THEN @ \cup me.dirty ELSE {}]
  /\ me' = [me EXCEPT !.dirty = {}]
  /\ UNCHANGED <<disk, owing, wakes, after, push, chores, life, dataOps, stops, lapse>>

(* The next attribute, in the order of the bits, as it is in memory now; a  *)
(* change from here on is not in what is saved. *)
readAttr ==
  /\ writer.pc = "save" /\ writer.bits # {}
  /\ \E i \in DOMAIN AttrOrder :
       LET a == AttrOrder[i]
       IN  /\ a \in writer.bits /\ \A j \in 1..(i - 1) : AttrOrder[j] \notin writer.bits
           /\ writer' = [writer EXCEPT !.pc = "commit", !.attr = a, !.row = [NoRows EXCEPT ![a] = Persisted[a]]]
           /\ lapse' = IF a = "channels" THEN [lapse EXCEPT !.join = FALSE] ELSE lapse
  /\ UNCHANGED <<me, disk, owing, wakes, after, push, chores, life, dataOps, stops>>

(* saveChannels, saveModes, saveRealname, savePushSubscriptions and         *)
(* saveMetadata: each is a transaction of its own. *)
saveAttr ==
  /\ writer.pc = "commit"
  /\ disk' = [disk EXCEPT !.rows[writer.attr] = writer.row[writer.attr]]
  /\ writer' = [writer EXCEPT !.pc = "save", !.bits = @ \ {writer.attr},
                              !.attr = IdleWriter.attr, !.row = IdleWriter.row]
  /\ UNCHANGED <<me, owing, wakes, after, push, chores, life, dataOps, stops, lapse>>

unlockWriter ==
  /\ writer.pc = "save" /\ writer.bits = {}
  /\ writer' = IdleWriter
  /\ after' = IF writer.for = "shutdown" THEN after ELSE after + 1
  /\ life' = IF writer.for = "shutdown" THEN "flushing" ELSE life
  /\ chores' = IF writer.for = "maint" THEN [chores EXCEPT !.maint = "off"] ELSE chores
  /\ UNCHANGED <<me, disk, owing, wakes, push, dataOps, stops, lapse>>

\* What if: the writer does not look whether something has changed meanwhile.
StillDirty_Never == FALSE

(* Bits set while the lock was held, whose wakeWriter found it taken. *)
StillDirty == me.dirty # {}

(* The end of the loop's round, and the deferred function of Store. *)
writeLoopRecheck ==
  /\ after > 0 /\ after' = after - 1
  /\ wakes' = IF StillDirty THEN wakes + 1 ELSE wakes
  /\ UNCHANGED <<me, disk, writer, owing, push, chores, life, dataOps, stops, lapse>>

-----------------------------------------------------------------------------
(* Commands that change what is kept. *)

RestKept == UNCHANGED <<disk, writer, wakes, after, push, life, stops>>

(* JOIN: addChannel reads alwaysOn; the channel's side comes later, and     *)
(* only then is the client marked dirty, if it was always-on before. *)
addChannel ==
  /\ DataCommand /\ ~me.chan /\ chores.join = "none" /\ ~chores.part
  /\ me' = [me EXCEPT !.chan = TRUE]
  /\ chores' = [chores EXCEPT !.join = IF me.always THEN "on" ELSE "off"]
  /\ Keep /\ UNCHANGED lapse /\ RestKept

finishJoin ==
  /\ chores.join # "none"
  /\ me' = [me EXCEPT !.status = "plain"]
  /\ chores' = [chores EXCEPT !.join = "none"]
  /\ IF chores.join = "on" THEN Owe({"channels"}) ELSE Keep
  /\ lapse' = [lapse EXCEPT !.join = @ \/ (chores.join = "off" /\ me.always)]
  /\ UNCHANGED dataOps /\ RestKept

(* MODE +o or -o on the member. *)
applyModeToClient ==
  /\ DataCommand /\ me.status # "none"
  /\ me' = [me EXCEPT !.status = IF @ = "op" THEN "plain" ELSE "op"]
  /\ Owe({"channels"})
  /\ UNCHANGED <<chores, lapse>> /\ RestKept

(* PART: the member goes first, then removeChannel. *)
PartChannel ==
  /\ DataCommand /\ me.status # "none" /\ ~chores.part
  /\ me' = [me EXCEPT !.status = "none"]
  /\ chores' = [chores EXCEPT !.part = TRUE]
  /\ Keep /\ UNCHANGED lapse /\ RestKept

removeChannel ==
  /\ chores.part
  /\ me' = [me EXCEPT !.chan = FALSE]
  /\ chores' = [chores EXCEPT !.part = FALSE]
  /\ IF me.always THEN Owe({"channels"}) ELSE Keep
  /\ UNCHANGED <<dataOps, lapse>> /\ RestKept

(* MODE on oneself; "o" stands for the modes that are not persisted. *)
ApplyUserModeChanges ==
  \E m \in {"i", "o"} :
    /\ DataCommand
    /\ me' = [me EXCEPT !.modes = IF m \in @ THEN @ \ {m} ELSE @ \cup {m}]
    /\ Owe({"modes"})
    /\ UNCHANGED <<chores, lapse>> /\ RestKept

SetRealname ==
  /\ me' = [me EXCEPT !.realname = IF @ = "first" THEN "second" ELSE "first"]
  /\ IF me.always THEN Owe({"realname"}) ELSE Keep

(* SETNAME *)
setnameHandler ==
  /\ DataCommand /\ SetRealname
  /\ UNCHANGED <<chores, lapse>> /\ RestKept

(* One more key only below the limit. *)
SetMetadata(k) ==
  /\ ~me.meta[k] /\ CountMetadata(me.meta) < MaxKeys
  /\ me' = [me EXCEPT !.meta[k] = TRUE]
  /\ IF me.always THEN Owe({"metadata"}) ELSE Keep

DeleteMetadata(ks) ==
  /\ \E k \in ks : me.meta[k]
  /\ me' = [me EXCEPT !.meta = [k \in MetaKeys |-> @[k] /\ k \notin ks]]
  /\ Owe({"metadata"})

(* METADATA * SET with a value and without one, METADATA * CLEAR. *)
metadataRegisteredHandler ==
  /\ DataCommand
  /\ \/ \E k \in MetaKeys : SetMetadata(k) \/ DeleteMetadata({k})
     \/ DeleteMetadata(MetaKeys)
  /\ UNCHANGED <<chores, lapse>> /\ RestKept

(* METADATA before registration, in the session's buffer: not the exact     *)
(* limit, one key more passes. *)
metadataUnregisteredHandler ==
  \E k \in MetaKeys :
    /\ DataCommand /\ (me.prereg[k] \/ CountMetadata(me.prereg) <= MaxKeys)
    /\ me' = [me EXCEPT !.prereg[k] = ~@]
    /\ Keep /\ UNCHANGED <<chores, lapse>> /\ RestKept

(* New keys up to the limit, in the map's order, never over an existing one. *)
UpdateMetadataFromPrereg ==
  LET new == {k \in MetaKeys : me.prereg[k] /\ ~me.meta[k]}
      room == MaxKeys - CountMetadata(me.meta)
      n == IF Cardinality(new) < room THEN Cardinality(new) ELSE room
  IN  \E added \in SUBSET new :
        /\ Cardinality(added) = n
        /\ me' = [me EXCEPT !.prereg = NoMeta,
                            !.meta = [k \in MetaKeys |-> @[k] \/ k \in added]]
        /\ IF me.always /\ added # {} THEN Owe({"metadata"}) ELSE Keep

(* The session registers, or attaches to the client. *)
applyPreregMetadata ==
  /\ me.prereg # NoMeta
  /\ UpdateMetadataFromPrereg
  /\ UNCHANGED <<chores, dataOps, lapse>> /\ RestKept

(* NS SET always-on: the account's row first, then the client. *)
SetAccountSettings ==
  \E on \in BOOLEAN :
    /\ DataCommand /\ me.account /\ disk.exists /\ on # me.always
    /\ disk' = [disk EXCEPT !.always = on]
    /\ me' = [me EXCEPT !.always = on]
    /\ IF on THEN Owe(IncludeAllAttrs) ELSE Keep
    /\ UNCHANGED <<writer, wakes, after, push, chores, life, stops, lapse>>

(* NS UNREGISTER: the rows go, and killClients logs the client out later. *)
DropAccount ==
  /\ DataCommand /\ disk.exists
  /\ disk' = [disk EXCEPT !.exists = FALSE, !.always = FALSE, !.rows = NoRows, !.marker = 0]
  /\ UNCHANGED <<me, owing, writer, wakes, after, push, chores, life, stops, lapse>>

LogoutClient ==
  /\ ~disk.exists /\ me.account
  /\ me' = [me EXCEPT !.account = FALSE, !.always = FALSE]
  /\ Keep /\ UNCHANGED <<chores, dataOps, lapse>> /\ RestKept

-----------------------------------------------------------------------------
(* Push subscriptions. *)

(* getPushSubscriptions: the cache is rebuilt whenever the map changes.     *)
Subscribed == {e \in Endpoints : me.subs[e] # Unset}

deletePushSubscription(e, writeback) ==
  /\ me' = [me EXCEPT !.subs[e] = Unset]
  /\ IF writeback /\ me.subs[e] # Unset THEN Owe(IncludeAllAttrs) ELSE Keep

(* It is known with these keys: only its time stamp changes. *)
refreshPushSubscription(e, keys) == me.subs[e] = keys

(* WEBPUSH REGISTER: a known subscription is refreshed; another is first    *)
(* sent a test message. *)
webpushRegister ==
  \E e \in Endpoints, keys \in PushKeys :
    /\ DataCommand /\ me.account /\ chores.test = << >>
    /\ ~refreshPushSubscription(e, keys)
    /\ chores' = [chores EXCEPT !.test = <<e, keys>>]
    /\ Keep /\ UNCHANGED <<me, lapse>> /\ RestKept

addPushSubscription(e, keys) ==
  LET passes == me.subs[e] # Unset \/ Cardinality(Subscribed) < MaxSubscriptions
      changed == passes /\ me.subs[e] # keys
  IN  /\ me' = IF changed THEN [me EXCEPT !.subs[e] = keys] ELSE me
      /\ IF changed THEN Owe(IncludeAllAttrs) ELSE Keep

(* The test message is answered. *)
webpushTested ==
  /\ chores.test # << >>
  /\ \/ addPushSubscription(chores.test[1], chores.test[2])
     \/ UNCHANGED <<me, owing>>
  /\ chores' = [chores EXCEPT !.test = << >>]
  /\ UNCHANGED <<dataOps, lapse>> /\ RestKept

webpushUnregister ==
  \E e \in Endpoints :
    /\ DataCommand /\ me.account /\ me.subs[e] # Unset
    /\ deletePushSubscription(e, TRUE)
    /\ UNCHANGED <<chores, lapse>> /\ RestKept

(* performPushMaintenance: it walks over a copy of the subscriptions, drops *)
(* those that expired or whose endpoint is gone without marking the client  *)
(* dirty, and stores them all at the end. *)
pushMaintenance ==
  /\ DataCommand /\ chores.maint = "off" /\ me.always
  /\ Subscribed # {}
  /\ chores' = [chores EXCEPT !.maint = "scan", !.todo = Subscribed]
  /\ Keep /\ UNCHANGED <<me, lapse>> /\ RestKept

maintainSubscription ==
  \E e \in chores.todo, gone \in BOOLEAN :
    /\ chores.maint = "scan"
    /\ IF gone THEN deletePushSubscription(e, FALSE) ELSE UNCHANGED <<me, owing>>
    /\ chores' = [chores EXCEPT !.todo = @ \ {e}]
    /\ UNCHANGED <<dataOps, lapse>> /\ RestKept

(* Store blocks until it has the lock. *)
maintenanceStore ==
  /\ chores.maint = "scan" /\ chores.todo = {} /\ ~Locked
  /\ writer' = [IdleWriter EXCEPT !.pc = "start", !.bits = {"push"}, !.for = "maint"]
  /\ chores' = [chores EXCEPT !.maint = "store"]
  /\ UNCHANGED <<me, disk, owing, wakes, after, push, life, dataOps, stops, lapse>>

-----------------------------------------------------------------------------
(* Push messages and read markers. *)

(* A stored time only moves forward (eviction needs more than one entry). *)
updateLRUMap(old, new) == IF old > new THEN old ELSE new

(* A full queue drops the message.  A worker that has found the queue empty *)
(* still holds workerLock: this message waits for the next one. *)
Dispatch(msg) ==
  IF Len(push.queue) = PushQueueLength
  THEN UNCHANGED <<push, lapse>>
  ELSE /\ push' = [push EXCEPT !.queue = Append(@, msg),
                               !.worker = IF @ = "off" THEN "recv" ELSE @]
       /\ lapse' = [lapse EXCEPT !.worker = @ \/ push.worker = "ending"]

(* PRIVMSG from another client. *)
dispatchPushMessage ==
  \E t \in 1..MaxStamp :
    /\ DataCommand /\ Subscribed # {}
    /\ Dispatch([time |-> t, from |-> Unset])
    /\ UNCHANGED <<me, disk, writer, owing, wakes, after, chores, life, stops>>

pushWorker ==
  /\ push.worker = "recv" /\ push.todo = {}
  /\ IF push.queue = << >>
     THEN push' = [push EXCEPT !.worker = "ending"] /\ UNCHANGED lapse
     ELSE /\ push' = [push EXCEPT !.msg = Head(push.queue), !.queue = Tail(@),
                                  !.todo = Subscribed]
          /\ lapse' = [lapse EXCEPT !.worker = FALSE]
  /\ UNCHANGED <<me, disk, writer, owing, wakes, after, chores, life, dataOps, stops>>

(* skipPushMessage: read by now? (only messages with a time, and only if a  *)
(* delay is configured) *)
skipPushMessage == push.msg.time > 0 /\ me.marker >= push.msg.time

(* sendAndTrackPush: not to the device the message came from; what was sent *)
(* can be cleared later; an endpoint that is gone is unsubscribed. *)
sendAndTrackPush ==
  \E e \in push.todo, result \in {"sent", "gone"}, delay \in BOOLEAN :
    /\ push' = [push EXCEPT !.todo = @ \ {e}]
    /\ IF (delay /\ skipPushMessage) \/ e = push.msg.from
       THEN result = "sent" /\ UNCHANGED <<me, owing>>
       ELSE LET had == me.subs[e] # Unset
                kept == IF result = "gone" THEN [me EXCEPT !.subs[e] = Unset] ELSE me
            IN  /\ me' = [kept EXCEPT !.pushed = updateLRUMap(@, push.msg.time)]
                /\ IF result = "gone" /\ had THEN Owe(IncludeAllAttrs) ELSE Keep
    /\ UNCHANGED <<disk, writer, wakes, after, chores, life, dataOps, stops, lapse>>

pushWorkerUnlock ==
  /\ push.worker = "ending"
  /\ push' = [push EXCEPT !.worker = "off"]
  /\ UNCHANGED <<me, disk, writer, owing, wakes, after, chores, life, dataOps, stops, lapse>>

(* The time sent was read: it need not be shown any longer. *)
clearClearablePushMessage(t) == me.pushed \in 1..t

(* MARKREAD: the marker only moves forward; what was pushed up to it is     *)
(* cleared on the other devices by one more push message. *)
markRead ==
  \E t \in 1..MaxStamp, e \in Endpoints \cup {Unset} :
    LET moves == me.marker <= t
        clears == moves /\ clearClearablePushMessage(t)
    IN  /\ DataCommand
        /\ e # Unset => me.subs[e] # Unset /\ clears
        /\ me' = [me EXCEPT !.marker = updateLRUMap(@, t), !.dirtyTimes = TRUE,
                            !.pushed = IF clears THEN 0 ELSE @]
        /\ IF clears THEN Dispatch([time |-> 0, from |-> e]) ELSE UNCHANGED <<push, lapse>>
        /\ UNCHANGED <<disk, writer, owing, wakes, after, chores, life, stops>>

-----------------------------------------------------------------------------
(* Maintenance of the timestamps, shutdown, crash and restart. *)

(* shouldFlushTimestamps forgets the flag whoever the client is. *)
FlushTimes ==
  /\ me' = [me EXCEPT !.dirtyTimes = FALSE]
  /\ disk' = IF me.dirtyTimes /\ me.always THEN [disk EXCEPT !.marker = me.marker] ELSE disk
  /\ lapse' = [lapse EXCEPT !.flush = IF me.dirtyTimes THEN ~me.always ELSE @]

performAlwaysOnMaintenance ==
  /\ life = "up" /\ me.dirtyTimes
  /\ FlushTimes
  /\ UNCHANGED <<writer, owing, wakes, after, push, chores, life, dataOps, stops>>

Shutdown ==
  /\ life = "up" /\ stops < MaxStops /\ stops' = stops + 1
  /\ life' = IF me.always THEN "storing" ELSE "flushing"
  /\ UNCHANGED <<me, disk, writer, owing, wakes, after, push, chores, dataOps, lapse>>

shutdownStore ==
  /\ life = "storing" /\ ~Locked
  /\ writer' = [IdleWriter EXCEPT !.pc = "start", !.for = "shutdown"]
  /\ UNCHANGED <<me, disk, owing, wakes, after, push, chores, life, dataOps, stops, lapse>>

shutdownFlush ==
  /\ life = "flushing" /\ ~Locked
  /\ FlushTimes /\ life' = "down"
  /\ UNCHANGED <<writer, owing, wakes, after, push, chores, dataOps, stops>>

(* createAlwaysOnClients, or a new connection to an account that is not     *)
(* always-on (its stored marker is not loaded); everything else in memory   *)
(* is gone. *)
Restart ==
  /\ \/ life = "down" /\ UNCHANGED stops
     \/ life = "up" /\ stops < MaxStops /\ stops' = stops + 1
  /\ me' = IF disk.always THEN LoadedMe ELSE [FreshMe EXCEPT !.account = disk.exists]
  /\ writer' = IdleWriter /\ owing' = {} /\ wakes' = 0 /\ after' = 0
  /\ push' = NoPush /\ chores' = NoChores /\ life' = "up"
  /\ lapse' = [NoLapse EXCEPT !.flush = ~disk.always /\ disk.marker # 0]
  /\ UNCHANGED <<disk, dataOps>>

AccountDataNext ==
  \/ life # "down" /\ \/ markDirty \/ wakeWriter \/ performWrite \/ readAttr \/ saveAttr \/ unlockWriter
                      \/ writeLoopRecheck \/ finishJoin \/ removeChannel
                      \/ applyPreregMetadata \/ LogoutClient
                      \/ webpushTested \/ maintainSubscription \/ maintenanceStore
                      \/ pushWorker \/ sendAndTrackPush \/ pushWorkerUnlock
  \/ addChannel \/ applyModeToClient \/ PartChannel \/ ApplyUserModeChanges \/ setnameHandler
  \/ metadataRegisteredHandler \/ metadataUnregisteredHandler \/ SetAccountSettings \/ DropAccount
  \/ webpushRegister \/ webpushUnregister \/ pushMaintenance
  \/ dispatchPushMessage \/ markRead
  \/ performAlwaysOnMaintenance \/ Shutdown \/ shutdownStore \/ shutdownFlush \/ Restart

AccountDataSpec == AccountDataInit /\ [][AccountDataNext]_dataVars

-----------------------------------------------------------------------------
(* No change waits for a writer that is not coming. *)
NothingLeftBehind ==
  life = "up" /\ ~Locked /\ owing = {} /\ wakes = 0 /\ after = 0 => me.dirty = {}

(* Nothing is under way that will still be written. *)
AtRest ==
  /\ ~Locked /\ owing = {} /\ me.dirty = {}
  /\ chores.join = "none" /\ ~chores.part /\ chores.maint = "off"

(* The rows are the client.  A JOIN that began before the client became     *)
(* always-on and ended after that is not written until the next change. *)
RowsAreTheClient ==
  AtRest => \A a \in IncludeAllAttrs :
              disk.rows[a] = Persisted[a] \/ (a = "channels" /\ lapse.join)

(* The marker is on disk when the server exits, unless maintenance forgot   *)
(* the flag, or the server started without loading the marker, while the    *)
(* client was not always-on, and nothing has been read since.               *)
MarkerIsStored ==
  life = "down" /\ ~lapse.flush => disk.marker = me.marker

(* For an always-on client (client.go:1900-2003, getters.go:594-601): when  *)
(* its writers, its commands and the shutdown have come to rest, no dirty   *)
(* bit is left, the rows from which the next start builds the client are    *)
(* what is in memory, and the read marker is stored at exit.  And no queued *)
(* push message is without a worker (client.go:2050-2082), except one       *)
(* queued while the last worker was letting its lock go.                    *)
DataSettles ==
  /\ me.always /\ disk.exists => NothingLeftBehind /\ RowsAreTheClient /\ MarkerIsStored
  /\ push.worker = "off" /\ push.queue # << >> => lapse.worker
=============================================================================
