---------------------------- MODULE ChannelStore ----------------------------
(***************************************************************************)
(* How a channel's registration gets into the database and stays there     *)
(* (irc/channel.go, "asynchronous database writeback implementation,       *)
(* modeled on irc/socket.go", and the registration part of                 *)
(* irc/channelmanager.go).                                                 *)
(*                                                                         *)
(* The commands that change a channel mark it dirty and wake a writer;     *)
(* those that change its founder write it themselves.  writebackLock lets  *)
(* one goroutine write at a time, a writer keeps writing until it finds    *)
(* the channel clean.  Unregistering gives the channel a new UUID and      *)
(* deletes the row of the old one.                                         *)
(*                                                                         *)
(* The module follows one channel that always has a member.  One action is *)
(* one critical section of the channel's stateMutex, one operation on      *)
(* writebackLock or one call on the datastore.                             *)
(***************************************************************************)
EXTENDS Integers, FiniteSets

CONSTANTS
    Callers,     \* goroutines that handle commands
    Writers,     \* bound: writeLoop goroutines that run at the same time
    Accounts,
    NoOne,       \* no account
    MaxChanges,  \* bound: changes to the channel's contents
    MaxUUIDs,    \* bound: UUIDs the channel gets
    Faults       \* what may happen: "store" (a call on the datastore fails),
                 \* "restart" (the server stops and starts again)

ASSUME ChannelStoreAssumption ==
    /\ Callers \cap Writers = {}
    /\ NoOne \notin Accounts
    /\ MaxChanges \in Nat
    /\ MaxUUIDs \in Nat \ {0}
    /\ Faults \subseteq {"store", "restart"}

VARIABLES
    founder,            \* registeredFounder
    uuid,               \* numbered in the order of their generation
    transferPendingTo,
    contents,           \* topic, modes, lists, settings...: number of changes
    dirty,              \* dirtyBits # 0
    writebackLock,
    db,                 \* external: TableChannels, UUID -> row or NoRow
    pc,
    info,               \* performWrite's snapshot, or NoRow
    old,                \* the UUID that SetUnregistered is to delete, or 0
    target,             \* the account it unregisters the channel of
    missed,             \* ghost: the last TryLock failed against IsClean
    lost                \* ghost: SetUnregistered deleted the channel's row

registration == <<founder, uuid, transferPendingTo>>
ghosts == <<missed, lost>>
vars == <<registration, contents, dirty, writebackLock, db, pc, info, old,
          target, ghosts>>

Goroutines == Callers \cup Writers
UUIDs == 1 .. MaxUUIDs
Row == [founder: Accounts \cup {NoOne}, contents: 0 .. MaxChanges]
NoRow == [none |-> TRUE]
Snapshot == [uuid: UUIDs, row: Row]

Goto(p, l) == pc' = [pc EXCEPT ![p] = l]

isRegistered == founder # NoOne
current == [founder |-> founder, contents |-> contents]

(* SetUnregistered and IsClean run under ChannelManager's lock.            *)
managerLocked ==
    \E c \in Callers :
        pc[c] \in {"unregister", "unregistered", "clean", "cleanDelete"}

Init ==
    /\ founder = NoOne
    /\ uuid = 1
    /\ transferPendingTo = NoOne
    /\ contents = 0
    /\ dirty = FALSE
    /\ writebackLock = FALSE
    /\ db = [u \in UUIDs |-> NoRow]
    /\ pc = [p \in Goroutines |-> "idle"]
    /\ info = [p \in Goroutines |-> NoRow]
    /\ old = [p \in Callers |-> 0]
    /\ target = [p \in Callers |-> NoOne]
    /\ missed = FALSE
    /\ lost = FALSE

-----------------------------------------------------------------------------
(***************************************************************************)
(* Changes of the contents (SetTopic, SetSettings, SetMetadata, mode       *)
(* changes...): each is followed by MarkDirty.                             *)
(***************************************************************************)
ChangeContents(c) ==
    /\ pc[c] = "idle"
    /\ contents < MaxChanges
    /\ contents' = contents + 1
    /\ Goto(c, "mark")
    /\ UNCHANGED <<registration, dirty, writebackLock, db, info, old, target,
                   ghosts>>

MarkDirty(c) ==
    /\ pc[c] = "mark"
    /\ dirty' = TRUE
    /\ Goto(c, IF isRegistered THEN "wake" ELSE "idle")
    /\ UNCHANGED <<registration, contents, writebackLock, db, info, old,
                   target, ghosts>>

(* Does a goroutine hold writebackLock only to look (IsClean)?             *)
Looking == \E p \in Callers : pc[p] \in {"clean", "cleanDelete"}

(* wakeWriter: when the trylock succeeds, a writeLoop starts with it.      *)
wakeWriter(c) ==
    /\ pc[c] = "wake"
    /\ \/ /\ writebackLock
          /\ missed' = Looking
          /\ Goto(c, "idle")
          /\ UNCHANGED writebackLock
       \/ /\ ~writebackLock
          /\ writebackLock' = TRUE
          /\ \E w \in Writers :
                /\ pc[w] = "idle"
                /\ pc' = [pc EXCEPT ![c] = "idle", ![w] = "take"]
          /\ UNCHANGED missed
    /\ UNCHANGED <<registration, contents, dirty, db, info, old, target, lost>>

-----------------------------------------------------------------------------
(***************************************************************************)
(* Changes of the founder.                                                 *)
(***************************************************************************)

(* SetRegistered, of the manager and of the channel; Store follows.        *)
SetRegistered(c, a) ==
    /\ pc[c] = "idle"
    /\ ~managerLocked
    /\ ~isRegistered
    /\ founder' = a
    /\ Goto(c, "store")
    /\ UNCHANGED <<uuid, transferPendingTo, contents, dirty, writebackLock,
                   db, info, old, target, ghosts>>

(* Transfer by an operator: it is complete, and Store follows.             *)
TransferComplete(c, a) ==
    /\ pc[c] = "idle"
    /\ isRegistered
    /\ founder' = a
    /\ transferPendingTo' = NoOne
    /\ Goto(c, "store")
    /\ UNCHANGED <<uuid, contents, dirty, writebackLock, db, info, old,
                   target, ghosts>>

(* Transfer by the founder: an offer, or the cancellation of one.          *)
TransferOffer(c, a) ==
    /\ pc[c] = "idle"
    /\ isRegistered
    /\ transferPendingTo' = IF a = founder THEN NoOne ELSE a
    /\ UNCHANGED <<founder, uuid, contents, dirty, writebackLock, db, pc,
                   info, old, target, ghosts>>

(* AcceptTransfer, by the account the channel was offered to.              *)
AcceptTransfer(c, a) ==
    /\ pc[c] = "idle"
    /\ transferPendingTo = a
    /\ founder' = a
    /\ transferPendingTo' = NoOne
    /\ Goto(c, "store")
    /\ UNCHANGED <<uuid, contents, dirty, writebackLock, db, info, old,
                   target, ghosts>>

(***************************************************************************)
(* ChannelManager.SetUnregistered for the account a holds the manager's    *)
(* lock while it checks the founder and reads the UUID, ...                *)
(***************************************************************************)
UnregisterCheck(c, a) ==
    /\ pc[c] = "idle"
    /\ ~managerLocked
    /\ founder = a
    /\ old' = [old EXCEPT ![c] = uuid]
    /\ target' = [target EXCEPT ![c] = a]
    /\ Goto(c, "unregister")
    /\ UNCHANGED <<registration, contents, dirty, writebackLock, db, info,
                   ghosts>>

(* ... unregisters the channel if a is still its founder, ...              *)
SetUnregistered(c) ==
    /\ pc[c] = "unregister"
    /\ IF founder = target[c]
       THEN uuid < MaxUUIDs /\ founder' = NoOne /\ uuid' = uuid + 1
       ELSE UNCHANGED <<founder, uuid>>
    /\ target' = [target EXCEPT ![c] = NoOne]
    /\ Goto(c, "unregistered")
    /\ UNCHANGED <<transferPendingTo, contents, dirty, writebackLock, db,
                   info, old, ghosts>>

(* ... and calls IsClean, unless somebody is joining or a write is in      *)
(* progress; without the lock, it deletes the row of the UUID it read.     *)
Unregistered(c) ==
    /\ pc[c] = "unregistered"
    /\ Goto(c, "delete")
    /\ UNCHANGED <<registration, contents, dirty, writebackLock, db, info,
                   old, target, ghosts>>

DeleteRow(c) ==
    /\ pc[c] = "delete"
    /\ \/ /\ db' = [db EXCEPT ![old[c]] = NoRow]
          /\ lost' = (lost \/ old[c] = uuid)
       \/ "store" \in Faults /\ UNCHANGED <<db, lost>>
    /\ old' = [old EXCEPT ![c] = 0]
    /\ Goto(c, "idle")
    /\ UNCHANGED <<registration, contents, dirty, writebackLock, info, target,
                   missed>>

(* IsClean, at the end of a JOIN (when nobody else is joining) or of an    *)
(* unregistration: the trylock is taken, the members and the founder are   *)
(* looked at, the trylock is released.                                     *)
IsClean(c) ==
    /\ \/ pc[c] = "unregistered"
       \/ pc[c] = "idle" /\ ~managerLocked
    /\ ~writebackLock
    /\ writebackLock' = TRUE
    /\ Goto(c, IF pc[c] = "idle" THEN "clean" ELSE "cleanDelete")
    /\ UNCHANGED <<registration, contents, dirty, db, info, old, target,
                   ghosts>>

IsCleanUnlock(c) ==
    /\ pc[c] \in {"clean", "cleanDelete"}
    /\ writebackLock' = FALSE
    /\ Goto(c, IF pc[c] = "clean" THEN "idle" ELSE "delete")
    /\ UNCHANGED <<registration, contents, dirty, db, info, old, target,
                   ghosts>>

-----------------------------------------------------------------------------
(***************************************************************************)
(* Writing: Store (by a caller, with all dirty bits) and writeLoop.        *)
(***************************************************************************)
(* What if: Store goes on without having got writebackLock.                *)
LockStoreNoWait(c) ==
    /\ pc[c] = "store"
    /\ writebackLock' = TRUE
    /\ Goto(c, "take")
    /\ UNCHANGED <<registration, contents, dirty, db, info, old, target,
                   ghosts>>

LockStore(c) ==
    /\ pc[c] = "store"
    /\ ~writebackLock
    /\ writebackLock' = TRUE
    /\ Goto(c, "take")
    /\ UNCHANGED <<registration, contents, dirty, db, info, old, target,
                   ghosts>>

(* performWrite, the critical section: take the dirty bits.                *)
TakeDirty(p) ==
    /\ pc[p] = "take"
    /\ dirty' = FALSE
    /\ missed' = FALSE
    /\ Goto(p, IF isRegistered /\ (dirty \/ p \in Callers)
               THEN "export" ELSE "unlock")
    /\ UNCHANGED <<registration, contents, writebackLock, db, info, old,
                   target, lost>>

ExportRegistration(p) ==
    /\ pc[p] = "export"
    /\ info' = [info EXCEPT ![p] = [uuid |-> uuid, row |-> current]]
    /\ Goto(p, "set")
    /\ UNCHANGED <<registration, contents, dirty, writebackLock, db, old,
                   target, ghosts>>

(* What if: the snapshot is stored under the wrong key and unconverted; or *)
(* an error of the datastore is ignored.                                   *)
SetRowUnconverted(p) ==
    /\ pc[p] = "set"
    /\ db' = [db EXCEPT ![uuid] = info[p]]
    /\ Goto(p, "unlock")
    /\ info' = [info EXCEPT ![p] = NoRow]
    /\ UNCHANGED <<registration, contents, dirty, writebackLock, old, target,
                   ghosts>>

SetRowIgnoringErrors(p) ==
    /\ pc[p] = "set"
    /\ \/ /\ db' = [db EXCEPT ![info[p].uuid] = info[p].row]
          /\ lost' = (lost /\ info[p].uuid # uuid)
       \/ UNCHANGED <<db, lost>>
    /\ Goto(p, "unlock")
    /\ info' = [info EXCEPT ![p] = NoRow]
    /\ UNCHANGED <<registration, contents, dirty, writebackLock, old, target,
                   missed>>

(* Serialize and dstore.Set.                                               *)
SetRow(p) ==
    /\ pc[p] = "set"
    /\ \/ /\ db' = [db EXCEPT ![info[p].uuid] = info[p].row]
          /\ lost' = (lost /\ info[p].uuid # uuid)
          /\ Goto(p, "unlock")
       \/ "store" \in Faults /\ Goto(p, "failed") /\ UNCHANGED <<db, lost>>
    /\ info' = [info EXCEPT ![p] = NoRow]
    /\ UNCHANGED <<registration, contents, dirty, writebackLock, old, target,
                   missed>>

(* A failed write puts the dirty bits back.                                *)
RestoreDirty(p) ==
    /\ pc[p] = "failed"
    /\ dirty' = TRUE
    /\ Goto(p, "unlock")
    /\ UNCHANGED <<registration, contents, writebackLock, db, info, old,
                   target, ghosts>>

Unlock(p) ==
    /\ pc[p] = "unlock"
    /\ writebackLock' = FALSE
    /\ Goto(p, "check")
    /\ UNCHANGED <<registration, contents, dirty, db, info, old, target,
                   ghosts>>

(* What if: nobody looks for changes that came in during the write.        *)
CheckDirtyNever(p) ==
    /\ pc[p] = "check"
    /\ Goto(p, "idle")
    /\ UNCHANGED <<registration, contents, dirty, writebackLock, db, info,
                   old, target, ghosts>>

(* After the release, look for changes that came in meanwhile.             *)
CheckDirty(p) ==
    /\ pc[p] = "check"
    /\ Goto(p, IF ~dirty THEN "idle"
               ELSE IF p \in Callers THEN "wake" ELSE "retry")
    /\ UNCHANGED <<registration, contents, dirty, writebackLock, db, info,
                   old, target, ghosts>>

(* writeLoop takes the trylock again, or leaves the work to its holder.    *)
RetryLock(w) ==
    /\ pc[w] = "retry"
    /\ Goto(w, IF writebackLock THEN "idle" ELSE "take")
    /\ writebackLock' = TRUE
    /\ missed' = IF writebackLock THEN Looking ELSE missed
    /\ UNCHANGED <<registration, contents, dirty, db, info, old, target, lost>>

(***************************************************************************)
(* The server stops, at any moment, and starts again:                      *)
(* loadRegisteredChannels keeps the last row that has the channel's name,  *)
(* in the order of the UUIDs, which are random.  A channel without a row   *)
(* is new when somebody joins it; no row and no goroutine knows its UUID.  *)
(***************************************************************************)
Restart ==
    /\ "restart" \in Faults
    /\ \/ \E u \in UUIDs :
            /\ db[u] # NoRow
            /\ uuid' = u
            /\ founder' = db[u].founder
            /\ contents' = db[u].contents
       \/ /\ \A u \in UUIDs : db[u] = NoRow
          /\ founder' = NoOne
          /\ contents' = 0
          /\ UNCHANGED uuid
    /\ transferPendingTo' = NoOne
    /\ dirty' = FALSE
    /\ writebackLock' = FALSE
    /\ pc' = [p \in Goroutines |-> "idle"]
    /\ info' = [p \in Goroutines |-> NoRow]
    /\ old' = [p \in Callers |-> 0]
    /\ target' = [p \in Callers |-> NoOne]
    /\ missed' = FALSE
    /\ lost' = FALSE
    /\ UNCHANGED db

-----------------------------------------------------------------------------
Command(c) ==
    \/ ChangeContents(c) \/ IsClean(c)
    \/ \E a \in Accounts :
          \/ SetRegistered(c, a) \/ UnregisterCheck(c, a)
          \/ TransferComplete(c, a) \/ TransferOffer(c, a) \/ AcceptTransfer(c, a)

Write(p) ==
    \/ TakeDirty(p) \/ ExportRegistration(p) \/ SetRow(p) \/ RestoreDirty(p)
    \/ Unlock(p) \/ CheckDirty(p)

Next ==
    \/ \E c \in Callers :
          \/ Command(c) \/ MarkDirty(c) \/ wakeWriter(c) \/ LockStore(c)
          \/ SetUnregistered(c) \/ Unregistered(c) \/ IsCleanUnlock(c)
          \/ DeleteRow(c)
    \/ \E p \in Goroutines : Write(p)
    \/ \E w \in Writers : RetryLock(w)
    \/ Restart

Spec == Init /\ [][Next]_vars

-----------------------------------------------------------------------------
(***************************************************************************)
(* Properties.                                                             *)
(***************************************************************************)
Writing == {"take", "export", "set", "failed", "unlock"}
Cleaning == {"clean", "cleanDelete"}
Locations == Writing \cup Cleaning \cup
             {"idle", "mark", "wake", "store", "check", "retry",
              "unregister", "unregistered", "delete"}

(* The variables of a channel's registration have their types.             *)
TypeOK ==
    /\ founder \in Accounts \cup {NoOne}
    /\ uuid \in UUIDs
    /\ transferPendingTo \in Accounts \cup {NoOne}
    /\ contents \in 0 .. MaxChanges
    /\ dirty \in BOOLEAN
    /\ writebackLock \in BOOLEAN
    /\ db \in [UUIDs -> Row \cup {NoRow}]
    /\ pc \in [Goroutines -> Locations]
    /\ info \in [Goroutines -> Snapshot \cup {NoRow}]
    /\ old \in [Callers -> 0 .. MaxUUIDs]
    /\ target \in [Callers -> Accounts \cup {NoOne}]
    /\ missed \in BOOLEAN
    /\ lost \in BOOLEAN

(* What a registered channel's row does not show is marked as dirty, about *)
(* to be marked, or in the hands of a goroutine that is writing.           *)
UnsavedIsDirty ==
    isRegistered /\ db[uuid] # current =>
        \/ dirty
        \/ \E p \in Goroutines : pc[p] \in {"mark", "export", "set", "failed"}
        \/ \E c \in Callers : pc[c] \in {"store", "take"}

(* The same, except when SetUnregistered found another founder than it had *)
(* checked and yet deleted the row: no other overlap of commands, writers, *)
(* failures, unregistrations and restarts makes the channel look clean     *)
(* when it is not saved.                                                   *)
UnsavedIsDirtyUnlessLost == lost \/ UnsavedIsDirty

(* "starts a writer goroutine if necessary": a registered channel that is  *)
(* dirty has somebody who will still look at it.                           *)
WriterIsComing ==
    isRegistered /\ dirty =>
        \E p \in Goroutines :
            pc[p] \in Writing \cup {"wake", "store", "check", "retry"}

(* The same, except after a TryLock that failed against IsClean.           *)
WriterIsComingUnlessMissed == missed \/ WriterIsComing

(* One goroutine at a time is at the database for this channel.            *)
OneWriter ==
    \A p, q \in Goroutines :
        {pc[p], pc[q]} \subseteq Writing \cup Cleaning => p = q

(* "SetUnregistered deletes the channel's registration information": when  *)
(* all is quiet, the database has no row for an unregistered channel.      *)
UnregisteredHasNoRow ==
    (\A p \in Goroutines : pc[p] = "idle") /\ ~isRegistered =>
        \A u \in UUIDs : db[u] = NoRow

(***************************************************************************)
(* The inductive invariant behind OneWriter, UnsavedIsDirtyUnlessLost and  *)
(* WriterIsComingUnlessMissed.                                             *)
(***************************************************************************)

(* Who can be where, and who has a snapshot.                               *)
PlaceInv ==
    /\ \A w \in Writers : pc[w] \in Writing \cup {"idle", "check", "retry"}
    /\ \A c \in Callers : pc[c] # "retry"
    /\ \A p \in Goroutines : pc[p] = "set" => info[p] \in Snapshot

(* writebackLock is held exactly when somebody writes or looks.            *)
LockInv ==
    /\ OneWriter
    /\ writebackLock <=> \E p \in Goroutines : pc[p] \in Writing \cup Cleaning

(* Somebody will write the channel after the present holder of the lock.   *)
Announced ==
    \/ dirty
    \/ \E c \in Callers : pc[c] \in {"mark", "store"}

(* A snapshot that got stale is not the last one to be written.            *)
SnapshotInv ==
    \A p \in Goroutines :
        /\ pc[p] = "set"
        /\ isRegistered
        /\ info[p] # [uuid |-> uuid, row |-> current]
        => Announced

(* All of it together.                                                     *)
StoreInv ==
    /\ PlaceInv /\ LockInv /\ SnapshotInv
    /\ UnsavedIsDirtyUnlessLost /\ WriterIsComingUnlessMissed
=============================================================================
